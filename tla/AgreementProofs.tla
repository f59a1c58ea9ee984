-------------------------- MODULE AgreementProofs ---------------------------
(***************************************************************************)
(* First what a group chooses: a leader was promised its ballot by a       *)
(* quorum, a ballot proposes one value for a slot, and a slot is only      *)
(* resolved to a value that a quorum accepted with one ballot.             *)
(*                                                                         *)
(* Then agreement.  A leader is consistent: with one ballot it proposes    *)
(* one value per slot.  And once it leads, every lower ballot is settled   *)
(* in the slots it proposes in: enough nodes have voted for the value it   *)
(* proposes, or can no longer vote, that no other value is chosen there.   *)
(*                                                                         *)
(* The invariants build on each other: LeadInv (who has sent an Accept),   *)
(* BarInv (what a node may no longer vote for), VoteInv (its window holds  *)
(* its votes), OneInv, RememberInv (its promises report them), HearInv     *)
(* (its leader has noted the reports) and SafeInv.                         *)
(***************************************************************************)
EXTENDS GroupProofs, FiniteSetTheorems

\* The nodes whose promise of ballot b is among the commands M.
Promisers(M, b) == {m.from : m \in {k \in M : k.type = "Promise" /\ k.bal = b}}

Elected(M, b) == Cardinality(Promisers(M, b) \cup {Owner(b)}) >= QuorumSize

\* The nodes other than its leader whose acceptance of b in slot s is in M.
Accepters(M, b, s) ==
  {m.from : m \in {k \in M : k.type = "Accepted" /\ k.bal = b /\ s \in k.slots}}

Chosen(M, b, s) == Cardinality(Accepters(M, b, s) \cup {Owner(b)}) >= QuorumSize

LEMMA QuorumInt == QuorumSize \in Int
BY NodeAssumption, FS_CardinalityType DEF QuorumSize

LEMMA LargerQuorum ==
  ASSUME NEW S \in SUBSET Node, NEW T \in SUBSET Node, NEW x, S \subseteq T,
         Cardinality(S \cup {x}) >= QuorumSize
  PROVE  Cardinality(T \cup {x}) >= QuorumSize
<1>1. IsFiniteSet(T \cup {x}) /\ S \cup {x} \subseteq T \cup {x}
  BY NodeAssumption, FS_Subset, FS_AddElement
<1>2. /\ Cardinality(S \cup {x}) <= Cardinality(T \cup {x})
      /\ Cardinality(S \cup {x}) \in Nat /\ Cardinality(T \cup {x}) \in Nat
  BY <1>1, FS_Subset, FS_CardinalityType
<1>. QED
  BY <1>2, QuorumInt

LEMMA QuorumsGrow ==
  ASSUME NEW M, NEW N, M \subseteq N, \A m \in N : m \in Message
  PROVE  \A b : /\ Promisers(M, b) \subseteq Promisers(N, b)
                /\ Elected(M, b) => Elected(N, b)
                /\ \A s : Accepters(M, b, s) \subseteq Accepters(N, b, s)
                /\ \A s : Chosen(M, b, s) => Chosen(N, b, s)
<1>. SUFFICES ASSUME NEW b
              PROVE  /\ Promisers(M, b) \subseteq Promisers(N, b)
                     /\ Elected(M, b) => Elected(N, b)
                     /\ \A s : Accepters(M, b, s) \subseteq Accepters(N, b, s)
                     /\ \A s : Chosen(M, b, s) => Chosen(N, b, s)
  OBVIOUS
<1>1. Promisers(M, b) \subseteq Promisers(N, b)
  BY DEF Promisers
<1>2. \A s : Accepters(M, b, s) \subseteq Accepters(N, b, s)
  BY DEF Accepters
<1>3. Promisers(N, b) \subseteq Node /\ \A s : Accepters(N, b, s) \subseteq Node
  BY MessageFields DEF Promisers, Accepters
<1>. QED
  BY <1>1, <1>2, <1>3, LargerQuorum DEF Elected, Chosen
-----------------------------------------------------------------------------
(***************************************************************************)
(* Elections.  The promises a candidate has counted were sent to it for    *)
(* the ballot of its election, or are its own.                             *)
(***************************************************************************)
Electing(n, p, M) ==
  /\ IsCandidate(p) => p.promises \subseteq Promisers(M, p.proposal) \cup {n}
  /\ IsLeader(p) => Elected(M, p.proposal)

EInv ==
  /\ IInv
  /\ \A n \in Node : Electing(n, proposer[n], msgs)
  /\ \A a \in Sent("Accept") : Elected(msgs, a.bal)

\* What is sent besides Accepts, or by a leader.
SendsElected(p) ==
  /\ msgs \subseteq msgs'
  /\ \A a \in msgs' \ msgs : a.type = "Accept" => IsLeader(p) /\ a.bal = p.proposal

LEMMA SendElects ==
  ASSUME NEW n, NEW to, NEW M, NEW p, Send(M) \/ SendTo(n, to, M) \/ UNCHANGED msgs,
         \A a \in M : a.type = "Accept" => IsLeader(p) /\ a.bal = p.proposal
  PROVE  SendsElected(p)
BY DEF Send, SendTo, SendsElected

LEMMA CampaignElects ==
  ASSUME NEW n, NEW p, Campaign(n, p)
  PROVE  LET q == Prepare(p, n) IN SetProposer(n, q) /\ SendsElected(q)
<1>. DEFINE q == Prepare(p, n)
            M == {[type |-> "Prepare", bal |-> q.highest]}
<1>1. SetProposer(n, q) /\ Send(M)
  BY DEF Campaign
<1>. HIDE DEF q
<1>2. \A a \in M : a.type # "Accept"
  OBVIOUS
<1>3. SendsElected(q)
  BY <1>1, <1>2, SendElects
<1>. QED
  BY <1>1, <1>3 DEF q

LEMMA ElectingPreserved ==
  ASSUME EInv, IInv', NEW n \in Node, NEW p, SetProposer(n, p),
         Electing(n, p, msgs), SendsElected(p)
  PROVE  EInv'
<1>1. \A b : /\ Promisers(msgs, b) \subseteq Promisers(msgs', b)
             /\ Elected(msgs, b) => Elected(msgs', b)
  BY QuorumsGrow DEF SendsElected, IInv, GoodMessage
<1>2. \A k \in Node : proposer'[k] = IF k = n THEN p ELSE proposer[k]
  BY DEF SetProposer, EInv, IInv
<1>3. \A k \in Node : Electing(k, proposer'[k], msgs')
  <2>1. \A k \in Node : Electing(k, proposer'[k], msgs)
    BY <1>2 DEF EInv
  <2>. QED
    BY <1>1, <2>1 DEF Electing
<1>4. \A a \in msgs' : a.type = "Accept" => Elected(msgs', a.bal)
  BY <1>1 DEF EInv, Sent, Electing, SendsElected
<1>. QED
  BY <1>3, <1>4 DEF EInv, Sent

LEMMA FollowerElecting ==
  ASSUME NEW n, NEW p, NEW M, IsFollower(p)
  PROVE  Electing(n, p, M)
BY DEF Electing, IsFollower, IsCandidate, IsLeader

LEMMA ObserveElecting ==
  ASSUME NEW n, NEW p \in Proposer, NEW M, Electing(n, p, M), NEW b
  PROVE  Electing(n, Observe(p, b, n), M)
BY DEF Electing, Observe, StepDown, IsCandidate, IsLeader, Proposer

LEMMA QueueElecting ==
  ASSUME NEW n, NEW p \in Proposer, NEW M, Electing(n, p, M)
  PROVE  /\ \A v : Electing(n, PushProposal(p, v), M)
         /\ Electing(n, TakeProposals(p), M)
BY DEF Electing, PushProposal, TakeProposals, IsCandidate, IsLeader, Proposer

LEMMA PrepareElecting ==
  ASSUME NEW n, NEW p \in Proposer, NEW M
  PROVE  Electing(n, Prepare(p, n), M) /\ ~IsLeader(Prepare(p, n))
BY DEF Electing, Prepare, IsCandidate, IsLeader, Proposer

LEMMA CountElecting ==
  ASSUME NEW n \in Node, NEW p, GoodProposer(n, p), NEW M, \A m \in M : m \in Message,
         Electing(n, p, M), NEW m \in M, m.type = "Promise"
  PROVE  Electing(n, ReceivePromise(p, m.from, m.bal), M)
<1>. DEFINE promises == p.promises \cup {m.from}
            q == Count(p, m.from)
<1>1. CASE ~(IsCandidate(p) /\ p.proposal = m.bal)
  BY <1>1 DEF ReceivePromise
<1>2. CASE IsCandidate(p) /\ p.proposal = m.bal
  <2>1. p \in Proposer /\ Owner(p.proposal) = n
    BY <1>2, OwnBallot DEF GoodProposer, IsCandidate, IsFollower
  <2>2. promises \subseteq Promisers(M, p.proposal) \cup {n}
    <3>1. m.from \in Promisers(M, p.proposal)
      BY <1>2 DEF Promisers
    <3>. QED
      BY <1>2, <3>1 DEF Electing
  <2>3. Electing(n, q, M)
    <3>1. CASE EnoughPromises(promises)
      <4>1. q.st = "Leader" /\ q.proposal = p.proposal
        BY <2>1, <3>1 DEF Count, Proposer
      <4>2. Cardinality(promises \cup {n}) >= QuorumSize
        <5>1. promises \subseteq Node /\ IsFiniteSet(promises \cup {n})
          BY <2>1, MessageFields, NodeAssumption, FS_Subset, FS_AddElement DEF Proposer
        <5>2. /\ Cardinality(promises) <= Cardinality(promises \cup {n})
              /\ Cardinality(promises) \in Nat /\ Cardinality(promises \cup {n}) \in Nat
          BY <5>1, FS_Subset, FS_CardinalityType
        <5>. QED
          BY <3>1, <5>2, QuorumInt DEF EnoughPromises
      <4>3. Promisers(M, p.proposal) \cup {n} \subseteq Node
        BY MessageFields DEF Promisers
      <4>4. Elected(M, p.proposal)
        <5>1. promises \cup {n} \subseteq Promisers(M, p.proposal) \cup {n}
          BY <2>2
        <5>2. Cardinality((Promisers(M, p.proposal) \cup {n}) \cup {n}) >= QuorumSize
          BY <4>2, <4>3, <5>1, LargerQuorum, promises \in SUBSET Node
        <5>3. (Promisers(M, p.proposal) \cup {n}) \cup {n} = Promisers(M, p.proposal) \cup {n}
          OBVIOUS
        <5>. QED
          BY <2>1, <5>2, <5>3 DEF Elected
      <4>. QED
        BY <4>1, <4>4 DEF Electing, IsCandidate, IsLeader
    <3>2. CASE ~EnoughPromises(promises)
      BY <1>2, <2>1, <2>2, <3>2 DEF Electing, Count, IsCandidate, IsLeader, Proposer
    <3>. QED
      BY <3>1, <3>2
  <2>. QED
    BY <1>2, <2>3 DEF ReceivePromise
<1>. QED
  BY <1>1, <1>2

LEMMA ProposeElects ==
  ASSUME EInv, IInv', NEW n \in Node, NEW v \in ClientValue, Propose(n, v)
  PROVE  EInv'
<1>. DEFINE p == proposer[n]
<1>1. p \in Proposer /\ Electing(n, p, msgs)
  BY DEF EInv, IInv, GoodProposer
<1>2. UNCHANGED proposer => SetProposer(n, p)
  BY DEF EInv, IInv, SetProposer
<1>3. CASE ProposeFirst(n, v)
  <2>. DEFINE q == Prepare(PushProposal(p, v), n)
  <2>1. SetProposer(n, q) /\ SendsElected(q)
    BY <1>3, CampaignElects DEF ProposeFirst
  <2>2. Electing(n, q, msgs)
    BY <1>1, <1>3, QueueContinues, PrepareElecting
    DEF ProposeFirst, EInv, IInv, GoodProposer
  <2>. QED
    BY <2>1, <2>2, ElectingPreserved
<1>4. CASE ProposeRedirect(n, v)
  <2>1. SendsElected(p) /\ SetProposer(n, p)
    BY <1>2, <1>4, SendElects DEF ProposeRedirect
  <2>. QED
    BY <1>1, <2>1, ElectingPreserved
<1>5. CASE ProposeQueue(n, v)
  <2>1. SendsElected(PushProposal(p, v)) /\ SetProposer(n, PushProposal(p, v))
    BY <1>5 DEF ProposeQueue, SendsElected
  <2>. QED
    BY <1>1, <2>1, QueueElecting, ElectingPreserved
<1>6. CASE ProposeLead(n, v)
  <2>1. SendsElected(p) /\ SetProposer(n, p)
    BY <1>2, <1>6, SendElects DEF ProposeLead, AcceptMsg
  <2>. QED
    BY <1>1, <2>1, ElectingPreserved
<1>. QED
  BY <1>3, <1>4, <1>5, <1>6 DEF Propose

LEMMA ProposeLeadershipElects ==
  ASSUME EInv, IInv', NEW n \in Node, ProposeLeadership(n)
  PROVE  EInv'
<1>. DEFINE p == proposer[n]
<1>1. p \in Proposer /\ Electing(n, p, msgs)
  BY DEF EInv, IInv, GoodProposer
<1>2. CASE Campaign(n, p)
  <2>1. SetProposer(n, Prepare(p, n)) /\ SendsElected(Prepare(p, n))
    BY <1>2, CampaignElects
  <2>. QED
    BY <1>1, <2>1, PrepareElecting, ElectingPreserved
<1>3. CASE UNCHANGED proposer
  <2>1. SendsElected(p)
    <3>1. \/ \E b : Send({[type |-> "Prepare", bal |-> b]})
          \/ IsLeader(p) /\ Send({AcceptMsg(p.proposal, NoValues)})
      BY DEF ProposeLeadership, Campaign
    <3>2. ASSUME NEW b, Send({[type |-> "Prepare", bal |-> b]})
          PROVE  SendsElected(p)
      <4>. DEFINE M == {[type |-> "Prepare", bal |-> b]}
      <4>1. Send(M) /\ \A a \in M : a.type # "Accept"
        BY <3>2
      <4>. HIDE DEF M
      <4>. QED
        BY <4>1, SendElects
    <3>3. CASE IsLeader(p) /\ Send({AcceptMsg(p.proposal, NoValues)})
      <4>. DEFINE M == {AcceptMsg(p.proposal, NoValues)}
      <4>1. Send(M) /\ \A a \in M : a.bal = p.proposal
        BY <3>3 DEF AcceptMsg
      <4>. HIDE DEF M
      <4>. QED
        BY <3>3, <4>1, SendElects
    <3>. QED
      BY <3>1, <3>2, <3>3
  <2>2. SetProposer(n, p)
    BY <1>3 DEF EInv, IInv, SetProposer
  <2>. QED
    BY <1>1, <2>1, <2>2, ElectingPreserved
<1>. QED
  BY <1>2, <1>3 DEF ProposeLeadership

LEMMA OnPromiseElects ==
  ASSUME EInv, IInv', NEW n \in Node, OnPromise(n)
  PROVE  EInv'
<1>1. PICK m \in msgs :
        LET p == ReceivePromise(proposer[n], m.from, m.bal)
            w == NoticeReport(window[n], m.report)
        IN  /\ m.type = "Promise"
            /\ \/ IsLeader(p) /\ DriveAccept(n, p, w)
               \/ /\ ~IsLeader(p)
                  /\ SetProposer(n, p)
                  /\ UNCHANGED msgs
  BY DEF OnPromise, HandlePromise
<1>. DEFINE p == ReceivePromise(proposer[n], m.from, m.bal)
            w == NoticeReport(window[n], m.report)
            q == TakeProposals(p)
<1>2. /\ GoodProposer(n, proposer[n]) /\ Electing(n, proposer[n], msgs)
      /\ \A k \in msgs : k \in Message
      /\ m.from \in Node
  BY <1>1, MessageFields DEF EInv, IInv, GoodMessage
<1>3. Electing(n, p, msgs)
  BY <1>1, <1>2, CountElecting
<1>4. GoodProposer(n, p)
  BY <1>2, ReceivePromiseContinues
<1>. HIDE DEF p, w
<1>5. CASE ~IsLeader(p)
  <2>1. SendsElected(p) /\ SetProposer(n, p)
    BY <1>1, <1>5 DEF SendsElected, p
  <2>. QED
    BY <1>3, <2>1, ElectingPreserved
<1>6. CASE IsLeader(p)
  <2>1. DriveAccept(n, p, w)
    BY <1>1, <1>6 DEF p, w
  <2>2. IsLeader(q) /\ q.proposal = p.highest
    BY <1>4, <1>6, OwnBallot
    DEF TakeProposals, IsLeader, IsFollower, GoodProposer, Proposer
  <2>3. SendsElected(q) /\ SetProposer(n, q)
    <3>1. PICK batch : SetProposer(n, q) /\ Send({AcceptMsg(p.highest, batch)})
      BY <2>1 DEF DriveAccept
    <3>2. \A a \in {AcceptMsg(p.highest, batch)} : a.bal = p.highest
      BY DEF AcceptMsg
    <3>. HIDE DEF q
    <3>. QED
      BY <2>2, <3>1, <3>2, SendElects
  <2>4. Electing(n, q, msgs)
    BY <1>3, <1>4, QueueElecting DEF GoodProposer
  <2>. QED
    BY <2>3, <2>4, ElectingPreserved
<1>. QED
  BY <1>5, <1>6

LEMMA OnRejectElects ==
  ASSUME EInv, IInv', NEW n \in Node, OnReject(n)
  PROVE  EInv'
<1>1. PICK m \in msgs : Forward(n, ReceiveReject(proposer[n], m.proposed, m.preempted, n))
  BY DEF OnReject, HandleReject
<1>. DEFINE p == ReceiveReject(proposer[n], m.proposed, m.preempted, n)
            q == TakeProposals(p)
<1>2. proposer[n] \in Proposer /\ Electing(n, proposer[n], msgs)
  BY DEF EInv, IInv, GoodProposer
<1>3. Electing(n, p, msgs)
  BY <1>2, ObserveElecting DEF ReceiveReject
<1>. HIDE DEF p
<1>4. IsFollower(p) => Electing(n, q, msgs)
  BY FollowerElecting DEF Electing, TakeProposals, IsFollower, IsCandidate, IsLeader
<1>5. \/ SetProposer(n, p) /\ SendsElected(p)
      \/ IsFollower(p) /\ SetProposer(n, q) /\ SendsElected(q)
  <2>. DEFINE M == {[type |-> "Proposal", to |-> Owner(p.highest), val |-> v] :
                      v \in {p.queue[i] : i \in DOMAIN p.queue}}
  <2>1. \/ SetProposer(n, p) /\ UNCHANGED msgs
        \/ /\ IsFollower(p) /\ SetProposer(n, q)
           /\ SendTo(n, Owner(p.highest), M) \/ UNCHANGED msgs
    BY <1>1 DEF Forward, p
  <2>2. \A a \in M : a.type # "Accept"
    OBVIOUS
  <2>. HIDE DEF M, q
  <2>. QED
    BY <2>1, <2>2, SendElects
<1>. QED
  BY <1>3, <1>4, <1>5, ElectingPreserved

LEMMA BallotElects ==
  ASSUME EInv, IInv', NEW n \in Node,
         OnPrepare(n) \/ OnAccept(n) \/ OnAccepted(n) \/ OnResolution(n)
  PROVE  EInv'
<1>1. PICK m \in msgs : LET p == Observe(proposer[n], m.bal, n)
                        IN  SetProposer(n, p) /\ SendsElected(p)
  <2>1. CASE OnPrepare(n)
    BY <2>1, SendElects DEF OnPrepare, HandlePrepare, PrepareReply
  <2>2. CASE OnAccept(n)
    BY <2>2, SendElects DEF OnAccept, HandleAccept, AcceptReplies
  <2>3. CASE OnAccepted(n)
    <3>1. PICK m \in msgs :
            LET p == Observe(proposer[n], m.bal, n)
            IN  /\ SetProposer(n, p)
                /\ \/ \E b, d : Send({[type |-> "Resolution", to |-> Peers(n),
                                       bal |-> b, decisions |-> d]})
                   \/ UNCHANGED msgs
      BY <2>3 DEF OnAccepted, HandleAccepted
    <3>2. ASSUME NEW b, NEW d, NEW p,
                 Send({[type |-> "Resolution", to |-> Peers(n), bal |-> b,
                        decisions |-> d]})
          PROVE  SendsElected(p)
      BY <3>2, SendElects
    <3>3. \A p : UNCHANGED msgs => SendsElected(p)
      BY DEF SendsElected
    <3>. QED
      BY <3>1, <3>2, <3>3
  <2>4. CASE OnResolution(n)
    <3>1. PICK m \in msgs :
            LET p == Observe(proposer[n], m.bal, n)
            IN  /\ SetProposer(n, p)
                /\ \/ \E to, S : SendTo(n, to, {[type |-> "Catchup", to |-> to,
                                              from |-> n, slots |-> S]})
                   \/ UNCHANGED msgs
      BY <2>4 DEF OnResolution, HandleResolution
    <3>2. ASSUME NEW to, NEW S, NEW p,
                 SendTo(n, to, {[type |-> "Catchup", to |-> to, from |-> n,
                                 slots |-> S]})
          PROVE  SendsElected(p)
      BY <3>2, SendElects
    <3>3. \A p : UNCHANGED msgs => SendsElected(p)
      BY DEF SendsElected
    <3>. QED
      BY <3>1, <3>2, <3>3
  <2>. QED
    BY <2>1, <2>2, <2>3, <2>4
<1>2. Electing(n, Observe(proposer[n], m.bal, n), msgs)
  BY ObserveElecting DEF EInv, IInv, GoodProposer
<1>. QED
  BY <1>1, <1>2, ElectingPreserved

LEMMA NextEInv == EInv /\ [Next]_vars => EInv'
<1>. SUFFICES ASSUME EInv, [Next]_vars PROVE EInv'
  OBVIOUS
<1>1. IInv'
  BY NextIInv DEF EInv
<1>2. CASE UNCHANGED vars
  BY <1>1, <1>2 DEF EInv, vars, Sent
<1>3. ASSUME NEW n \in Node, ClientProposal(n) \/ OnProposal(n) PROVE EInv'
  <2>1. PICK v \in ClientValue : Propose(n, v)
    BY <1>3, MessageFields DEF ClientProposal, OnProposal, HandleProposal, EInv, IInv, GoodMessage
  <2>. QED
    BY <1>1, <2>1, ProposeElects
<1>4. ASSUME NEW n \in Node, OnCatchup(n) PROVE EInv'
  <2>1. PICK M : /\ Send(M) /\ UNCHANGED proposer
                 /\ \A k \in M : k.type = "Resolution"
    <3>1. PICK m \in msgs : HandleCatchup(n, m)
      BY <1>4 DEF OnCatchup
    <3>. QED
      BY <3>1 DEF HandleCatchup
  <2>2. SendsElected(proposer[n])
    BY <2>1, SendElects
  <2>3. SetProposer(n, proposer[n])
    BY <2>1 DEF EInv, IInv, SetProposer
  <2>. QED
    BY <1>1, <2>2, <2>3, ElectingPreserved DEF EInv
<1>. QED
  BY <1>1, <1>2, <1>3, <1>4, ProposeLeadershipElects, OnPromiseElects, OnRejectElects,
     BallotElects DEF Next

LEMMA InitEInv == Init => EInv
BY InitIInv, FollowerElecting DEF Init, EInv, Sent, NewProposer, IsFollower

LEMMA EInvImplies == EInv => LeaderWasPromised
BY DEF EInv, Elected, Promisers, LeaderWasPromised, Sent

(***************************************************************************)
(* Whatever is lost, duplicated or late, a node only proposes with a       *)
(* ballot that a phase 1 quorum promised: receive_promise never counts a   *)
(* promise of an earlier election, or one node twice.                      *)
(***************************************************************************)
THEOREM LeadersArePromised == Spec => []LeaderWasPromised
BY InitEInv, NextEInv, EInvImplies, PTL DEF Spec
-----------------------------------------------------------------------------
(***************************************************************************)
(* Decisions.  What a replica holds in a slot was proposed; the peers it   *)
(* has counted there accepted it; and what it has resolved was accepted by *)
(* a quorum, with the leader.                                              *)
(***************************************************************************)
Proposed(M, b, s, v) ==
  \E m \in M : m.type = "Accept" /\ m.bal = b /\ s \in DOMAIN m.batch /\ m.batch[s] = v

Backed(M, a, s) ==
  /\ HasValue(a) => Proposed(M, a.bal, s, a.val)
  /\ a.quorum \subseteq Accepters(M, a.bal, s)
  /\ IsResolved(a) => Chosen(M, a.bal, s)

BackedWindow(M, w) == \A s \in WindowSlot : Backed(M, w.acc[s], s)

BackedMessage(M, m) ==
  /\ m.type = "Promise" =>
       \A s \in DOMAIN m.report : Proposed(M, m.report[s].bal, s, m.report[s].val)
  /\ m.type = "Accepted" =>
       m.from # Owner(m.bal) /\ \A s \in m.slots : \E v : Proposed(M, m.bal, s, v)
  /\ m.type = "Resolution" =>
       \A s \in DOMAIN m.decisions :
         Proposed(M, m.bal, s, m.decisions[s]) /\ Chosen(M, m.bal, s)

CInv ==
  /\ LInv
  /\ \A n \in Node : BackedWindow(msgs, window[n])
  /\ \A m \in msgs : BackedMessage(msgs, m)

LEMMA MoreBacked ==
  ASSUME NEW M, NEW N, M \subseteq N, \A m \in N : m \in Message
  PROVE  /\ \A w : BackedWindow(M, w) => BackedWindow(N, w)
         /\ \A m : BackedMessage(M, m) => BackedMessage(N, m)
<1>1. \A b, s, v : Proposed(M, b, s, v) => Proposed(N, b, s, v)
  BY DEF Proposed
<1>2. \A b, s : /\ Accepters(M, b, s) \subseteq Accepters(N, b, s)
                /\ Chosen(M, b, s) => Chosen(N, b, s)
  BY QuorumsGrow
<1>3. \A w : BackedWindow(M, w) => BackedWindow(N, w)
  BY <1>1, <1>2 DEF BackedWindow, Backed
<1>4. \A m : BackedMessage(M, m) => BackedMessage(N, m)
  BY <1>1, <1>2 DEF BackedMessage
<1>. QED
  BY <1>3, <1>4

LEMMA AwaitValueBacked ==
  ASSUME NEW M, NEW s, NEW b
  PROVE  Backed(M, AwaitValue(b), s)
BY DEF Backed, AwaitValue, HasValue, IsResolved

LEMMA NoticeBacked ==
  ASSUME NEW M, NEW s, NEW a, Backed(M, a, s), NEW b, NEW v, Proposed(M, b, s, v)
  PROVE  Backed(M, NoticeValue(a, b, v), s)
<1>1. \A c : Backed(M, AwaitQuorum(c, b, v), s)
  BY DEF Backed, AwaitQuorum, HasValue, IsResolved
<1>. QED
  BY <1>1 DEF NoticeValue

LEMMA PromisedBacked ==
  ASSUME NEW M, NEW s, NEW a \in Acceptor, Backed(M, a, s), NEW b
  PROVE  Backed(M, [a EXCEPT !.promised = b], s)
BY DEF Backed, Acceptor, HasValue, IsResolved

(***************************************************************************)
(* A peer counted is not the leader, so a leader that has counted one less *)
(* than the quorum has the quorum.                                         *)
(***************************************************************************)
LEMMA AcceptedBacked ==
  ASSUME NEW M, \A m \in M : m \in Message /\ BackedMessage(M, m), NEW s,
         NEW a \in Acceptor, Backed(M, a, s),
         NEW peer \in Node, NEW b, peer \in Accepters(M, b, s)
  PROVE  /\ Backed(M, ReceiveAccepted(a, peer, b), s)
         /\ IsResolved(ReceiveAccepted(a, peer, b)) /\ ~IsResolved(a) =>
              Proposed(M, b, s, a.val) /\ Chosen(M, b, s)
<1>. DEFINE peers == a.quorum \cup {peer}
            r == ReceiveAccepted(a, peer, b)
<1>1. CASE a.st # "AwaitQuorum" \/ a.bal # b
  BY <1>1 DEF ReceiveAccepted
<1>2. CASE a.st = "AwaitQuorum" /\ a.bal = b
  <2>1. peers \subseteq Accepters(M, b, s)
    BY <1>2 DEF Backed
  <2>2. Proposed(M, b, s, a.val)
    BY <1>2 DEF Backed, HasValue
  <2>3. CASE ~EnoughAccepted(peers)
    <3>1. r = [a EXCEPT !.quorum = peers] /\ ~IsResolved(r)
      BY <1>2, <2>3 DEF ReceiveAccepted, IsResolved, Acceptor
    <3>2. r.quorum = peers /\ r.bal = b /\ r.val = a.val
      BY <1>2, <3>1 DEF Acceptor
    <3>. HIDE DEF r
    <3>3. Backed(M, r, s)
      BY <2>1, <2>2, <3>1, <3>2 DEF Backed
    <3>. QED
      BY <3>1, <3>3 DEF r
  <2>4. CASE EnoughAccepted(peers)
    <3>1. Accepters(M, b, s) \subseteq Node /\ Owner(b) \notin Accepters(M, b, s)
      BY MessageFields DEF Accepters, BackedMessage
    <3>2. IsFiniteSet(peers) /\ Owner(b) \notin peers
      BY <2>1, <3>1, NodeAssumption, FS_Subset
    <3>3. Cardinality(peers \cup {Owner(b)}) = Cardinality(peers) + 1
          /\ Cardinality(peers) \in Nat
      BY <3>2, FS_AddElement, FS_CardinalityType
    <3>4. Cardinality(peers \cup {Owner(b)}) >= QuorumSize
      BY <2>4, <3>3, QuorumInt DEF EnoughAccepted
    <3>5. Chosen(M, b, s)
      BY <2>1, <3>1, <3>4, LargerQuorum DEF Chosen
    <3>6. r = Resolved(b, a.val)
      BY <1>2, <2>4 DEF ReceiveAccepted
    <3>. HIDE DEF r
    <3>7. Backed(M, r, s)
      BY <2>2, <3>5, <3>6 DEF Backed, Resolved, HasValue, IsResolved
    <3>. QED
      BY <2>2, <3>5, <3>7 DEF r
  <2>. QED
    BY <2>3, <2>4
<1>. QED
  BY <1>1, <1>2
-----------------------------------------------------------------------------
(***************************************************************************)
(* The steps handlers are made of.                                         *)
(***************************************************************************)
LEMMA OpenUpToBacked ==
  ASSUME NEW M, NEW w \in Window, BackedWindow(M, w), NEW seen, NEW last
  PROVE  BackedWindow(M, OpenUpTo(w, seen, last))
<1>. DEFINE o == OpenUpTo(w, seen, last)
<1>1. \A s \in WindowSlot : \/ o.acc[s] = w.acc[s]
                            \/ o.acc[s] = AwaitValue(FreshPromise(w, seen, s))
  BY DEF OpenUpTo, Window
<1>. HIDE DEF o
<1>2. BackedWindow(M, o)
  BY <1>1, AwaitValueBacked DEF BackedWindow
<1>. QED
  BY <1>2 DEF o

LEMMA UpdateBacked ==
  ASSUME NEW M, NEW w \in Window, BackedWindow(M, w),
         NEW S \in SUBSET WindowSlot, NEW accs, accs = [s \in S |-> accs[s]],
         \A s \in S : Backed(M, accs[s], s)
  PROVE  BackedWindow(M, Update(w, accs))
<1>. DEFINE u == Update(w, accs)
<1>1. \A s \in WindowSlot : u.acc[s] = IF s \in S THEN accs[s] ELSE w.acc[s]
  <2>1. DOMAIN accs = S
    OBVIOUS
  <2>. QED
    BY <2>1 DEF Update, Window
<1>. HIDE DEF u
<1>2. BackedWindow(M, u)
  BY <1>1 DEF BackedWindow
<1>. QED
  BY <1>2 DEF u

LEMMA FillDecisionsBacked ==
  ASSUME NEW M, NEW w \in Window, BackedWindow(M, w)
  PROVE  BackedWindow(M, FillDecisions(w))
<1>. DEFINE o == OpenUpTo(w, <<>>, FirstUnresolved(w))
<1>1. BackedWindow(M, o)
  BY OpenUpToBacked
<1>2. FillDecisions(w).acc = o.acc
  BY DEF FillDecisions, OpenUpTo, Window
<1>. QED
  BY <1>1, <1>2 DEF BackedWindow

LEMMA PrepareBacked ==
  ASSUME NEW M, NEW B, NEW b, NEW w, GoodWindow(w, B), BackedWindow(M, w)
  PROVE  BackedWindow(M, PrepareWindow(w, b))
<1>. DEFINE P == Reached(OpenSlots(w), PrepareStops(w, b))
            accs == [s \in P |-> ReceivePrepare(w.acc[s], b)]
<1>1. P \in SUBSET WindowSlot /\ w \in Window
  BY WindowRange DEF Reached, GoodWindow
<1>. HIDE DEF P
<1>2. accs = [s \in P |-> accs[s]] /\ \A s \in P : Backed(M, accs[s], s)
  BY <1>1, PromisedBacked DEF ReceivePrepare, BackedWindow, GoodWindow, GoodAcceptor
<1>. HIDE DEF accs
<1>3. BackedWindow(M, Update(w, accs))
  BY <1>1, <1>2, UpdateBacked
<1>. QED
  BY <1>3 DEF PrepareWindow, P, accs

LEMMA NoticeReportBacked ==
  ASSUME NEW M, NEW B, Ballots(B), NEW w, GoodWindow(w, B), BackedWindow(M, w),
         NEW report, GoodReport(report, B),
         \A s \in DOMAIN report : Proposed(M, report[s].bal, s, report[s].val)
  PROVE  BackedWindow(M, NoticeReport(w, report))
<1>. DEFINE N == {s \in DOMAIN report : ~ResolvedAt(w, s)}
            seen == [s \in N |-> report[s].bal]
            o == Opened(w, seen)
            accs == [s \in N |-> NoticeValue(o.acc[s], report[s].bal, report[s].val)]
<1>1. N \in SUBSET WindowSlot /\ seen \in [N -> B] /\ w \in Window
  BY ReportSlots, SlotBound DEF GoodWindow
<1>2. \A s \in N : Proposed(M, report[s].bal, s, report[s].val)
  OBVIOUS
<1>3. NoticeReport(w, report) = Update(o, accs)
  BY DEF NoticeReport
<1>. HIDE DEF N, seen
<1>4. o \in Window /\ BackedWindow(M, o)
  BY <1>1, OpenedGood, OpenUpToBacked DEF GoodWindow, Opened
<1>. HIDE DEF o
<1>5. accs = [s \in N |-> accs[s]] /\ \A s \in N : Backed(M, accs[s], s)
  BY <1>1, <1>2, <1>4, NoticeBacked DEF BackedWindow
<1>. HIDE DEF accs
<1>. QED
  BY <1>1, <1>3, <1>4, <1>5, UpdateBacked

LEMMA AcceptBacked ==
  ASSUME NEW M, NEW B, Ballots(B), NEW b \in B, b # NoBallot,
         NEW w, GoodWindow(w, B), BackedWindow(M, w), NEW batch, GoodBatch(batch),
         \A s \in DOMAIN batch : Proposed(M, b, s, batch[s])
  PROVE  BackedWindow(M, AcceptWindow(w, b, batch))
<1>. DEFINE stops == AcceptStops(w, b, batch)
            D == Reached(DOMAIN batch, stops)
            filled == {s \in stops : EmptyAt(w, s) /\ \A t \in stops : s <= t}
            last == LastOf(w, D \cup filled)
            o == OpenUpTo(w, Const(D, b), last)
            accs == [s \in D |-> ReceiveAccept(o.acc[s], b, batch[s])]
<1>1. AcceptWindow(w, b, batch) = Update(o, accs)
  BY DEF AcceptWindow
<1>2. /\ D \in SUBSET WindowSlot /\ D \cup filled \in SUBSET WindowSlot
      /\ D \subseteq DOMAIN batch /\ w \in Window
  BY BatchSlots, SlotBound DEF Reached, AcceptStops, GoodWindow
<1>. HIDE DEF D, filled
<1>3. last \in WindowSlot /\ Const(D, b) \in [D -> B]
  BY <1>2, LastOfIn DEF Const
<1>. HIDE DEF last
<1>4. GoodWindow(o, B) /\ BackedWindow(M, o)
  BY <1>2, <1>3, OpenUpToGood, OpenUpToBacked
<1>. HIDE DEF o
<1>5. ASSUME NEW s \in D
      PROVE  Backed(M, ReceiveAccept(o.acc[s], b, batch[s]), s)
  <2>1. /\ o.acc[s] \in Acceptor /\ Backed(M, o.acc[s], s)
        /\ Proposed(M, b, s, batch[s])
    BY <1>2, <1>4 DEF GoodWindow, GoodAcceptor, BackedWindow
  <2>. QED
    BY <2>1, PromisedBacked, NoticeBacked DEF ReceiveAccept
<1>6. accs = [s \in D |-> accs[s]] /\ \A s \in D : Backed(M, accs[s], s)
  BY <1>5
<1>. HIDE DEF accs
<1>. QED
  BY <1>1, <1>2, <1>4, <1>6, UpdateBacked DEF GoodWindow

LEMMA ResolutionBacked ==
  ASSUME NEW M, NEW B, Ballots(B), NEW b \in B, b # NoBallot,
         NEW w, GoodWindow(w, B), BackedWindow(M, w),
         NEW decisions, GoodBatch(decisions),
         \A s \in DOMAIN decisions : Proposed(M, b, s, decisions[s]) /\ Chosen(M, b, s)
  PROVE  BackedWindow(M, ResolutionWindow(w, b, decisions))
<1>. DEFINE L == {s \in DOMAIN decisions : ~ResolvedAt(w, s)}
            o == Opened(w, Const(L, b))
            accs == [s \in L |-> Resolve(o.acc[s], b, decisions[s])]
            u == Update(o, accs)
<1>1. /\ L \in SUBSET WindowSlot /\ MaxSlot + 1 \notin L /\ w \in Window
      /\ \A s \in L : /\ decisions[s] \in Value
                      /\ Proposed(M, b, s, decisions[s]) /\ Chosen(M, b, s)
  BY BatchSlots, SlotBound DEF GoodWindow
<1>2. ResolutionWindow(w, b, decisions) = FillDecisions(u)
  BY DEF ResolutionWindow
<1>. HIDE DEF L
<1>3. Const(L, b) \in [L -> B]
  BY DEF Const
<1>4. GoodWindow(o, B) /\ BackedWindow(M, o)
  BY <1>1, <1>3, OpenedGood, OpenUpToBacked DEF Opened
<1>. HIDE DEF o
<1>5. ASSUME NEW s \in L
      PROVE  Backed(M, Resolve(o.acc[s], b, decisions[s]), s)
             /\ GoodAcceptor(Resolve(o.acc[s], b, decisions[s]), B)
  <2>1. Backed(M, o.acc[s], s) /\ GoodAcceptor(o.acc[s], B)
    BY <1>1, <1>4 DEF BackedWindow, GoodWindow
  <2>2. Backed(M, Resolved(b, decisions[s]), s)
    BY <1>1 DEF Backed, Resolved, HasValue, IsResolved
  <2>. QED
    BY <1>1, <2>1, <2>2, ResolveGood DEF Resolve
<1>6. /\ accs = [s \in L |-> accs[s]]
      /\ \A s \in L : Backed(M, accs[s], s) /\ GoodAcceptor(accs[s], B)
  BY <1>5
<1>. HIDE DEF accs
<1>7. GoodWindow(u, B)
  BY <1>1, <1>4, <1>6, UpdateGood
<1>8. BackedWindow(M, u)
  BY <1>1, <1>4, <1>6, UpdateBacked DEF GoodWindow
<1>. QED
  BY <1>2, <1>7, <1>8, FillDecisionsBacked DEF GoodWindow

LEMMA AcceptedWindowBacked ==
  ASSUME NEW M, \A m \in M : m \in Message /\ BackedMessage(M, m),
         NEW B, Ballots(B), NEW b, NEW peer \in Node,
         NEW w, GoodWindow(w, B), BackedWindow(M, w), NEW slots \in SUBSET Slot,
         \A s \in slots : peer \in Accepters(M, b, s)
  PROVE  /\ BackedWindow(M, AcceptedWindow(w, peer, b, slots))
         /\ LET d == NewlyResolved(w, peer, b, slots)
            IN  \A s \in DOMAIN d : Proposed(M, b, s, d[s]) /\ Chosen(M, b, s)
<1>. DEFINE C == CountedSlots(w, slots)
            accs == [s \in C |-> ReceiveAccepted(w.acc[s], peer, b)]
            u == Update(w, accs)
<1>1. /\ C \in SUBSET WindowSlot /\ MaxSlot + 1 \notin C /\ C \subseteq slots
      /\ \A s \in C : ~IsResolved(w.acc[s])
      /\ w \in Window
  BY SlotBound, WindowRange
  DEF CountedSlots, Reached, OpenSlots, ResolvedAt, GoodWindow
<1>2. AcceptedWindow(w, peer, b, slots) = FillDecisions(u)
  BY DEF AcceptedWindow
<1>3. NewlyResolved(w, peer, b, slots) =
        [s \in {r \in C : IsResolved(ReceiveAccepted(w.acc[r], peer, b))} |-> w.acc[s].val]
  BY DEF NewlyResolved
<1>. HIDE DEF C
<1>4. ASSUME NEW s \in C
      PROVE  LET r == ReceiveAccepted(w.acc[s], peer, b)
             IN  /\ Backed(M, r, s) /\ GoodAcceptor(r, B)
                 /\ IsResolved(r) => Proposed(M, b, s, w.acc[s].val) /\ Chosen(M, b, s)
  <2>1. GoodAcceptor(w.acc[s], B) /\ Backed(M, w.acc[s], s) /\ peer \in Accepters(M, b, s)
    BY <1>1 DEF GoodWindow, BackedWindow
  <2>2. w.acc[s] \in Acceptor /\ ~IsResolved(w.acc[s])
    BY <1>1, <2>1 DEF GoodAcceptor
  <2>. QED
    BY <2>1, <2>2, AcceptedBacked, ReceiveAcceptedGood
<1>5. /\ accs = [s \in C |-> accs[s]]
      /\ \A s \in C : Backed(M, accs[s], s) /\ GoodAcceptor(accs[s], B)
  BY <1>4
<1>. HIDE DEF accs
<1>6. GoodWindow(u, B) /\ BackedWindow(M, u)
  BY <1>1, <1>5, UpdateGood, UpdateBacked
<1>7. BackedWindow(M, FillDecisions(u))
  BY <1>6, FillDecisionsBacked DEF GoodWindow
<1>. QED
  BY <1>2, <1>3, <1>4, <1>7
-----------------------------------------------------------------------------
(***************************************************************************)
(* A leader that proposes.                                                 *)
(***************************************************************************)
Fresh(a, b) == a.st = "AwaitQuorum" /\ a.bal = b /\ a.quorum = {}

LEMMA FreshBacked ==
  ASSUME NEW M, NEW s, NEW a, NEW b, Fresh(a, b), Proposed(M, b, s, a.val)
  PROVE  Backed(M, a, s)
BY DEF Fresh, Backed, HasValue, IsResolved

LEMMA NoticeFresh ==
  ASSUME NEW a, NEW b, NEW v
  PROVE  LET r == NoticeValue(a, b, v)
         IN  r = a \/ (Fresh(r, b) /\ r.val = v)
<1>. DEFINE r == NoticeValue(a, b, v)
<1>1. r = a \/ r = AwaitQuorum(Higher(a.promised, b), b, v)
  BY DEF NoticeValue
<1>. HIDE DEF r
<1>2. r = a \/ (Fresh(r, b) /\ r.val = v)
  BY <1>1 DEF AwaitQuorum, Fresh
<1>. QED
  BY <1>2 DEF r

LEMMA ProposeBacked ==
  ASSUME NEW M, NEW B, Ballots(B), NEW b \in B, NEW w, GoodWindow(w, B),
         BackedWindow(M, w), NEW values, FreshSlots(w, values) \subseteq Slot
  PROVE  LET p == ProposeWindow(w, b, values)
         IN  \A s \in WindowSlot :
               \/ Backed(M, p.acc[s], s)
               \/ /\ s \in FreshSlots(w, values) /\ Fresh(p.acc[s], b)
                  /\ p.acc[s].val = values[s - NextSlot(w) + 1]
<1>. DEFINE F == FreshSlots(w, values)
            o == Opened(w, Const(F, b))
            accs == [s \in F |-> NoticeValue(o.acc[s], b, values[s - NextSlot(w) + 1])]
            p == ProposeWindow(w, b, values)
<1>1. p = Update(o, accs)
  BY DEF ProposeWindow, Const
<1>2. F \in SUBSET WindowSlot /\ Const(F, b) \in [F -> B]
  BY SlotBound DEF Const
<1>. HIDE DEF p, F
<1>3. GoodWindow(o, B) /\ BackedWindow(M, o)
  BY <1>2, OpenedGood, OpenUpToBacked DEF Opened, GoodWindow
<1>. HIDE DEF o
<1>4. \A s \in WindowSlot : p.acc[s] = IF s \in F THEN accs[s] ELSE o.acc[s]
  BY <1>1, <1>3 DEF Update, GoodWindow, Window
<1>5. \A s \in F : Backed(M, o.acc[s], s)
  BY <1>2, <1>3 DEF BackedWindow
<1>6. ASSUME NEW s \in WindowSlot
      PROVE  \/ Backed(M, p.acc[s], s)
             \/ /\ s \in F /\ Fresh(p.acc[s], b)
                /\ p.acc[s].val = values[s - NextSlot(w) + 1]
  <2>1. CASE s \notin F
    BY <1>3, <1>4, <2>1 DEF BackedWindow
  <2>2. CASE s \in F
    <3>. DEFINE r == NoticeValue(o.acc[s], b, values[s - NextSlot(w) + 1])
    <3>1. p.acc[s] = r
      BY <1>4, <2>2
    <3>2. r = o.acc[s] \/ (Fresh(r, b) /\ r.val = values[s - NextSlot(w) + 1])
      BY NoticeFresh
    <3>. QED
      BY <1>5, <2>2, <3>1, <3>2
  <2>. QED
    BY <2>1, <2>2
<1>. QED
  BY <1>6 DEF p, F

LEMMA LeadBacked ==
  ASSUME NEW M, NEW B, Ballots(B), NEW b \in B, NEW w, GoodWindow(w, B),
         BackedWindow(M, w), NextSlot(w) \in Slot, NEW v,
         AcceptMsg(b, Const({NextSlot(w)}, v)) \in M
  PROVE  BackedWindow(M, ProposeWindow(w, b, <<v>>))
<1>. DEFINE t == NextSlot(w)
            p == ProposeWindow(w, b, <<v>>)
<1>1. t \in Slot /\ t \in Nat /\ FreshSlots(w, <<v>>) = {t}
  <2>1. t \in Slot /\ t \in Nat
    BY SlotBound
  <2>. QED
    BY <2>1 DEF FreshSlots
<1>2. Proposed(M, b, t, v)
  BY DEF Proposed, AcceptMsg, Const
<1>3. <<v>>[t - t + 1] = v
  BY <1>1
<1>4. \A s \in WindowSlot : \/ Backed(M, p.acc[s], s)
                            \/ s = t /\ Fresh(p.acc[s], b) /\ p.acc[s].val = v
  <2>. DEFINE values == <<v>>
  <2>1. FreshSlots(w, values) \subseteq Slot
    BY <1>1
  <2>. HIDE DEF values
  <2>2. \A s \in WindowSlot :
          \/ Backed(M, ProposeWindow(w, b, values).acc[s], s)
          \/ /\ s \in FreshSlots(w, values)
             /\ Fresh(ProposeWindow(w, b, values).acc[s], b)
             /\ ProposeWindow(w, b, values).acc[s].val = values[s - t + 1]
    BY <2>1, ProposeBacked
  <2>3. FreshSlots(w, values) = {t} /\ values[t - t + 1] = v
        /\ p = ProposeWindow(w, b, values)
    BY <1>1, <1>3 DEF values
  <2>. HIDE DEF p, t
  <2>. QED
    BY <2>2, <2>3
<1>. HIDE DEF p, t
<1>5. BackedWindow(M, p)
  BY <1>2, <1>4, FreshBacked DEF BackedWindow
<1>. QED
  BY <1>5 DEF p

LEMMA DriveBacked ==
  ASSUME NEW M, NEW B, Ballots(B), NEW b \in B, b # NoBallot, NEW w, GoodWindow(w, B),
         Logged(w), BackedWindow(M, w),
         NEW queue \in Seq(Value), FreshSlots(w, queue) \subseteq Slot,
         AcceptMsg(b, DriveValues(DriveWindow(w, b, queue))) \in M
  PROVE  BackedWindow(M, DriveWindow(w, b, queue))
<1>. DEFINE p == ProposeWindow(w, b, queue)
            O == OpenSlots(p)
            accs == [s \in O |-> NoticeValue(p.acc[s], b, p.acc[s].val)]
            d == DriveWindow(w, b, queue)
            batch == DriveValues(d)
<1>1. d = Update(p, accs)
  BY DEF DriveWindow
<1>2. p \in Window /\ Logged(d) /\ d.min \in Nat /\ d.end \in Nat
  <2>1. GoodWindow(p, B) /\ Logged(d)
    BY ProposeWindowGood, DriveLogged
  <2>2. p \in Window /\ p.min \in Nat /\ p.end \in Nat
    BY <2>1, WindowFields DEF GoodWindow
  <2>3. d.min = p.min /\ d.end = p.end
    BY <1>1, <2>2 DEF Update, Window
  <2>. QED
    BY <2>1, <2>2, <2>3
<1>3. \A s \in WindowSlot : Backed(M, p.acc[s], s) \/ Fresh(p.acc[s], b)
  BY ProposeBacked
<1>4. \A s \in WindowSlot : d.acc[s] = IF s \in O THEN accs[s] ELSE p.acc[s]
  <2>1. DOMAIN accs = O
    OBVIOUS
  <2>. HIDE DEF accs, p, d, O
  <2>. QED
    BY <1>1, <1>2, <2>1 DEF Update, Window
<1>. HIDE DEF p, d
<1>5. \A s \in WindowSlot : Backed(M, d.acc[s], s) \/ Fresh(d.acc[s], b)
  <2>1. \A s \in O : accs[s] = p.acc[s] \/ Fresh(accs[s], b)
    BY NoticeFresh
  <2>. QED
    BY <1>3, <1>4, <2>1
<1>6. ASSUME NEW s \in WindowSlot, Fresh(d.acc[s], b)
      PROVE  Proposed(M, b, s, d.acc[s].val)
  <2>1. ~ResolvedAt(d, s) /\ d.acc[s] # Unopened
    BY <1>6 DEF Fresh, ResolvedAt, IsResolved, Unopened, AwaitValue
  <2>2. ~(s < d.min) /\ s < d.end
    BY <1>2, <2>1, SlotBound DEF Logged, Shape, EmptyAt
  <2>3. s \in OpenSlots(d)
    BY <1>2, <2>1, <2>2, SlotBound DEF OpenSlots, OpenRange
  <2>4. s \in DOMAIN batch /\ batch[s] = d.acc[s].val
    BY <2>3 DEF DriveValues
  <2>5. AcceptMsg(b, batch) \in M
    BY DEF d
  <2>. HIDE DEF batch
  <2>. QED
    BY <2>4, <2>5 DEF Proposed, AcceptMsg
<1>7. BackedWindow(M, d)
  BY <1>5, <1>6, FreshBacked DEF BackedWindow
<1>. QED
  BY <1>7 DEF d
-----------------------------------------------------------------------------
(***************************************************************************)
(* The actions.                                                            *)
(***************************************************************************)
LEMMA CInvFacts ==
  ASSUME CInv
  PROVE  /\ LInv /\ IInv /\ Ballots(Issued(proposer))
         /\ \A n \in Node : /\ GoodWindow(window[n], Issued(proposer))
                            /\ Logged(window[n]) /\ BackedWindow(msgs, window[n])
         /\ \A m \in msgs : m \in Message /\ BackedMessage(msgs, m)
BY IssuedBallots DEF CInv, LInv, IInv, GoodMessage

LEMMA BackedPreserved ==
  ASSUME CInv, LInv', NEW n \in Node, NEW w, SetWindow(n, w),
         msgs \subseteq msgs', BackedWindow(msgs', w),
         \A m \in msgs' \ msgs : BackedMessage(msgs', m)
  PROVE  CInv'
<1>1. \A m \in msgs' : m \in Message
  BY DEF LInv, IInv, GoodMessage
<1>2. /\ \A k \in Node : BackedWindow(msgs', window[k])
      /\ \A m \in msgs : BackedMessage(msgs', m)
  BY <1>1, MoreBacked DEF CInv
<1>3. \A k \in Node : window'[k] = IF k = n THEN w ELSE window[k]
  BY DEF SetWindow, CInv, LInv, IInv
<1>. QED
  BY <1>2, <1>3 DEF CInv

\* A step that changes the windows of no node and sends what needs no backing.
LEMMA PlainBacked ==
  ASSUME CInv, LInv', UNCHANGED window, msgs \subseteq msgs',
         \A m \in msgs' \ msgs : m.type \notin {"Promise", "Accepted", "Resolution"}
  PROVE  CInv'
<1>1. PICK n \in Node : TRUE
  <2>1. Node # {}
    BY NodeAssumption, FS_EmptySet
  <2>. QED
    BY <2>1
<1>2. SetWindow(n, window[n])
  BY DEF SetWindow, CInv, LInv, IInv
<1>3. BackedWindow(msgs', window[n])
  BY MoreBacked DEF CInv, LInv, IInv, GoodMessage
<1>4. \A m \in msgs' \ msgs : BackedMessage(msgs', m)
  BY DEF BackedMessage
<1>. QED
  BY <1>2, <1>3, <1>4, BackedPreserved

LEMMA Sending ==
  ASSUME NEW n, NEW to, NEW M, Send(M) \/ SendTo(n, to, M) \/ UNCHANGED msgs
  PROVE  msgs \subseteq msgs' /\ msgs' \ msgs \subseteq M
BY DEF Send, SendTo

LEMMA ProposeKeepsBacked ==
  ASSUME CInv, LInv', NEW n \in Node, NEW v \in ClientValue, Propose(n, v)
  PROVE  CInv'
<1>. DEFINE p == proposer[n]
<1>1. CASE ProposeFirst(n, v)
  <2>. DEFINE M == {[type |-> "Prepare", bal |-> Prepare(PushProposal(p, v), n).highest]}
  <2>1. Send(M) /\ UNCHANGED window
    BY <1>1 DEF ProposeFirst, Campaign
  <2>2. \A m \in M : m.type = "Prepare"
    OBVIOUS
  <2>. HIDE DEF M
  <2>. QED
    BY <2>1, <2>2, Sending, PlainBacked
<1>2. CASE ProposeRedirect(n, v)
  <2>. DEFINE M == {[type |-> "Proposal", to |-> Owner(p.highest), val |-> v]}
  <2>1. SendTo(n, Owner(p.highest), M) /\ UNCHANGED window
    BY <1>2 DEF ProposeRedirect
  <2>2. \A m \in M : m.type = "Proposal"
    OBVIOUS
  <2>. HIDE DEF M
  <2>. QED
    BY <2>1, <2>2, Sending, PlainBacked
<1>3. CASE ProposeQueue(n, v)
  BY <1>3, PlainBacked DEF ProposeQueue
<1>4. CASE ProposeLead(n, v)
  <2>. DEFINE b == p.proposal
              w == window[n]
              a == AcceptMsg(b, Const({NextSlot(w)}, v))
              u == ProposeWindow(w, b, <<v>>)
  <2>1. SetWindow(n, u) /\ Send({a}) /\ NextSlot(w) \in Slot
    BY <1>4 DEF ProposeLead
  <2>2. b \in Issued(proposer)
    BY <1>4, CInvFacts, OwnBallotIssued DEF ProposeLead, IsLeader, IsFollower, IInv
  <2>3. msgs \subseteq msgs' /\ a \in msgs' /\ \A m \in msgs' \ msgs : m = a
    BY <2>1 DEF Send
  <2>4. \A m \in msgs' : m \in Message
    BY DEF LInv, IInv, GoodMessage
  <2>5. BackedWindow(msgs', w)
    BY <2>3, <2>4, CInvFacts, MoreBacked
  <2>6. BackedWindow(msgs', u)
    BY <2>1, <2>2, <2>3, <2>5, CInvFacts, LeadBacked
  <2>7. \A m \in msgs' \ msgs : BackedMessage(msgs', m)
    BY <2>3 DEF BackedMessage, AcceptMsg
  <2>. QED
    BY <2>1, <2>3, <2>6, <2>7, BackedPreserved
<1>. QED
  BY <1>1, <1>2, <1>3, <1>4 DEF Propose

LEMMA ProposeLeadershipKeepsBacked ==
  ASSUME CInv, LInv', NEW n \in Node, ProposeLeadership(n)
  PROVE  CInv'
<1>1. \/ \E b : Send({[type |-> "Prepare", bal |-> b]})
      \/ \E b : Send({AcceptMsg(b, NoValues)})
  BY DEF ProposeLeadership, Campaign
<1>2. PICK m : Send({m}) /\ m.type \in {"Prepare", "Accept"}
  <2>1. \A b : LET m == [type |-> "Prepare", bal |-> b] IN m.type = "Prepare"
    OBVIOUS
  <2>2. \A b : AcceptMsg(b, NoValues).type = "Accept"
    BY DEF AcceptMsg
  <2>. QED
    BY <1>1, <2>1, <2>2
<1>3. UNCHANGED window
  BY DEF ProposeLeadership
<1>4. msgs \subseteq msgs' /\ msgs' \ msgs \subseteq {m}
  BY <1>2, Sending
<1>. QED
  BY <1>2, <1>3, <1>4, PlainBacked

LEMMA OnRejectKeepsBacked ==
  ASSUME CInv, LInv', NEW n \in Node, OnReject(n)
  PROVE  CInv'
<1>1. PICK p : Forward(n, p) /\ UNCHANGED window
  BY DEF OnReject, HandleReject
<1>. DEFINE M == {[type |-> "Proposal", to |-> Owner(p.highest), val |-> v] :
                    v \in {p.queue[i] : i \in DOMAIN p.queue}}
<1>2. SendTo(n, Owner(p.highest), M) \/ UNCHANGED msgs
  BY <1>1 DEF Forward
<1>3. \A m \in M : m.type = "Proposal"
  OBVIOUS
<1>. HIDE DEF M
<1>. QED
  BY <1>1, <1>2, <1>3, Sending, PlainBacked

LEMMA OnPromiseKeepsBacked ==
  ASSUME CInv, LInv', NEW n \in Node, OnPromise(n)
  PROVE  CInv'
<1>1. PICK m \in msgs :
        LET p == ReceivePromise(proposer[n], m.from, m.bal)
            w == NoticeReport(window[n], m.report)
        IN  /\ m.type = "Promise"
            /\ \/ IsLeader(p) /\ DriveAccept(n, p, w)
               \/ ~IsLeader(p) /\ SetWindow(n, w) /\ UNCHANGED msgs
  BY DEF OnPromise, HandlePromise
<1>. DEFINE p == ReceivePromise(proposer[n], m.from, m.bal)
            w == NoticeReport(window[n], m.report)
            b == p.highest
            B == Issued(proposer)
            driven == DriveWindow(w, b, p.queue)
            a == AcceptMsg(b, DriveValues(driven))
<1>2. /\ Ballots(B) /\ GoodWindow(window[n], B) /\ Logged(window[n])
      /\ BackedWindow(msgs, window[n]) /\ BackedMessage(msgs, m)
      /\ GoodProposer(n, proposer[n]) /\ m.from \in Node /\ GoodReport(m.report, B)
  BY <1>1, CInvFacts, MessageFields DEF IInv, GoodMessage
<1>3. GoodWindow(w, B) /\ Logged(w)
  BY <1>2, NoticeReportGood, NoticeReportLogged
<1>4. BackedWindow(msgs, w)
  BY <1>1, <1>2, NoticeReportBacked DEF BackedMessage
<1>5. GoodProposer(n, p) /\ b = proposer[n].highest /\ p.queue \in Seq(Value)
  BY <1>2, ReceivePromiseContinues, QueueContinues
<1>. HIDE DEF p, w
<1>6. CASE ~IsLeader(p) /\ SetWindow(n, w) /\ UNCHANGED msgs
  BY <1>4, <1>6, BackedPreserved
<1>7. CASE IsLeader(p) /\ DriveAccept(n, p, w)
  <2>1. FreshSlots(w, p.queue) \subseteq Slot /\ SetWindow(n, driven) /\ Send({a})
    BY <1>7 DEF DriveAccept
  <2>2. b \in B /\ b # NoBallot
    BY <1>5, <1>7, CInvFacts, OwnBallotIssued DEF IsLeader, IsFollower
  <2>3. msgs \subseteq msgs' /\ a \in msgs' /\ \A k \in msgs' \ msgs : k = a
    BY <2>1 DEF Send
  <2>4. \A k \in msgs' : k \in Message
    BY DEF LInv, IInv, GoodMessage
  <2>5. BackedWindow(msgs', w)
    BY <1>4, <2>3, <2>4, MoreBacked
  <2>6. BackedWindow(msgs', driven)
    BY <1>2, <1>3, <1>5, <2>1, <2>2, <2>3, <2>5, DriveBacked
  <2>7. \A k \in msgs' \ msgs : BackedMessage(msgs', k)
    BY <2>3 DEF BackedMessage, AcceptMsg
  <2>. HIDE DEF driven, a
  <2>. QED
    BY <2>1, <2>3, <2>6, <2>7, BackedPreserved
<1>. QED
  BY <1>1, <1>6, <1>7 DEF p, w

LEMMA OnPrepareKeepsBacked ==
  ASSUME CInv, LInv', NEW n \in Node, OnPrepare(n)
  PROVE  CInv'
<1>1. PICK m \in msgs :
        /\ m.type = "Prepare" /\ SetWindow(n, PrepareWindow(window[n], m.bal))
        /\ SendTo(n, Owner(m.bal), {PrepareReply(n, window[n], m.bal)})
  BY DEF OnPrepare, HandlePrepare
<1>. DEFINE w == window[n]
            u == PrepareWindow(w, m.bal)
            reply == PrepareReply(n, w, m.bal)
<1>2. GoodWindow(w, Issued(proposer)) /\ BackedWindow(msgs, u)
  BY CInvFacts, PrepareBacked
<1>3. msgs \subseteq msgs' /\ \A k \in msgs' \ msgs : k = reply
  BY <1>1, Sending
<1>4. BackedMessage(msgs, reply)
  <2>1. CASE PrepareStops(w, m.bal) = {}
    <3>1. u \in Window
      BY <1>1, <1>2, CInvFacts, ReceivedBallot, PrepareWindowGood DEF GoodWindow
    <3>. HIDE DEF u
    <3>2. \A s \in DOMAIN Report(u) :
            Proposed(msgs, Report(u)[s].bal, s, Report(u)[s].val)
      <4>1. OpenRange(u) \subseteq WindowSlot
        BY <3>1, MaxSlotAssumption DEF Window, WindowSlot, OpenRange
      <4>. QED
        BY <1>2, <4>1 DEF Report, BackedWindow, Backed
    <3>3. reply = [type |-> "Promise", from |-> n, bal |-> m.bal,
                   report |-> Report(u), omitted |-> u.min]
      BY <2>1 DEF PrepareReply, u
    <3>. HIDE DEF reply
    <3>. QED
      BY <3>2, <3>3 DEF BackedMessage
  <2>2. CASE PrepareStops(w, m.bal) # {}
    BY <2>2 DEF PrepareReply, BackedMessage
  <2>. QED
    BY <2>1, <2>2
<1>5. BackedWindow(msgs', u) /\ BackedMessage(msgs', reply)
  <2>1. \A k \in msgs' : k \in Message
    BY DEF LInv, IInv, GoodMessage
  <2>. QED
    BY <1>2, <1>3, <1>4, <2>1, MoreBacked
<1>. QED
  BY <1>1, <1>3, <1>5, BackedPreserved

LEMMA OnAcceptKeepsBacked ==
  ASSUME CInv, LInv', NEW n \in Node, OnAccept(n)
  PROVE  CInv'
<1>1. PICK m \in msgs :
        /\ m.type = "Accept" /\ Owner(m.bal) # n
        /\ SetWindow(n, AcceptWindow(window[n], m.bal, m.batch))
        /\ SendTo(n, Owner(m.bal), AcceptReplies(n, window[n], m.bal, m.batch))
  BY DEF OnAccept, HandleAccept
<1>. DEFINE w == window[n]
            b == m.bal
            u == AcceptWindow(w, b, m.batch)
            replies == AcceptReplies(n, w, b, m.batch)
<1>2. \A s \in DOMAIN m.batch : Proposed(msgs, b, s, m.batch[s])
  BY <1>1 DEF Proposed
<1>3. b \in Issued(proposer) /\ b # NoBallot /\ GoodBatch(m.batch)
  BY <1>1, CInvFacts, ReceivedBallot, MessageFields, BatchIsGood
<1>4. BackedWindow(msgs, u)
  BY <1>2, <1>3, CInvFacts, AcceptBacked
<1>5. msgs \subseteq msgs' /\ msgs' \ msgs \subseteq replies
  BY <1>1, Sending
<1>6. \A k \in replies : BackedMessage(msgs, k)
  <2>1. CASE AcceptStops(w, b, m.batch) = {}
    <3>1. replies = {[type |-> "Accepted", from |-> n, bal |-> b,
                      slots |-> DOMAIN m.batch]}
      BY <2>1 DEF AcceptReplies
    <3>. HIDE DEF replies
    <3>. QED
      BY <1>1, <1>2, <3>1 DEF BackedMessage
  <2>2. CASE AcceptStops(w, b, m.batch) # {}
    <3>1. \A k \in replies : k.type = "Reject"
      BY <2>2 DEF AcceptReplies
    <3>. HIDE DEF replies
    <3>. QED
      BY <3>1 DEF BackedMessage
  <2>. QED
    BY <2>1, <2>2
<1>. HIDE DEF u, replies
<1>7. BackedWindow(msgs', u) /\ \A k \in msgs' \ msgs : BackedMessage(msgs', k)
  <2>1. \A k \in msgs' : k \in Message
    BY DEF LInv, IInv, GoodMessage
  <2>. QED
    BY <1>4, <1>5, <1>6, <2>1, MoreBacked
<1>. QED
  BY <1>1, <1>5, <1>7, BackedPreserved DEF u

LEMMA OnAcceptedKeepsBacked ==
  ASSUME CInv, LInv', NEW n \in Node, OnAccepted(n)
  PROVE  CInv'
<1>1. PICK m \in msgs :
        LET d == NewlyResolved(window[n], m.from, m.bal, m.slots)
        IN  /\ m.type = "Accepted"
            /\ SetWindow(n, AcceptedWindow(window[n], m.from, m.bal, m.slots))
            /\ \/ Send({[type |-> "Resolution", to |-> Peers(n), bal |-> m.bal,
                         decisions |-> d]})
               \/ UNCHANGED msgs
  BY DEF OnAccepted, HandleAccepted
<1>. DEFINE w == window[n]
            u == AcceptedWindow(w, m.from, m.bal, m.slots)
            d == NewlyResolved(w, m.from, m.bal, m.slots)
            r == [type |-> "Resolution", to |-> Peers(n), bal |-> m.bal, decisions |-> d]
<1>2. /\ m.from \in Node /\ m.slots \in SUBSET Slot
      /\ \A s \in m.slots : m.from \in Accepters(msgs, m.bal, s)
  BY <1>1, CInvFacts, MessageFields DEF Accepters
<1>3. /\ BackedWindow(msgs, u)
      /\ \A s \in DOMAIN d : Proposed(msgs, m.bal, s, d[s]) /\ Chosen(msgs, m.bal, s)
  BY <1>2, CInvFacts, AcceptedWindowBacked
<1>4. msgs \subseteq msgs' /\ msgs' \ msgs \subseteq {r} /\ SetWindow(n, u)
  BY <1>1, Sending
<1>. HIDE DEF u, d
<1>5. BackedMessage(msgs, r)
  BY <1>3 DEF BackedMessage
<1>6. BackedWindow(msgs', u) /\ \A k \in msgs' \ msgs : BackedMessage(msgs', k)
  <2>1. \A k \in msgs' : k \in Message
    BY DEF LInv, IInv, GoodMessage
  <2>. HIDE DEF r
  <2>. QED
    BY <1>3, <1>4, <1>5, <2>1, MoreBacked
<1>. QED
  BY <1>4, <1>6, BackedPreserved

LEMMA OnResolutionKeepsBacked ==
  ASSUME CInv, LInv', NEW n \in Node, OnResolution(n)
  PROVE  CInv'
<1>1. PICK m \in msgs :
        /\ m.type = "Resolution"
        /\ SetWindow(n, ResolutionWindow(window[n], m.bal, m.decisions))
        /\ \/ \E to, S : SendTo(n, to, {[type |-> "Catchup", to |-> to, from |-> n,
                                        slots |-> S]})
           \/ UNCHANGED msgs
  BY DEF OnResolution, HandleResolution
<1>. DEFINE u == ResolutionWindow(window[n], m.bal, m.decisions)
<1>2. m.bal \in Issued(proposer) /\ m.bal # NoBallot /\ GoodBatch(m.decisions)
  BY <1>1, CInvFacts, ReceivedBallot, MessageFields, BatchIsGood
<1>3. BackedWindow(msgs, u)
  BY <1>1, <1>2, CInvFacts, ResolutionBacked DEF BackedMessage
<1>4. msgs \subseteq msgs' /\ \A k \in msgs' \ msgs : k.type = "Catchup"
  <2>1. ASSUME NEW to, NEW S, SendTo(n, to, {[type |-> "Catchup", to |-> to,
                                              from |-> n, slots |-> S]})
        PROVE  msgs \subseteq msgs' /\ \A k \in msgs' \ msgs : k.type = "Catchup"
    BY <2>1, Sending
  <2>. QED
    BY <1>1, <2>1
<1>. HIDE DEF u
<1>5. BackedWindow(msgs', u) /\ \A k \in msgs' \ msgs : BackedMessage(msgs', k)
  <2>1. \A k \in msgs' : k \in Message
    BY DEF LInv, IInv, GoodMessage
  <2>. QED
    BY <1>3, <1>4, <2>1, MoreBacked DEF BackedMessage
<1>. QED
  BY <1>1, <1>4, <1>5, BackedPreserved DEF u

LEMMA OnCatchupKeepsBacked ==
  ASSUME CInv, LInv', NEW n \in Node, OnCatchup(n)
  PROVE  CInv'
<1>. DEFINE w == window[n]
            r(m, s) == [type |-> "Resolution", to |-> {m.from}, bal |-> w.acc[s].bal,
                        decisions |-> [t \in RunOf(w, m.slots, s) |-> w.acc[t].val]]
            M(m) == {r(m, s) : s \in Decided(w, m.slots)}
<1>1. PICK m \in msgs : m.type = "Catchup" /\ Send(M(m)) /\ UNCHANGED window
  BY DEF OnCatchup, HandleCatchup
<1>2. m.slots \in SUBSET WindowSlot
  BY <1>1, CInvFacts, MessageFields
<1>3. ASSUME NEW s \in Decided(w, m.slots)
      PROVE  BackedMessage(msgs, r(m, s))
  <2>1. \A t \in RunOf(w, m.slots, s) :
          /\ t \in WindowSlot /\ ResolvedAt(w, t) /\ w.acc[t].bal = w.acc[s].bal
    <3>1. \A t \in RunOf(w, m.slots, s) :
            t \in WindowSlot /\ t \in Nat /\ s \in Nat /\ ResolvedAt(w, t)
      BY <1>2, SlotBound DEF RunOf, Decided
    <3>. QED
      BY <3>1 DEF RunOf
  <2>2. \A t \in RunOf(w, m.slots, s) :
          Proposed(msgs, w.acc[s].bal, t, w.acc[t].val) /\ Chosen(msgs, w.acc[s].bal, t)
    BY <2>1, CInvFacts
    DEF BackedWindow, Backed, ResolvedAt, IsResolved, HasValue
  <2>. QED
    BY <2>2 DEF BackedMessage
<1>4. msgs \subseteq msgs' /\ \A k \in msgs' \ msgs : BackedMessage(msgs, k)
  <2>1. msgs \subseteq msgs' /\ msgs' \ msgs \subseteq M(m)
    BY <1>1, Sending
  <2>. QED
    BY <1>3, <2>1
<1>5. SetWindow(n, w)
  BY <1>1, CInvFacts DEF SetWindow, IInv
<1>6. BackedWindow(msgs', w) /\ \A k \in msgs' \ msgs : BackedMessage(msgs', k)
  <2>1. \A k \in msgs' : k \in Message
    BY DEF LInv, IInv, GoodMessage
  <2>. HIDE DEF M
  <2>. QED
    BY <1>4, <2>1, CInvFacts, MoreBacked
<1>. QED
  BY <1>4, <1>5, <1>6, BackedPreserved

LEMMA NextCInv == CInv /\ [Next]_vars => CInv'
<1>. SUFFICES ASSUME CInv, [Next]_vars PROVE CInv'
  OBVIOUS
<1>1. LInv'
  BY NextLInv DEF CInv
<1>2. CASE UNCHANGED vars
  BY <1>1, <1>2, PlainBacked DEF vars
<1>3. ASSUME NEW n \in Node, ClientProposal(n) \/ OnProposal(n) PROVE CInv'
  <2>1. PICK v \in ClientValue : Propose(n, v)
    BY <1>3, CInvFacts, MessageFields DEF ClientProposal, OnProposal, HandleProposal
  <2>. QED
    BY <1>1, <2>1, ProposeKeepsBacked
<1>. QED
  BY <1>1, <1>2, <1>3, ProposeLeadershipKeepsBacked, OnPrepareKeepsBacked,
     OnPromiseKeepsBacked, OnAcceptKeepsBacked, OnRejectKeepsBacked,
     OnAcceptedKeepsBacked, OnResolutionKeepsBacked, OnCatchupKeepsBacked DEF Next

LEMMA InitCInv == Init => CInv
BY InitLInv, AwaitValueBacked DEF Init, CInv, NewWindow, Unopened, BackedWindow

LEMMA CInvImplies == CInv => ResolvedWasChosen
BY SlotBound
DEF CInv, BackedWindow, Backed, Proposed, Chosen, Accepters, ResolvedWasChosen,
    Accepting, Sent, IsResolved, HasValue

(***************************************************************************)
(* Whatever is lost, duplicated or late, a replica only resolves a slot to *)
(* what its leader proposed there with the ballot of the resolution, when  *)
(* a phase 2 quorum had accepted it: the peers counted in a slot, and      *)
(* those a Resolution or a Catchup answer stands for, all accepted that    *)
(* ballot.                                                                 *)
(***************************************************************************)
THEOREM DecisionsAreChosen == Spec => []ResolvedWasChosen
BY InitCInv, NextCInv, CInvImplies, PTL DEF Spec

-----------------------------------------------------------------------------
(***************************************************************************)
(* What a window holds only grows: the ballot of the proposal in a slot    *)
(* goes up until the slot is resolved.                                     *)
(***************************************************************************)
Gains(w, u) ==
  \A s \in WindowSlot : ResolvedAt(u, s) \/ AtMost(w.acc[s].bal, u.acc[s].bal)

LEMMA GainsSelf == \A w : Gains(w, w)
BY DEF Gains, AtMost

LEMMA GainsTransitive ==
  ASSUME NEW B, Ballots(B), NEW w, NEW u, NEW x,
         GoodWindow(w, B), GoodWindow(u, B), GoodWindow(x, B),
         Gains(w, u), Gains(u, x), Keeps(u, x)
  PROVE  Gains(w, x)
<1>. SUFFICES ASSUME NEW s \in WindowSlot, ~ResolvedAt(x, s)
              PROVE  AtMost(w.acc[s].bal, x.acc[s].bal)
  BY DEF Gains
<1>1. ~ResolvedAt(u, s)
  BY DEF Keeps, ResolvedAt
<1>2. AtMost(w.acc[s].bal, u.acc[s].bal) /\ AtMost(u.acc[s].bal, x.acc[s].bal)
  BY <1>1 DEF Gains
<1>. QED
  BY <1>2, WindowBallots, BallotOrder

LEMMA OpenUpToSame ==
  ASSUME NEW w \in Window, Shape(w), NEW seen, NEW last \in WindowSlot
  PROVE  \A s \in WindowSlot :
           LET a == OpenUpTo(w, seen, last).acc[s]
           IN  a.st = w.acc[s].st /\ a.bal = w.acc[s].bal /\ a.val = w.acc[s].val
<1>. DEFINE o == OpenUpTo(w, seen, last)
<1>1. \A s \in WindowSlot : \/ o.acc[s] = w.acc[s]
                            \/ /\ o.acc[s] = AwaitValue(FreshPromise(w, seen, s))
                               /\ s >= w.end
  <2>1. w.end \in Nat /\ WindowSlot \subseteq Nat
    BY WindowFields, SlotBound
  <2>. QED
    BY <2>1 DEF OpenUpTo, Window
<1>2. \A b : /\ AwaitValue(b).st = Unopened.st /\ AwaitValue(b).bal = Unopened.bal
             /\ AwaitValue(b).val = Unopened.val
  BY DEF AwaitValue, Unopened
<1>. HIDE DEF o
<1>3. \A s \in WindowSlot :
        o.acc[s].st = w.acc[s].st /\ o.acc[s].bal = w.acc[s].bal /\ o.acc[s].val = w.acc[s].val
  BY <1>1, <1>2 DEF Shape, EmptyAt
<1>. QED
  BY <1>3 DEF o

LEMMA UpdateGains ==
  ASSUME NEW w \in Window, NEW S \in SUBSET WindowSlot,
         NEW accs, accs = [s \in S |-> accs[s]],
         \A s \in S : IsResolved(accs[s]) \/ AtMost(w.acc[s].bal, accs[s].bal)
  PROVE  Gains(w, Update(w, accs))
<1>. DEFINE u == Update(w, accs)
<1>1. \A s \in WindowSlot : u.acc[s] = IF s \in S THEN accs[s] ELSE w.acc[s]
  <2>1. DOMAIN accs = S
    OBVIOUS
  <2>. QED
    BY <2>1 DEF Update, Window
<1>. HIDE DEF u
<1>2. Gains(w, u)
  BY <1>1 DEF Gains, ResolvedAt, AtMost
<1>. QED
  BY <1>2 DEF u

SameProposal(a, c) == a.st = c.st /\ a.bal = c.bal /\ a.val = c.val

\* A visit of the slots S leaves accs there, and elsewhere what was there.
Visited(w, u, S, accs) ==
  \A s \in WindowSlot : IF s \in S THEN u.acc[s] = accs[s]
                                    ELSE SameProposal(u.acc[s], w.acc[s])

LEMMA VisitHolds ==
  ASSUME NEW B, Ballots(B), NEW w, GoodWindow(w, B), Shape(w),
         NEW S \in SUBSET WindowSlot, NEW seen \in [S -> B], NEW last \in WindowSlot,
         NEW accs, accs = [s \in S |-> accs[s]]
  PROVE  Visited(w, Update(OpenUpTo(w, seen, last), accs), S, accs)
<1>. DEFINE o == OpenUpTo(w, seen, last)
            u == Update(o, accs)
<1>1. o \in Window /\ \A s \in WindowSlot : SameProposal(o.acc[s], w.acc[s])
  <2>1. w \in Window /\ GoodWindow(o, B)
    BY OpenUpToGood DEF GoodWindow
  <2>. QED
    BY <2>1, OpenUpToSame DEF GoodWindow, SameProposal
<1>. HIDE DEF o
<1>2. \A s \in WindowSlot : u.acc[s] = IF s \in S THEN accs[s] ELSE o.acc[s]
  <2>1. DOMAIN accs = S
    OBVIOUS
  <2>. QED
    BY <1>1, <2>1 DEF Update, Window
<1>. HIDE DEF u
<1>3. Visited(w, u, S, accs)
  BY <1>1, <1>2 DEF Visited
<1>. QED
  BY <1>3 DEF u, o

LEMMA VisitGains ==
  ASSUME NEW B, Ballots(B), NEW w, GoodWindow(w, B), Shape(w),
         NEW S \in SUBSET WindowSlot, NEW seen \in [S -> B], NEW last \in WindowSlot,
         NEW accs, accs = [s \in S |-> accs[s]],
         \A s \in S : IsResolved(accs[s]) \/ AtMost(w.acc[s].bal, accs[s].bal)
  PROVE  Gains(w, Update(OpenUpTo(w, seen, last), accs))
<1>. DEFINE u == Update(OpenUpTo(w, seen, last), accs)
<1>1. Visited(w, u, S, accs)
  BY VisitHolds
<1>. HIDE DEF u
<1>2. Gains(w, u)
  BY <1>1 DEF Visited, Gains, ResolvedAt, AtMost, SameProposal
<1>. QED
  BY <1>2 DEF u

LEMMA FillDecisionsGains ==
  ASSUME NEW B, Ballots(B), NEW w, GoodWindow(w, B), Shape(w)
  PROVE  Gains(w, FillDecisions(w))
<1>. DEFINE m == FirstUnresolved(w)
            o == OpenUpTo(w, <<>>, m)
<1>1. \A s \in WindowSlot : o.acc[s].bal = w.acc[s].bal
  BY OpenUpToSame, FirstUnresolvedIn DEF GoodWindow
<1>2. FillDecisions(w).acc = o.acc
  BY DEF FillDecisions, OpenUpTo, GoodWindow, Window
<1>. QED
  BY <1>1, <1>2 DEF Gains, AtMost
-----------------------------------------------------------------------------
(***************************************************************************)
(* The methods of an acceptor.                                             *)
(***************************************************************************)
LEMMA NoticeGains ==
  ASSUME NEW B, Ballots(B), NEW a, GoodAcceptor(a, B), NEW b \in B, NEW v
  PROVE  LET r == NoticeValue(a, b, v)
         IN  /\ IsResolved(r) \/ AtMost(a.bal, r.bal)
             /\ ~IsResolved(a) => AtMost(b, r.bal)
             /\ v = a.val => r.val = v
<1>1. a.bal \in BallotOption /\ b \in BallotOption
  BY DEF GoodAcceptor, Ballots
<1>2. \A c : AwaitQuorum(c, b, v).bal = b /\ AwaitQuorum(c, b, v).val = v
  BY DEF AwaitQuorum
<1>. QED
  BY <1>1, <1>2, BallotOrder DEF NoticeValue, AtMost

LEMMA AcceptGains ==
  ASSUME NEW B, Ballots(B), NEW a, GoodAcceptor(a, B), NEW b \in B, NEW v
  PROVE  LET r == ReceiveAccept(a, b, v)
         IN  /\ IsResolved(r) \/ AtMost(a.bal, r.bal)
             /\ ~IsResolved(a) => AtMost(b, r.bal)
<1>1. CASE IsResolved(a)
  BY <1>1 DEF ReceiveAccept
<1>2. CASE ~IsResolved(a)
  <2>. DEFINE c == [a EXCEPT !.promised = b]
  <2>1. GoodAcceptor(c, B) /\ c.bal = a.bal /\ ~IsResolved(c)
    BY <1>2 DEF GoodAcceptor, Acceptor, Ballots, IsResolved, HasValue
  <2>2. ReceiveAccept(a, b, v) = NoticeValue(c, b, v)
    BY <1>2 DEF ReceiveAccept
  <2>. HIDE DEF c
  <2>. QED
    BY <2>1, <2>2, NoticeGains
<1>. QED
  BY <1>1, <1>2

LEMMA CountGains ==
  ASSUME NEW B, NEW a, GoodAcceptor(a, B), NEW peer, NEW b
  PROVE  LET r == ReceiveAccepted(a, peer, b)
         IN  IsResolved(r) \/ AtMost(a.bal, r.bal)
BY DEF ReceiveAccepted, Resolved, IsResolved, AtMost, GoodAcceptor, Acceptor
-----------------------------------------------------------------------------
(***************************************************************************)
(* The handlers.                                                           *)
(***************************************************************************)
LEMMA PrepareGains ==
  ASSUME NEW B, Ballots(B), NEW b, NEW w, GoodWindow(w, B)
  PROVE  Gains(w, PrepareWindow(w, b))
<1>. DEFINE P == Reached(OpenSlots(w), PrepareStops(w, b))
            accs == [s \in P |-> ReceivePrepare(w.acc[s], b)]
<1>1. P \in SUBSET WindowSlot /\ w \in Window
  BY WindowRange DEF Reached, GoodWindow
<1>. HIDE DEF P
<1>2. \A s \in P : w.acc[s] \in Acceptor
  BY <1>1 DEF GoodWindow, GoodAcceptor
<1>3. accs = [s \in P |-> accs[s]] /\ \A s \in P : accs[s].bal = w.acc[s].bal
  BY <1>2 DEF ReceivePrepare, Acceptor
<1>. HIDE DEF accs
<1>4. Gains(w, Update(w, accs))
  BY <1>1, <1>3, UpdateGains DEF AtMost
<1>. QED
  BY <1>4 DEF PrepareWindow, P, accs

\* Everything a report holds is resolved in w, or held there at its ballot or above.
Noticed(w, report) ==
  \A s \in DOMAIN report : ResolvedAt(w, s) \/ AtMost(report[s].bal, w.acc[s].bal)

LEMMA NoticeReportGains ==
  ASSUME NEW B, Ballots(B), NEW w, GoodWindow(w, B), Logged(w),
         NEW report, GoodReport(report, B)
  PROVE  LET u == NoticeReport(w, report) IN Gains(w, u) /\ Noticed(u, report)
<1>. DEFINE N == {s \in DOMAIN report : ~ResolvedAt(w, s)}
            seen == [s \in N |-> report[s].bal]
            last == LastOf(w, N)
            o == OpenUpTo(w, seen, last)
            accs == [s \in N |-> NoticeValue(o.acc[s], report[s].bal, report[s].val)]
            u == NoticeReport(w, report)
<1>1. /\ N \in SUBSET WindowSlot
      /\ \A s \in N : report[s].bal \in B /\ ~ResolvedAt(w, s)
      /\ \A s \in DOMAIN report : s \in WindowSlot /\ (s \notin N => ResolvedAt(w, s))
  BY ReportSlots, SlotBound
<1>2. u = Update(o, accs)
  BY DEF NoticeReport, Opened
<1>3. Keeps(w, u)
  BY NoticeReportLogged
<1>. HIDE DEF N, u
<1>4. last \in WindowSlot /\ \A s \in N : s <= last
  BY <1>1, LastOfIn
<1>5. seen \in [N -> B]
  BY <1>1
<1>. HIDE DEF seen, last
<1>6. \A s \in N : /\ GoodAcceptor(o.acc[s], B) /\ ~IsResolved(o.acc[s])
                   /\ o.acc[s].bal = w.acc[s].bal
  BY <1>1, <1>4, <1>5, OpenedUnresolved, OpenUpToSame DEF Logged, GoodWindow
<1>7. \A s \in N : /\ IsResolved(accs[s]) \/ AtMost(w.acc[s].bal, accs[s].bal)
                   /\ AtMost(report[s].bal, accs[s].bal)
  BY <1>1, <1>6, NoticeGains
<1>8. accs = [s \in N |-> accs[s]]
  OBVIOUS
<1>. HIDE DEF accs
<1>9. Gains(w, u) /\ \A s \in N : u.acc[s] = accs[s]
  <2>1. \A s \in N : IsResolved(accs[s]) \/ AtMost(w.acc[s].bal, accs[s].bal)
    BY <1>7
  <2>2. Shape(w)
    BY DEF Logged
  <2>3. Gains(w, u)
    BY <1>1, <1>2, <1>4, <1>5, <1>8, <2>1, <2>2, VisitGains
  <2>4. \A s \in N : u.acc[s] = accs[s]
    <3>1. Visited(w, u, N, accs)
      BY <1>1, <1>2, <1>4, <1>5, <1>8, <2>2, VisitHolds
    <3>. QED
      BY <1>1, <3>1 DEF Visited
  <2>. QED
    BY <2>3, <2>4
<1>10. Noticed(u, report)
  BY <1>1, <1>3, <1>7, <1>9 DEF Noticed, Keeps, ResolvedAt
<1>. QED
  BY <1>9, <1>10 DEF u

\* No leader has proposed a value in the slots proposal() or drive_accept take.
LEMMA FreshHasNone ==
  ASSUME NEW B, NEW w, GoodWindow(w, B), Shape(w),
         NEW s \in WindowSlot, s >= NextSlot(w)
  PROVE  ~HasValue(w.acc[s])
<1>1. w.end \in Nat /\ s \in Nat
  BY WindowFields, SlotBound DEF GoodWindow
<1>2. CASE s >= w.end
  BY <1>2 DEF Shape, EmptyAt, Unopened, AwaitValue, HasValue
<1>3. CASE s = w.end - 1 /\ ~HasValue(w.acc[s])
  BY <1>3
<1>. QED
  BY <1>1, <1>2, <1>3 DEF NextSlot

\* u comes from w when a leader proposes with b in the slots F.
Proposes(w, u, F, b) ==
  \A s \in WindowSlot : IF s \in F THEN ~HasValue(w.acc[s]) /\ AtMost(b, u.acc[s].bal)
                                    ELSE SameProposal(u.acc[s], w.acc[s])

LEMMA ProposeGains ==
  ASSUME NEW B, Ballots(B), NEW b \in B, b # NoBallot, NEW w, GoodWindow(w, B),
         Logged(w), NEW values \in Seq(Value), FreshSlots(w, values) \subseteq Slot
  PROVE  LET u == ProposeWindow(w, b, values)
         IN  Gains(w, u) /\ Proposes(w, u, FreshSlots(w, values), b)
<1>. DEFINE F == FreshSlots(w, values)
            seen == Const(F, b)
            last == LastOf(w, F)
            o == OpenUpTo(w, seen, last)
            accs == [s \in F |-> NoticeValue(o.acc[s], b, values[s - NextSlot(w) + 1])]
            u == ProposeWindow(w, b, values)
<1>1. F \in SUBSET WindowSlot /\ \A s \in F : ~ResolvedAt(w, s) /\ ~HasValue(w.acc[s])
  <2>1. F \in SUBSET WindowSlot
    BY SlotBound
  <2>2. \A s \in F : s >= NextSlot(w)
    BY WindowRange DEF FreshSlots
  <2>. QED
    BY <2>1, <2>2, FreshUnresolved, FreshHasNone DEF Logged
<1>2. u = Update(o, accs)
  BY DEF ProposeWindow, Opened, Const
<1>. HIDE DEF F, u
<1>3. last \in WindowSlot /\ \A s \in F : s <= last
  BY <1>1, LastOfIn
<1>4. seen \in [F -> B]
  BY DEF Const
<1>. HIDE DEF seen, last
<1>5. \A s \in F : /\ GoodAcceptor(o.acc[s], B) /\ ~IsResolved(o.acc[s])
                   /\ o.acc[s].bal = w.acc[s].bal
  BY <1>1, <1>3, <1>4, OpenedUnresolved, OpenUpToSame DEF Logged, GoodWindow
<1>6. \A s \in F : /\ IsResolved(accs[s]) \/ AtMost(w.acc[s].bal, accs[s].bal)
                   /\ AtMost(b, accs[s].bal)
  BY <1>5, NoticeGains
<1>7. accs = [s \in F |-> accs[s]]
  OBVIOUS
<1>. HIDE DEF accs
<1>8. Gains(w, u)
  <2>1. \A s \in F : IsResolved(accs[s]) \/ AtMost(w.acc[s].bal, accs[s].bal)
    BY <1>6
  <2>2. Shape(w)
    BY DEF Logged
  <2>. QED
    BY <1>1, <1>2, <1>3, <1>4, <1>7, <2>1, <2>2, VisitGains
<1>9. Visited(w, u, F, accs)
  BY <1>1, <1>2, <1>3, <1>4, <1>7, VisitHolds DEF Logged
<1>10. Proposes(w, u, F, b)
  BY <1>1, <1>6, <1>9 DEF Visited, Proposes
<1>. QED
  BY <1>8, <1>10 DEF u, F

(***************************************************************************)
(* drive_accept proposes what the window holds, in every slot that is not  *)
(* resolved, and from then on holds a promise of its own ballot.           *)
(***************************************************************************)
Drives(w, d, b) ==
  \A s \in OpenSlots(d) :
    /\ ~ResolvedAt(w, s) /\ AtMost(b, d.acc[s].bal)
    /\ HasValue(w.acc[s]) => d.acc[s].val = w.acc[s].val

LEMMA DriveGains ==
  ASSUME NEW B, Ballots(B), NEW b \in B, b # NoBallot, NEW w, GoodWindow(w, B),
         Logged(w), Bounded(w), NEW queue \in Seq(Value),
         FreshSlots(w, queue) \subseteq Slot,
         DOMAIN DriveValues(DriveWindow(w, b, queue)) \subseteq Slot,
         NEW m, m.bal = b
  PROVE  LET d == DriveWindow(w, b, queue)
         IN  Gains(w, d) /\ Drives(w, d, b) /\ PromiseHeld(m, d)
<1>. DEFINE p == ProposeWindow(w, b, queue)
            O == OpenSlots(p)
            accs == [s \in O |-> NoticeValue(p.acc[s], b, p.acc[s].val)]
            d == DriveWindow(w, b, queue)
<1>1. /\ GoodWindow(p, B) /\ Logged(p) /\ Bounded(p) /\ Keeps(w, p)
      /\ Gains(w, p) /\ Proposes(w, p, FreshSlots(w, queue), b)
  BY ProposeWindowGood, ProposeLogged, ProposeRaises, ProposeGains
<1>2. GoodWindow(d, B) /\ Logged(d)
  BY DriveWindowGood, DriveLogged
<1>3. d = Update(p, accs)
  BY DEF DriveWindow
<1>. HIDE DEF p, d
<1>4. \A s \in O : /\ GoodAcceptor(p.acc[s], B) /\ ~IsResolved(p.acc[s])
                   /\ AtMost(p.acc[s].bal, p.acc[s].promised) /\ p.acc[s].val \in Value
  BY <1>1, WindowRange DEF GoodWindow, GoodAcceptor, Acceptor, OpenSlots, ResolvedAt, Bounded
<1>5. /\ O \in SUBSET WindowSlot /\ p \in Window /\ Shape(p)
      /\ p.min \in Nat /\ p.end \in Nat /\ p.min < p.end /\ p.min \in O
  <2>1. p.min \in Nat /\ p.end \in Nat /\ p.min < p.end
    BY <1>1, WindowFields DEF GoodWindow
  <2>. QED
    BY <1>1, <2>1, WindowRange DEF GoodWindow, Logged, OpenSlots, OpenRange
<1>6. \A s \in WindowSlot : s \in O \/ ResolvedAt(p, s) \/ EmptyAt(p, s)
  <2>1. \A s \in WindowSlot : s < p.min \/ s \in OpenRange(p) \/ EmptyAt(p, s)
    BY <1>5, SlotBound DEF OpenRange, EmptyAt
  <2>. QED
    BY <1>5, <2>1 DEF OpenSlots, Shape
<1>7. \A s \in WindowSlot : EmptyAt(p, s) => s \notin O
  BY <1>5, SlotBound DEF OpenSlots, OpenRange, EmptyAt
<1>. HIDE DEF O
<1>8. \A s \in O : /\ GoodAcceptor(accs[s], B) /\ ~IsResolved(accs[s])
                   /\ AtMost(p.acc[s].bal, accs[s].bal) /\ AtMost(b, accs[s].bal)
                   /\ AtMost(b, accs[s].promised) /\ accs[s].val = p.acc[s].val
  <2>1. \A s \in O : /\ GoodAcceptor(accs[s], B) /\ ~IsResolved(accs[s])
                     /\ AtMost(b, accs[s].promised)
    BY <1>4, NoticeValueGood, NoticeBounds
  <2>2. \A s \in O : /\ IsResolved(accs[s]) \/ AtMost(p.acc[s].bal, accs[s].bal)
                     /\ AtMost(b, accs[s].bal) /\ accs[s].val = p.acc[s].val
    BY <1>4, NoticeGains
  <2>. QED
    BY <2>1, <2>2
<1>9. accs = [s \in O |-> accs[s]]
  OBVIOUS
<1>. HIDE DEF accs
<1>10. /\ \A s \in O : AtMost(accs[s].promised, d.max)
       /\ d.end = p.end /\ d.max \in BallotOption
       /\ \A s \in WindowSlot : d.acc[s] = IF s \in O THEN accs[s] ELSE p.acc[s]
  <2>1. \A s \in O : accs[s].promised \in B
    BY <1>8 DEF GoodAcceptor
  <2>. QED
    BY <1>1, <1>3, <1>5, <1>9, <2>1, UpdateRaises
<1>11. d.min = p.min
  BY <1>3, <1>5 DEF Update, Window
<1>12. Gains(w, d)
  <2>1. Gains(p, d)
    BY <1>3, <1>5, <1>8, <1>9, UpdateGains
  <2>2. Keeps(p, d)
    BY <1>5, <1>10, <1>11 DEF Keeps, O, OpenSlots
  <2>. QED
    BY <1>1, <1>2, <2>1, <2>2, GainsTransitive
<1>13. Drives(w, d, b)
  <2>. SUFFICES ASSUME NEW s \in OpenSlots(d)
                PROVE  /\ ~ResolvedAt(w, s) /\ AtMost(b, d.acc[s].bal)
                       /\ HasValue(w.acc[s]) => d.acc[s].val = w.acc[s].val
    BY DEF Drives
  <2>1. s \in WindowSlot /\ ~ResolvedAt(d, s) /\ s \in OpenRange(p)
    BY <1>2, <1>10, <1>11, WindowRange DEF OpenSlots, OpenRange
  <2>2. s \in O
    BY <1>10, <2>1 DEF O, OpenSlots, ResolvedAt
  <2>3. ~ResolvedAt(w, s)
    BY <1>1, <2>1, <2>2 DEF O, OpenSlots, Keeps, ResolvedAt
  <2>4. HasValue(w.acc[s]) => p.acc[s].val = w.acc[s].val
    BY <1>1, <2>1 DEF Proposes, SameProposal
  <2>. QED
    BY <1>8, <1>10, <2>1, <2>2, <2>3, <2>4
<1>14. PromiseHeld(m, d)
  <2>1. AtMost(b, d.max)
    <3>1. /\ AtMost(b, accs[p.min].promised) /\ AtMost(accs[p.min].promised, d.max)
          /\ accs[p.min].promised \in BallotOption /\ b \in BallotOption
      BY <1>5, <1>8, <1>10 DEF GoodAcceptor, Ballots
    <3>. QED
      BY <1>10, <3>1, BallotOrder
  <2>2. ASSUME NEW s \in WindowSlot, ~ResolvedAt(d, s)
        PROVE  AtMost(b, PromisedAt(d, s))
    <3>1. CASE EmptyAt(p, s)
      BY <1>10, <2>1, <3>1 DEF PromisedAt, EmptyAt
    <3>2. CASE ~EmptyAt(p, s)
      <4>1. s \in O
        BY <1>6, <1>10, <2>2, <3>2 DEF ResolvedAt
      <4>. QED
        BY <1>8, <1>10, <3>2, <4>1 DEF PromisedAt, EmptyAt
    <3>. QED
      BY <3>1, <3>2
  <2>. QED
    BY <2>1, <2>2 DEF PromiseHeld
<1>. QED
  BY <1>12, <1>13, <1>14 DEF d

LEMMA AcceptWindowGains ==
  ASSUME NEW B, Ballots(B), NEW b \in B, b # NoBallot, NEW w, GoodWindow(w, B),
         Logged(w), NEW batch, GoodBatch(batch)
  PROVE  LET u == AcceptWindow(w, b, batch)
         IN  /\ Gains(w, u)
             /\ AcceptStops(w, b, batch) = {} =>
                  \A s \in DOMAIN batch : AtMost(b, u.acc[s].bal)
<1>. DEFINE stops == AcceptStops(w, b, batch)
            D == Reached(DOMAIN batch, stops)
            filled == {s \in stops : EmptyAt(w, s) /\ \A t \in stops : s <= t}
            last == LastOf(w, D \cup filled)
            seen == Const(D, b)
            o == OpenUpTo(w, seen, last)
            accs == [s \in D |-> ReceiveAccept(o.acc[s], b, batch[s])]
            u == AcceptWindow(w, b, batch)
<1>1. u = Update(o, accs)
  BY DEF AcceptWindow
<1>2. /\ D \in SUBSET WindowSlot /\ D \cup filled \in SUBSET WindowSlot
      /\ stops = {} => D = DOMAIN batch
  BY BatchSlots, SlotBound DEF Reached, AcceptStops
<1>3. \A s \in D : ~ResolvedAt(w, s)
  <2>1. \A s \in D : s \in Nat /\ s \in DOMAIN batch /\ \A t \in stops : s < t
    BY <1>2, SlotBound DEF Reached
  <2>2. \A s \in D : s \notin stops
    BY <2>1
  <2>. QED
    BY <2>1, <2>2 DEF AcceptStops
<1>. HIDE DEF stops, D, filled, u
<1>4. last \in WindowSlot /\ \A s \in D : s <= last
  BY <1>2, LastOfIn
<1>5. seen \in [D -> B]
  BY DEF Const
<1>. HIDE DEF last, seen
<1>6. \A s \in D : /\ GoodAcceptor(o.acc[s], B) /\ ~IsResolved(o.acc[s])
                   /\ o.acc[s].bal = w.acc[s].bal
  <2>1. Shape(w) /\ w \in Window
    BY DEF Logged, GoodWindow
  <2>2. \A s \in D : GoodAcceptor(o.acc[s], B) /\ ~IsResolved(o.acc[s])
    BY <1>2, <1>3, <1>4, <1>5, <2>1, OpenedUnresolved
  <2>3. \A s \in D : o.acc[s].bal = w.acc[s].bal
    BY <1>2, <1>4, <2>1, OpenUpToSame
  <2>. QED
    BY <2>2, <2>3
<1>7. \A s \in D : /\ IsResolved(accs[s]) \/ AtMost(w.acc[s].bal, accs[s].bal)
                   /\ AtMost(b, accs[s].bal)
  BY <1>6, AcceptGains
<1>8. accs = [s \in D |-> accs[s]]
  OBVIOUS
<1>. HIDE DEF accs
<1>9. Gains(w, u)
  <2>1. \A s \in D : IsResolved(accs[s]) \/ AtMost(w.acc[s].bal, accs[s].bal)
    BY <1>7
  <2>2. Shape(w)
    BY DEF Logged
  <2>. QED
    BY <1>1, <1>2, <1>4, <1>5, <1>8, <2>1, <2>2, VisitGains
<1>10. Visited(w, u, D, accs)
  BY <1>1, <1>2, <1>4, <1>5, <1>8, VisitHolds DEF Logged
<1>. QED
  BY <1>2, <1>7, <1>9, <1>10 DEF Visited, u, stops

LEMMA AcceptedGains ==
  ASSUME NEW B, Ballots(B), NEW b, NEW peer \in Node, NEW w, GoodWindow(w, B),
         Logged(w), NEW slots \in SUBSET Slot
  PROVE  Gains(w, AcceptedWindow(w, peer, b, slots))
<1>. DEFINE C == CountedSlots(w, slots)
            accs == [s \in C |-> ReceiveAccepted(w.acc[s], peer, b)]
            u == Update(w, accs)
            f == FillDecisions(u)
<1>1. AcceptedWindow(w, peer, b, slots) = f
  BY DEF AcceptedWindow
<1>2. w \in Window /\ w.min \in Nat /\ w.end \in Nat
  BY WindowFields DEF GoodWindow
<1>3. /\ C \in SUBSET WindowSlot /\ MaxSlot + 1 \notin C
      /\ \A s \in C : s < w.end /\ ~ResolvedAt(w, s)
  <2>1. C \subseteq slots /\ C \subseteq OpenSlots(w)
    BY DEF CountedSlots, Reached
  <2>2. \A s \in OpenSlots(w) : s < w.end /\ ~ResolvedAt(w, s)
    BY <1>2 DEF OpenSlots, OpenRange
  <2>. QED
    BY <2>1, <2>2, SlotBound
<1>. HIDE DEF C
<1>4. \A s \in C : /\ GoodAcceptor(accs[s], B)
                   /\ IsResolved(accs[s]) \/ AtMost(w.acc[s].bal, accs[s].bal)
  BY <1>3, ReceiveAcceptedGood, CountGains DEF GoodWindow
<1>5. accs = [s \in C |-> accs[s]]
  OBVIOUS
<1>. HIDE DEF accs
<1>6. GoodWindow(u, B) /\ Shape(u) /\ Gains(w, u)
  BY <1>2, <1>3, <1>4, <1>5, UpdateGood, UpdateLogged, UpdateGains DEF Logged
<1>. HIDE DEF u
<1>7. GoodWindow(f, B) /\ Keeps(u, f) /\ Gains(u, f)
  BY <1>6, FillDecisionsGood, FillDecisionsLogged, FillDecisionsGains
<1>. HIDE DEF f
<1>. QED
  BY <1>1, <1>6, <1>7, GainsTransitive

LEMMA ResolutionGains ==
  ASSUME NEW B, Ballots(B), NEW b \in B, b # NoBallot, NEW w, GoodWindow(w, B),
         Logged(w), NEW decisions, GoodBatch(decisions)
  PROVE  Gains(w, ResolutionWindow(w, b, decisions))
<1>. DEFINE L == {s \in DOMAIN decisions : ~ResolvedAt(w, s)}
            seen == Const(L, b)
            last == LastOf(w, L)
            o == OpenUpTo(w, seen, last)
            accs == [s \in L |-> Resolve(o.acc[s], b, decisions[s])]
            u == Update(o, accs)
            f == FillDecisions(u)
<1>1. /\ L \in SUBSET WindowSlot /\ MaxSlot + 1 \notin L
      /\ \A s \in L : decisions[s] \in Value /\ ~ResolvedAt(w, s)
  BY BatchSlots, SlotBound
<1>2. ResolutionWindow(w, b, decisions) = f
  BY DEF ResolutionWindow, Opened, Const
<1>. HIDE DEF L
<1>3. last \in WindowSlot /\ \A s \in L : s <= last
  BY <1>1, LastOfIn
<1>4. seen \in [L -> B]
  BY DEF Const
<1>. HIDE DEF last, seen
<1>5. GoodWindow(o, B) /\ \A s \in L : ~IsResolved(o.acc[s])
  BY <1>1, <1>3, <1>4, OpenUpToGood, OpenedUnresolved DEF Logged
<1>6. \A s \in L : GoodAcceptor(accs[s], B) /\ IsResolved(accs[s])
  <2>1. \A s \in L : accs[s] = Resolved(b, decisions[s])
    BY <1>5 DEF Resolve
  <2>. HIDE DEF accs
  <2>. QED
    BY <1>1, <2>1, ResolvedGood
<1>7. accs = [s \in L |-> accs[s]]
  OBVIOUS
<1>. HIDE DEF accs
<1>8. Shape(u) /\ Gains(w, u)
  <2>1. Shape(w)
    BY DEF Logged
  <2>2. Shape(u)
    BY <1>1, <1>3, <1>4, <1>7, <2>1, VisitLogged
  <2>3. Gains(w, u)
    BY <1>1, <1>3, <1>4, <1>6, <1>7, <2>1, VisitGains
  <2>. QED
    BY <2>2, <2>3
<1>9. GoodWindow(u, B)
  <2>. HIDE DEF o
  <2>. QED
    BY <1>1, <1>5, <1>6, <1>7, UpdateGood
<1>. HIDE DEF u
<1>10. GoodWindow(f, B) /\ Keeps(u, f) /\ Gains(u, f)
  BY <1>8, <1>9, FillDecisionsGood, FillDecisionsLogged, FillDecisionsGains
<1>. HIDE DEF f
<1>. QED
  BY <1>2, <1>8, <1>9, <1>10, GainsTransitive
-----------------------------------------------------------------------------
(***************************************************************************)
(* Every step.                                                             *)
(***************************************************************************)
Gained == \A k \in Node : Gains(window[k], window'[k])

LEMMA SetWindowGained ==
  ASSUME PInv, NEW n \in Node, NEW w, SetWindow(n, w), Gains(window[n], w)
  PROVE  Gained
BY GainsSelf DEF SetWindow, Gained, PInv, LInv, IInv

LEMMA PInvFacts ==
  ASSUME PInv
  PROVE  /\ LInv /\ IInv /\ Ballots(Issued(proposer))
         /\ \A n \in Node : /\ GoodWindow(window[n], Issued(proposer))
                            /\ Logged(window[n]) /\ Bounded(window[n])
                            /\ GoodProposer(n, proposer[n])
         /\ \A m \in msgs : m \in Message
BY IssuedBallots DEF PInv, LInv, IInv, GoodMessage

LEMMA LeadSlots ==
  ASSUME NEW v \in ClientValue, NEW w, NextSlot(w) \in Slot
  PROVE  /\ FreshSlots(w, <<v>>) = {NextSlot(w)} /\ FreshSlots(w, <<v>>) \subseteq Slot
         /\ <<v>> \in Seq(Value)
<1>1. NextSlot(w) \in Nat
  BY SlotBound
<1>2. <<v>> \in Seq(Value) /\ Len(<<v>>) = 1
  BY DEF Value
<1>. QED
  BY <1>1, <1>2 DEF FreshSlots

LEMMA LeadGains ==
  ASSUME PInv, NEW n \in Node, NEW v \in ClientValue, ProposeLead(n, v)
  PROVE  LET w == window[n]
             b == proposer[n].proposal
             u == ProposeWindow(w, b, <<v>>)
         IN  /\ SetWindow(n, u) /\ Gains(w, u) /\ Proposes(w, u, {NextSlot(w)}, b)
             /\ b \in Issued(proposer) /\ b # NoBallot
<1>. DEFINE p == proposer[n]
            w == window[n]
<1>1. p.proposal \in Issued(proposer) /\ p.proposal # NoBallot
  BY PInvFacts, OwnBallotIssued DEF ProposeLead, IsLeader, IsFollower
<1>2. SetWindow(n, ProposeWindow(w, p.proposal, <<v>>)) /\ NextSlot(w) \in Slot
  BY DEF ProposeLead
<1>3. /\ FreshSlots(w, <<v>>) = {NextSlot(w)} /\ FreshSlots(w, <<v>>) \subseteq Slot
      /\ <<v>> \in Seq(Value)
  BY <1>2, LeadSlots
<1>4. LET u == ProposeWindow(w, p.proposal, <<v>>)
      IN  Gains(w, u) /\ Proposes(w, u, FreshSlots(w, <<v>>), p.proposal)
  BY <1>1, <1>3, PInvFacts, ProposeGains
<1>. QED
  BY <1>1, <1>2, <1>3, <1>4

(***************************************************************************)
(* A promise that elects, and one that does not.                           *)
(***************************************************************************)
Elects(n, m) ==
  LET p == ReceivePromise(proposer[n], m.from, m.bal)
      w == NoticeReport(window[n], m.report)
      d == DriveWindow(w, p.highest, p.queue)
  IN  /\ m.type = "Promise" /\ Owner(m.bal) = n /\ IsCandidate(proposer[n])
      /\ Gains(window[n], w) /\ Keeps(window[n], w) /\ Noticed(w, m.report)
      /\ \/ /\ ~IsLeader(p) /\ proposer'[n] = p /\ SetWindow(n, w)
            /\ msgs' = msgs
         \/ /\ IsLeader(p) /\ proposer'[n] = TakeProposals(p) /\ SetWindow(n, d)
            /\ msgs' = msgs \cup {AcceptMsg(p.highest, DriveValues(d))}
            /\ Gains(window[n], d) /\ Keeps(window[n], d) /\ Keeps(w, d) /\ Gains(w, d)
            /\ Drives(w, d, p.highest)
            /\ \A a : a.bal = p.highest => PromiseHeld(a, d)

LEMMA OnPromiseElectsOrNot ==
  ASSUME PInv, NEW n \in Node, OnPromise(n)
  PROVE  \E m \in msgs : Elects(n, m) /\ \A k \in Node : k # n => proposer'[k] = proposer[k]
<1>1. PICK m \in msgs :
        LET p == ReceivePromise(proposer[n], m.from, m.bal)
            w == NoticeReport(window[n], m.report)
        IN  /\ m.type = "Promise" /\ Owner(m.bal) = n /\ IsCandidate(proposer[n])
            /\ \/ IsLeader(p) /\ DriveAccept(n, p, w)
               \/ /\ ~IsLeader(p) /\ SetProposer(n, p) /\ SetWindow(n, w)
                  /\ UNCHANGED msgs
  BY DEF OnPromise, HandlePromise
<1>. DEFINE p == ReceivePromise(proposer[n], m.from, m.bal)
            w == NoticeReport(window[n], m.report)
            B == Issued(proposer)
            d == DriveWindow(w, p.highest, p.queue)
<1>2. /\ Ballots(B) /\ GoodWindow(window[n], B) /\ Logged(window[n]) /\ Bounded(window[n])
      /\ GoodProposer(n, proposer[n]) /\ m.from \in Node /\ GoodReport(m.report, B)
      /\ proposer \in [Node -> Proposer]
  BY <1>1, PInvFacts, MessageFields DEF IInv, GoodMessage
<1>3. /\ GoodWindow(w, B) /\ Logged(w) /\ Bounded(w) /\ Keeps(window[n], w)
      /\ Gains(window[n], w) /\ Noticed(w, m.report)
  BY <1>2, NoticeReportGood, NoticeReportLogged, NoticeReportRaises, NoticeReportGains
<1>4. GoodProposer(n, p) /\ p.highest = proposer[n].highest
  BY <1>2, ReceivePromiseContinues
<1>. HIDE DEF p, w
<1>5. CASE ~IsLeader(p) /\ SetProposer(n, p) /\ SetWindow(n, w) /\ UNCHANGED msgs
  <2>1. Elects(n, m)
    BY <1>1, <1>2, <1>3, <1>5 DEF Elects, SetProposer, p, w
  <2>. QED
    BY <1>2, <1>5, <2>1 DEF SetProposer
<1>6. CASE IsLeader(p) /\ DriveAccept(n, p, w)
  <2>1. /\ FreshSlots(w, p.queue) \subseteq Slot /\ SetWindow(n, d)
        /\ DOMAIN DriveValues(d) \subseteq Slot /\ SetProposer(n, TakeProposals(p))
        /\ msgs' = msgs \cup {AcceptMsg(p.highest, DriveValues(d))}
    BY <1>6 DEF DriveAccept, Send
  <2>2. p.highest \in B /\ p.highest # NoBallot
    BY <1>4, <1>6, PInvFacts, OwnBallotIssued DEF IsLeader, IsFollower
  <2>3. p.queue \in Seq(Value)
    BY <1>4, QueueContinues
  <2>31. GoodWindow(d, B)
    BY <1>2, <1>3, <2>1, <2>2, <2>3, DriveWindowGood
  <2>32. Keeps(w, d)
    BY <1>2, <1>3, <2>1, <2>2, <2>3, DriveLogged
  <2>33. ASSUME NEW a, a.bal = p.highest
         PROVE  Gains(w, d) /\ Drives(w, d, p.highest) /\ PromiseHeld(a, d)
    <3>. DEFINE b == p.highest
                q == p.queue
    <3>1. /\ b \in B /\ b # NoBallot /\ q \in Seq(Value) /\ FreshSlots(w, q) \subseteq Slot
          /\ DOMAIN DriveValues(DriveWindow(w, b, q)) \subseteq Slot /\ a.bal = b
      BY <2>1, <2>2, <2>3, <2>33
    <3>. HIDE DEF b, q, B
    <3>. QED
      <4>1. LET e == DriveWindow(w, b, q)
            IN  Gains(w, e) /\ Drives(w, e, b) /\ PromiseHeld(a, e)
        BY <1>2, <1>3, <3>1, DriveGains
      <4>. QED
        BY <4>1 DEF b, q
  <2>34. Gains(w, d) /\ Drives(w, d, p.highest)
    <3>1. [bal |-> p.highest].bal = p.highest
      OBVIOUS
    <3>. QED
      BY <2>33, <3>1
  <2>4. /\ GoodWindow(d, B) /\ Keeps(w, d) /\ Gains(w, d) /\ Drives(w, d, p.highest)
        /\ \A a : a.bal = p.highest => PromiseHeld(a, d)
    <3>. HIDE DEF d
    <3>. QED
      BY <2>31, <2>32, <2>33, <2>34
  <2>. HIDE DEF d
  <2>5. Gains(window[n], d)
    BY <1>2, <1>3, <2>4, GainsTransitive
  <2>6. Keeps(window[n], d)
    BY <1>2, <1>3, <2>4, WindowFields, KeepsTransitive DEF GoodWindow
  <2>7. Elects(n, m)
    BY <1>1, <1>2, <1>3, <1>6, <2>1, <2>4, <2>5, <2>6 DEF Elects, SetProposer, p, w, d
  <2>. QED
    BY <1>2, <2>1, <2>7 DEF SetProposer
<1>. QED
  BY <1>1, <1>5, <1>6 DEF p, w

LEMMA BallotGained ==
  ASSUME PInv, NEW n \in Node,
         OnPrepare(n) \/ OnAccept(n) \/ OnAccepted(n) \/ OnResolution(n)
  PROVE  Gained
<1>. DEFINE w == window[n]
            B == Issued(proposer)
<1>1. IInv /\ Ballots(B) /\ GoodWindow(w, B) /\ Logged(w)
  BY PInvFacts
<1>2. CASE OnPrepare(n)
  <2>1. PICK m \in msgs : SetWindow(n, PrepareWindow(w, m.bal))
    BY <1>2 DEF OnPrepare, HandlePrepare
  <2>. QED
    BY <1>1, <2>1, PrepareGains, SetWindowGained
<1>3. CASE OnAccept(n)
  <2>1. PICK m \in msgs :
          m.type = "Accept" /\ SetWindow(n, AcceptWindow(w, m.bal, m.batch))
    BY <1>3 DEF OnAccept, HandleAccept
  <2>2. m.bal \in B /\ m.bal # NoBallot /\ GoodBatch(m.batch)
    BY <1>1, <2>1, PInvFacts, ReceivedBallot, MessageFields, BatchIsGood
  <2>3. Gains(w, AcceptWindow(w, m.bal, m.batch))
    BY <1>1, <2>2, AcceptWindowGains
  <2>. QED
    BY <2>1, <2>3, SetWindowGained
<1>4. CASE OnAccepted(n)
  <2>1. PICK m \in msgs :
          /\ m.type = "Accepted"
          /\ SetWindow(n, AcceptedWindow(w, m.from, m.bal, m.slots))
    BY <1>4 DEF OnAccepted, HandleAccepted
  <2>2. m.from \in Node /\ m.slots \in SUBSET Slot
    BY <2>1, PInvFacts, MessageFields
  <2>. QED
    BY <1>1, <2>1, <2>2, AcceptedGains, SetWindowGained
<1>5. CASE OnResolution(n)
  <2>1. PICK m \in msgs :
          /\ m.type = "Resolution"
          /\ SetWindow(n, ResolutionWindow(w, m.bal, m.decisions))
    BY <1>5 DEF OnResolution, HandleResolution
  <2>2. m.bal \in B /\ m.bal # NoBallot /\ GoodBatch(m.decisions)
    BY <1>1, <2>1, PInvFacts, ReceivedBallot, MessageFields, BatchIsGood
  <2>. QED
    BY <1>1, <2>1, <2>2, ResolutionGains, SetWindowGained
<1>. QED
  BY <1>2, <1>3, <1>4, <1>5

LEMMA NextGained == PInv /\ [Next]_vars => Gained
<1>. SUFFICES ASSUME PInv, [Next]_vars PROVE Gained
  OBVIOUS
<1>1. CASE UNCHANGED window
  BY <1>1, GainsSelf DEF Gained
<1>2. ASSUME NEW n \in Node, ClientProposal(n) \/ OnProposal(n) PROVE Gained
  <2>1. PICK v \in ClientValue : Propose(n, v)
    BY <1>2, MessageFields, PInvFacts DEF ClientProposal, OnProposal, HandleProposal
  <2>2. ProposeLead(n, v) \/ UNCHANGED window
    BY <2>1 DEF Propose, ProposeFirst, ProposeRedirect, ProposeQueue
  <2>. QED
    BY <1>1, <2>2, LeadGains, SetWindowGained
<1>3. ASSUME NEW n \in Node, ProposeLeadership(n) \/ OnReject(n) \/ OnCatchup(n)
      PROVE  Gained
  BY <1>1, <1>3 DEF ProposeLeadership, OnReject, HandleReject, OnCatchup, HandleCatchup
<1>4. ASSUME NEW n \in Node, OnPromise(n) PROVE Gained
  BY <1>4, OnPromiseElectsOrNot, SetWindowGained DEF Elects
<1>. QED
  BY <1>1, <1>2, <1>3, <1>4, BallotGained DEF Next, vars
-----------------------------------------------------------------------------
(***************************************************************************)
(* What a step does to the proposers, and the Accepts it sends.            *)
(***************************************************************************)
Stays(p, q) == q.st = p.st /\ q.proposal = p.proposal /\ q.promises = p.promises

Starts(n, p, q) == IsCandidate(q) /\ q.promises = {n} /\ Less(p.highest, q.proposal)

Goes(n) ==
  LET p == proposer[n]
      q == proposer'[n]
  IN  /\ AtMost(p.highest, q.highest)
      /\ \/ IsFollower(q) \/ Stays(p, q) \/ Starts(n, p, q)
         \/ \E m \in msgs : Elects(n, m)

AllGo == \A n \in Node : Goes(n)

NoAccepts == \A a \in msgs' \ msgs : a.type # "Accept"

\* A leader's heartbeat.
Beats(n) ==
  /\ IsLeader(proposer[n]) /\ UNCHANGED <<proposer, window>>
  /\ Send({AcceptMsg(proposer[n].proposal, NoValues)})

LEMMA Moves ==
  ASSUME IInv, NEW n \in Node, NEW p, SetProposer(n, p),
         AtMost(proposer[n].highest, p.highest),
         IsFollower(p) \/ Stays(proposer[n], p) \/ Starts(n, proposer[n], p)
  PROVE  AllGo
<1>1. proposer'[n] = p /\ \A k \in Node : k # n => proposer'[k] = proposer[k]
  BY DEF SetProposer, IInv
<1>2. Goes(n)
  BY <1>1 DEF Goes
<1>3. \A k \in Node : k # n => Goes(k)
  BY <1>1 DEF Goes, Stays, AtMost
<1>. QED
  BY <1>2, <1>3 DEF AllGo

LEMMA SameMoves ==
  ASSUME UNCHANGED proposer
  PROVE  AllGo
BY DEF AllGo, Goes, Stays, AtMost

LEMMA SendNone ==
  ASSUME NEW n, NEW to, NEW M, Send(M) \/ SendTo(n, to, M) \/ UNCHANGED msgs,
         \A m \in M : m.type # "Accept"
  PROVE  NoAccepts
BY Sending DEF NoAccepts

LEMMA ObserveStays ==
  ASSUME NEW n \in Node, NEW p \in Proposer, NEW b
  PROVE  LET q == Observe(p, b, n) IN IsFollower(q) \/ Stays(p, q)
BY DEF Observe, StepDown, Proposer, IsFollower, Stays

LEMMA PrepareStarts ==
  ASSUME NEW n \in Node, NEW p, GoodProposer(n, p)
  PROVE  Starts(n, p, Prepare(p, n))
<1>. DEFINE q == Prepare(p, n)
<1>1. /\ p.highest \in BallotOption /\ n \in Nat
      /\ q.st = "Candidate" /\ q.promises = {n} /\ q.proposal = NextBallot(p.highest, n)
  BY NodeAssumption DEF Prepare, GoodProposer, Proposer
<1>2. Less(p.highest, NextBallot(p.highest, n))
  BY <1>1, BallotPair DEF NextBallot, HigherFor, NoBallot, Less
<1>. HIDE DEF q
<1>. QED
  BY <1>1, <1>2 DEF Starts, IsCandidate, q

LEMMA CampaignMoves ==
  ASSUME IInv, NEW n \in Node, NEW p, GoodProposer(n, p),
         p.highest = proposer[n].highest, Campaign(n, p)
  PROVE  AllGo /\ NoAccepts
<1>. DEFINE q == Prepare(p, n)
            M == {[type |-> "Prepare", bal |-> q.highest]}
<1>1. SetProposer(n, q) /\ Send(M) /\ q.highest[1] <= MaxRound
  BY DEF Campaign
<1>2. Starts(n, p, q) /\ AtMost(p.highest, q.highest)
  BY <1>1, PrepareStarts, PrepareContinues
<1>3. \A m \in M : m.type # "Accept"
  OBVIOUS
<1>. HIDE DEF q, M
<1>4. AllGo
  BY <1>1, <1>2, Moves DEF Starts
<1>. QED
  BY <1>1, <1>3, <1>4, SendNone

LEMMA ProposeMoves ==
  ASSUME IInv, NEW n \in Node, NEW v \in ClientValue, Propose(n, v)
  PROVE  AllGo /\ (NoAccepts \/ ProposeLead(n, v))
<1>. DEFINE p == proposer[n]
<1>1. GoodProposer(n, p) /\ AtMost(p.highest, p.highest)
  BY DEF IInv, AtMost
<1>2. CASE ProposeFirst(n, v)
  <2>1. Campaign(n, PushProposal(p, v)) /\ Len(p.queue) < MaxQueue
    BY <1>2 DEF ProposeFirst
  <2>2. /\ GoodProposer(n, PushProposal(p, v))
        /\ PushProposal(p, v).highest = p.highest
    BY <1>1, <2>1, QueueContinues
  <2>. QED
    BY <2>1, <2>2, CampaignMoves
<1>3. CASE ProposeRedirect(n, v)
  <2>. DEFINE to == Owner(p.highest)
              M == {[type |-> "Proposal", to |-> to, val |-> v]}
  <2>1. SendTo(n, to, M) /\ UNCHANGED proposer
    BY <1>3 DEF ProposeRedirect
  <2>2. \A m \in M : m.type # "Accept"
    OBVIOUS
  <2>. HIDE DEF M, to
  <2>. QED
    BY <2>1, <2>2, SendNone, SameMoves
<1>4. CASE ProposeQueue(n, v)
  <2>1. SetProposer(n, PushProposal(p, v)) /\ UNCHANGED msgs
    BY <1>4 DEF ProposeQueue
  <2>2. Stays(p, PushProposal(p, v)) /\ PushProposal(p, v).highest = p.highest
    BY <1>1 DEF PushProposal, Stays, GoodProposer, Proposer
  <2>. QED
    BY <1>1, <2>1, <2>2, Moves DEF NoAccepts
<1>5. CASE ProposeLead(n, v)
  BY <1>5, SameMoves DEF ProposeLead
<1>. QED
  BY <1>2, <1>3, <1>4, <1>5 DEF Propose

LEMMA LeadershipMoves ==
  ASSUME IInv, NEW n \in Node, ProposeLeadership(n)
  PROVE  AllGo /\ (NoAccepts \/ Beats(n))
<1>. DEFINE p == proposer[n]
            M == {[type |-> "Prepare", bal |-> p.proposal]}
<1>1. \/ Campaign(n, p)
      \/ Send(M) /\ UNCHANGED proposer
      \/ Beats(n)
  BY DEF ProposeLeadership, Beats
<1>2. GoodProposer(n, p)
  BY DEF IInv
<1>3. \A m \in M : m.type # "Accept"
  OBVIOUS
<1>. HIDE DEF M
<1>. QED
  BY <1>1, <1>2, <1>3, CampaignMoves, SendNone, SameMoves DEF Beats

LEMMA RejectMoves ==
  ASSUME IInv, NEW n \in Node, OnReject(n)
  PROVE  AllGo /\ NoAccepts
<1>1. PICK m \in msgs : /\ m.type = "Reject"
                        /\ Forward(n, ReceiveReject(proposer[n], m.proposed, m.preempted, n))
  BY DEF OnReject, HandleReject
<1>. DEFINE p == ReceiveReject(proposer[n], m.proposed, m.preempted, n)
            q == TakeProposals(p)
            to == Owner(p.highest)
            M == {[type |-> "Proposal", to |-> to, val |-> v] :
                    v \in {p.queue[i] : i \in DOMAIN p.queue}}
<1>2. GoodProposer(n, proposer[n]) /\ proposer[n] \in Proposer /\ proposer[n].highest \in BallotOption
  BY DEF IInv, GoodProposer, Proposer
<1>3. IsFollower(p) \/ Stays(proposer[n], p)
  BY <1>2, ObserveStays DEF ReceiveReject, Stays
<1>4. AtMost(proposer[n].highest, p.highest)
  BY <1>2 DEF ReceiveReject, Observe, StepDown, Higher, AtMost, Proposer
<1>5. IsFollower(p) => IsFollower(q)
  BY DEF TakeProposals, IsFollower
<1>6. q.highest = p.highest
  BY <1>2 DEF TakeProposals, ReceiveReject, Observe, StepDown, Proposer
<1>7. \/ SetProposer(n, p) /\ UNCHANGED msgs
      \/ IsFollower(p) /\ SetProposer(n, q) /\ (SendTo(n, to, M) \/ UNCHANGED msgs)
  BY <1>1 DEF Forward
<1>8. \A a \in M : a.type # "Accept"
  OBVIOUS
<1>. HIDE DEF p, q, to, M
<1>9. AllGo
  BY <1>3, <1>4, <1>5, <1>6, <1>7, Moves
<1>. QED
  BY <1>7, <1>8, <1>9, SendNone

LEMMA BallotMoves ==
  ASSUME IInv, NEW n \in Node,
         OnPrepare(n) \/ OnAccept(n) \/ OnAccepted(n) \/ OnResolution(n)
  PROVE  AllGo /\ NoAccepts
<1>1. PICK m \in msgs :
        /\ m.type \in {"Prepare", "Accept", "Accepted", "Resolution"}
        /\ SetProposer(n, Observe(proposer[n], m.bal, n))
  BY DEF OnPrepare, HandlePrepare, OnAccept, HandleAccept, OnAccepted, HandleAccepted,
         OnResolution, HandleResolution
<1>. DEFINE p == Observe(proposer[n], m.bal, n)
<1>2. proposer[n] \in Proposer
  BY DEF IInv, GoodProposer
<1>3. AtMost(proposer[n].highest, p.highest)
  BY <1>1, ReceivedBallot DEF Continues
<1>4. IsFollower(p) \/ Stays(proposer[n], p)
  BY <1>2, ObserveStays
<1>. HIDE DEF p
<1>5. AllGo
  BY <1>1, <1>3, <1>4, Moves DEF p
<1>6. NoAccepts
  <2>1. CASE OnPrepare(n)
    BY <2>1, SendNone DEF OnPrepare, HandlePrepare, PrepareReply
  <2>2. CASE OnAccept(n)
    BY <2>2, SendNone DEF OnAccept, HandleAccept, AcceptReplies
  <2>3. CASE OnAccepted(n)
    <3>1. \/ \E b, d : Send({[type |-> "Resolution", to |-> Peers(n),
                              bal |-> b, decisions |-> d]})
          \/ UNCHANGED msgs
      BY <2>3 DEF OnAccepted, HandleAccepted
    <3>2. ASSUME NEW b, NEW d, Send({[type |-> "Resolution", to |-> Peers(n), bal |-> b,
                                      decisions |-> d]})
          PROVE  NoAccepts
      BY <3>2, SendNone
    <3>. QED
      BY <3>1, <3>2 DEF NoAccepts
  <2>4. CASE OnResolution(n)
    <3>1. \/ \E to, S : SendTo(n, to, {[type |-> "Catchup", to |-> to,
                                        from |-> n, slots |-> S]})
          \/ UNCHANGED msgs
      BY <2>4 DEF OnResolution, HandleResolution
    <3>2. ASSUME NEW to, NEW S,
                 SendTo(n, to, {[type |-> "Catchup", to |-> to, from |-> n, slots |-> S]})
          PROVE  NoAccepts
      BY <3>2, SendNone
    <3>. QED
      BY <3>1, <3>2 DEF NoAccepts
  <2>. QED
    BY <2>1, <2>2, <2>3, <2>4
<1>. QED
  BY <1>5, <1>6

LEMMA CatchupMoves ==
  ASSUME NEW n \in Node, OnCatchup(n)
  PROVE  AllGo /\ NoAccepts
<1>1. PICK M : /\ Send(M) /\ UNCHANGED proposer
               /\ \A k \in M : k.type = "Resolution"
  <2>1. PICK m \in msgs : HandleCatchup(n, m)
    BY DEF OnCatchup
  <2>. QED
    BY <2>1 DEF HandleCatchup
<1>. QED
  BY <1>1, SendNone, SameMoves

LEMMA PromiseMoves ==
  ASSUME PInv, NEW n \in Node, OnPromise(n)
  PROVE  AllGo /\ \E m \in msgs : Elects(n, m)
<1>1. PICK m \in msgs : Elects(n, m) /\ \A k \in Node : k # n => proposer'[k] = proposer[k]
  BY OnPromiseElectsOrNot
<1>. DEFINE p == ReceivePromise(proposer[n], m.from, m.bal)
<1>2. GoodProposer(n, proposer[n]) /\ m.from \in Node
  BY <1>1, PInvFacts, MessageFields DEF Elects
<1>3. GoodProposer(n, p) /\ p.highest = proposer[n].highest /\ TakeProposals(p).highest = p.highest
  BY <1>2, ReceivePromiseContinues, QueueContinues
<1>4. proposer'[n] = p \/ proposer'[n] = TakeProposals(p)
  BY <1>1 DEF Elects
<1>. HIDE DEF p
<1>5. proposer'[n].highest = proposer[n].highest
  BY <1>3, <1>4
<1>6. Goes(n)
  BY <1>1, <1>5 DEF Goes, AtMost
<1>7. \A k \in Node : k # n => Goes(k)
  BY <1>1 DEF Goes, Stays, AtMost
<1>. QED
  BY <1>1, <1>6, <1>7 DEF AllGo

\* A step of the proposers, and what it sends if it sends an Accept.
LEMMA NextMoves ==
  ASSUME PInv, [Next]_vars
  PROVE  /\ AllGo
         /\ NoAccepts \/ \E n \in Node : \/ Beats(n)
                                         \/ \E v \in ClientValue : ProposeLead(n, v)
                                         \/ \E m \in msgs : Elects(n, m)
<1>1. IInv
  BY PInvFacts
<1>2. CASE UNCHANGED vars
  BY <1>2, SameMoves DEF vars, NoAccepts
<1>3. ASSUME NEW n \in Node, ClientProposal(n) \/ OnProposal(n)
      PROVE  AllGo /\ (NoAccepts \/ \E v \in ClientValue : ProposeLead(n, v))
  <2>1. PICK v \in ClientValue : Propose(n, v)
    BY <1>3, MessageFields, PInvFacts DEF ClientProposal, OnProposal, HandleProposal
  <2>. QED
    BY <1>1, <2>1, ProposeMoves
<1>. QED
  BY <1>1, <1>2, <1>3, LeadershipMoves, PromiseMoves, RejectMoves, BallotMoves,
     CatchupMoves DEF Next
-----------------------------------------------------------------------------
(***************************************************************************)
(* A leader has sent an Accept of its ballot, a candidate has not: the     *)
(* drive that makes a candidate a leader sends the first one.              *)
(***************************************************************************)
Led(M, b) == \E a \in M : a.type = "Accept" /\ a.bal = b

LedBy(M, p) ==
  /\ IsLeader(p) => Led(M, p.proposal)
  /\ IsCandidate(p) => ~Led(M, p.proposal)

LeadInv == PInv /\ \A n \in Node : LedBy(msgs, proposer[n])

\* The node that sends the Accept a leads with its ballot.
Leading(a) ==
  LET p == proposer'[Owner(a.bal)]
  IN  /\ a.bal \in Ballot /\ Owner(a.bal) \in Node
      /\ IsLeader(p) /\ p.proposal = a.bal /\ p.highest = a.bal

\* q is p after a promise of peer for b.
Counted(p, q, peer, b) ==
  /\ q.proposal = p.proposal /\ q.highest = p.highest /\ ~IsFollower(q)
  /\ ~IsLeader(q) => \/ q.promises = p.promises
                     \/ b = p.proposal /\ q.promises = p.promises \cup {peer}
  /\ IsLeader(q) => b = p.proposal /\ EnoughPromises(p.promises \cup {peer})
  /\ TakeProposals(q).st = q.st
  /\ TakeProposals(q).proposal = q.proposal
  /\ TakeProposals(q).highest = q.highest

LEMMA CountedPromise ==
  ASSUME NEW n \in Node, NEW p, GoodProposer(n, p), IsCandidate(p), NEW peer, NEW b
  PROVE  Counted(p, ReceivePromise(p, peer, b), peer, b)
<1>. p \in Proposer
  BY DEF GoodProposer
<1>. QED
  BY DEF Counted, ReceivePromise, Count, TakeProposals, IsCandidate, IsLeader, IsFollower,
         Proposer

LEMMA NewAccept ==
  ASSUME PInv, [Next]_vars, NEW a \in msgs' \ msgs, a.type = "Accept"
  PROVE  /\ Leading(a) /\ msgs' = msgs \cup {a}
         /\ a.bal = proposer[Owner(a.bal)].proposal
         /\ LET n == Owner(a.bal)
                b == proposer[n].proposal
            IN  \/ Beats(n) /\ a = AcceptMsg(b, NoValues)
                \/ \E v \in ClientValue :
                     /\ ProposeLead(n, v)
                     /\ a = AcceptMsg(b, Const({NextSlot(window[n])}, v))
                \/ \E m \in msgs : Elects(n, m)
<1>1. PICK n \in Node : \/ Beats(n)
                        \/ \E v \in ClientValue : ProposeLead(n, v)
                        \/ \E m \in msgs : Elects(n, m)
  BY NextMoves DEF NoAccepts
<1>. DEFINE p == proposer[n]
<1>2. GoodProposer(n, p)
  BY PInvFacts
<1>3. ASSUME IsLeader(p), UNCHANGED proposer, a.bal = p.proposal
      PROVE  Leading(a) /\ Owner(a.bal) = n
  BY <1>2, <1>3, OwnBallot, StartedBallot DEF Leading, IsLeader, IsFollower
<1>4. CASE Beats(n)
  <2>1. /\ a = AcceptMsg(p.proposal, NoValues) /\ a.bal = p.proposal
        /\ msgs' = msgs \cup {a}
    BY <1>4 DEF Beats, Send, AcceptMsg
  <2>2. Leading(a) /\ Owner(a.bal) = n
    BY <1>3, <1>4, <2>1 DEF Beats
  <2>. QED
    BY <1>4, <2>1, <2>2
<1>5. ASSUME NEW v \in ClientValue, ProposeLead(n, v)
      PROVE  /\ Leading(a) /\ Owner(a.bal) = n /\ a.bal = p.proposal
             /\ msgs' = msgs \cup {a}
             /\ a = AcceptMsg(p.proposal, Const({NextSlot(window[n])}, v))
  <2>1. /\ a = AcceptMsg(p.proposal, Const({NextSlot(window[n])}, v))
        /\ IsLeader(p) /\ UNCHANGED proposer /\ msgs' = msgs \cup {a}
    BY <1>5 DEF ProposeLead, Send
  <2>2. a.bal = p.proposal
    BY <2>1 DEF AcceptMsg
  <2>. QED
    BY <1>3, <2>1, <2>2
<1>6. ASSUME NEW m \in msgs, Elects(n, m)
      PROVE  /\ Leading(a) /\ Owner(a.bal) = n /\ a.bal = p.proposal
             /\ msgs' = msgs \cup {a}
  <2>. DEFINE q == ReceivePromise(p, m.from, m.bal)
              t == TakeProposals(q)
  <2>1. /\ IsLeader(q) /\ proposer'[n] = t /\ a.bal = q.highest
        /\ IsCandidate(p) /\ m.type = "Promise" /\ msgs' = msgs \cup {a}
    BY <1>6 DEF Elects, AcceptMsg
  <2>2. m.from \in Node
    BY <2>1, PInvFacts, MessageFields
  <2>3. /\ q.proposal = p.proposal /\ q.highest = p.highest
        /\ t.st = q.st /\ t.proposal = q.proposal /\ t.highest = q.highest
    <3>1. Counted(p, q, m.from, m.bal)
      BY <1>2, <2>1, CountedPromise
    <3>. QED
      BY <3>1 DEF Counted
  <2>. HIDE DEF q, t
  <2>4. p.proposal = p.highest /\ Started(p.highest) /\ Owner(p.highest) = n
    BY <1>2, <2>1, OwnBallot DEF IsCandidate, IsFollower
  <2>. QED
    BY <2>1, <2>3, <2>4, StartedBallot DEF Leading, IsLeader
<1>. QED
  BY <1>1, <1>4, <1>5, <1>6

\* No command is unsent.
LEMMA NextGrows == [Next]_vars => msgs \subseteq msgs'
<1>. SUFFICES ASSUME NEW n \in Node,
                     \/ ClientProposal(n) \/ OnProposal(n) \/ ProposeLeadership(n)
                     \/ OnPrepare(n) \/ OnPromise(n)
                     \/ OnAccept(n) \/ OnReject(n) \/ OnAccepted(n)
                     \/ OnResolution(n) \/ OnCatchup(n)
              PROVE  msgs \subseteq msgs'
  BY DEF Next, vars
<1>1. \A M : Send(M) => msgs \subseteq msgs'
  BY DEF Send
<1>2. \A k, to, M : SendTo(k, to, M) => msgs \subseteq msgs'
  BY <1>1 DEF SendTo
<1>3. ASSUME NEW v, Propose(n, v) PROVE msgs \subseteq msgs'
  BY <1>1, <1>2, <1>3
  DEF Propose, ProposeFirst, Campaign, ProposeRedirect, ProposeQueue, ProposeLead
<1>4. CASE ClientProposal(n) \/ OnProposal(n)
  BY <1>3, <1>4 DEF ClientProposal, OnProposal, HandleProposal
<1>5. CASE ProposeLeadership(n)
  BY <1>1, <1>5 DEF ProposeLeadership, Campaign
<1>6. CASE OnPrepare(n) \/ OnAccept(n)
  BY <1>2, <1>6 DEF OnPrepare, HandlePrepare, OnAccept, HandleAccept
<1>7. CASE OnPromise(n)
  BY <1>1, <1>7 DEF OnPromise, HandlePromise, DriveAccept
<1>8. CASE OnReject(n)
  BY <1>2, <1>8 DEF OnReject, HandleReject, Forward
<1>9. CASE OnAccepted(n) \/ OnResolution(n)
  BY <1>1, <1>2, <1>9 DEF OnAccepted, HandleAccepted, OnResolution, HandleResolution
<1>10. CASE OnCatchup(n)
  BY <1>1, <1>10 DEF OnCatchup, HandleCatchup
<1>. QED
  BY <1>4, <1>5, <1>6, <1>7, <1>8, <1>9, <1>10

LEMMA NextLeadInv == LeadInv /\ [Next]_vars => LeadInv'
<1>. SUFFICES ASSUME LeadInv, [Next]_vars PROVE LeadInv'
  OBVIOUS
<1>1. PInv /\ PInv' /\ IInv' /\ AllGo /\ msgs \subseteq msgs'
  <2>1. PInv /\ PInv'
    BY NextPInv DEF LeadInv
  <2>2. msgs \subseteq msgs'
    BY <2>1, NextGrows
  <2>. QED
    BY <2>1, <2>2, NextMoves DEF PInv, LInv
<1>2. ASSUME NEW n \in Node, IsCandidate(proposer'[n]), Led(msgs', proposer'[n].proposal)
      PROVE  Led(msgs, proposer'[n].proposal)
  <2>1. PICK a \in msgs' : a.type = "Accept" /\ a.bal = proposer'[n].proposal
    BY <1>2 DEF Led
  <2>2. Owner(a.bal) = n
    BY <1>1, <1>2, <2>1 DEF IInv, GoodProposer, IsCandidate, IsFollower
  <2>3. a \in msgs
    BY <1>1, <1>2, <2>1, <2>2, NewAccept DEF Leading, IsLeader, IsCandidate
  <2>. QED
    BY <2>1, <2>3 DEF Led
<1>3. ASSUME NEW n \in Node
      PROVE  LedBy(msgs', proposer'[n])
  <2>. DEFINE p == proposer[n]
              q == proposer'[n]
  <2>1. LedBy(msgs, p) /\ GoodProposer(n, p) /\ GoodProposer(n, q)
    BY <1>1, PInvFacts DEF LeadInv, IInv
  <2>2. CASE IsFollower(q)
    BY <2>2 DEF LedBy, IsFollower, IsLeader, IsCandidate
  <2>3. CASE Stays(p, q)
    BY <1>1, <1>2, <2>1, <2>3 DEF LedBy, Stays, IsLeader, IsCandidate, Led
  <2>4. CASE Starts(n, p, q)
    <3>1. IsCandidate(q) /\ Less(p.highest, q.proposal)
      BY <2>4 DEF Starts
    <3>2. Owner(q.proposal) = n /\ p.highest \in BallotOption
      BY <2>1, <3>1 DEF GoodProposer, IsCandidate, IsFollower, Proposer
    <3>3. ~Led(msgs, q.proposal)
      <4>. SUFFICES ASSUME NEW a \in msgs, a.type = "Accept", a.bal = q.proposal
                    PROVE  FALSE
        BY DEF Led
      <4>1. AtMost(a.bal, p.highest) /\ a.bal \in BallotOption
        BY <1>1, <3>2, PInvFacts, ReceivedBallot, IssuedStarted DEF Started
      <4>. QED
        BY <3>1, <3>2, <4>1, BallotOrder
    <3>. QED
      BY <1>2, <3>1, <3>3 DEF LedBy, IsLeader, IsCandidate
  <2>5. ASSUME NEW m \in msgs, Elects(n, m)
        PROVE  LedBy(msgs', q)
    <3>. DEFINE r == ReceivePromise(p, m.from, m.bal)
                t == TakeProposals(r)
    <3>1. /\ IsCandidate(p) /\ m.type = "Promise"
          /\ \/ ~IsLeader(r) /\ q = r /\ msgs' = msgs
             \/ /\ IsLeader(r) /\ q = t
                /\ \E d : AcceptMsg(r.highest, d) \in msgs'
      BY <2>5 DEF Elects
    <3>2. m.from \in Node
      BY <1>1, <3>1, PInvFacts, MessageFields
    <3>3. /\ r.proposal = p.proposal /\ r.highest = p.highest /\ ~IsFollower(r)
          /\ t.st = r.st /\ t.proposal = r.proposal
      <4>1. Counted(p, r, m.from, m.bal)
        BY <2>1, <3>1, CountedPromise
      <4>. QED
        BY <4>1 DEF Counted
    <3>. HIDE DEF r, t
    <3>4. p.proposal = p.highest
      BY <2>1, <3>1 DEF GoodProposer, IsCandidate, IsFollower
    <3>5. CASE ~IsLeader(r) /\ q = r /\ msgs' = msgs
      BY <2>1, <3>1, <3>3, <3>5 DEF LedBy
    <3>6. CASE IsLeader(r) /\ q = t /\ \E d : AcceptMsg(r.highest, d) \in msgs'
      <4>1. Led(msgs', q.proposal) /\ IsLeader(q)
        BY <3>3, <3>4, <3>6 DEF Led, AcceptMsg, IsLeader
      <4>. QED
        BY <4>1 DEF LedBy, IsLeader, IsCandidate
    <3>. QED
      BY <3>1, <3>5, <3>6
  <2>. QED
    BY <1>1, <2>2, <2>3, <2>4, <2>5 DEF AllGo, Goes
<1>. QED
  BY <1>1, <1>3 DEF LeadInv
-----------------------------------------------------------------------------
(***************************************************************************)
(* A node is barred from the ballots below b once it has promised b, or    *)
(* leads with b: its window and its proposer both hold it to that.         *)
(***************************************************************************)
Barred(M, q, b) == q \in Promisers(M, b) \/ (q = Owner(b) /\ Led(M, b))

Holds(b, w, p) == PromiseHeld([bal |-> b], w) /\ AtMost(b, p.highest)

BarInv ==
  /\ LeadInv
  /\ \A q \in Node : \A b \in Ballot :
       Barred(msgs, q, b) => Holds(b, window[q], proposer[q])

LEMMA MoreBarred ==
  ASSUME NEW M, NEW N, M \subseteq N
  PROVE  \A q, b : Barred(M, q, b) => Barred(N, q, b)
BY DEF Barred, Promisers, Led

LEMMA HeldOnly ==
  ASSUME NEW m, NEW w, PromiseHeld(m, w)
  PROVE  PromiseHeld([bal |-> m.bal], w)
BY DEF PromiseHeld

LEMMA NewBar ==
  ASSUME LeadInv, [Next]_vars, NEW q \in Node, NEW b \in Ballot,
         Barred(msgs', q, b), ~Barred(msgs, q, b)
  PROVE  Holds(b, window'[q], proposer'[q])
<1>1. PInv /\ PInv' /\ IInv
  BY NextPInv DEF LeadInv, PInv, LInv
<1>2. CASE q \in Promisers(msgs', b)
  <2>1. PICK m \in msgs' \ msgs : m.type = "Promise" /\ m.bal = b /\ m.from = q
    BY <1>2 DEF Barred, Promisers
  <2>2. PICK k \in msgs : HandlePrepare(q, k) /\ k.bal = b
    BY <2>1, NewPromise
  <2>3. PromiseHeld([bal |-> b], window'[q])
    <3>1. PromiseHeld(m, window'[q])
      BY <1>1, <2>1 DEF PInv, PromiseHeld
    <3>. QED
      BY <2>1, <3>1, HeldOnly
  <2>4. proposer'[q] = Observe(proposer[q], b, q) /\ proposer[q] \in Proposer
    BY <1>1, <2>2 DEF HandlePrepare, SetProposer, IInv
  <2>5. AtMost(b, Observe(proposer[q], b, q).highest)
    <3>1. proposer[q].highest \in BallotOption /\ b \in BallotOption
      BY <2>4 DEF Proposer, BallotOption
    <3>2. AtMost(b, Higher(proposer[q].highest, b))
      BY <3>1, BallotOrder DEF Higher
    <3>. QED
      BY <2>4, <3>2 DEF Observe, StepDown, Proposer
  <2>. QED
    BY <2>3, <2>4, <2>5 DEF Holds
<1>3. CASE q = Owner(b) /\ Led(msgs', b)
  <2>1. PICK a \in msgs' \ msgs : a.type = "Accept" /\ a.bal = b
    BY <1>3 DEF Barred, Led
  <2>2. proposer'[q].highest = b /\ proposer'[q].proposal = b /\ IsLeader(proposer'[q])
    BY <1>1, <1>3, <2>1, NewAccept DEF Leading
  <2>3. \/ IsLeader(proposer[q]) /\ UNCHANGED proposer
        \/ \E m \in msgs : Elects(q, m)
    BY <1>1, <1>3, <2>1, NewAccept DEF Beats, ProposeLead
  <2>4. CASE IsLeader(proposer[q]) /\ UNCHANGED proposer
    <3>1. Led(msgs, b)
      BY <2>2, <2>4 DEF LeadInv, LedBy
    <3>. QED
      BY <1>3, <3>1 DEF Barred
  <2>5. ASSUME NEW m \in msgs, Elects(q, m)
        PROVE  PromiseHeld([bal |-> b], window'[q])
    <3>1. PICK d, h : /\ SetWindow(q, d) /\ AcceptMsg(h, DriveValues(d)) = a
                      /\ \A x : x.bal = h => PromiseHeld(x, d)
      BY <2>1, <2>5 DEF Elects
    <3>2. h = b /\ window'[q] = d
      BY <1>1, <2>1, <3>1 DEF AcceptMsg, SetWindow, IInv
    <3>. QED
      BY <3>1, <3>2
  <2>6. AtMost(b, proposer'[q].highest)
    BY <2>2 DEF AtMost
  <2>. QED
    BY <2>3, <2>4, <2>5, <2>6 DEF Holds
<1>. QED
  BY <1>2, <1>3 DEF Barred

LEMMA NextBarInv == BarInv /\ [Next]_vars => BarInv'
<1>. SUFFICES ASSUME BarInv, [Next]_vars PROVE BarInv'
  OBVIOUS
<1>1. LeadInv /\ LeadInv' /\ PInv /\ PInv' /\ IInv /\ IInv' /\ LInv
  BY NextLeadInv DEF BarInv, LeadInv, PInv, LInv
<1>2. ASSUME NEW q \in Node, NEW b \in Ballot, Barred(msgs, q, b)
      PROVE  Holds(b, window'[q], proposer'[q])
  <2>1. PromiseHeld([bal |-> b], window[q]) /\ AtMost(b, proposer[q].highest)
    BY <1>2 DEF BarInv, Holds
  <2>2. Keeps(window[q], window'[q]) /\ Climbs(window[q], window'[q])
    BY <1>1, NextHandled, NextClimbed DEF Handled, Climbed
  <2>3. /\ Ballots(Issued(proposer)) /\ Ballots(Issued(proposer'))
        /\ GoodWindow(window[q], Issued(proposer))
        /\ GoodWindow(window'[q], Issued(proposer'))
    BY <1>1 DEF IInv, Ballots, Issued, BallotOption
  <2>4. [bal |-> b].bal = b /\ b \in BallotOption
    BY DEF BallotOption
  <2>5. PromiseHeld([bal |-> b], window'[q])
    BY <2>1, <2>2, <2>3, <2>4, HeldLater
  <2>6. AtMost(proposer[q].highest, proposer'[q].highest)
    BY <1>1, NextMoves DEF AllGo, Goes
  <2>7. proposer[q].highest \in BallotOption /\ proposer'[q].highest \in BallotOption
    BY <1>1 DEF IInv, Proposer
  <2>8. AtMost(b, proposer'[q].highest)
    BY <2>1, <2>4, <2>6, <2>7, BallotOrder
  <2>. QED
    BY <2>5, <2>8 DEF Holds
<1>. QED
  BY <1>1, <1>2, NewBar DEF BarInv
-----------------------------------------------------------------------------
(***************************************************************************)
(* The votes for a ballot in a slot: those who sent an Accepted, and the   *)
(* leader, whose Accept proposes a value there.                            *)
(***************************************************************************)
Voted(M, q, c, s) ==
  q \in Accepters(M, c, s) \/ (q = Owner(c) /\ \E v : Proposed(M, c, s, v))

Kept(w, c, s) == ResolvedAt(w, s) \/ AtMost(c, w.acc[s].bal)

VoteInv ==
  /\ BarInv /\ CInv
  /\ \A q \in Node : \A c, s : Voted(msgs, q, c, s) => Kept(window[q], c, s)

LEMMA MoreVoted ==
  ASSUME NEW M, NEW N, M \subseteq N
  PROVE  /\ \A c, s, v : Proposed(M, c, s, v) => Proposed(N, c, s, v)
         /\ \A q, c, s : Voted(M, q, c, s) => Voted(N, q, c, s)
BY DEF Voted, Proposed, Accepters

LEMMA ProposedFacts ==
  ASSUME NEW M, \A m \in M : m \in Message, NEW c, NEW s, NEW v, Proposed(M, c, s, v)
  PROVE  c \in Ballot /\ s \in Slot /\ Owner(c) \in Node
<1>1. PICK a \in M : a.type = "Accept" /\ a.bal = c /\ s \in DOMAIN a.batch
  BY DEF Proposed
<1>2. a.bal \in Ballot /\ a.batch \in Batch
  BY <1>1, MessageFields
<1>. QED
  BY <1>1, <1>2, BatchIsGood, BatchSlots DEF Ballot, Owner

LEMMA VoteFacts ==
  ASSUME NEW M, \A m \in M : m \in Message /\ BackedMessage(M, m),
         NEW q, NEW c, NEW s, Voted(M, q, c, s)
  PROVE  c \in Ballot /\ s \in Slot /\ q \in Node /\ \E v : Proposed(M, c, s, v)
<1>1. CASE q \in Accepters(M, c, s)
  <2>1. PICK m \in M : m.type = "Accepted" /\ m.from = q /\ m.bal = c /\ s \in m.slots
    BY <1>1 DEF Accepters
  <2>2. \E v : Proposed(M, c, s, v)
    BY <2>1 DEF BackedMessage
  <2>. QED
    BY <2>1, <2>2, MessageFields, ProposedFacts
<1>2. CASE q = Owner(c) /\ \E v : Proposed(M, c, s, v)
  BY <1>2, ProposedFacts
<1>. QED
  BY <1>1, <1>2 DEF Voted

LEMMA KeptLater ==
  ASSUME NEW B, Ballots(B), NEW w, GoodWindow(w, B),
         NEW C, Ballots(C), NEW u, GoodWindow(u, C),
         Gains(w, u), Keeps(w, u), NEW c \in BallotOption, NEW s \in WindowSlot,
         Kept(w, c, s)
  PROVE  Kept(u, c, s)
<1>1. CASE ResolvedAt(w, s)
  BY <1>1 DEF Keeps, Kept, ResolvedAt
<1>2. CASE AtMost(c, w.acc[s].bal) /\ ~ResolvedAt(u, s)
  <2>1. AtMost(w.acc[s].bal, u.acc[s].bal)
    BY <1>2 DEF Gains
  <2>2. w.acc[s].bal \in BallotOption /\ u.acc[s].bal \in BallotOption
    BY WindowBallots
  <2>. QED
    BY <1>2, <2>1, <2>2, BallotOrder DEF Kept
<1>. QED
  BY <1>1, <1>2 DEF Kept

LEMMA NewAcceptance ==
  ASSUME BarInv, [Next]_vars, NEW m \in msgs' \ msgs, m.type = "Accepted",
         NEW s \in m.slots
  PROVE  /\ Kept(window'[m.from], m.bal, s)
         /\ \A b \in Ballot : Barred(msgs, m.from, b) => AtMost(b, m.bal)
<1>1. PInv /\ IInv
  BY DEF BarInv, LeadInv, PInv, LInv
<1>2. PICK n \in Node, k \in msgs :
        /\ HandleAccept(n, k) /\ AcceptStops(window[n], k.bal, k.batch) = {}
        /\ m.from = n /\ m.bal = k.bal /\ m.slots = DOMAIN k.batch
  BY NewAccepted
<1>. DEFINE w == window[n]
            u == AcceptWindow(w, k.bal, k.batch)
<1>3. k.type = "Accept" /\ window'[n] = u
  BY <1>1, <1>2 DEF HandleAccept, SetWindow, IInv
<1>4. /\ k.bal \in Issued(proposer) /\ k.bal # NoBallot /\ GoodBatch(k.batch)
      /\ Ballots(Issued(proposer)) /\ GoodWindow(w, Issued(proposer)) /\ Logged(w)
  BY <1>1, <1>3, PInvFacts, ReceivedBallot, MessageFields, BatchIsGood
<1>5. \A t \in DOMAIN k.batch : AtMost(k.bal, u.acc[t].bal)
  <2>. HIDE DEF w
  <2>. QED
    BY <1>2, <1>4, AcceptWindowGains DEF w
<1>. HIDE DEF u
<1>6. Kept(window'[m.from], m.bal, s)
  BY <1>2, <1>3, <1>5 DEF Kept
<1>7. ASSUME NEW b \in Ballot, Barred(msgs, n, b)
      PROVE  AtMost(b, m.bal)
  <2>1. PromiseHeld([bal |-> b], window[m.from])
    BY <1>2, <1>7 DEF BarInv, Holds
  <2>2. [bal |-> b].bal = b /\ b \in BallotOption
    BY DEF BallotOption
  <2>. QED
    BY <1>1, <2>1, <2>2, AcceptedHigh
<1>. QED
  BY <1>2, <1>6, <1>7

LEMMA NewProposal ==
  ASSUME BarInv, [Next]_vars, NEW a \in msgs' \ msgs, a.type = "Accept",
         NEW s \in DOMAIN a.batch
  PROVE  /\ Kept(window'[Owner(a.bal)], a.bal, s)
         /\ \A b \in Ballot : Barred(msgs, Owner(a.bal), b) => AtMost(b, a.bal)
<1>1. PInv /\ IInv /\ IInv'
  BY NextIInv DEF BarInv, LeadInv, PInv, LInv
<1>. DEFINE n == Owner(a.bal)
            p == proposer[n]
<1>2. Leading(a) /\ a.bal = p.proposal /\ n \in Node
  BY <1>1, NewAccept DEF Leading
<1>3. ASSUME NEW v \in ClientValue, ProposeLead(n, v),
             a = AcceptMsg(p.proposal, Const({NextSlot(window[n])}, v))
      PROVE  AtMost(a.bal, window'[n].acc[s].bal)
  <2>. DEFINE w == window[n]
              u == ProposeWindow(w, p.proposal, <<v>>)
  <2>1. SetWindow(n, u) /\ Proposes(w, u, {NextSlot(w)}, p.proposal)
    BY <1>1, <1>2, <1>3, LeadGains
  <2>. HIDE DEF u
  <2>2. s = NextSlot(w) /\ s \in Slot /\ window'[n] = u
    BY <1>1, <1>3, <2>1 DEF AcceptMsg, Const, ProposeLead, SetWindow, IInv
  <2>. QED
    BY <1>2, <2>1, <2>2, SlotBound DEF Proposes
<1>4. ASSUME NEW m \in msgs, Elects(n, m)
      PROVE  AtMost(a.bal, window'[n].acc[s].bal)
  <2>1. PICK w, d, h : SetWindow(n, d) /\ Drives(w, d, h) /\ a = AcceptMsg(h, DriveValues(d))
    BY <1>4 DEF Elects
  <2>. QED
    BY <1>1, <1>2, <2>1 DEF AcceptMsg, DriveValues, Drives, SetWindow, IInv
<1>5. ~(a = AcceptMsg(p.proposal, NoValues))
  BY DEF AcceptMsg, NoValues
<1>6. AtMost(a.bal, window'[n].acc[s].bal)
  BY <1>1, <1>3, <1>4, <1>5, NewAccept
<1>7. ASSUME NEW b \in Ballot, Barred(msgs, n, b)
      PROVE  AtMost(b, a.bal)
  <2>1. AtMost(b, p.highest) /\ AtMost(p.highest, proposer'[n].highest)
    BY <1>1, <1>2, <1>7, NextMoves DEF BarInv, Holds, AllGo, Goes
  <2>2. /\ proposer'[n].highest = a.bal
        /\ p.highest \in BallotOption /\ a.bal \in BallotOption /\ b \in BallotOption
    BY <1>1, <1>2 DEF Leading, IInv, Proposer, BallotOption
  <2>. QED
    BY <2>1, <2>2, BallotOrder
<1>. QED
  BY <1>6, <1>7 DEF Kept

LEMMA NewVote ==
  ASSUME BarInv, [Next]_vars, NEW q, NEW c, NEW s,
         Voted(msgs', q, c, s), ~Voted(msgs, q, c, s)
  PROVE  /\ Kept(window'[q], c, s)
         /\ \A b \in Ballot : Barred(msgs, q, b) => AtMost(b, c)
<1>1. CASE q \in Accepters(msgs', c, s)
  <2>1. PICK m \in msgs' \ msgs :
          m.type = "Accepted" /\ m.from = q /\ m.bal = c /\ s \in m.slots
    BY <1>1 DEF Voted, Accepters
  <2>. QED
    BY <2>1, NewAcceptance
<1>2. CASE q = Owner(c) /\ \E v : Proposed(msgs', c, s, v)
  <2>1. PICK a \in msgs' \ msgs : a.type = "Accept" /\ a.bal = c /\ s \in DOMAIN a.batch
    BY <1>2 DEF Voted, Proposed
  <2>. QED
    BY <1>2, <2>1, NewProposal
<1>. QED
  BY <1>1, <1>2 DEF Voted

LEMMA NextVoteInv == VoteInv /\ [Next]_vars => VoteInv'
<1>. SUFFICES ASSUME VoteInv, [Next]_vars PROVE VoteInv'
  OBVIOUS
<1>1. /\ BarInv /\ BarInv' /\ CInv /\ CInv' /\ PInv /\ LInv /\ IInv /\ IInv'
  BY NextBarInv, NextCInv, NextIInv DEF VoteInv, BarInv, LeadInv, PInv, LInv
<1>2. ASSUME NEW q \in Node, NEW c, NEW s, Voted(msgs, q, c, s)
      PROVE  Kept(window'[q], c, s)
  <2>1. c \in BallotOption /\ s \in WindowSlot
    BY <1>1, <1>2, CInvFacts, VoteFacts, SlotBound DEF BallotOption
  <2>2. /\ Kept(window[q], c, s) /\ Gains(window[q], window'[q])
        /\ Keeps(window[q], window'[q])
    BY <1>1, <1>2, NextGained, NextHandled DEF VoteInv, Gained, Handled
  <2>3. /\ Ballots(Issued(proposer)) /\ Ballots(Issued(proposer'))
        /\ GoodWindow(window[q], Issued(proposer))
        /\ GoodWindow(window'[q], Issued(proposer'))
    BY <1>1 DEF IInv, Ballots, Issued, BallotOption
  <2>. QED
    BY <2>1, <2>2, <2>3, KeptLater
<1>3. \A q \in Node : \A c, s : Voted(msgs', q, c, s) => Kept(window'[q], c, s)
  BY <1>1, <1>2, NewVote
<1>. QED
  BY <1>1, <1>3 DEF VoteInv

LEMMA InitVoteInv == Init => VoteInv
<1>. SUFFICES ASSUME Init PROVE VoteInv
  OBVIOUS
<1>1. PInv /\ CInv
  BY InitPInv, InitCInv
<1>2. LeadInv
  BY <1>1 DEF Init, LeadInv, LedBy, NewProposer, IsLeader, IsCandidate
<1>. QED
  BY <1>1, <1>2
  DEF Init, VoteInv, BarInv, Barred, Promisers, Led, Voted, Accepters, Proposed
-----------------------------------------------------------------------------
(***************************************************************************)
(* With one ballot a leader proposes one value per slot: its first Accept  *)
(* is the one that elects it, and it then only proposes in slots it has    *)
(* not proposed in.                                                        *)
(***************************************************************************)
OneInv == VoteInv /\ OneValuePerBallot

LEMMA OneProposal ==
  ASSUME OneValuePerBallot
  PROVE  \A c, s, u, v : Proposed(msgs, c, s, u) /\ Proposed(msgs, c, s, v) => u = v
BY DEF OneValuePerBallot, Sent, Proposed

LEMMA ProposesAgain ==
  ASSUME VoteInv, [Next]_vars, NEW a \in msgs' \ msgs, a.type = "Accept",
         NEW c \in msgs, c.type = "Accept", c.bal = a.bal
  PROVE  DOMAIN a.batch \cap DOMAIN c.batch = {}
<1>. SUFFICES ASSUME NEW s \in DOMAIN a.batch \cap DOMAIN c.batch PROVE FALSE
  OBVIOUS
<1>1. PInv /\ IInv /\ LeadInv /\ CInv
  BY DEF VoteInv, BarInv, LeadInv, PInv, LInv
<1>. DEFINE n == Owner(a.bal)
            b == proposer[n].proposal
            w == window[n]
<1>2. a.bal = b /\ n \in Node /\ b \in Ballot
  BY <1>1, NewAccept DEF Leading
<1>3. ASSUME NEW v \in ClientValue, ProposeLead(n, v),
             a = AcceptMsg(b, Const({NextSlot(w)}, v))
      PROVE  FALSE
  <2>1. LET u == ProposeWindow(w, b, <<v>>)
        IN  Proposes(w, u, {NextSlot(w)}, b)
    BY <1>1, <1>2, <1>3, LeadGains
  <2>2. s = NextSlot(w) /\ s \in WindowSlot
    <3>1. NextSlot(w) \in Slot /\ DOMAIN a.batch = {NextSlot(w)}
      BY <1>3 DEF AcceptMsg, Const, ProposeLead
    <3>. QED
      BY <3>1, SlotBound
  <2>3. ~HasValue(w.acc[s])
    BY <2>1, <2>2 DEF Proposes
  <2>4. Voted(msgs, n, b, s)
    BY <1>2 DEF Voted, Proposed
  <2>5. Kept(w, b, s) /\ GoodWindow(w, Issued(proposer))
    BY <1>1, <1>2, <2>4, CInvFacts DEF VoteInv
  <2>6. w.acc[s].bal = NoBallot /\ ~ResolvedAt(w, s)
    BY <2>2, <2>3, <2>5 DEF GoodWindow, GoodAcceptor, HasValue, ResolvedAt, IsResolved
  <2>7. AtMost(b, NoBallot)
    BY <2>5, <2>6 DEF Kept
  <2>. QED
    BY <1>2, <2>7, BallotOrder, NoBallotNotBallot DEF AtMost, Less, NoBallot, Ballot
<1>4. ASSUME NEW m \in msgs, Elects(n, m)
      PROVE  FALSE
  <2>1. ~Led(msgs, b)
    BY <1>1, <1>2, <1>4 DEF Elects, LeadInv, LedBy
  <2>. QED
    BY <1>2, <2>1 DEF Led
<1>5. ~(a = AcceptMsg(b, NoValues))
  BY DEF AcceptMsg, NoValues
<1>. QED
  BY <1>1, <1>3, <1>4, <1>5, NewAccept

LEMMA NextOneInv == OneInv /\ [Next]_vars => OneInv'
<1>. SUFFICES ASSUME OneInv, [Next]_vars PROVE OneInv'
  OBVIOUS
<1>1. VoteInv /\ VoteInv' /\ PInv
  BY NextVoteInv DEF OneInv, VoteInv, BarInv, LeadInv
<1>2. ASSUME NEW a \in msgs', NEW c \in msgs', a.type = "Accept", c.type = "Accept",
             a.bal = c.bal, NEW s \in DOMAIN a.batch \cap DOMAIN c.batch
      PROVE  a.batch[s] = c.batch[s]
  <2>1. CASE a \in msgs /\ c \in msgs
    BY <1>2, <2>1 DEF OneInv, OneValuePerBallot, Sent
  <2>2. CASE a \notin msgs /\ c \in msgs
    BY <1>1, <1>2, <2>2, ProposesAgain
  <2>3. CASE a \in msgs /\ c \notin msgs
    BY <1>1, <1>2, <2>3, ProposesAgain
  <2>4. CASE a \notin msgs /\ c \notin msgs
    <3>1. msgs' = msgs \cup {a}
      BY <1>1, <1>2, <2>4, NewAccept
    <3>. QED
      BY <2>4, <3>1
  <2>. QED
    BY <2>1, <2>2, <2>3, <2>4
<1>. QED
  BY <1>1, <1>2 DEF OneInv, OneValuePerBallot, Sent

(***************************************************************************)
(* Two Accepts of one ballot propose the same value in a slot, whether the *)
(* leader drives again, proposes, or repeats itself as a heartbeat.        *)
(***************************************************************************)
THEOREM LeadersAreConsistent == Spec => []OneValuePerBallot
<1>1. Init => OneInv
  BY InitVoteInv DEF Init, OneInv, OneValuePerBallot, Sent
<1>2. OneInv => OneValuePerBallot
  BY DEF OneInv
<1>. QED
  BY <1>1, <1>2, NextOneInv, PTL DEF Spec
-----------------------------------------------------------------------------
(***************************************************************************)
(* What a promise remembers: every lower vote of its sender, in the slots  *)
(* it does not omit, is in its report, at that ballot or a higher one or   *)
(* at one that was chosen.                                                 *)
(***************************************************************************)
Remembers(M, p) ==
  \A c, s :
    s >= p.omitted /\ Less(c, p.bal) /\ Voted(M, p.from, c, s) =>
      /\ s \in DOMAIN p.report
      /\ AtMost(c, p.report[s].bal) \/ Chosen(M, p.report[s].bal, s)

RememberInv == OneInv /\ \A p \in msgs : p.type = "Promise" => Remembers(msgs, p)

LEMMA ReportRemembers ==
  ASSUME NEW B, Ballots(B), NEW w, GoodWindow(w, B), Logged(w),
         NEW M, BackedWindow(M, w), NEW c \in Ballot, NEW s \in WindowSlot,
         s >= w.min, Kept(w, c, s)
  PROVE  /\ s \in DOMAIN Report(w)
         /\ AtMost(c, Report(w)[s].bal) \/ Chosen(M, Report(w)[s].bal, s)
<1>. DEFINE a == w.acc[s]
<1>1. HasValue(a)
  <2>1. CASE ResolvedAt(w, s)
    BY <2>1 DEF ResolvedAt, IsResolved, HasValue
  <2>2. CASE AtMost(c, a.bal)
    <3>1. a.bal # NoBallot
      BY <2>2, BallotPair DEF AtMost, Less, NoBallot, Ballot, BallotOption
    <3>. QED
      BY <3>1 DEF GoodWindow, GoodAcceptor
  <2>. QED
    BY <2>1, <2>2 DEF Kept
<1>2. s < w.end
  BY <1>1, WindowFields, SlotBound
  DEF Logged, Shape, EmptyAt, Unopened, AwaitValue, HasValue, GoodWindow
<1>3. s \in OpenRange(w)
  BY <1>2, WindowFields, SlotBound DEF OpenRange, GoodWindow
<1>4. s \in DOMAIN Report(w) /\ Report(w)[s].bal = a.bal
  BY <1>1, <1>3 DEF Report
<1>5. ResolvedAt(w, s) => Chosen(M, a.bal, s)
  BY DEF BackedWindow, Backed, ResolvedAt
<1>. QED
  BY <1>4, <1>5 DEF Kept

LEMMA NextRememberInv == RememberInv /\ [Next]_vars => RememberInv'
<1>. SUFFICES ASSUME RememberInv, [Next]_vars PROVE RememberInv'
  OBVIOUS
<1>1. OneInv /\ OneInv' /\ VoteInv /\ VoteInv' /\ BarInv /\ CInv /\ CInv' /\ IInv
  BY NextOneInv DEF RememberInv, OneInv, VoteInv, CInv, LInv
<1>2. /\ msgs \subseteq msgs' /\ \A m \in msgs' : m \in Message /\ BackedMessage(msgs', m)
      /\ \A m \in msgs : m \in Message
  BY <1>1, NextGrows DEF CInv, LInv, IInv, GoodMessage
<1>3. ASSUME NEW p \in msgs, p.type = "Promise"
      PROVE  Remembers(msgs', p)
  <2>. SUFFICES ASSUME NEW c, NEW s, s >= p.omitted, Less(c, p.bal),
                       Voted(msgs', p.from, c, s)
                PROVE  /\ s \in DOMAIN p.report
                       /\ AtMost(c, p.report[s].bal) \/ Chosen(msgs', p.report[s].bal, s)
    BY DEF Remembers
  <2>1. c \in BallotOption /\ p.bal \in Ballot /\ p.bal \in BallotOption
    BY <1>2, <1>3, VoteFacts, MessageFields DEF BallotOption
  <2>2. Barred(msgs, p.from, p.bal)
    BY <1>3 DEF Barred, Promisers
  <2>3. Voted(msgs, p.from, c, s)
    BY <1>1, <2>1, <2>2, NewVote, BallotOrder
  <2>4. /\ s \in DOMAIN p.report
        /\ AtMost(c, p.report[s].bal) \/ Chosen(msgs, p.report[s].bal, s)
    BY <1>3, <2>3 DEF RememberInv, Remembers
  <2>. QED
    BY <1>2, <2>4, QuorumsGrow
<1>4. ASSUME NEW p \in msgs' \ msgs, p.type = "Promise"
      PROVE  Remembers(msgs', p)
  <2>1. PICK n \in Node, k \in msgs :
          /\ HandlePrepare(n, k) /\ PrepareStops(window[n], k.bal) = {}
          /\ p = PrepareReply(n, window[n], k.bal) /\ p.from = n /\ p.bal = k.bal
    BY <1>4, NewPromise
  <2>. DEFINE u == PrepareWindow(window[n], k.bal)
  <2>2. p.report = Report(u) /\ p.omitted = u.min
    BY <2>1 DEF PrepareReply
  <2>3. window'[n] = u
    BY <1>1, <2>1 DEF HandlePrepare, SetWindow, IInv
  <2>. HIDE DEF u
  <2>4. /\ Ballots(Issued(proposer')) /\ GoodWindow(u, Issued(proposer'))
        /\ Logged(u) /\ BackedWindow(msgs', u)
    BY <1>1, <2>3 DEF CInv, LInv, IInv, Ballots, Issued, BallotOption
  <2>5. ASSUME NEW c, NEW s, s >= p.omitted, Voted(msgs', p.from, c, s)
        PROVE  /\ s \in DOMAIN p.report
               /\ AtMost(c, p.report[s].bal) \/ Chosen(msgs', p.report[s].bal, s)
    <3>1. c \in Ballot /\ s \in WindowSlot
      BY <1>2, <2>5, VoteFacts, SlotBound
    <3>2. Kept(u, c, s)
      BY <1>1, <2>1, <2>3, <2>5 DEF VoteInv
    <3>. QED
      BY <2>2, <2>4, <2>5, <3>1, <3>2, ReportRemembers
  <2>. QED
    BY <2>5 DEF Remembers
<1>. QED
  BY <1>1, <1>3, <1>4 DEF RememberInv
-----------------------------------------------------------------------------
(***************************************************************************)
(* Whom a node has heard, for its ballot b and in its window w: itself,    *)
(* and those whose promise of b reports nothing w has not taken note of.   *)
(***************************************************************************)
Heard(M, n, w, b, q) ==
  \/ q = n
  \/ \E p \in M : /\ p.type = "Promise" /\ p.from = q /\ p.bal = b
                  /\ Noticed(w, p.report)

HeardByQuorum(M, n, w, b) ==
  \E Q \in SUBSET Node :
    Cardinality(Q) >= QuorumSize /\ \A q \in Q : Heard(M, n, w, b, q)

Hears(M, n, w, p) ==
  /\ IsCandidate(p) => \A q \in p.promises : Heard(M, n, w, p.proposal, q)
  /\ IsLeader(p) => HeardByQuorum(M, n, w, p.proposal)

HearInv == RememberInv /\ \A n \in Node : Hears(msgs, n, window[n], proposer[n])

LEMMA NoticedLater ==
  ASSUME NEW B, Ballots(B), NEW w, GoodWindow(w, B),
         NEW C, Ballots(C), NEW u, GoodWindow(u, C), Gains(w, u), Keeps(w, u),
         NEW D, Ballots(D), NEW report, GoodReport(report, D), Noticed(w, report)
  PROVE  Noticed(u, report)
<1>. SUFFICES ASSUME NEW s \in DOMAIN report, ~ResolvedAt(u, s)
              PROVE  AtMost(report[s].bal, u.acc[s].bal)
  BY DEF Noticed
<1>1. s \in WindowSlot /\ report[s].bal \in BallotOption
  BY ReportSlots, SlotBound DEF Ballots
<1>2. ~ResolvedAt(w, s)
  BY <1>1 DEF Keeps, ResolvedAt
<1>3. AtMost(report[s].bal, w.acc[s].bal) /\ AtMost(w.acc[s].bal, u.acc[s].bal)
  BY <1>1, <1>2 DEF Noticed, Gains
<1>4. w.acc[s].bal \in BallotOption /\ u.acc[s].bal \in BallotOption
  BY <1>1, WindowBallots
<1>. QED
  BY <1>1, <1>3, <1>4, BallotOrder

LEMMA StillHeard ==
  ASSUME NEW B, Ballots(B), NEW w, GoodWindow(w, B),
         NEW C, Ballots(C), NEW u, GoodWindow(u, C), Gains(w, u), Keeps(w, u),
         NEW D, Ballots(D), NEW M, NEW N, M \subseteq N,
         \A m \in M : m.type = "Promise" => GoodReport(m.report, D)
  PROVE  \A n, b, q : Heard(M, n, w, b, q) => Heard(N, n, u, b, q)
<1>. SUFFICES ASSUME NEW n, NEW b, NEW q, NEW p \in M,
                     p.type = "Promise", p.from = q, p.bal = b, Noticed(w, p.report)
              PROVE  Heard(N, n, u, b, q)
  BY DEF Heard
<1>1. Noticed(u, p.report)
  BY NoticedLater
<1>. QED
  BY <1>1 DEF Heard

\* The window a promise leaves, before a drive.
LEMMA NoticedWindow ==
  ASSUME CInv, NEW n \in Node, NEW m \in msgs, m.type = "Promise"
  PROVE  LET w == NoticeReport(window[n], m.report)
         IN  GoodWindow(w, Issued(proposer)) /\ BackedWindow(msgs, w)
<1>. DEFINE B == Issued(proposer)
<1>1. /\ Ballots(B) /\ GoodWindow(window[n], B) /\ BackedWindow(msgs, window[n])
      /\ GoodReport(m.report, B)
      /\ \A s \in DOMAIN m.report : Proposed(msgs, m.report[s].bal, s, m.report[s].val)
  BY CInvFacts DEF IInv, GoodMessage, BackedMessage
<1>. HIDE DEF B
<1>. QED
  BY <1>1, NoticeReportGood, NoticeReportBacked DEF B

\* Those a candidate has heard once it has counted the promise m.
LEMMA HeardToo ==
  ASSUME HearInv, NEW n \in Node, NEW m \in msgs, Elects(n, m)
  PROVE  LET p == proposer[n]
             w == NoticeReport(window[n], m.report)
             q == ReceivePromise(p, m.from, m.bal)
         IN  /\ \A k \in p.promises : Heard(msgs, n, w, p.proposal, k)
             /\ m.bal = p.proposal => Heard(msgs, n, w, p.proposal, m.from)
             /\ ~IsLeader(q) => \A k \in q.promises : Heard(msgs, n, w, p.proposal, k)
             /\ IsLeader(q) => HeardByQuorum(msgs, n, w, p.proposal)
<1>. DEFINE B == Issued(proposer)
            p == proposer[n]
            w == NoticeReport(window[n], m.report)
            q == ReceivePromise(p, m.from, m.bal)
<1>1. CInv /\ IInv /\ p \in Proposer /\ GoodProposer(n, p) /\ m.from \in Node
  BY CInvFacts, MessageFields
  DEF HearInv, RememberInv, OneInv, VoteInv, Elects, IInv, GoodProposer
<1>2. /\ m.type = "Promise" /\ IsCandidate(p) /\ Gains(window[n], w)
      /\ Keeps(window[n], w) /\ Noticed(w, m.report)
  BY DEF Elects
<1>3. GoodWindow(w, B)
  BY <1>1, <1>2, NoticedWindow
<1>4. Counted(p, q, m.from, m.bal)
  BY <1>1, <1>2, CountedPromise
<1>5. /\ Ballots(B) /\ GoodWindow(window[n], B)
      /\ \A k \in msgs : k.type = "Promise" => GoodReport(k.report, B)
  BY <1>1, CInvFacts DEF IInv, GoodMessage
<1>. HIDE DEF w, q, B
<1>6. \A k \in p.promises : Heard(msgs, n, w, p.proposal, k)
  <2>1. \A k \in p.promises : Heard(msgs, n, window[n], p.proposal, k)
    BY <1>2 DEF HearInv, Hears
  <2>2. \A k : Heard(msgs, n, window[n], p.proposal, k) => Heard(msgs, n, w, p.proposal, k)
    BY <1>2, <1>3, <1>5, StillHeard
  <2>. QED
    BY <2>1, <2>2
<1>7. m.bal = p.proposal => Heard(msgs, n, w, p.proposal, m.from)
  BY <1>2 DEF Heard
<1>8. ~IsLeader(q) => \A k \in q.promises : Heard(msgs, n, w, p.proposal, k)
  BY <1>4, <1>6, <1>7 DEF Counted
<1>9. IsLeader(q) => HeardByQuorum(msgs, n, w, p.proposal)
  <2>1. p.promises \cup {m.from} \in SUBSET Node
    BY <1>1 DEF Proposer
  <2>. QED
    BY <1>4, <1>6, <1>7, <2>1 DEF Counted, HeardByQuorum, EnoughPromises
<1>. QED
  BY <1>6, <1>7, <1>8, <1>9 DEF w, q

LEMMA QuorumStillHeard ==
  ASSUME NEW M, NEW N, NEW w, NEW u,
         \A n, b, q : Heard(M, n, w, b, q) => Heard(N, n, u, b, q)
  PROVE  \A n, b : HeardByQuorum(M, n, w, b) => HeardByQuorum(N, n, u, b)
BY DEF HeardByQuorum

LEMMA NextHearInv == HearInv /\ [Next]_vars => HearInv'
<1>. SUFFICES ASSUME HearInv, [Next]_vars PROVE HearInv'
  OBVIOUS
<1>1. /\ RememberInv /\ RememberInv' /\ PInv /\ CInv /\ IInv /\ IInv'
      /\ AllGo /\ Gained /\ msgs \subseteq msgs'
  <2>1. RememberInv /\ RememberInv'
    BY NextRememberInv DEF HearInv
  <2>2. PInv /\ CInv /\ IInv /\ IInv'
    BY <2>1, NextIInv DEF RememberInv, OneInv, VoteInv, BarInv, LeadInv, PInv, LInv
  <2>. QED
    BY <2>1, <2>2, NextMoves, NextGained, NextGrows
<1>2. ASSUME NEW n \in Node
      PROVE  Hears(msgs', n, window'[n], proposer'[n])
  <2>. DEFINE B == Issued(proposer)
              C == Issued(proposer')
              p == proposer[n]
              r == proposer'[n]
              u == window'[n]
  <2>1. /\ Ballots(B) /\ Ballots(C) /\ GoodWindow(window[n], B) /\ GoodWindow(u, C)
        /\ \A k \in msgs : k.type = "Promise" => GoodReport(k.report, B)
    BY <1>1 DEF IInv, GoodMessage, Ballots, Issued, BallotOption
  <2>2. /\ Hears(msgs, n, window[n], p)
        /\ Gains(window[n], u) /\ Keeps(window[n], u)
    BY <1>1, NextHandled DEF HearInv, Gained, Handled, PInv
  <2>3. \A b, q : Heard(msgs, n, window[n], b, q) => Heard(msgs', n, u, b, q)
    <3>. HIDE DEF B, C, u
    <3>. QED
      BY <1>1, <2>1, <2>2, StillHeard
  <2>4. CASE IsFollower(r)
    BY <2>4 DEF Hears, IsFollower, IsCandidate, IsLeader
  <2>5. CASE Stays(p, r)
    <3>1. IsCandidate(r) => \A q \in r.promises : Heard(msgs', n, u, r.proposal, q)
      BY <2>2, <2>3, <2>5 DEF Hears, Stays, IsCandidate
    <3>2. IsLeader(r) => HeardByQuorum(msgs', n, u, r.proposal)
      BY <2>2, <2>3, <2>5 DEF Hears, Stays, IsLeader, HeardByQuorum
    <3>. QED
      BY <3>1, <3>2 DEF Hears
  <2>6. CASE Starts(n, p, r)
    BY <2>6 DEF Starts, Hears, Heard, IsCandidate, IsLeader
  <2>7. ASSUME NEW m \in msgs, Elects(n, m)
        PROVE  Hears(msgs', n, u, r)
    <3>. DEFINE w == NoticeReport(window[n], m.report)
                q == ReceivePromise(p, m.from, m.bal)
                t == TakeProposals(q)
    <3>1. Counted(p, q, m.from, m.bal)
      BY <1>1, <2>7, CountedPromise DEF Elects, IInv
    <3>2. /\ ~IsLeader(q) => \A k \in q.promises : Heard(msgs, n, w, p.proposal, k)
          /\ IsLeader(q) => HeardByQuorum(msgs, n, w, p.proposal)
      BY <2>7, HeardToo
    <3>3. \/ ~IsLeader(q) /\ r = q /\ SetWindow(n, w) /\ msgs' = msgs
          \/ IsLeader(q) /\ r = t /\ \E d : SetWindow(n, d) /\ Gains(w, d) /\ Keeps(w, d)
      BY <2>7 DEF Elects
    <3>4. GoodWindow(w, B)
      BY <1>1, <2>7, NoticedWindow DEF Elects
    <3>. HIDE DEF w, q, t
    <3>5. CASE ~IsLeader(q) /\ r = q /\ SetWindow(n, w) /\ msgs' = msgs
      <4>1. u = w
        BY <1>1, <3>5 DEF SetWindow, IInv
      <4>. QED
        BY <3>1, <3>2, <3>5, <4>1 DEF Hears, Counted
    <3>6. CASE IsLeader(q) /\ r = t /\ \E d : SetWindow(n, d) /\ Gains(w, d) /\ Keeps(w, d)
      <4>1. Gains(w, u) /\ Keeps(w, u)
        BY <1>1, <3>6 DEF SetWindow, IInv
      <4>2. \A k, b, x : Heard(msgs, k, w, b, x) => Heard(msgs', k, u, b, x)
        <5>. HIDE DEF B, C, u
        <5>. QED
          BY <1>1, <2>1, <3>4, <4>1, StillHeard
      <4>3. HeardByQuorum(msgs', n, u, p.proposal)
        BY <3>2, <3>6, <4>2, QuorumStillHeard
      <4>4. IsLeader(r) /\ r.proposal = p.proposal
        BY <3>1, <3>6 DEF Counted, IsLeader, t
      <4>. QED
        BY <4>3, <4>4 DEF Hears, IsLeader, IsCandidate
    <3>. QED
      BY <3>3, <3>5, <3>6
  <2>. QED
    BY <1>1, <2>4, <2>5, <2>6, <2>7 DEF AllGo, Goes
<1>. QED
  BY <1>1, <1>2 DEF HearInv
-----------------------------------------------------------------------------
(***************************************************************************)
(* Ballot c is settled for v in a slot when every node of some quorum has  *)
(* voted for c, which proposes v there, or can no longer vote for it: then *)
(* no value but v is ever chosen with c.                                   *)
(***************************************************************************)
CannotVote(M, q, c, s) ==
  ~Voted(M, q, c, s) /\ \E b \in Ballot : Less(c, b) /\ Barred(M, q, b)

Settles(M, q, c, s, v) ==
  (Voted(M, q, c, s) /\ Proposed(M, c, s, v)) \/ CannotVote(M, q, c, s)

Settled(M, c, s, v) ==
  \E Q \in SUBSET Node :
    Cardinality(Q) >= QuorumSize /\ \A q \in Q : Settles(M, q, c, s, v)

SettledBelow(M, a) ==
  \A s \in DOMAIN a.batch : \A c \in Ballot :
    Less(c, a.bal) => Settled(M, c, s, a.batch[s])

SafeInv ==
  /\ HearInv
  /\ FullyReported => \A a \in msgs : a.type = "Accept" => SettledBelow(msgs, a)

Majorities == 2 * QuorumSize > Cardinality(Node)

LEMMA OddMajorities == Cardinality(Node) % 2 = 1 => Majorities
<1>1. Cardinality(Node) \in Nat
  BY NodeAssumption, FS_CardinalityType
<1>. HIDE DEF Majorities
<1>. QED
  BY <1>1, SMTT(30) DEF Majorities, QuorumSize

LEMMA QuorumsMeet ==
  ASSUME Majorities, NEW Q \in SUBSET Node, NEW R \in SUBSET Node,
         Cardinality(Q) >= QuorumSize, Cardinality(R) >= QuorumSize
  PROVE  Q \cap R # {}
<1>1. IsFiniteSet(Node) /\ Cardinality(Node) \in Nat
  BY NodeAssumption, FS_CardinalityType
<1>2. Cardinality(Q) \in Nat /\ Cardinality(R) \in Nat
  BY <1>1, FS_Subset, FS_CardinalityType
<1>3. Cardinality(Q) + Cardinality(R) > Cardinality(Node)
  BY <1>1, <1>2, QuorumInt DEF Majorities
<1>. QED
  BY <1>1, <1>3, FS_MajoritiesIntersect

LEMMA SettledChosen ==
  ASSUME Majorities, NEW M, \A m \in M : m \in Message, NEW r, NEW s, NEW u, NEW v,
         Chosen(M, r, s), Proposed(M, r, s, u), Settled(M, r, s, v)
  PROVE  Proposed(M, r, s, v)
<1>. DEFINE R == Accepters(M, r, s) \cup {Owner(r)}
<1>1. R \in SUBSET Node /\ Cardinality(R) >= QuorumSize
  BY MessageFields, ProposedFacts DEF Accepters, Chosen
<1>2. PICK Q \in SUBSET Node : /\ Cardinality(Q) >= QuorumSize
                               /\ \A q \in Q : Settles(M, q, r, s, v)
  BY DEF Settled
<1>. HIDE DEF R
<1>3. PICK q \in Q \cap R : TRUE
  BY <1>1, <1>2, QuorumsMeet
<1>4. Voted(M, q, r, s)
  BY <1>3 DEF R, Voted
<1>. QED
  BY <1>2, <1>3, <1>4 DEF Settles, CannotVote

LEMMA SettledStays ==
  ASSUME BarInv, [Next]_vars, NEW c \in Ballot, NEW s, NEW v, Settled(msgs, c, s, v)
  PROVE  Settled(msgs', c, s, v)
<1>1. PICK Q \in SUBSET Node : /\ Cardinality(Q) >= QuorumSize
                               /\ \A q \in Q : Settles(msgs, q, c, s, v)
  BY DEF Settled
<1>2. msgs \subseteq msgs'
  BY NextGrows
<1>3. ASSUME NEW q \in Q PROVE Settles(msgs', q, c, s, v)
  <2>1. CASE Voted(msgs, q, c, s) /\ Proposed(msgs, c, s, v)
    BY <1>2, <2>1, MoreVoted DEF Settles
  <2>2. CASE CannotVote(msgs, q, c, s)
    <3>1. PICK b \in Ballot : Less(c, b) /\ Barred(msgs, q, b)
      BY <2>2 DEF CannotVote
    <3>2. b \in BallotOption /\ c \in BallotOption
      BY DEF BallotOption
    <3>3. ~Voted(msgs', q, c, s)
      BY <2>2, <3>1, <3>2, NewVote, BallotOrder DEF CannotVote
    <3>4. Barred(msgs', q, b)
      BY <1>2, <3>1, MoreBarred
    <3>. QED
      BY <3>1, <3>3, <3>4 DEF Settles, CannotVote
  <2>. QED
    BY <1>1, <2>1, <2>2 DEF Settles
<1>. QED
  BY <1>1, <1>3 DEF Settled

LEMMA ProposedSettled ==
  ASSUME SafeInv, FullyReported, NEW d, NEW s, NEW v, Proposed(msgs, d, s, v),
         NEW c \in Ballot, Less(c, d)
  PROVE  Settled(msgs, c, s, v)
BY DEF SafeInv, SettledBelow, Proposed

LEMMA ReportedBefore ==
  ASSUME msgs \subseteq msgs', FullyReported'
  PROVE  FullyReported
BY DEF FullyReported, Sent
-----------------------------------------------------------------------------
(***************************************************************************)
(* What a new Accept rests on in slot s: a window that a quorum's reports  *)
(* have been noted in, whose proposal it repeats.                          *)
(***************************************************************************)
Basis(a, s, w, Q) ==
  LET n == Owner(a.bal)
  IN  /\ GoodWindow(w, Issued(proposer)) /\ BackedWindow(msgs, w)
      /\ ~ResolvedAt(w, s) /\ (HasValue(w.acc[s]) => w.acc[s].val = a.batch[s])
      /\ Gains(window[n], w) /\ Keeps(window[n], w)
      /\ Q \in SUBSET Node /\ Cardinality(Q) >= QuorumSize
      /\ \A q \in Q : Heard(msgs, n, w, a.bal, q)

LEMMA NewAcceptBasis ==
  ASSUME HearInv, [Next]_vars, NEW a \in msgs' \ msgs, a.type = "Accept",
         NEW s \in DOMAIN a.batch
  PROVE  \E w, Q : Basis(a, s, w, Q)
<1>. DEFINE n == Owner(a.bal)
            b == proposer[n].proposal
<1>1. PInv /\ CInv /\ IInv
  BY DEF HearInv, RememberInv, OneInv, VoteInv, BarInv, LeadInv, PInv, LInv
<1>2. a.bal = b /\ n \in Node
  BY <1>1, NewAccept DEF Leading
<1>3. Hears(msgs, n, window[n], proposer[n])
  BY <1>2 DEF HearInv
<1>4. ASSUME NEW v \in ClientValue, ProposeLead(n, v),
             a = AcceptMsg(b, Const({NextSlot(window[n])}, v))
      PROVE  \E w, Q : Basis(a, s, w, Q)
  <2>. DEFINE w == window[n]
  <2>1. LET u == ProposeWindow(w, b, <<v>>)
        IN  Proposes(w, u, {NextSlot(w)}, b)
    BY <1>1, <1>2, <1>4, LeadGains
  <2>2. s = NextSlot(w) /\ s \in WindowSlot
    <3>1. NextSlot(w) \in Slot /\ DOMAIN a.batch = {NextSlot(w)}
      BY <1>4 DEF AcceptMsg, Const, ProposeLead
    <3>. QED
      BY <3>1, SlotBound
  <2>3. ~HasValue(w.acc[s])
    BY <2>1, <2>2 DEF Proposes
  <2>4. ~ResolvedAt(w, s)
    BY <2>3 DEF HasValue, ResolvedAt, IsResolved
  <2>5. HeardByQuorum(msgs, n, w, b)
    BY <1>3, <1>4 DEF ProposeLead, Hears
  <2>6. /\ GoodWindow(w, Issued(proposer)) /\ BackedWindow(msgs, w)
        /\ Gains(w, w) /\ Keeps(w, w)
    BY <1>1, <1>2, CInvFacts, GainsSelf, KeepsSelf DEF IInv
  <2>. HIDE DEF w
  <2>. QED
    BY <1>2, <2>3, <2>4, <2>5, <2>6 DEF Basis, HeardByQuorum, w
<1>5. ASSUME NEW m \in msgs, Elects(n, m)
      PROVE  \E w, Q : Basis(a, s, w, Q)
  <2>. DEFINE w == NoticeReport(window[n], m.report)
              p == ReceivePromise(proposer[n], m.from, m.bal)
  <2>1. /\ GoodWindow(w, Issued(proposer)) /\ BackedWindow(msgs, w)
    BY <1>1, <1>2, <1>5, NoticedWindow DEF Elects
  <2>2. /\ Gains(window[n], w) /\ Keeps(window[n], w) /\ IsLeader(p)
        /\ \E d, h : Drives(w, d, h) /\ a = AcceptMsg(h, DriveValues(d))
    BY <1>5 DEF Elects
  <2>3. ~ResolvedAt(w, s) /\ (HasValue(w.acc[s]) => w.acc[s].val = a.batch[s])
    BY <2>2 DEF AcceptMsg, DriveValues, Drives
  <2>4. HeardByQuorum(msgs, n, w, b)
    BY <1>2, <1>5, <2>2, HeardToo
  <2>. HIDE DEF w, p
  <2>. QED
    BY <1>2, <2>1, <2>2, <2>3, <2>4 DEF Basis, HeardByQuorum
<1>6. ~(a = AcceptMsg(b, NoValues))
  BY DEF AcceptMsg, NoValues
<1>. QED
  BY <1>1, <1>4, <1>5, <1>6, NewAccept

\* A ballot chosen at or below d, with a value it proposed.
ChosenBelow(d, s) ==
  \E r \in Ballot : /\ AtMost(r, d) /\ Chosen(msgs, r, s)
                    /\ \E x : Proposed(msgs, r, s, x)

LEMMA HeardVotes ==
  ASSUME HearInv, FullyReported', msgs \subseteq msgs',
         NEW a \in msgs', a.type = "Accept", Owner(a.bal) \in Node,
         NEW s \in DOMAIN a.batch, s \in WindowSlot,
         NEW w, NEW Q, Basis(a, s, w, Q), NEW q \in Q,
         NEW c \in Ballot, Less(c, a.bal), Voted(msgs, q, c, s)
  PROVE  AtMost(c, w.acc[s].bal) \/ ChosenBelow(w.acc[s].bal, s)
<1>. DEFINE n == Owner(a.bal)
            d == w.acc[s].bal
            B == Issued(proposer)
<1>1. /\ RememberInv /\ VoteInv /\ CInv /\ IInv /\ Ballots(B)
      /\ GoodWindow(window[n], B) /\ GoodWindow(w, B)
  BY CInvFacts DEF HearInv, RememberInv, OneInv, VoteInv, Basis
<1>2. d \in BallotOption /\ c \in BallotOption /\ ~ResolvedAt(w, s)
  BY <1>1, WindowBallots DEF Basis, BallotOption
<1>3. CASE q = n
  <2>1. Kept(window[n], c, s) /\ Gains(window[n], w) /\ Keeps(window[n], w)
    BY <1>1, <1>3 DEF VoteInv, Basis
  <2>2. Kept(w, c, s)
    <3>. HIDE DEF B, n
    <3>. QED
      BY <1>1, <1>2, <2>1, KeptLater
  <2>. QED
    BY <1>2, <2>2 DEF Kept
<1>4. ASSUME NEW p \in msgs, p.type = "Promise", p.from = q, p.bal = a.bal,
             Noticed(w, p.report)
      PROVE  AtMost(c, d) \/ ChosenBelow(d, s)
  <2>1. s >= p.omitted
    BY <1>4 DEF FullyReported, Sent
  <2>. DEFINE r == p.report[s].bal
  <2>2. s \in DOMAIN p.report /\ (AtMost(c, r) \/ Chosen(msgs, r, s))
    BY <1>1, <1>4, <2>1 DEF RememberInv, Remembers
  <2>3. AtMost(r, d)
    BY <1>2, <1>4, <2>2 DEF Noticed
  <2>4. Proposed(msgs, r, s, p.report[s].val) /\ r \in Ballot /\ r \in BallotOption
    <3>1. Proposed(msgs, r, s, p.report[s].val)
      BY <1>1, <1>4, <2>2, CInvFacts DEF BackedMessage
    <3>. QED
      BY <1>1, <3>1, CInvFacts, ProposedFacts DEF BallotOption
  <2>. HIDE DEF r
  <2>. QED
    BY <1>2, <2>2, <2>3, <2>4, BallotOrder DEF ChosenBelow
<1>. QED
  BY <1>3, <1>4 DEF Basis, Heard

\* Where nobody has voted above c, a vote for c in a quorum heard is for v.
LEMMA HeardSettled ==
  ASSUME Majorities, SafeInv, FullyReported, NEW c \in Ballot, NEW s, NEW d, NEW v,
         d \in BallotOption, AtMost(d, c),
         d # NoBallot => Proposed(msgs, d, s, v),
         NEW q, Voted(msgs, q, c, s), AtMost(c, d) \/ ChosenBelow(d, s)
  PROVE  Proposed(msgs, c, s, v)
<1>1. /\ CInv /\ OneValuePerBallot
      /\ \A m \in msgs : m \in Message /\ BackedMessage(msgs, m)
  BY CInvFacts DEF SafeInv, HearInv, RememberInv, OneInv, VoteInv
<1>2. c \in BallotOption /\ c # NoBallot
  BY NoBallotNotBallot DEF BallotOption
<1>3. CASE AtMost(c, d)
  <2>1. c = d
    BY <1>2, <1>3, BallotOrder DEF AtMost
  <2>. QED
    BY <1>2, <2>1
<1>4. CASE ChosenBelow(d, s)
  <2>1. PICK r \in Ballot : \E y : AtMost(r, d) /\ Chosen(msgs, r, s) /\ Proposed(msgs, r, s, y)
    BY <1>4 DEF ChosenBelow
  <2>2. r \in BallotOption /\ r # NoBallot
    BY NoBallotNotBallot DEF BallotOption
  <2>3. d # NoBallot
    BY <2>1, <2>2, BallotPair DEF AtMost, Less, NoBallot
  <2>4. ASSUME NEW e, NEW u, Proposed(msgs, e, s, u), AtMost(r, e)
        PROVE  Proposed(msgs, r, s, u)
    <3>1. CASE r = e
      BY <2>4, <3>1
    <3>2. CASE Less(r, e)
      <4>1. Settled(msgs, r, s, u)
        BY <2>4, <3>2, ProposedSettled
      <4>. QED
        BY <1>1, <2>1, <4>1, SettledChosen
    <3>. QED
      BY <2>4, <3>1, <3>2 DEF AtMost
  <2>5. PICK u : Proposed(msgs, c, s, u)
    BY <1>1, VoteFacts
  <2>6. Proposed(msgs, r, s, v)
    BY <2>1, <2>3, <2>4
  <2>7. Proposed(msgs, r, s, u)
    BY <1>2, <2>1, <2>2, <2>4, <2>5, BallotOrder
  <2>8. u = v
    BY <1>1, <2>6, <2>7, OneProposal
  <2>. QED
    BY <2>5, <2>8
<1>. QED
  BY <1>3, <1>4

LEMMA OtherVotes ==
  ASSUME NEW a, a.type = "Accept", msgs' = msgs \cup {a},
         NEW q, NEW c, c # a.bal, NEW s, Voted(msgs', q, c, s)
  PROVE  Voted(msgs, q, c, s)
BY DEF Voted, Accepters, Proposed

LEMMA NewAcceptSettled ==
  ASSUME Majorities, SafeInv, [Next]_vars, FullyReported',
         NEW a \in msgs' \ msgs, a.type = "Accept"
  PROVE  SettledBelow(msgs', a)
<1>. SUFFICES ASSUME NEW s \in DOMAIN a.batch, NEW c \in Ballot, Less(c, a.bal)
              PROVE  Settled(msgs', c, s, a.batch[s])
  BY DEF SettledBelow
<1>1. /\ HearInv /\ BarInv /\ PInv /\ CInv /\ IInv'
      /\ \A m \in msgs' : m \in Message
  <2>1. HearInv /\ BarInv /\ PInv /\ CInv /\ IInv
    BY DEF SafeInv, HearInv, RememberInv, OneInv, VoteInv, BarInv, LeadInv, PInv, LInv
  <2>. QED
    BY <2>1, NextIInv DEF IInv, GoodMessage
<1>. DEFINE n == Owner(a.bal)
            v == a.batch[s]
<1>2. /\ msgs' = msgs \cup {a} /\ n \in Node /\ a.bal \in Ballot
  BY <1>1, NewAccept DEF Leading
<1>3. FullyReported
  BY <1>2, ReportedBefore
<1>4. s \in WindowSlot
  BY <1>1, MessageFields, BatchIsGood, BatchSlots, SlotBound
<1>5. PICK w, Q : Basis(a, s, w, Q)
  BY <1>1, NewAcceptBasis
<1>. DEFINE d == w.acc[s].bal
<1>6. d \in BallotOption /\ a.bal \in BallotOption /\ c \in BallotOption
  BY <1>1, <1>2, <1>4, <1>5, CInvFacts, WindowBallots DEF Basis, BallotOption
<1>7. d # NoBallot => Proposed(msgs, d, s, v)
  BY <1>4, <1>5 DEF Basis, BackedWindow, Backed, GoodWindow, GoodAcceptor
<1>. HIDE DEF v
<1>8. CASE Less(c, d)
  <2>1. d # NoBallot
    BY <1>6, <1>8, BallotPair, NoBallotNotBallot DEF Less, NoBallot, Ballot
  <2>2. Settled(msgs, c, s, v)
    BY <1>3, <1>7, <1>8, <2>1, ProposedSettled
  <2>. QED
    BY <1>1, <2>2, SettledStays DEF v
<1>9. CASE AtMost(d, c)
  <2>1. ASSUME NEW q \in Q
        PROVE  Settles(msgs', q, c, s, v)
    <3>1. CASE Voted(msgs', q, c, s)
      <4>1. c # a.bal
        BY <1>6, BallotOrder DEF AtMost
      <4>2. Voted(msgs, q, c, s)
        BY <1>2, <3>1, <4>1, OtherVotes
      <4>3. AtMost(c, d) \/ ChosenBelow(d, s)
        BY <1>1, <1>2, <1>4, <1>5, <4>2, HeardVotes
      <4>4. Proposed(msgs, c, s, v)
        <5>. HIDE DEF d
        <5>. QED
          BY <1>3, <1>6, <1>7, <1>9, <4>2, <4>3, HeardSettled
      <4>. QED
        BY <1>2, <3>1, <4>4, MoreVoted DEF Settles
    <3>2. CASE ~Voted(msgs', q, c, s)
      <4>1. Barred(msgs', q, a.bal)
        <5>1. Heard(msgs, n, w, a.bal, q)
          BY <1>5 DEF Basis
        <5>. QED
          BY <1>2, <5>1 DEF Heard, Barred, Promisers, Led
      <4>. QED
        BY <1>2, <3>2, <4>1 DEF Settles, CannotVote
    <3>. QED
      BY <3>1, <3>2
  <2>. QED
    BY <1>5, <2>1 DEF Basis, Settled, v
<1>. QED
  BY <1>6, <1>8, <1>9, BallotOrder

LEMMA NextSafeInv ==
  ASSUME Majorities
  PROVE  SafeInv /\ [Next]_vars => SafeInv'
<1>. SUFFICES ASSUME SafeInv, [Next]_vars PROVE SafeInv'
  OBVIOUS
<1>1. HearInv' /\ BarInv /\ msgs \subseteq msgs'
  BY NextHearInv, NextGrows
  DEF SafeInv, HearInv, RememberInv, OneInv, VoteInv
<1>2. ASSUME FullyReported', NEW a \in msgs, a.type = "Accept"
      PROVE  SettledBelow(msgs', a)
  <2>1. SettledBelow(msgs, a)
    BY <1>1, <1>2, ReportedBefore DEF SafeInv
  <2>. QED
    BY <1>1, <2>1, SettledStays DEF SettledBelow
<1>. QED
  BY <1>1, <1>2, NewAcceptSettled DEF SafeInv

LEMMA InitSafeInv == Init => SafeInv
<1>. SUFFICES ASSUME Init PROVE SafeInv
  OBVIOUS
<1>1. VoteInv
  BY InitVoteInv
<1>. QED
  BY <1>1
  DEF Init, SafeInv, HearInv, RememberInv, OneInv, OneValuePerBallot, Sent, Hears,
      NewProposer, IsCandidate, IsLeader
-----------------------------------------------------------------------------
LEMMA OneDecision ==
  ASSUME Majorities, SafeInv, FullyReported, NEW s \in Slot,
         NEW n \in Node, ResolvedAt(window[n], s), NEW k \in Node, ResolvedAt(window[k], s),
         AtMost(window[n].acc[s].bal, window[k].acc[s].bal)
  PROVE  window[n].acc[s].val = window[k].acc[s].val
<1>. DEFINE a == window[n].acc[s]
            b == window[k].acc[s]
<1>1. /\ CInv /\ OneValuePerBallot
      /\ \A m \in msgs : m \in Message
  BY CInvFacts DEF SafeInv, HearInv, RememberInv, OneInv, VoteInv
<1>2. /\ Proposed(msgs, a.bal, s, a.val) /\ Chosen(msgs, a.bal, s)
      /\ Proposed(msgs, b.bal, s, b.val)
  BY <1>1, SlotBound DEF CInv, BackedWindow, Backed, ResolvedAt, IsResolved, HasValue
<1>3. a.bal \in Ballot
  BY <1>1, <1>2, ProposedFacts
<1>. HIDE DEF a, b
<1>4. Proposed(msgs, a.bal, s, b.val)
  <2>1. CASE Less(a.bal, b.bal)
    <3>1. Settled(msgs, a.bal, s, b.val)
      BY <1>2, <1>3, <2>1, ProposedSettled
    <3>. QED
      BY <1>1, <1>2, <3>1, SettledChosen
  <2>. QED
    BY <1>2, <2>1 DEF a, b, AtMost
<1>. QED
  BY <1>1, <1>2, <1>4, OneProposal DEF a, b

LEMMA SameDecision ==
  ASSUME Majorities, SafeInv, FullyReported, NEW s \in Slot,
         NEW n \in Node, ResolvedAt(window[n], s), NEW k \in Node, ResolvedAt(window[k], s)
  PROVE  window[n].acc[s].val = window[k].acc[s].val
<1>1. window[n].acc[s].bal \in BallotOption /\ window[k].acc[s].bal \in BallotOption
  BY CInvFacts, WindowBallots, SlotBound
  DEF SafeInv, HearInv, RememberInv, OneInv, VoteInv
<1>2. \/ AtMost(window[n].acc[s].bal, window[k].acc[s].bal)
      \/ AtMost(window[k].acc[s].bal, window[n].acc[s].bal)
  BY <1>1, BallotOrder DEF AtMost
<1>. QED
  BY <1>2, OneDecision

LEMMA SafeInvImplies ==
  ASSUME Majorities, SafeInv
  PROVE  AgreementWhenReported
<1>. SUFFICES ASSUME FullyReported, NEW s \in Slot
              PROVE  Cardinality(DecisionsOf(s)) <= 1
  BY DEF AgreementWhenReported, Agreement
<1>1. ASSUME NEW n \in Node, ResolvedAt(window[n], s),
             NEW k \in Node, ResolvedAt(window[k], s)
      PROVE  window[n].acc[s].val = window[k].acc[s].val
  BY <1>1, SameDecision
<1>2. DecisionsOf(s) = {} \/ \E v : DecisionsOf(s) = {v}
  BY <1>1 DEF DecisionsOf
<1>3. CASE DecisionsOf(s) = {}
  BY <1>3, FS_EmptySet
<1>4. ASSUME NEW v, DecisionsOf(s) = {v}
      PROVE  Cardinality(DecisionsOf(s)) <= 1
  <2>1. Cardinality({v}) = 1
    BY FS_Singleton
  <2>2. Cardinality(DecisionsOf(s)) = 1
    BY <1>4, <2>1, Zenon
  <2>. QED
    BY <2>2
<1>. QED
  BY <1>2, <1>3, <1>4

(***************************************************************************)
(* Agreement: in a group of odd size no two replicas ever hold different   *)
(* decisions of a slot, whatever is lost, duplicated, delayed or reordered *)
(* and however many leaders there are, as long as no leader drives a slot  *)
(* below the open range of a replica that promised it its ballot.          *)
(***************************************************************************)
THEOREM AgreementHolds ==
  ASSUME Cardinality(Node) % 2 = 1
  PROVE  Spec => []AgreementWhenReported
<1>1. Majorities
  BY OddMajorities
<1>2. SafeInv /\ [Next]_vars => SafeInv'
  BY <1>1, NextSafeInv
<1>3. SafeInv => AgreementWhenReported
  BY <1>1, SafeInvImplies
<1>. QED
  BY <1>2, <1>3, InitSafeInv, PTL DEF Spec
=============================================================================
