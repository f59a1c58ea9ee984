---------------------------- MODULE GroupProofs -----------------------------
(***************************************************************************)
(* Theorems about every group.  First TypeOK, LeaderHoldsHighest and       *)
(* FollowsAnother.                                                         *)
(*                                                                         *)
(* The assertion of drive_accept holds because a node is the only one that *)
(* starts ballots of its own: whatever ballot of node k is met in a        *)
(* window or a command, the proposer of k has been there before.  IInv     *)
(* says so, with Issued(proposer) the ballots their owners have reached.   *)
(*                                                                         *)
(* Then what a replica never takes back.  Its log: every handler leaves    *)
(* the decided prefix followed by an undecided slot, and changes nothing   *)
(* that is resolved (LInv).  Its promises: max_promised covers the window, *)
(* and no handler lowers a promise, in the open slots or in those opened   *)
(* later.  Module WindowProofs shows both of the handlers, one by one.     *)
(***************************************************************************)
EXTENDS GroupProperties, WindowProofs, SequenceTheorems

Issued(P) == {b \in BallotOption : b = NoBallot \/ AtMost(b, P[Owner(b)].highest)}

GoodProposer(n, p) ==
  /\ p \in Proposer
  /\ ~IsFollower(p) => p.proposal = p.highest /\ Owner(p.highest) = n
  /\ IsFollower(p) => Owner(p.highest) # n

GoodMessage(m, B) ==
  /\ m \in Message
  /\ m.type \in {"Prepare", "Promise", "Accept", "Accepted", "Resolution"} => m.bal \in B
  /\ m.type = "Reject" => m.proposed \in B /\ m.preempted \in B
  /\ m.type = "Promise" => GoodReport(m.report, B)

IInv ==
  /\ proposer \in [Node -> Proposer]
  /\ \A n \in Node : GoodProposer(n, proposer[n])
  /\ window \in [Node -> Window]
  /\ \A n \in Node : GoodWindow(window[n], Issued(proposer))
  /\ \A m \in msgs : GoodMessage(m, Issued(proposer))
  /\ panicked \subseteq Node
-----------------------------------------------------------------------------
(***************************************************************************)
(* More ballots issued: what was good stays good.                          *)
(***************************************************************************)
LEMMA MoreBallots ==
  ASSUME NEW B, NEW C, B \subseteq C
  PROVE  /\ \A w : GoodWindow(w, B) => GoodWindow(w, C)
         /\ \A m : GoodMessage(m, B) => GoodMessage(m, C)
<1>1. \A w : GoodWindow(w, B) => GoodWindow(w, C)
  BY DEF GoodWindow, GoodAcceptor
<1>2. \A report : GoodReport(report, B) => GoodReport(report, C)
  <2>1. SUFFICES ASSUME NEW report, GoodReport(report, B)
                 PROVE  GoodReport(report, C)
    OBVIOUS
  <2>2. PICK S \in SUBSET Slot : report \in [S -> [bal : B \ {NoBallot}, val : Value]]
    BY <2>1 DEF GoodReport
  <2>3. report \in [S -> [bal : C \ {NoBallot}, val : Value]]
    BY <2>2
  <2>. QED
    BY <2>3 DEF GoodReport
<1>3. \A m : GoodMessage(m, B) => GoodMessage(m, C)
  BY <1>2 DEF GoodMessage
<1>. QED
  BY <1>1, <1>3

(***************************************************************************)
(* A proposer whose highest ballot rises issues more ballots.              *)
(***************************************************************************)
LEMMA IssuedGrows ==
  ASSUME NEW P \in [Node -> Proposer], NEW n \in Node, NEW p \in Proposer,
         AtMost(P[n].highest, p.highest)
  PROVE  LET Q == [P EXCEPT ![n] = p]
         IN  /\ Ballots(Issued(Q))
             /\ Issued(P) \subseteq Issued(Q)
             /\ Owner(p.highest) = n => p.highest \in Issued(Q)
<1>. DEFINE Q == [P EXCEPT ![n] = p]
<1>1. \A k \in Node : P[k].highest \in BallotOption
  BY DEF Proposer
<1>2. p.highest \in BallotOption /\ AtMost(p.highest, p.highest)
  BY BallotOrder DEF Proposer
<1>3. ASSUME NEW b \in Issued(P) PROVE b \in Issued(Q)
  <2>1. CASE b = NoBallot
    BY <2>1 DEF Issued, BallotOption
  <2>2. CASE b # NoBallot
    <3>1. b \in BallotOption /\ Owner(b) \in Node /\ AtMost(b, P[Owner(b)].highest)
      BY <2>2, BallotPair DEF Issued, Owner
    <3>2. CASE Owner(b) = n
      <4>1. AtMost(b, p.highest)
        BY <1>1, <1>2, <3>1, <3>2, BallotOrder
      <4>. QED
        BY <3>1, <3>2, <4>1 DEF Issued
    <3>3. CASE Owner(b) # n
      BY <3>1, <3>3 DEF Issued
    <3>. QED
      BY <3>2, <3>3
  <2>. QED
    BY <2>1, <2>2
<1>4. Ballots(Issued(Q))
  BY DEF Ballots, Issued, BallotOption
<1>5. Owner(p.highest) = n => p.highest \in Issued(Q)
  BY <1>2 DEF Issued
<1>. QED
  BY <1>3, <1>4, <1>5

(***************************************************************************)
(* The effects of an action of node n, with p and w what it makes of its   *)
(* proposer and window, and M what it may send.                            *)
(***************************************************************************)
Effect(n, p, w, M) ==
  /\ SetProposer(n, p) /\ SetWindow(n, w)
  /\ msgs' \subseteq msgs \cup M
  /\ panicked' \subseteq panicked \cup {n}

\* p continues the proposer of node n.
Continues(n, p) == GoodProposer(n, p) /\ AtMost(proposer[n].highest, p.highest)

IssuedNow(n, p) == Issued([proposer EXCEPT ![n] = p])

LEMMA Continued ==
  ASSUME IInv, NEW n \in Node, NEW p, Continues(n, p)
  PROVE  /\ Ballots(IssuedNow(n, p))
         /\ Issued(proposer) \subseteq IssuedNow(n, p)
         /\ Owner(p.highest) = n => p.highest \in IssuedNow(n, p)
         /\ GoodWindow(window[n], IssuedNow(n, p))
         /\ \A m \in msgs : GoodMessage(m, IssuedNow(n, p))
<1>1. /\ Ballots(IssuedNow(n, p)) /\ Issued(proposer) \subseteq IssuedNow(n, p)
      /\ Owner(p.highest) = n => p.highest \in IssuedNow(n, p)
  BY IssuedGrows DEF IssuedNow, IInv, Continues, GoodProposer
<1>. QED
  BY <1>1, MoreBallots DEF IInv

LEMMA EffectPreserves ==
  ASSUME IInv, NEW n \in Node, NEW p, Continues(n, p),
         NEW w, GoodWindow(w, IssuedNow(n, p)),
         NEW M, \A m \in M : GoodMessage(m, IssuedNow(n, p)),
         Effect(n, p, w, M)
  PROVE  IInv'
<1>. DEFINE B == IssuedNow(n, p)
<1>1. Issued(proposer) \subseteq B
  BY Continued
<1>2. proposer' = [proposer EXCEPT ![n] = p] /\ window' = [window EXCEPT ![n] = w]
  BY DEF Effect, SetProposer, SetWindow
<1>3. Issued(proposer') = B
  BY <1>2 DEF IssuedNow
<1>4. /\ proposer' \in [Node -> Proposer]
      /\ \A k \in Node : GoodProposer(k, proposer'[k])
  BY <1>2 DEF IInv, Continues, GoodProposer
<1>5. /\ window' \in [Node -> Window]
      /\ \A k \in Node : GoodWindow(window'[k], B)
  <2>1. \A k \in Node : GoodWindow(window[k], B)
    BY <1>1, MoreBallots DEF IInv
  <2>2. w \in Window
    BY DEF GoodWindow
  <2>. QED
    BY <1>2, <2>1, <2>2 DEF IInv
<1>6. \A m \in msgs' : GoodMessage(m, B)
  BY <1>1, MoreBallots DEF IInv, Effect
<1>7. panicked' \subseteq Node
  BY DEF IInv, Effect
<1>. QED
  BY <1>3, <1>4, <1>5, <1>6, <1>7 DEF IInv
-----------------------------------------------------------------------------
(***************************************************************************)
(* The methods of a proposer.                                              *)
(***************************************************************************)
Started(b) == b \in BallotOption /\ b # NoBallot

LEMMA StartedBallot ==
  ASSUME NEW b, Started(b)
  PROVE  b \in Ballot /\ Owner(b) \in Node
BY BallotPair DEF Started, Owner

LEMMA ObserveContinues ==
  ASSUME NEW n \in Node, NEW p, GoodProposer(n, p), NEW b, Started(b),
         Owner(b) = n => AtMost(b, p.highest)
  PROVE  LET q == Observe(p, b, n)
         IN  GoodProposer(n, q) /\ AtMost(p.highest, q.highest) /\ q.highest # NoBallot
<1>. DEFINE h == Higher(p.highest, b)
            raised == [p EXCEPT !.highest = h]
            q == Observe(p, b, n)
<1>1. p \in Proposer /\ p.highest \in BallotOption /\ b \in BallotOption
  BY DEF GoodProposer, Proposer, Started
<1>2. h \in BallotOption /\ AtMost(p.highest, h) /\ h # NoBallot
  <2>1. ~Less(b, NoBallot) /\ ~Less(b, b) /\ AtMost(NoBallot, b)
    BY <1>1, BallotOrder, NodeAssumption DEF AtMost, BallotOption
  <2>2. ~Less(p.highest, b) => p.highest # NoBallot
    BY <2>1 DEF AtMost, Started
  <2>. QED
    BY <1>1, <2>1, <2>2, BallotOrder DEF Higher, AtMost, Started
<1>3. raised \in Proposer /\ raised.highest = h /\ StepDown(raised) \in Proposer
  BY <1>1, <1>2 DEF Proposer, StepDown, BallotOption
<1>4. q.highest = h /\ q \in Proposer
  BY <1>3 DEF Observe, StepDown, Proposer
<1>5. ASSUME ~IsFollower(q)
      PROVE  q.proposal = q.highest /\ Owner(q.highest) = n
  <2>1. Owner(h) = n /\ q = raised
    BY <1>3, <1>5 DEF Observe, StepDown, IsFollower, Proposer
  <2>2. ~IsFollower(p) /\ q.proposal = p.proposal
    BY <1>1, <1>5, <2>1 DEF IsFollower, Proposer
  <2>3. h = p.highest
    <3>1. CASE Less(p.highest, b)
      <4>1. Owner(b) = n
        BY <2>1, <3>1 DEF Higher
      <4>. QED
        BY <1>1, <3>1, <4>1, BallotOrder
    <3>2. CASE ~Less(p.highest, b)
      BY <3>2 DEF Higher
    <3>. QED
      BY <3>1, <3>2
  <2>. QED
    BY <2>1, <2>2, <2>3, <1>4 DEF GoodProposer
<1>6. ASSUME IsFollower(q)
      PROVE  Owner(q.highest) # n
  <2>1. CASE Owner(h) # n
    BY <1>4, <2>1
  <2>2. CASE Owner(h) = n
    <3>1. q = raised /\ IsFollower(p)
      BY <1>1, <1>3, <1>6, <2>2 DEF Observe, IsFollower, Proposer
    <3>2. Owner(p.highest) # n
      BY <3>1 DEF GoodProposer
    <3>3. Less(p.highest, b) /\ Owner(b) = n
      BY <2>2, <3>2 DEF Higher
    <3>. QED
      BY <1>1, <3>3, BallotOrder
  <2>. QED
    BY <2>1, <2>2
<1>. QED
  BY <1>2, <1>4, <1>5, <1>6 DEF GoodProposer

LEMMA PrepareContinues ==
  ASSUME NEW n \in Node, NEW p, GoodProposer(n, p),
         Prepare(p, n).highest[1] <= MaxRound
  PROVE  LET q == Prepare(p, n)
         IN  /\ GoodProposer(n, q) /\ AtMost(p.highest, q.highest)
             /\ Started(q.highest) /\ Owner(q.highest) = n
<1>. DEFINE h == p.highest
            b == NextBallot(h, n)
            q == Prepare(p, n)
<1>1. p \in Proposer /\ h \in BallotOption
  BY DEF GoodProposer, Proposer
<1>2. q.highest = b /\ q.proposal = b /\ q.st = "Candidate"
  BY <1>1 DEF Prepare, Proposer
<1>3. b[1] \in Nat /\ b = <<b[1], n>> /\ AtMost(h, b)
  <2>1. CASE h = NoBallot
    BY <2>1, NodeAssumption DEF NextBallot, NoBallot, AtMost, Less
  <2>2. CASE h # NoBallot
    <3>1. h = <<h[1], h[2]>> /\ h[1] \in Nat /\ h[2] \in Node
      BY <1>1, <2>2, BallotPair
    <3>. QED
      BY <2>2, <3>1, NodeAssumption DEF NextBallot, HigherFor, AtMost, Less
  <2>. QED
    BY <2>1, <2>2
<1>4. b \in Ballot /\ b # NoBallot
  BY <1>2, <1>3, MaxRoundAssumption, NodeAssumption DEF Ballot, NoBallot
<1>5. q \in Proposer
  BY <1>1, <1>4 DEF Prepare, Proposer, BallotOption
<1>. QED
  BY <1>2, <1>3, <1>4, <1>5 DEF GoodProposer, Started, Owner, BallotOption, IsFollower

LEMMA ReceivePromiseContinues ==
  ASSUME NEW n \in Node, NEW p, GoodProposer(n, p), NEW peer \in Node, NEW b
  PROVE  LET q == ReceivePromise(p, peer, b)
         IN  GoodProposer(n, q) /\ q.highest = p.highest /\ q.queue = p.queue
BY DEF GoodProposer, Proposer, ReceivePromise, Count, IsCandidate, IsFollower

LEMMA QueueContinues ==
  ASSUME NEW n \in Node, NEW p, GoodProposer(n, p)
  PROVE  /\ \A v \in ClientValue : Len(p.queue) < MaxQueue =>
              /\ GoodProposer(n, PushProposal(p, v))
              /\ PushProposal(p, v).highest = p.highest
         /\ GoodProposer(n, TakeProposals(p))
         /\ TakeProposals(p).highest = p.highest
         /\ p.queue \in Seq(Value)
<1>1. p \in Proposer
  BY DEF GoodProposer
<1>2. PICK k \in 0..MaxQueue : p.queue \in [1..k -> ClientValue]
  BY <1>1 DEF Proposer, Queue
<1>3. p.queue \in Seq(ClientValue) /\ Len(p.queue) = k
  BY <1>2, MaxQueueAssumption
<1>4. ASSUME NEW v \in ClientValue, k < MaxQueue
      PROVE  Append(p.queue, v) \in Queue
  <2>1. /\ Append(p.queue, v) \in Seq(ClientValue)
        /\ Len(Append(p.queue, v)) = k + 1
    BY <1>3, AppendProperties
  <2>2. Append(p.queue, v) \in [1..(k + 1) -> ClientValue]
    BY <2>1, LenProperties
  <2>. QED
    BY <1>4, <2>2, MaxQueueAssumption DEF Queue
<1>5. <<>> \in Queue
  BY MaxQueueAssumption DEF Queue
<1>6. p.queue \in Seq(Value)
  BY <1>3, SeqMonotonic DEF Value
<1>7. ASSUME NEW r \in Queue
      PROVE  LET q == [p EXCEPT !.queue = r]
             IN  GoodProposer(n, q) /\ q.highest = p.highest
  BY <1>1 DEF GoodProposer, Proposer, IsFollower
<1>. QED
  BY <1>3, <1>4, <1>5, <1>6, <1>7 DEF PushProposal, TakeProposals
-----------------------------------------------------------------------------
(***************************************************************************)
(* The commands: what a handler may rely on in a command it receives, and  *)
(* what makes a command it sends good.                                     *)
(***************************************************************************)
LEMMA MessageFields ==
  ASSUME NEW m \in Message
  PROVE  /\ m.type \in {"Prepare", "Promise", "Accept", "Accepted", "Resolution"} =>
              m.bal \in Ballot
         /\ m.type \in {"Promise", "Accepted", "Catchup"} => m.from \in Node
         /\ m.type = "Proposal" => m.val \in ClientValue
         /\ m.type = "Accept" => m.batch \in Batch
         /\ m.type = "Reject" => m.proposed \in Ballot /\ m.preempted \in Ballot
         /\ m.type = "Accepted" => m.slots \in SUBSET Slot
         /\ m.type = "Resolution" => m.decisions \in Batch
         /\ m.type = "Catchup" => m.slots \in SUBSET WindowSlot
BY DEF Message

LEMMA BatchIsGood == ASSUME NEW batch PROVE GoodBatch(batch) <=> batch \in Batch
BY DEF GoodBatch, Batch

LEMMA NoBallotNotBallot == NoBallot \notin Ballot
BY NodeAssumption, MaxRoundAssumption DEF NoBallot, Ballot

\* A ballot of a command or of a window is no news to its owner.
LEMMA IssuedStarted ==
  ASSUME NEW b \in Issued(proposer), b # NoBallot
  PROVE  /\ Started(b) /\ b \in Ballot /\ Owner(b) \in Node
         /\ AtMost(b, proposer[Owner(b)].highest)
BY StartedBallot DEF Issued, Started

LEMMA GoodBallot ==
  ASSUME IInv, NEW m, GoodMessage(m, Issued(proposer)),
         m.type \in {"Prepare", "Promise", "Accept", "Accepted", "Resolution"}
  PROVE  /\ m.bal \in Issued(proposer) /\ m.bal # NoBallot
         /\ \A n \in Node : Continues(n, Observe(proposer[n], m.bal, n))
<1>1. m \in Message /\ m.bal \in Issued(proposer)
  BY DEF GoodMessage
<1>2. m.bal # NoBallot
  BY <1>1, MessageFields, NoBallotNotBallot
<1>3. Started(m.bal) /\ AtMost(m.bal, proposer[Owner(m.bal)].highest)
  BY <1>1, <1>2, IssuedStarted
<1>4. ASSUME NEW n \in Node PROVE Continues(n, Observe(proposer[n], m.bal, n))
  <2>1. GoodProposer(n, proposer[n])
    BY DEF IInv
  <2>. QED
    BY <1>3, <2>1, ObserveContinues DEF Continues
<1>. QED
  BY <1>1, <1>2, <1>4

LEMMA ReceivedBallot ==
  ASSUME IInv, NEW m \in msgs,
         m.type \in {"Prepare", "Promise", "Accept", "Accepted", "Resolution"}
  PROVE  /\ m.bal \in Issued(proposer) /\ m.bal # NoBallot
         /\ \A n \in Node : Continues(n, Observe(proposer[n], m.bal, n))
BY GoodBallot DEF IInv

LEMMA SentProposal ==
  ASSUME NEW B, NEW to \in Node, NEW v \in ClientValue
  PROVE  GoodMessage([type |-> "Proposal", to |-> to, val |-> v], B)
BY DEF GoodMessage, Message

LEMMA SentPrepare ==
  ASSUME NEW B, NEW b \in B \cap Ballot
  PROVE  GoodMessage([type |-> "Prepare", bal |-> b], B)
BY DEF GoodMessage, Message

LEMMA SentPromise ==
  ASSUME NEW B, Ballots(B), NEW b \in B \cap Ballot, NEW n \in Node,
         NEW report, GoodReport(report, B), NEW k \in WindowSlot
  PROVE  GoodMessage([type |-> "Promise", from |-> n, bal |-> b, report |-> report,
                      omitted |-> k], B)
<1>1. PICK S \in SUBSET Slot : report \in [S -> [bal : B \ {NoBallot}, val : Value]]
  BY DEF GoodReport
<1>2. B \ {NoBallot} \subseteq Ballot
  BY DEF Ballots, BallotOption
<1>3. report \in [S -> [bal : Ballot, val : Value]]
  BY <1>1, <1>2
<1>4. report \in Reports
  BY <1>3 DEF Reports
<1>. QED
  BY <1>4 DEF GoodMessage, Message

LEMMA SentAccept ==
  ASSUME NEW B, NEW b \in B \cap Ballot, NEW batch, GoodBatch(batch)
  PROVE  GoodMessage(AcceptMsg(b, batch), B)
BY BatchIsGood DEF GoodMessage, Message, AcceptMsg

LEMMA SentReject ==
  ASSUME NEW B, NEW b \in B \cap Ballot, NEW c \in B \cap Ballot
  PROVE  GoodMessage([type |-> "Reject", proposed |-> b, preempted |-> c], B)
BY DEF GoodMessage, Message

LEMMA SentAccepted ==
  ASSUME NEW B, NEW b \in B \cap Ballot, NEW n \in Node, NEW S \in SUBSET Slot
  PROVE  GoodMessage([type |-> "Accepted", from |-> n, bal |-> b, slots |-> S], B)
BY DEF GoodMessage, Message

LEMMA SentResolution ==
  ASSUME NEW B, NEW b \in B \cap Ballot, NEW to \in SUBSET Node,
         NEW decisions, GoodBatch(decisions)
  PROVE  GoodMessage([type |-> "Resolution", to |-> to, bal |-> b,
                      decisions |-> decisions], B)
BY BatchIsGood DEF GoodMessage, Message

LEMMA SentCatchup ==
  ASSUME NEW B, NEW to \in Node, NEW n \in Node, NEW S \in SUBSET WindowSlot
  PROVE  GoodMessage([type |-> "Catchup", to |-> to, from |-> n, slots |-> S], B)
BY DEF GoodMessage, Message

LEMMA SendEffect ==
  ASSUME NEW n, NEW to, NEW M, Send(M) \/ SendTo(n, to, M) \/ UNCHANGED <<msgs, panicked>>
  PROVE  msgs' \subseteq msgs \cup M /\ panicked' \subseteq panicked \cup {n}
BY DEF Send, SendTo
-----------------------------------------------------------------------------
(***************************************************************************)
(* A handler that leaves the proposer or the window of its node alone.     *)
(***************************************************************************)
LEMMA KeepProposer ==
  ASSUME IInv, NEW n \in Node
  PROVE  /\ Continues(n, proposer[n])
         /\ UNCHANGED proposer => SetProposer(n, proposer[n])
<1>1. GoodProposer(n, proposer[n]) /\ proposer[n].highest \in BallotOption
  BY DEF IInv, GoodProposer, Proposer
<1>. QED
  BY <1>1, BallotOrder DEF IInv, SetProposer, Continues

LEMMA KeepWindow ==
  ASSUME IInv, NEW n \in Node
  PROVE  UNCHANGED window => SetWindow(n, window[n])
BY DEF IInv, SetWindow

LEMMA OwnBallot ==
  ASSUME NEW n \in Node, NEW p, GoodProposer(n, p), ~IsFollower(p)
  PROVE  p.proposal = p.highest /\ Started(p.highest) /\ Owner(p.highest) = n
BY NodeAssumption DEF GoodProposer, Proposer, Started, Owner, NoBallot

LEMMA CampaignPreserves ==
  ASSUME IInv, NEW n \in Node, NEW p, GoodProposer(n, p),
         p.highest = proposer[n].highest,
         Campaign(n, p), UNCHANGED window
  PROVE  IInv'
<1>. DEFINE q == Prepare(p, n)
            M == {[type |-> "Prepare", bal |-> q.highest]}
            B == IssuedNow(n, q)
<1>1. Continues(n, q) /\ Started(q.highest) /\ Owner(q.highest) = n
  BY PrepareContinues DEF Continues, Campaign
<1>2. GoodWindow(window[n], B) /\ q.highest \in B \cap Ballot
  BY <1>1, Continued, StartedBallot
<1>3. \A m \in M : GoodMessage(m, B)
  BY <1>2, SentPrepare
<1>4. Effect(n, q, window[n], M)
  BY KeepWindow, SendEffect DEF Effect, Campaign
<1>. QED
  BY <1>1, <1>2, <1>3, <1>4, EffectPreserves

LEMMA ProposePreserves ==
  ASSUME IInv, NEW n \in Node, NEW v \in ClientValue, Propose(n, v)
  PROVE  IInv'
<1>. DEFINE p == proposer[n]
<1>1. GoodProposer(n, p) /\ Continues(n, p)
  BY KeepProposer DEF IInv
<1>2. CASE ProposeFirst(n, v)
  BY <1>1, <1>2, QueueContinues, CampaignPreserves DEF ProposeFirst
<1>3. CASE ProposeRedirect(n, v)
  <2>. DEFINE M == {[type |-> "Proposal", to |-> Owner(p.highest), val |-> v]}
  <2>1. Owner(p.highest) \in Node
    BY <1>1, <1>3, StartedBallot DEF ProposeRedirect, GoodProposer, Proposer, Started
  <2>2. GoodWindow(window[n], IssuedNow(n, p))
    BY <1>1, Continued
  <2>3. \A m \in M : GoodMessage(m, IssuedNow(n, p))
    BY <2>1, SentProposal
  <2>4. Effect(n, p, window[n], M)
    BY <1>3, KeepProposer, KeepWindow, SendEffect DEF Effect, ProposeRedirect
  <2>. QED
    BY <1>1, <2>2, <2>3, <2>4, EffectPreserves
<1>4. CASE ProposeQueue(n, v)
  <2>. DEFINE q == PushProposal(p, v)
  <2>1. Continues(n, q)
    BY <1>1, <1>4, QueueContinues DEF ProposeQueue, Continues
  <2>2. GoodWindow(window[n], IssuedNow(n, q))
    BY <2>1, Continued
  <2>3. Effect(n, q, window[n], {})
    BY <1>4, KeepWindow DEF Effect, ProposeQueue
  <2>. QED
    BY <2>1, <2>2, <2>3, EffectPreserves
<1>5. CASE ProposeLead(n, v)
  <2>. DEFINE w == ProposeWindow(window[n], p.proposal, <<v>>)
              s == NextSlot(window[n])
              M == {AcceptMsg(p.proposal, Const({s}, v))}
              B == IssuedNow(n, p)
  <2>1. p.proposal = p.highest /\ Started(p.highest) /\ Owner(p.highest) = n
    BY <1>1, <1>5, OwnBallot DEF ProposeLead, IsLeader, IsFollower
  <2>2. p.proposal \in B \cap Ballot /\ Ballots(B) /\ GoodWindow(window[n], B)
        /\ p.proposal # NoBallot
    BY <1>1, <2>1, Continued, StartedBallot DEF Started
  <2>3. s \in Slot /\ <<v>> \in Seq(Value) /\ FreshSlots(window[n], <<v>>) = {s}
    <3>1. s \in Slot /\ s \in Nat
      BY <1>5, SlotBound DEF ProposeLead
    <3>2. <<v>> \in Seq(Value) /\ Len(<<v>>) = 1
      BY DEF Value
    <3>. QED
      BY <3>1, <3>2 DEF FreshSlots
  <2>4. GoodWindow(w, B)
    BY <2>2, <2>3, ProposeWindowGood
  <2>5. GoodBatch(Const({s}, v))
    BY <2>3 DEF GoodBatch, Const, Value
  <2>6. \A m \in M : GoodMessage(m, B)
    BY <2>2, <2>5, SentAccept
  <2>7. Effect(n, p, w, M)
    BY <1>5, KeepProposer, SendEffect DEF Effect, ProposeLead
  <2>. QED
    BY <1>1, <2>4, <2>6, <2>7, EffectPreserves
<1>. QED
  BY <1>2, <1>3, <1>4, <1>5 DEF Propose

LEMMA ProposeLeadershipPreserves ==
  ASSUME IInv, NEW n \in Node, ProposeLeadership(n)
  PROVE  IInv'
<1>. DEFINE p == proposer[n]
            B == IssuedNow(n, p)
<1>1. GoodProposer(n, p) /\ Continues(n, p) /\ GoodWindow(window[n], B)
  BY KeepProposer, Continued DEF IInv
<1>2. CASE Campaign(n, p)
  BY <1>1, <1>2, CampaignPreserves DEF ProposeLeadership
<1>3. ASSUME NEW M, Send(M), UNCHANGED proposer,
             \A m \in M : GoodMessage(m, B)
      PROVE  IInv'
  <2>1. Effect(n, p, window[n], M)
    BY <1>3, KeepProposer, KeepWindow, SendEffect DEF Effect, ProposeLeadership
  <2>. QED
    BY <1>1, <1>3, <2>1, EffectPreserves
<1>4. ~IsFollower(p) => p.proposal \in B \cap Ballot
  BY <1>1, OwnBallot, Continued, StartedBallot
<1>5. CASE IsCandidate(p) /\ Send({[type |-> "Prepare", bal |-> p.proposal]})
           /\ UNCHANGED proposer
  <2>. DEFINE M == {[type |-> "Prepare", bal |-> p.proposal]}
  <2>1. \A m \in M : GoodMessage(m, B)
    BY <1>4, <1>5, SentPrepare DEF IsCandidate, IsFollower
  <2>. QED
    BY <1>3, <1>5, <2>1
<1>6. CASE IsLeader(p) /\ Send({AcceptMsg(p.proposal, NoValues)})
           /\ UNCHANGED proposer
  <2>. DEFINE M == {AcceptMsg(p.proposal, NoValues)}
  <2>1. GoodBatch(NoValues)
    BY DEF GoodBatch, NoValues
  <2>2. \A m \in M : GoodMessage(m, B)
    BY <1>4, <1>6, <2>1, SentAccept DEF IsLeader, IsFollower
  <2>. QED
    BY <1>3, <1>6, <2>2
<1>. QED
  BY <1>2, <1>5, <1>6 DEF ProposeLeadership
-----------------------------------------------------------------------------
(***************************************************************************)
(* The handlers of the commands of phase 1.                                *)
(***************************************************************************)
LEMMA PreparePreserves ==
  ASSUME IInv, NEW n \in Node, NEW m, GoodMessage(m, Issued(proposer)),
         HandlePrepare(n, m)
  PROVE  IInv'
<1>1. /\ m.type = "Prepare"
      /\ SetProposer(n, Observe(proposer[n], m.bal, n))
      /\ SetWindow(n, PrepareWindow(window[n], m.bal))
      /\ SendTo(n, Owner(m.bal), {PrepareReply(n, window[n], m.bal)})
  BY DEF HandlePrepare
<1>. DEFINE b == m.bal
            p == Observe(proposer[n], b, n)
            w == window[n]
            next == PrepareWindow(w, b)
            reply == PrepareReply(n, w, b)
            B == IssuedNow(n, p)
<1>2. Continues(n, p) /\ b \in Issued(proposer) /\ b # NoBallot
  BY <1>1, GoodBallot
<1>3. Ballots(B) /\ b \in B \cap Ballot /\ b \in BallotOption /\ GoodWindow(w, B)
  BY <1>2, Continued, IssuedStarted DEF BallotOption
<1>4. GoodWindow(next, B)
  BY <1>3, PrepareWindowGood
<1>5. GoodMessage(reply, B)
  <2>1. CASE PrepareStops(w, b) = {}
    <3>1. GoodReport(Report(next), B) /\ next.min \in WindowSlot
      BY <1>3, <1>4, ReportGood, WindowRange
    <3>. QED
      BY <2>1, <1>3, <3>1, SentPromise DEF PrepareReply
  <2>2. CASE PrepareStops(w, b) # {}
    <3>1. PreparePreempted(w, b) \in B \cap Ballot
      BY <2>2, <1>2, <1>3, PreparePreemptedGood DEF Ballots, BallotOption
    <3>. QED
      BY <2>2, <1>3, <3>1, SentReject DEF PrepareReply
  <2>. QED
    BY <2>1, <2>2
<1>6. Effect(n, p, next, {reply})
  BY <1>1, SendEffect DEF Effect
<1>. QED
  BY <1>2, <1>4, <1>5, <1>6, EffectPreserves

LEMMA PromisePreserves ==
  ASSUME IInv, NEW n \in Node, NEW m, GoodMessage(m, Issued(proposer)),
         HandlePromise(n, m)
  PROVE  IInv'
<1>1. LET p == ReceivePromise(proposer[n], m.from, m.bal)
          w == NoticeReport(window[n], m.report)
      IN  /\ m.type = "Promise"
          /\ IsCandidate(proposer[n])
          /\ \/ IsLeader(p) /\ DriveAccept(n, p, w)
             \/ /\ ~IsLeader(p)
                /\ SetProposer(n, p)
                /\ SetWindow(n, w)
                /\ UNCHANGED <<msgs, panicked>>
  BY DEF HandlePromise
<1>. DEFINE p == ReceivePromise(proposer[n], m.from, m.bal)
            w == NoticeReport(window[n], m.report)
            h == p.highest
            q == TakeProposals(p)
<1>2. /\ m \in Message /\ m.from \in Node
      /\ GoodReport(m.report, Issued(proposer))
      /\ GoodProposer(n, proposer[n])
  BY <1>1, MessageFields DEF IInv, GoodMessage
<1>3. GoodProposer(n, p) /\ h = proposer[n].highest /\ p.queue = proposer[n].queue
  BY <1>2, ReceivePromiseContinues
<1>4. Continues(n, p) /\ Continues(n, q) /\ q.highest = h /\ p.queue \in Seq(Value)
  BY <1>3, KeepProposer, QueueContinues DEF Continues
<1>5. ASSUME NEW r, Continues(n, r)
      PROVE  Ballots(IssuedNow(n, r)) /\ GoodWindow(w, IssuedNow(n, r))
  <2>. DEFINE B == IssuedNow(n, r)
  <2>1. Ballots(B) /\ GoodWindow(window[n], B) /\ Issued(proposer) \subseteq B
    BY <1>5, Continued
  <2>3. GoodMessage(m, B)
    BY <2>1, MoreBallots
  <2>2. GoodReport(m.report, B)
    BY <1>1, <2>3 DEF GoodMessage
  <2>. QED
    BY <2>1, <2>2, NoticeReportGood
<1>6. CASE ~IsLeader(p)
  <2>1. Effect(n, p, w, {})
    BY <1>1, <1>6 DEF Effect
  <2>. QED
    BY <1>4, <1>5, <2>1, EffectPreserves
<1>7. CASE IsLeader(p)
  <2>. DEFINE driven == DriveWindow(w, h, p.queue)
              batch == DriveValues(driven)
              M == {AcceptMsg(h, batch)}
              B == IssuedNow(n, q)
  <2>1. DriveAccept(n, p, w)
    BY <1>1, <1>7
  <2>2. /\ FreshSlots(w, p.queue) \subseteq Slot /\ DOMAIN batch \subseteq Slot
        /\ SetProposer(n, q) /\ SetWindow(n, driven) /\ Send(M)
    BY <2>1 DEF DriveAccept
  <2>3. Started(h) /\ Owner(h) = n
    BY <1>3, <1>7, OwnBallot DEF IsLeader, IsFollower
  <2>4. h \in B \cap Ballot /\ h # NoBallot
    BY <1>4, <2>3, Continued, StartedBallot DEF Started
  <2>5. GoodWindow(driven, B) /\ GoodBatch(batch)
    <3>1. Ballots(B) /\ GoodWindow(w, B)
      BY <1>4, <1>5
    <3>. QED
      BY <1>4, <2>2, <2>4, <3>1, DriveWindowGood
  <2>6. \A k \in M : GoodMessage(k, B)
    BY <2>4, <2>5, SentAccept
  <2>7. Effect(n, q, driven, M)
    BY <2>2, SendEffect DEF Effect
  <2>. QED
    BY <1>4, <2>5, <2>6, <2>7, EffectPreserves
<1>. QED
  BY <1>6, <1>7

LEMMA RejectPreserves ==
  ASSUME IInv, NEW n \in Node, NEW m, GoodMessage(m, Issued(proposer)),
         HandleReject(n, m)
  PROVE  IInv'
<1>1. /\ m.type = "Reject"
      /\ Forward(n, ReceiveReject(proposer[n], m.proposed, m.preempted, n))
  BY DEF HandleReject
<1>. DEFINE p == ReceiveReject(proposer[n], m.proposed, m.preempted, n)
            q == TakeProposals(p)
            leader == Owner(p.highest)
            M == {[type |-> "Proposal", to |-> leader, val |-> v] :
                    v \in {p.queue[i] : i \in DOMAIN p.queue}}
<1>2. m.preempted \in Issued(proposer) /\ m.preempted # NoBallot
  BY <1>1, MessageFields, NoBallotNotBallot DEF IInv, GoodMessage
<1>3. Continues(n, p)
  <2>1. GoodProposer(n, proposer[n])
    BY DEF IInv
  <2>2. Continues(n, Observe(proposer[n], m.preempted, n))
    BY <1>2, <2>1, IssuedStarted, ObserveContinues DEF Continues
  <2>. QED
    BY <2>2, KeepProposer DEF ReceiveReject
<1>4. Continues(n, q) /\ p \in Proposer
  BY <1>3, QueueContinues DEF Continues, GoodProposer
<1>5. p.highest # NoBallot => \A k \in M : GoodMessage(k, IssuedNow(n, q))
  <2>1. p.highest # NoBallot => leader \in Node
    BY <1>4, StartedBallot DEF Proposer, Started
  <2>2. \A i \in DOMAIN p.queue : p.queue[i] \in ClientValue
    BY <1>4 DEF Proposer, Queue
  <2>. QED
    BY <2>1, <2>2, SentProposal
<1>6. SetWindow(n, window[n])
  BY KeepWindow DEF HandleReject
<1>7. CASE SetProposer(n, p) /\ UNCHANGED <<msgs, panicked>>
  <2>1. Effect(n, p, window[n], {}) /\ GoodWindow(window[n], IssuedNow(n, p))
    BY <1>3, <1>6, <1>7, Continued DEF Effect
  <2>. QED
    BY <1>3, <2>1, EffectPreserves
<1>8. CASE SetProposer(n, q) /\ UNCHANGED <<msgs, panicked>>
  <2>1. Effect(n, q, window[n], {}) /\ GoodWindow(window[n], IssuedNow(n, q))
    BY <1>4, <1>6, <1>8, Continued DEF Effect
  <2>. QED
    BY <1>4, <2>1, EffectPreserves
<1>9. CASE SetProposer(n, q) /\ p.highest # NoBallot /\ SendTo(n, leader, M)
  <2>1. Effect(n, q, window[n], M) /\ GoodWindow(window[n], IssuedNow(n, q))
    BY <1>4, <1>6, <1>9, Continued, SendEffect DEF Effect
  <2>. QED
    BY <1>4, <1>5, <1>9, <2>1, EffectPreserves
<1>. QED
  BY <1>1, <1>7, <1>8, <1>9 DEF Forward
-----------------------------------------------------------------------------
(***************************************************************************)
(* The handlers of the commands of phase 2.                                *)
(***************************************************************************)
LEMMA AcceptPreserves ==
  ASSUME IInv, NEW n \in Node, NEW m, GoodMessage(m, Issued(proposer)),
         HandleAccept(n, m)
  PROVE  IInv'
<1>1. /\ m.type = "Accept"
      /\ SetProposer(n, Observe(proposer[n], m.bal, n))
      /\ SetWindow(n, AcceptWindow(window[n], m.bal, m.batch))
      /\ SendTo(n, Owner(m.bal), AcceptReplies(n, window[n], m.bal, m.batch))
  BY DEF HandleAccept
<1>. DEFINE b == m.bal
            p == Observe(proposer[n], b, n)
            w == window[n]
            next == AcceptWindow(w, b, m.batch)
            replies == AcceptReplies(n, w, b, m.batch)
            B == IssuedNow(n, p)
<1>2. Continues(n, p) /\ b \in Issued(proposer) /\ b # NoBallot
  BY <1>1, GoodBallot
<1>3. Ballots(B) /\ b \in B \cap Ballot /\ b \in BallotOption /\ GoodWindow(w, B)
  BY <1>2, Continued, IssuedStarted DEF BallotOption
<1>4. GoodBatch(m.batch)
  BY <1>1, MessageFields, BatchIsGood DEF IInv, GoodMessage
<1>5. GoodWindow(next, B)
  BY <1>2, <1>3, <1>4, AcceptWindowGood
<1>6. \A k \in replies : GoodMessage(k, B)
  <2>1. CASE AcceptStops(w, b, m.batch) = {}
    <3>1. DOMAIN m.batch \in SUBSET Slot
      BY <1>4, BatchSlots
    <3>. QED
      BY <2>1, <1>3, <3>1, SentAccepted DEF AcceptReplies
  <2>2. CASE AcceptStops(w, b, m.batch) # {} /\ AcceptSilent(w, b, m.batch)
    BY <2>2 DEF AcceptReplies
  <2>3. CASE AcceptStops(w, b, m.batch) # {} /\ ~AcceptSilent(w, b, m.batch)
    <3>1. AcceptPreempted(w, b, m.batch) \in B \cap Ballot
      BY <2>3, <1>2, <1>3, <1>4, AcceptPreemptedGood DEF Ballots, BallotOption
    <3>. QED
      BY <2>3, <1>3, <3>1, SentReject DEF AcceptReplies
  <2>. QED
    BY <2>1, <2>2, <2>3
<1>7. Effect(n, p, next, replies)
  BY <1>1, SendEffect DEF Effect
<1>. QED
  BY <1>2, <1>5, <1>6, <1>7, EffectPreserves

LEMMA AcceptedPreserves ==
  ASSUME IInv, NEW n \in Node, NEW m, GoodMessage(m, Issued(proposer)),
         HandleAccepted(n, m)
  PROVE  IInv'
<1>1. LET w == window[n]
          decisions == NewlyResolved(w, m.from, m.bal, m.slots)
      IN  /\ m.type = "Accepted"
          /\ SetProposer(n, Observe(proposer[n], m.bal, n))
          /\ SetWindow(n, AcceptedWindow(w, m.from, m.bal, m.slots))
          /\ \/ Send({[type |-> "Resolution", to |-> Peers(n), bal |-> m.bal,
                       decisions |-> decisions]})
             \/ UNCHANGED <<msgs, panicked>>
  BY DEF HandleAccepted
<1>. DEFINE b == m.bal
            p == Observe(proposer[n], b, n)
            w == window[n]
            next == AcceptedWindow(w, m.from, b, m.slots)
            decisions == NewlyResolved(w, m.from, b, m.slots)
            M == {[type |-> "Resolution", to |-> Peers(n), bal |-> b,
                   decisions |-> decisions]}
            B == IssuedNow(n, p)
<1>2. Continues(n, p) /\ b \in Issued(proposer) /\ b # NoBallot
  BY <1>1, GoodBallot
<1>3. Ballots(B) /\ b \in B \cap Ballot /\ GoodWindow(w, B)
  BY <1>2, Continued, IssuedStarted
<1>4. m.from \in Node /\ m.slots \in SUBSET Slot
  BY <1>1, MessageFields DEF IInv, GoodMessage
<1>5. GoodWindow(next, B)
  BY <1>3, <1>4, AcceptedWindowGood
<1>6. \A k \in M : GoodMessage(k, B)
  BY <1>3, <1>4, NewlyResolvedGood, SentResolution DEF Peers
<1>7. Effect(n, p, next, M)
  BY <1>1, SendEffect DEF Effect
<1>. QED
  BY <1>2, <1>5, <1>6, <1>7, EffectPreserves

LEMMA ResolutionPreserves ==
  ASSUME IInv, NEW n \in Node, NEW m, GoodMessage(m, Issued(proposer)),
         HandleResolution(n, m)
  PROVE  IInv'
<1>1. LET p == Observe(proposer[n], m.bal, n)
          w == ResolutionWindow(window[n], m.bal, m.decisions)
          leader == Owner(p.highest)
      IN  /\ m.type = "Resolution"
          /\ SetProposer(n, p)
          /\ SetWindow(n, w)
          /\ \/ SendTo(n, leader,
                       {[type |-> "Catchup", to |-> leader, from |-> n,
                         slots |-> MissingSlots(w)]})
             \/ UNCHANGED <<msgs, panicked>>
  BY DEF HandleResolution
<1>. DEFINE b == m.bal
            p == Observe(proposer[n], b, n)
            w == ResolutionWindow(window[n], b, m.decisions)
            leader == Owner(p.highest)
            M == {[type |-> "Catchup", to |-> leader, from |-> n,
                   slots |-> MissingSlots(w)]}
            B == IssuedNow(n, p)
<1>2. Continues(n, p) /\ b \in Issued(proposer) /\ b # NoBallot
  BY <1>1, GoodBallot
<1>3. Ballots(B) /\ b \in B /\ GoodWindow(window[n], B)
  BY <1>2, Continued
<1>4. GoodBatch(m.decisions)
  BY <1>1, MessageFields, BatchIsGood DEF IInv, GoodMessage
<1>5. GoodWindow(w, B)
  BY <1>2, <1>3, <1>4, ResolutionWindowGood
<1>6. leader \in Node
  <2>1. GoodProposer(n, proposer[n]) /\ Started(b)
        /\ (Owner(b) = n => AtMost(b, proposer[n].highest))
    BY <1>2, IssuedStarted DEF IInv
  <2>2. p.highest # NoBallot /\ p \in Proposer
    BY <2>1, ObserveContinues DEF GoodProposer
  <2>. QED
    BY <2>2, StartedBallot DEF Started, Proposer
<1>7. \A k \in M : GoodMessage(k, B)
  <2>1. MissingSlots(w) \in SUBSET WindowSlot
    BY <1>5, WindowRange DEF MissingSlots
  <2>. QED
    BY <1>6, <2>1, SentCatchup
<1>8. Effect(n, p, w, M)
  BY <1>1, SendEffect DEF Effect
<1>. QED
  BY <1>2, <1>5, <1>7, <1>8, EffectPreserves

LEMMA CatchupPreserves ==
  ASSUME IInv, NEW n \in Node, NEW m, GoodMessage(m, Issued(proposer)),
         HandleCatchup(n, m)
  PROVE  IInv'
<1>. DEFINE w == window[n]
            p == proposer[n]
            B == IssuedNow(n, p)
            M == {[type |-> "Resolution", to |-> {m.from}, bal |-> w.acc[s].bal,
                      decisions |-> [t \in RunOf(w, m.slots, s) |-> w.acc[t].val]] :
                       s \in Decided(w, m.slots)}
<1>1. m.type = "Catchup" /\ Send(M) /\ UNCHANGED <<proposer, window>>
  BY DEF HandleCatchup
<1>2. Continues(n, p) /\ GoodWindow(w, B) /\ Ballots(B)
  BY KeepProposer, Continued
<1>3. m.from \in Node /\ m.slots \in SUBSET WindowSlot
  BY <1>1, MessageFields DEF IInv, GoodMessage
<1>4. ASSUME NEW s \in Decided(w, m.slots)
      PROVE  GoodMessage([type |-> "Resolution", to |-> {m.from}, bal |-> w.acc[s].bal,
                          decisions |-> [t \in RunOf(w, m.slots, s) |-> w.acc[t].val]], B)
  <2>1. w.acc[s].bal \in B \cap Ballot
    BY <1>2, <1>3, DecidedGood DEF Ballots, BallotOption
  <2>2. GoodBatch([t \in RunOf(w, m.slots, s) |-> w.acc[t].val])
    BY <1>2, <1>3, DecidedGood
  <2>3. {m.from} \in SUBSET Node
    BY <1>3
  <2>. QED
    BY <2>1, <2>2, <2>3, SentResolution
<1>5. \A k \in M : GoodMessage(k, B)
  BY <1>4
<1>6. Effect(n, p, w, M)
  BY <1>1, KeepProposer, KeepWindow, SendEffect DEF Effect
<1>. QED
  BY <1>2, <1>5, <1>6, EffectPreserves
-----------------------------------------------------------------------------
(***************************************************************************)
(* IInv is an inductive invariant.                                         *)
(***************************************************************************)
LEMMA InitIInv == Init => IInv
<1>. SUFFICES ASSUME Init PROVE IInv
  OBVIOUS
<1>. DEFINE B == Issued(proposer)
<1>1. Ballots(B)
  BY DEF Ballots, Issued, BallotOption
<1>2. NewProposer \in Proposer /\ IsFollower(NewProposer)
  <2>1. <<>> \in Queue
    BY MaxQueueAssumption DEF Queue
  <2>. QED
    BY <2>1 DEF NewProposer, Proposer, IsFollower, BallotOption
<1>3. NewWindow \in Window /\ GoodWindow(NewWindow, B)
  <2>1. GoodAcceptor(Unopened, B) /\ ~HasValue(Unopened) /\ NoBallot \in B
    BY <1>1, AwaitValueGood DEF Unopened, Ballots
  <2>2. NewWindow \in Window
    BY <2>1, MaxSlotAssumption
    DEF GoodAcceptor, NewWindow, Window, WindowSlot, BallotOption
  <2>3. \A s \in WindowSlot : NewWindow.acc[s] = Unopened
    BY DEF NewWindow
  <2>. QED
    BY <2>1, <2>2, <2>3, MaxSlotAssumption DEF GoodWindow, NewWindow, WindowSlot
<1>. QED
  BY <1>2, <1>3, NodeAssumption
  DEF Init, IInv, GoodProposer, NewProposer, Owner, NoBallot

\* Whichever command a node handles, be it among those sent or not.
LEMMA HandlerPreserves ==
  ASSUME IInv, NEW n \in Node, NEW m, GoodMessage(m, Issued(proposer)),
         \/ HandleProposal(n, m) \/ HandlePrepare(n, m) \/ HandlePromise(n, m)
         \/ HandleAccept(n, m) \/ HandleReject(n, m) \/ HandleAccepted(n, m)
         \/ HandleResolution(n, m) \/ HandleCatchup(n, m)
  PROVE  IInv'
<1>1. CASE HandleProposal(n, m)
  <2>1. m.val \in ClientValue /\ Propose(n, m.val)
    BY <1>1, MessageFields DEF GoodMessage, HandleProposal
  <2>. QED
    BY <2>1, ProposePreserves
<1>. QED
  BY <1>1, PreparePreserves, PromisePreserves, AcceptPreserves, RejectPreserves,
     AcceptedPreserves, ResolutionPreserves, CatchupPreserves

LEMMA NextIInv == IInv /\ [Next]_vars => IInv'
<1>. SUFFICES ASSUME IInv, [Next]_vars PROVE IInv'
  OBVIOUS
<1>1. CASE UNCHANGED vars
  BY <1>1 DEF IInv, vars
<1>2. ASSUME NEW n \in Node, ClientProposal(n) PROVE IInv'
  BY <1>2, ProposePreserves DEF ClientProposal
<1>3. \A m \in msgs : GoodMessage(m, Issued(proposer))
  BY DEF IInv
<1>4. ASSUME NEW n \in Node,
             \/ OnProposal(n) \/ OnPrepare(n) \/ OnPromise(n)
             \/ OnAccept(n) \/ OnReject(n) \/ OnAccepted(n)
             \/ OnResolution(n) \/ OnCatchup(n)
      PROVE  IInv'
  BY <1>3, <1>4, HandlerPreserves
  DEF OnProposal, OnPrepare, OnPromise, OnAccept, OnReject, OnAccepted, OnResolution,
      OnCatchup
<1>. QED
  BY <1>1, <1>2, <1>4, ProposeLeadershipPreserves DEF Next

LEMMA IInvImplies == IInv => TypeOK /\ LeaderHoldsHighest /\ FollowsAnother
BY DEF IInv, TypeOK, GoodMessage, GoodProposer, LeaderHoldsHighest, FollowsAnother

(***************************************************************************)
(* The state of every replica, and every command sent, has its type: in    *)
(* particular every slot of the open range has an acceptor.                *)
(***************************************************************************)
THEOREM TypeCorrect == Spec => []TypeOK
BY InitIInv, NextIInv, IInvImplies, PTL DEF Spec

(***************************************************************************)
(* A candidate or leader holds the highest ballot it has observed, and it  *)
(* is its own: the assertion at the start of drive_accept never fails.     *)
(***************************************************************************)
THEOREM LeadershipIsHighest == Spec => []LeaderHoldsHighest
BY InitIInv, NextIInv, IInvImplies, PTL DEF Spec

(***************************************************************************)
(* A follower never holds a ballot of its own as the highest, so proposal  *)
(* and forward never send a value to the node itself.                      *)
(***************************************************************************)
THEOREM FollowerFollows == Spec => []FollowsAnother
BY InitIInv, NextIInv, IInvImplies, PTL DEF Spec

-----------------------------------------------------------------------------
(***************************************************************************)
(* Every step: the window of a node is replaced by one a handler makes of  *)
(* it.  The ballots of the command are among those issued.                 *)
(***************************************************************************)
LInv == IInv /\ \A n \in Node : Logged(window[n])

Handled(n) == Logged(window'[n]) /\ Keeps(window[n], window'[n])

LEMMA SetWindowHandled ==
  ASSUME LInv, NEW n \in Node, NEW w, SetWindow(n, w),
         Logged(w), Keeps(window[n], w)
  PROVE  \A k \in Node : Handled(k)
<1>1. \A k \in Node : Logged(window[k]) /\ Keeps(window[k], window[k])
  BY KeepsSelf DEF LInv, IInv
<1>2. \A k \in Node : window'[k] = IF k = n THEN w ELSE window[k]
  BY DEF SetWindow, LInv, IInv
<1>. QED
  BY <1>1, <1>2 DEF Handled

LEMMA SameWindowHandled ==
  ASSUME LInv, UNCHANGED window
  PROVE  \A k \in Node : Handled(k)
BY KeepsSelf DEF LInv, IInv, Handled

\* The ballot of a candidate or leader is among those issued.
LEMMA OwnBallotIssued ==
  ASSUME IInv, NEW n \in Node, NEW p, GoodProposer(n, p), ~IsFollower(p),
         p.highest = proposer[n].highest
  PROVE  p.proposal \in Issued(proposer) /\ p.highest \in Issued(proposer)
         /\ p.proposal # NoBallot /\ p.highest # NoBallot
<1>1. p.proposal = p.highest /\ Started(p.highest) /\ Owner(p.highest) = n
  BY OwnBallot
<1>2. AtMost(p.highest, p.highest)
  BY <1>1, BallotOrder DEF Started
<1>. QED
  BY <1>1, <1>2 DEF Issued, Started

LEMMA IssuedBallots == Ballots(Issued(proposer))
BY DEF Ballots, Issued, BallotOption

LEMMA ProposeHandled ==
  ASSUME LInv, NEW n \in Node, NEW v \in ClientValue, Propose(n, v)
  PROVE  \A k \in Node : Handled(k)
<1>. DEFINE p == proposer[n]
            w == window[n]
            s == NextSlot(w)
            B == Issued(proposer)
<1>1. CASE ProposeFirst(n, v) \/ ProposeRedirect(n, v) \/ ProposeQueue(n, v)
  <2>1. UNCHANGED window
    BY <1>1 DEF ProposeFirst, ProposeRedirect, ProposeQueue
  <2>. QED
    BY <2>1, SameWindowHandled
<1>2. CASE ProposeLead(n, v)
  <2>1. Ballots(B) /\ GoodWindow(w, B) /\ Logged(w) /\ GoodProposer(n, p)
    BY IssuedBallots DEF LInv, IInv
  <2>2. p.proposal \in B
    BY <1>2, <2>1, OwnBallotIssued DEF LInv, ProposeLead, IsLeader, IsFollower
  <2>3. FreshSlots(w, <<v>>) \subseteq Slot /\ <<v>> \in Seq(Value)
    <3>1. s \in Slot /\ s \in Nat
      BY <1>2, SlotBound DEF ProposeLead
    <3>2. <<v>> \in Seq(Value) /\ Len(<<v>>) = 1
      BY DEF Value
    <3>. QED
      BY <3>1, <3>2 DEF FreshSlots
  <2>4. LET u == ProposeWindow(w, p.proposal, <<v>>) IN Logged(u) /\ Keeps(w, u)
    BY <2>1, <2>2, <2>3, ProposeLogged
  <2>5. SetWindow(n, ProposeWindow(w, p.proposal, <<v>>))
    BY <1>2 DEF ProposeLead
  <2>. QED
    BY <2>4, <2>5, SetWindowHandled
<1>. QED
  BY <1>1, <1>2 DEF Propose

LEMMA PromiseHandled ==
  ASSUME LInv, NEW n \in Node, NEW m, GoodMessage(m, Issued(proposer)),
         HandlePromise(n, m)
  PROVE  \A k \in Node : Handled(k)
<1>1. LET p == ReceivePromise(proposer[n], m.from, m.bal)
          w == NoticeReport(window[n], m.report)
      IN  /\ m.type = "Promise"
          /\ \/ IsLeader(p) /\ DriveAccept(n, p, w)
             \/ ~IsLeader(p) /\ SetWindow(n, w)
  BY DEF HandlePromise
<1>. DEFINE p == ReceivePromise(proposer[n], m.from, m.bal)
            w == NoticeReport(window[n], m.report)
            B == Issued(proposer)
            driven == DriveWindow(w, p.highest, p.queue)
<1>2. /\ Ballots(B) /\ GoodWindow(window[n], B) /\ Logged(window[n])
      /\ GoodProposer(n, proposer[n]) /\ m.from \in Node /\ GoodReport(m.report, B)
  BY <1>1, IssuedBallots, MessageFields DEF LInv, IInv, GoodMessage
<1>3. GoodWindow(w, B) /\ Logged(w) /\ Keeps(window[n], w)
  BY <1>2, NoticeReportGood, NoticeReportLogged
<1>4. GoodProposer(n, p) /\ p.highest = proposer[n].highest
  BY <1>2, ReceivePromiseContinues
<1>5. CASE ~IsLeader(p)
  BY <1>1, <1>3, <1>5, SetWindowHandled
<1>6. CASE IsLeader(p)
  <2>1. FreshSlots(w, p.queue) \subseteq Slot /\ SetWindow(n, driven)
    BY <1>1, <1>6 DEF DriveAccept
  <2>2. p.highest \in B /\ p.highest # NoBallot
    BY <1>4, <1>6, OwnBallotIssued DEF LInv, IsLeader, IsFollower
  <2>3. p.queue \in Seq(Value)
    BY <1>4, QueueContinues
  <2>. HIDE DEF w, p
  <2>4. GoodWindow(driven, B) /\ Logged(driven) /\ Keeps(w, driven)
    <3>1. DOMAIN DriveValues(driven) \subseteq Slot
      BY <1>1, <1>6 DEF DriveAccept, w, p
    <3>. QED
      BY <1>2, <1>3, <2>1, <2>2, <2>3, <3>1, DriveWindowGood, DriveLogged
  <2>5. Keeps(window[n], driven)
    <3>1. window[n].min \in Nat /\ w.min \in Nat /\ driven.min \in Nat
      BY <1>2, <1>3, <2>4, WindowFields DEF GoodWindow
    <3>. QED
      BY <1>3, <2>4, <3>1, KeepsTransitive
  <2>. QED
    BY <2>1, <2>4, <2>5, SetWindowHandled
<1>. QED
  BY <1>5, <1>6

LEMMA BallotHandled ==
  ASSUME LInv, NEW n \in Node, NEW m, GoodMessage(m, Issued(proposer)),
         \/ HandlePrepare(n, m) \/ HandleAccept(n, m)
         \/ HandleAccepted(n, m) \/ HandleResolution(n, m)
  PROVE  \A k \in Node : Handled(k)
<1>. DEFINE w == window[n]
            B == Issued(proposer)
<1>1. IInv /\ Ballots(B) /\ GoodWindow(w, B) /\ Logged(w)
  BY IssuedBallots DEF LInv, IInv
<1>2. CASE HandlePrepare(n, m)
  <2>1. SetWindow(n, PrepareWindow(w, m.bal))
    BY <1>2 DEF HandlePrepare
  <2>2. LET u == PrepareWindow(w, m.bal) IN Logged(u) /\ Keeps(w, u)
    BY <1>1, PrepareLogged
  <2>. QED
    BY <2>1, <2>2, SetWindowHandled
<1>3. CASE HandleAccept(n, m)
  <2>1. m.type = "Accept" /\ SetWindow(n, AcceptWindow(w, m.bal, m.batch))
    BY <1>3 DEF HandleAccept
  <2>2. m.bal \in B /\ m.bal # NoBallot /\ GoodBatch(m.batch)
    BY <1>1, <2>1, GoodBallot, MessageFields, BatchIsGood DEF GoodMessage
  <2>3. LET u == AcceptWindow(w, m.bal, m.batch) IN Logged(u) /\ Keeps(w, u)
    BY <1>1, <2>2, AcceptLogged
  <2>. QED
    BY <2>1, <2>3, SetWindowHandled
<1>4. CASE HandleAccepted(n, m)
  <2>1. /\ m.type = "Accepted"
        /\ SetWindow(n, AcceptedWindow(w, m.from, m.bal, m.slots))
    BY <1>4 DEF HandleAccepted
  <2>2. m.from \in Node /\ m.slots \in SUBSET Slot
    BY <2>1, MessageFields DEF GoodMessage
  <2>3. LET u == AcceptedWindow(w, m.from, m.bal, m.slots) IN Logged(u) /\ Keeps(w, u)
    BY <1>1, <2>2, AcceptedLogged
  <2>. QED
    BY <2>1, <2>3, SetWindowHandled
<1>5. CASE HandleResolution(n, m)
  <2>1. /\ m.type = "Resolution"
        /\ SetWindow(n, ResolutionWindow(w, m.bal, m.decisions))
    BY <1>5 DEF HandleResolution
  <2>2. m.bal \in B /\ m.bal # NoBallot /\ GoodBatch(m.decisions)
    BY <1>1, <2>1, GoodBallot, MessageFields, BatchIsGood DEF GoodMessage
  <2>3. LET u == ResolutionWindow(w, m.bal, m.decisions) IN Logged(u) /\ Keeps(w, u)
    BY <1>1, <2>2, ResolutionLogged
  <2>. QED
    BY <2>1, <2>3, SetWindowHandled
<1>. QED
  BY <1>2, <1>3, <1>4, <1>5

\* Whichever command a node handles, be it among those sent or not.
LEMMA HandlerHandled ==
  ASSUME LInv, NEW n \in Node, NEW m, GoodMessage(m, Issued(proposer)),
         \/ HandleProposal(n, m) \/ HandlePrepare(n, m) \/ HandlePromise(n, m)
         \/ HandleAccept(n, m) \/ HandleReject(n, m) \/ HandleAccepted(n, m)
         \/ HandleResolution(n, m) \/ HandleCatchup(n, m)
  PROVE  \A k \in Node : Handled(k)
<1>1. CASE HandleProposal(n, m)
  <2>1. m.val \in ClientValue /\ Propose(n, m.val)
    BY <1>1, MessageFields DEF GoodMessage, HandleProposal
  <2>. QED
    BY <2>1, ProposeHandled
<1>2. CASE HandleReject(n, m) \/ HandleCatchup(n, m)
  BY <1>2, SameWindowHandled DEF HandleReject, HandleCatchup
<1>. QED
  BY <1>1, <1>2, PromiseHandled, BallotHandled

LEMMA NextHandled == LInv /\ [Next]_vars => \A k \in Node : Handled(k)
<1>. SUFFICES ASSUME LInv, [Next]_vars PROVE \A k \in Node : Handled(k)
  OBVIOUS
<1>1. CASE UNCHANGED vars
  BY <1>1, SameWindowHandled DEF vars
<1>2. ASSUME NEW n \in Node, ClientProposal(n)
      PROVE  \A k \in Node : Handled(k)
  BY <1>2, ProposeHandled DEF ClientProposal
<1>3. ASSUME NEW n \in Node, ProposeLeadership(n)
      PROVE  \A k \in Node : Handled(k)
  BY <1>3, SameWindowHandled DEF ProposeLeadership
<1>4. \A m \in msgs : GoodMessage(m, Issued(proposer))
  BY DEF LInv, IInv
<1>5. ASSUME NEW n \in Node,
             \/ OnProposal(n) \/ OnPrepare(n) \/ OnPromise(n)
             \/ OnAccept(n) \/ OnReject(n) \/ OnAccepted(n)
             \/ OnResolution(n) \/ OnCatchup(n)
      PROVE  \A k \in Node : Handled(k)
  BY <1>4, <1>5, HandlerHandled
  DEF OnProposal, OnPrepare, OnPromise, OnAccept, OnReject, OnAccepted, OnResolution,
      OnCatchup
<1>. QED
  BY <1>1, <1>2, <1>3, <1>5 DEF Next

LEMMA InitLInv == Init => LInv
<1>. SUFFICES ASSUME Init PROVE LInv
  OBVIOUS
<1>1. Logged(NewWindow)
  BY SlotBound, MaxSlotAssumption
  DEF Logged, Shape, NewWindow, EmptyAt, Unopened, AwaitValue, ResolvedAt, IsResolved,
      WindowSlot
<1>. QED
  BY <1>1, InitIInv DEF Init, LInv

LEMMA NextLInv == LInv /\ [Next]_vars => LInv'
BY NextIInv, NextHandled DEF LInv, Handled

LEMMA LInvImplies == LInv => OpenMinUndecided
<1>. SUFFICES ASSUME LInv, NEW n \in Node
              PROVE  LET w == window[n]
                     IN  /\ w.min < w.end /\ ~ResolvedAt(w, w.min)
                         /\ \A s \in 0..(w.min - 1) : ResolvedAt(w, s)
                         /\ \A s \in WindowSlot : EmptyAt(w, s) => w.acc[s] = Unopened
  BY DEF OpenMinUndecided
<1>. DEFINE w == window[n]
<1>1. w.min \in WindowSlot /\ w.min < w.end /\ Logged(w)
  BY WindowFields DEF LInv, IInv, GoodWindow
<1>2. \A s \in 0..(w.min - 1) : s \in WindowSlot /\ s < w.min
  BY <1>1, MaxSlotAssumption DEF WindowSlot
<1>. QED
  BY <1>1, <1>2 DEF Logged, Shape

(***************************************************************************)
(* After every handler, what a replica counts as decided is exactly the    *)
(* resolved prefix of its log, and the slot behind it is open.             *)
(***************************************************************************)
THEOREM DecidedPrefix == Spec => []OpenMinUndecided
BY InitLInv, NextLInv, LInvImplies, PTL DEF Spec

(***************************************************************************)
(* No step makes a replica forget or change a decision it has learnt, or   *)
(* moves its open_min_slot back.                                           *)
(***************************************************************************)
THEOREM DecisionsAreFinal == Spec => ResolvedIsFinal
<1>. DEFINE Final == \A n \in Node :
                       /\ window[n].min <= window'[n].min
                       /\ \A s \in Slot :
                            ResolvedAt(window[n], s) => window'[n].acc[s] = window[n].acc[s]
<1>1. LInv /\ [Next]_vars => Final
  BY NextHandled, SlotBound DEF Handled, Keeps
<1>2. LInv /\ [Next]_vars => [Final]_vars
  BY <1>1
<1>. HIDE DEF Final
<1>3. Spec => [][Final]_vars
  BY <1>2, InitLInv, NextLInv, PTL DEF Spec
<1>. QED
  BY <1>3 DEF Final, ResolvedIsFinal
-----------------------------------------------------------------------------
(***************************************************************************)
(* Every step.                                                             *)
(***************************************************************************)
PromiseHeld(m, w) ==
  /\ AtMost(m.bal, w.max)
  /\ \A s \in WindowSlot : ~ResolvedAt(w, s) => AtMost(m.bal, PromisedAt(w, s))

PInv ==
  /\ LInv
  /\ \A n \in Node : Bounded(window[n])
  /\ \A m \in msgs : m.type = "Promise" => PromiseHeld(m, window[m.from])

Climbed(n) == Bounded(window'[n]) /\ Climbs(window[n], window'[n])

LEMMA SetWindowClimbed ==
  ASSUME PInv, NEW n \in Node, NEW w, SetWindow(n, w),
         Bounded(w), Climbs(window[n], w)
  PROVE  \A k \in Node : Climbed(k)
<1>1. \A k \in Node : Bounded(window[k]) /\ Climbs(window[k], window[k])
  BY IssuedBallots, ClimbsSelf DEF PInv, LInv, IInv
<1>2. \A k \in Node : window'[k] = IF k = n THEN w ELSE window[k]
  BY DEF SetWindow, PInv, LInv, IInv
<1>. QED
  BY <1>1, <1>2 DEF Climbed

LEMMA SameWindowClimbed ==
  ASSUME PInv, UNCHANGED window
  PROVE  \A k \in Node : Climbed(k)
BY IssuedBallots, ClimbsSelf DEF PInv, LInv, IInv, Climbed

LEMMA ProposeClimbed ==
  ASSUME PInv, NEW n \in Node, NEW v \in ClientValue, Propose(n, v)
  PROVE  \A k \in Node : Climbed(k)
<1>. DEFINE p == proposer[n]
            w == window[n]
            s == NextSlot(w)
            B == Issued(proposer)
<1>1. CASE ProposeFirst(n, v) \/ ProposeRedirect(n, v) \/ ProposeQueue(n, v)
  <2>1. UNCHANGED window
    BY <1>1 DEF ProposeFirst, ProposeRedirect, ProposeQueue
  <2>. QED
    BY <2>1, SameWindowClimbed
<1>2. CASE ProposeLead(n, v)
  <2>1. /\ Ballots(B) /\ GoodWindow(w, B) /\ Logged(w) /\ Bounded(w)
        /\ GoodProposer(n, p)
    BY IssuedBallots DEF PInv, LInv, IInv
  <2>2. p.proposal \in B /\ p.proposal # NoBallot
    BY <1>2, <2>1, OwnBallotIssued DEF PInv, LInv, ProposeLead, IsLeader, IsFollower
  <2>3. FreshSlots(w, <<v>>) \subseteq Slot /\ <<v>> \in Seq(Value)
    <3>1. s \in Slot /\ s \in Nat
      BY <1>2, SlotBound DEF ProposeLead
    <3>2. <<v>> \in Seq(Value) /\ Len(<<v>>) = 1
      BY DEF Value
    <3>. QED
      BY <3>1, <3>2 DEF FreshSlots
  <2>4. LET u == ProposeWindow(w, p.proposal, <<v>>) IN Bounded(u) /\ Climbs(w, u)
    BY <2>1, <2>2, <2>3, ProposeRaises
  <2>5. SetWindow(n, ProposeWindow(w, p.proposal, <<v>>))
    BY <1>2 DEF ProposeLead
  <2>. QED
    BY <2>4, <2>5, SetWindowClimbed
<1>. QED
  BY <1>1, <1>2 DEF Propose

LEMMA OnPromiseClimbed ==
  ASSUME PInv, NEW n \in Node, OnPromise(n)
  PROVE  \A k \in Node : Climbed(k)
<1>1. PICK m \in msgs :
        LET p == ReceivePromise(proposer[n], m.from, m.bal)
            w == NoticeReport(window[n], m.report)
        IN  /\ m.type = "Promise"
            /\ \/ IsLeader(p) /\ DriveAccept(n, p, w)
               \/ ~IsLeader(p) /\ SetWindow(n, w)
  BY DEF OnPromise, HandlePromise
<1>. DEFINE p == ReceivePromise(proposer[n], m.from, m.bal)
            w == NoticeReport(window[n], m.report)
            B == Issued(proposer)
            driven == DriveWindow(w, p.highest, p.queue)
<1>2. /\ Ballots(B) /\ GoodWindow(window[n], B) /\ Logged(window[n]) /\ Bounded(window[n])
      /\ GoodProposer(n, proposer[n]) /\ m.from \in Node /\ GoodReport(m.report, B)
  BY <1>1, IssuedBallots, MessageFields DEF PInv, LInv, IInv, GoodMessage
<1>3. /\ GoodWindow(w, B) /\ Logged(w) /\ Bounded(w) /\ Climbs(window[n], w)
  BY <1>2, NoticeReportGood, NoticeReportLogged, NoticeReportRaises
<1>4. GoodProposer(n, p) /\ p.highest = proposer[n].highest
  BY <1>2, ReceivePromiseContinues
<1>5. CASE ~IsLeader(p)
  BY <1>1, <1>3, <1>5, SetWindowClimbed
<1>6. CASE IsLeader(p)
  <2>1. FreshSlots(w, p.queue) \subseteq Slot /\ SetWindow(n, driven)
        /\ DOMAIN DriveValues(driven) \subseteq Slot
    BY <1>1, <1>6 DEF DriveAccept
  <2>2. p.highest \in B /\ p.highest # NoBallot
    BY <1>4, <1>6, OwnBallotIssued DEF PInv, LInv, IsLeader, IsFollower
  <2>3. p.queue \in Seq(Value)
    BY <1>4, QueueContinues
  <2>. HIDE DEF w, p
  <2>4. GoodWindow(driven, B) /\ Keeps(w, driven) /\ Bounded(driven) /\ Climbs(w, driven)
    BY <1>2, <1>3, <2>1, <2>2, <2>3, DriveWindowGood, DriveLogged, DriveRaises
  <2>. HIDE DEF driven
  <2>5. Climbs(window[n], driven)
    BY <1>2, <1>3, <2>4, ClimbsTransitive
  <2>. QED
    BY <2>1, <2>4, <2>5, SetWindowClimbed
<1>. QED
  BY <1>5, <1>6

LEMMA BallotClimbed ==
  ASSUME PInv, NEW n \in Node,
         OnPrepare(n) \/ OnAccept(n) \/ OnAccepted(n) \/ OnResolution(n)
  PROVE  \A k \in Node : Climbed(k)
<1>. DEFINE w == window[n]
            B == Issued(proposer)
<1>1. IInv /\ Ballots(B) /\ GoodWindow(w, B) /\ Logged(w) /\ Bounded(w)
  BY IssuedBallots DEF PInv, LInv, IInv
<1>2. CASE OnPrepare(n)
  <2>1. PICK m \in msgs : m.type = "Prepare" /\ SetWindow(n, PrepareWindow(w, m.bal))
    BY <1>2 DEF OnPrepare, HandlePrepare
  <2>2. m.bal \in B
    BY <1>1, <2>1, ReceivedBallot
  <2>3. LET u == PrepareWindow(w, m.bal) IN Bounded(u) /\ Climbs(w, u)
    BY <1>1, <2>2, PrepareRaises
  <2>. QED
    BY <2>1, <2>3, SetWindowClimbed
<1>3. CASE OnAccept(n)
  <2>1. PICK m \in msgs :
          m.type = "Accept" /\ SetWindow(n, AcceptWindow(w, m.bal, m.batch))
    BY <1>3 DEF OnAccept, HandleAccept
  <2>2. m.bal \in B /\ m.bal # NoBallot /\ GoodBatch(m.batch)
    BY <1>1, <2>1, ReceivedBallot, MessageFields, BatchIsGood DEF IInv, GoodMessage
  <2>3. LET u == AcceptWindow(w, m.bal, m.batch) IN Bounded(u) /\ Climbs(w, u)
    BY <1>1, <2>2, AcceptRaises
  <2>. QED
    BY <2>1, <2>3, SetWindowClimbed
<1>4. CASE OnAccepted(n)
  <2>1. PICK m \in msgs :
          /\ m.type = "Accepted"
          /\ SetWindow(n, AcceptedWindow(w, m.from, m.bal, m.slots))
    BY <1>4 DEF OnAccepted, HandleAccepted
  <2>2. m.from \in Node /\ m.slots \in SUBSET Slot
    BY <1>1, <2>1, MessageFields DEF IInv, GoodMessage
  <2>3. LET u == AcceptedWindow(w, m.from, m.bal, m.slots) IN Bounded(u) /\ Climbs(w, u)
    BY <1>1, <2>2, AcceptedRaises
  <2>. QED
    BY <2>1, <2>3, SetWindowClimbed
<1>5. CASE OnResolution(n)
  <2>1. PICK m \in msgs :
          /\ m.type = "Resolution"
          /\ SetWindow(n, ResolutionWindow(w, m.bal, m.decisions))
    BY <1>5 DEF OnResolution, HandleResolution
  <2>2. m.bal \in B /\ m.bal # NoBallot /\ GoodBatch(m.decisions)
    BY <1>1, <2>1, ReceivedBallot, MessageFields, BatchIsGood DEF IInv, GoodMessage
  <2>3. LET u == ResolutionWindow(w, m.bal, m.decisions) IN Bounded(u) /\ Climbs(w, u)
    BY <1>1, <2>2, ResolutionRaises
  <2>. QED
    BY <2>1, <2>3, SetWindowClimbed
<1>. QED
  BY <1>2, <1>3, <1>4, <1>5

LEMMA NextClimbed == PInv /\ [Next]_vars => \A k \in Node : Climbed(k)
<1>. SUFFICES ASSUME PInv, [Next]_vars PROVE \A k \in Node : Climbed(k)
  OBVIOUS
<1>1. CASE UNCHANGED vars
  BY <1>1, SameWindowClimbed DEF vars
<1>2. ASSUME NEW n \in Node, ClientProposal(n) \/ OnProposal(n)
      PROVE  \A k \in Node : Climbed(k)
  <2>1. PICK v \in ClientValue : Propose(n, v)
    BY <1>2, MessageFields DEF ClientProposal, OnProposal, HandleProposal, PInv, LInv, IInv, GoodMessage
  <2>. QED
    BY <2>1, ProposeClimbed
<1>3. ASSUME NEW n \in Node, ProposeLeadership(n) \/ OnReject(n) \/ OnCatchup(n)
      PROVE  \A k \in Node : Climbed(k)
  BY <1>3, SameWindowClimbed DEF ProposeLeadership, OnReject, HandleReject, OnCatchup, HandleCatchup
<1>. QED
  BY <1>1, <1>2, <1>3, OnPromiseClimbed, BallotClimbed DEF Next
-----------------------------------------------------------------------------
(***************************************************************************)
(* Who promises and who accepts: only prepare sends a Promise, and only    *)
(* accept an Accepted.                                                     *)
(***************************************************************************)
Replies(n) ==
  \/ \E m \in msgs :
       /\ HandlePrepare(n, m)
       /\ msgs' \ msgs \subseteq {PrepareReply(n, window[n], m.bal)}
  \/ \E m \in msgs :
       /\ HandleAccept(n, m)
       /\ msgs' \ msgs \subseteq AcceptReplies(n, window[n], m.bal, m.batch)

SendsOthers == \A m \in msgs' \ msgs : m.type \notin {"Promise", "Accepted"}

LEMMA SendOthers ==
  ASSUME NEW n, NEW to, NEW M, Send(M) \/ SendTo(n, to, M) \/ UNCHANGED <<msgs, panicked>>,
         \A m \in M : m.type \notin {"Promise", "Accepted"}
  PROVE  SendsOthers
BY SendEffect DEF SendsOthers

LEMMA ProposeSendsOthers ==
  ASSUME NEW n, NEW v, Propose(n, v)
  PROVE  SendsOthers
<1>. DEFINE p == proposer[n]
            s == NextSlot(window[n])
            q == Prepare(PushProposal(p, v), n)
<1>1. CASE ProposeFirst(n, v)
  <2>1. Send({[type |-> "Prepare", bal |-> q.highest]})
    BY <1>1 DEF ProposeFirst, Campaign
  <2>. QED
    BY <2>1, SendOthers
<1>2. CASE ProposeRedirect(n, v)
  <2>1. SendTo(n, Owner(p.highest),
               {[type |-> "Proposal", to |-> Owner(p.highest), val |-> v]})
    BY <1>2 DEF ProposeRedirect
  <2>. QED
    BY <2>1, SendOthers
<1>3. CASE ProposeQueue(n, v)
  BY <1>3 DEF ProposeQueue, SendsOthers
<1>4. CASE ProposeLead(n, v)
  <2>1. Send({AcceptMsg(p.proposal, Const({s}, v))})
    BY <1>4 DEF ProposeLead
  <2>. QED
    BY <2>1, SendOthers DEF AcceptMsg
<1>. QED
  BY <1>1, <1>2, <1>3, <1>4 DEF Propose

LEMMA NextReplies == [Next]_vars => SendsOthers \/ \E n \in Node : Replies(n)
<1>. SUFFICES ASSUME [Next]_vars PROVE SendsOthers \/ \E n \in Node : Replies(n)
  OBVIOUS
<1>1. CASE UNCHANGED vars
  BY <1>1 DEF vars, SendsOthers
<1>2. ASSUME NEW n \in Node, ClientProposal(n) \/ OnProposal(n) PROVE SendsOthers
  BY <1>2, ProposeSendsOthers DEF ClientProposal, OnProposal, HandleProposal
<1>3. ASSUME NEW n \in Node, ProposeLeadership(n) PROVE SendsOthers
  <2>1. \/ \E b : Send({[type |-> "Prepare", bal |-> b]})
        \/ \E b : Send({AcceptMsg(b, NoValues)})
    BY <1>3 DEF ProposeLeadership, Campaign
  <2>2. ASSUME NEW b, Send({[type |-> "Prepare", bal |-> b]}) PROVE SendsOthers
    BY <2>2, SendOthers
  <2>3. ASSUME NEW b, Send({AcceptMsg(b, NoValues)}) PROVE SendsOthers
    BY <2>3, SendOthers DEF AcceptMsg
  <2>. QED
    BY <2>1, <2>2, <2>3
<1>4. ASSUME NEW n \in Node, OnPrepare(n) PROVE Replies(n)
  BY <1>4, SendEffect DEF OnPrepare, HandlePrepare, Replies
<1>5. ASSUME NEW n \in Node, OnPromise(n) PROVE SendsOthers
  <2>1. (\E b, batch : Send({AcceptMsg(b, batch)})) \/ UNCHANGED <<msgs, panicked>>
    BY <1>5 DEF OnPromise, HandlePromise, DriveAccept
  <2>2. ASSUME NEW b, NEW batch, Send({AcceptMsg(b, batch)}) PROVE SendsOthers
    BY <2>2, SendOthers DEF AcceptMsg
  <2>. QED
    BY <2>1, <2>2 DEF SendsOthers
<1>6. ASSUME NEW n \in Node, OnAccept(n) PROVE Replies(n)
  BY <1>6, SendEffect DEF OnAccept, HandleAccept, Replies
<1>7. ASSUME NEW n \in Node, OnReject(n) PROVE SendsOthers
  <2>1. PICK p : Forward(n, p)
    BY <1>7 DEF OnReject, HandleReject
  <2>. DEFINE M == {[type |-> "Proposal", to |-> Owner(p.highest), val |-> v] :
                      v \in {p.queue[i] : i \in DOMAIN p.queue}}
  <2>2. SendTo(n, Owner(p.highest), M) \/ UNCHANGED <<msgs, panicked>>
    BY <2>1 DEF Forward
  <2>. QED
    BY <2>2, SendOthers
<1>8. ASSUME NEW n \in Node, OnAccepted(n) PROVE SendsOthers
  <2>1. \/ \E b, d : Send({[type |-> "Resolution", to |-> Peers(n), bal |-> b,
                            decisions |-> d]})
        \/ UNCHANGED <<msgs, panicked>>
    BY <1>8 DEF OnAccepted, HandleAccepted
  <2>2. ASSUME NEW b, NEW d,
               Send({[type |-> "Resolution", to |-> Peers(n), bal |-> b, decisions |-> d]})
        PROVE  SendsOthers
    BY <2>2, SendOthers
  <2>. QED
    BY <2>1, <2>2 DEF SendsOthers
<1>9. ASSUME NEW n \in Node, OnResolution(n) PROVE SendsOthers
  <2>1. \/ \E to, s : SendTo(n, to, {[type |-> "Catchup", to |-> to, from |-> n,
                                      slots |-> s]})
        \/ UNCHANGED <<msgs, panicked>>
    BY <1>9 DEF OnResolution, HandleResolution
  <2>2. ASSUME NEW to, NEW s,
               SendTo(n, to, {[type |-> "Catchup", to |-> to, from |-> n, slots |-> s]})
        PROVE  SendsOthers
    BY <2>2, SendOthers
  <2>. QED
    BY <2>1, <2>2 DEF SendsOthers
<1>10. ASSUME NEW n \in Node, OnCatchup(n) PROVE SendsOthers
  <2>. DEFINE w == window[n]
              M(m) == {[type |-> "Resolution", to |-> {m.from}, bal |-> w.acc[s].bal,
                        decisions |-> [t \in RunOf(w, m.slots, s) |-> w.acc[t].val]] :
                         s \in Decided(w, m.slots)}
  <2>1. PICK m \in msgs : Send(M(m))
    BY <1>10 DEF OnCatchup, HandleCatchup
  <2>2. \A k \in M(m) : k.type = "Resolution"
    OBVIOUS
  <2>. HIDE DEF M
  <2>. QED
    BY <2>1, <2>2, SendOthers
<1>. QED
  BY <1>1, <1>2, <1>3, <1>4, <1>5, <1>6, <1>7, <1>8, <1>9, <1>10 DEF Next
-----------------------------------------------------------------------------
(***************************************************************************)
(* Promises are held: a new one by what prepare has just written, an old   *)
(* one because the window climbs.                                          *)
(***************************************************************************)
LEMMA HeldLater ==
  ASSUME NEW B, Ballots(B), NEW w, GoodWindow(w, B),
         NEW C, Ballots(C), NEW u, GoodWindow(u, C),
         Climbs(w, u), Keeps(w, u), NEW m, m.bal \in BallotOption, PromiseHeld(m, w)
  PROVE  PromiseHeld(m, u)
<1>1. AtMost(m.bal, u.max)
  BY WindowBallots, BallotOrder DEF PromiseHeld, Climbs
<1>2. ASSUME NEW s \in WindowSlot, ~ResolvedAt(u, s)
      PROVE  AtMost(m.bal, PromisedAt(u, s))
  <2>1. ~ResolvedAt(w, s)
    BY <1>2 DEF Keeps, ResolvedAt
  <2>2. AtMost(m.bal, PromisedAt(w, s)) /\ AtMost(PromisedAt(w, s), PromisedAt(u, s))
    BY <1>2, <2>1 DEF PromiseHeld, Climbs
  <2>. QED
    BY <2>2, WindowBallots, BallotOrder
<1>. QED
  BY <1>1, <1>2 DEF PromiseHeld

LEMMA HeldAtFirst ==
  ASSUME NEW B, Ballots(B), NEW w, GoodWindow(w, B), Logged(w), Bounded(w),
         NEW m, m.bal \in B, PrepareStops(w, m.bal) = {}
  PROVE  PromiseHeld(m, PrepareWindow(w, m.bal))
<1>. DEFINE b == m.bal
            u == PrepareWindow(w, b)
<1>1. b \in BallotOption /\ AtMost(b, b)
  BY BallotOrder DEF Ballots
<1>2. w.min \in WindowSlot /\ w.min \in Nat /\ w.end \in Nat /\ w.min < w.end
  BY WindowFields DEF GoodWindow
<1>3. w.min \in OpenSlots(w)
  BY <1>2 DEF OpenSlots, OpenRange, Logged
<1>4. AtMost(b, u.max) /\ \A s \in OpenSlots(w) : u.acc[s].promised = b
  BY <1>3, PrepareRaises
<1>5. Keeps(w, u)
  BY PrepareLogged
<1>6. ASSUME NEW s \in WindowSlot, ~ResolvedAt(u, s)
      PROVE  AtMost(b, PromisedAt(u, s))
  <2>. HIDE DEF u
  <2>1. ~ResolvedAt(w, s)
    BY <1>5, <1>6 DEF Keeps, ResolvedAt
  <2>2. CASE EmptyAt(u, s)
    BY <1>4, <2>2 DEF PromisedAt
  <2>3. CASE ~EmptyAt(u, s) /\ s < w.end
    <3>1. s \in Nat /\ s >= w.min
      BY <1>2, <2>1, SlotBound DEF Logged, Shape
    <3>2. s \in OpenSlots(w)
      BY <1>2, <2>1, <2>3, <3>1 DEF OpenSlots, OpenRange
    <3>. QED
      BY <1>1, <1>4, <2>3, <3>2 DEF PromisedAt
  <2>4. u.end = w.end
    BY DEF u, PrepareWindow, Update, GoodWindow, Window
  <2>. QED
    BY <1>2, <2>2, <2>3, <2>4, SlotBound DEF EmptyAt
<1>. QED
  BY <1>4, <1>6 DEF PromiseHeld

LEMMA NewPromise ==
  ASSUME [Next]_vars, NEW m \in msgs' \ msgs, m.type = "Promise"
  PROVE  \E n \in Node : \E k \in msgs :
           /\ HandlePrepare(n, k) /\ PrepareStops(window[n], k.bal) = {}
           /\ m = PrepareReply(n, window[n], k.bal) /\ m.from = n /\ m.bal = k.bal
<1>1. PICK n \in Node : Replies(n)
  BY NextReplies DEF SendsOthers
<1>2. PICK k \in msgs :
        HandlePrepare(n, k) /\ m = PrepareReply(n, window[n], k.bal)
  BY <1>1 DEF Replies, AcceptReplies
<1>. QED
  BY <1>2 DEF PrepareReply

LEMMA NextPInv == PInv /\ [Next]_vars => PInv'
<1>. SUFFICES ASSUME PInv, [Next]_vars PROVE PInv'
  OBVIOUS
<1>. DEFINE B == Issued(proposer)'
<1>1. LInv' /\ \A k \in Node : Handled(k) /\ Climbed(k)
  BY NextLInv, NextHandled, NextClimbed DEF PInv
<1>2. /\ Ballots(B) /\ msgs' \subseteq Message
      /\ \A k \in Node : GoodWindow(window[k], Issued(proposer)) /\ GoodWindow(window'[k], B)
  BY <1>1 DEF PInv, LInv, IInv, GoodMessage, Ballots, Issued, BallotOption
<1>3. ASSUME NEW m \in msgs', m.type = "Promise", m \in msgs
      PROVE  PromiseHeld(m, window'[m.from])
  <2>1. m.from \in Node /\ m.bal \in Ballot
    BY <1>2, <1>3, MessageFields
  <2>2. PromiseHeld(m, window[m.from])
    BY <1>3 DEF PInv
  <2>. QED
    BY <1>1, <1>2, <2>1, <2>2, IssuedBallots, HeldLater DEF Handled, Climbed, BallotOption
<1>4. ASSUME NEW m \in msgs', m.type = "Promise", m \notin msgs
      PROVE  PromiseHeld(m, window'[m.from])
  <2>1. PICK n \in Node, k \in msgs :
          /\ HandlePrepare(n, k) /\ PrepareStops(window[n], k.bal) = {}
          /\ m.from = n /\ m.bal = k.bal
    BY <1>4, NewPromise
  <2>2. k.bal \in Issued(proposer)
    BY <2>1, ReceivedBallot DEF PInv, LInv, HandlePrepare
  <2>3. window'[n] = PrepareWindow(window[n], m.bal)
    BY <2>1 DEF HandlePrepare, SetWindow, PInv, LInv, IInv
  <2>. QED
    BY <1>2, <2>1, <2>2, <2>3, IssuedBallots, HeldAtFirst DEF PInv, LInv
<1>5. \A m \in msgs' : m.type = "Promise" => PromiseHeld(m, window'[m.from])
  BY <1>3, <1>4
<1>. QED
  BY <1>1, <1>5 DEF PInv, Climbed, PromiseHeld

LEMMA InitPInv == Init => PInv
<1>. SUFFICES ASSUME Init PROVE PInv
  OBVIOUS
<1>1. Bounded(NewWindow)
  <2>1. AtMost(NoBallot, NoBallot)
    BY DEF AtMost
  <2>. QED
    BY <2>1 DEF Bounded, NewWindow, Unopened, AwaitValue
<1>. QED
  BY <1>1, InitLInv DEF Init, PInv

LEMMA PInvImplies == PInv => MaxPromisedCoversWindow
BY DEF PInv, Bounded, MaxPromisedCoversWindow

(***************************************************************************)
(* A new Accepted, and that its ballot is no lower than one its sender     *)
(* holds a promise of.                                                     *)
(***************************************************************************)
LEMMA NewAccepted ==
  ASSUME [Next]_vars, NEW m \in msgs' \ msgs, m.type = "Accepted"
  PROVE  \E n \in Node : \E k \in msgs :
           /\ HandleAccept(n, k)
           /\ AcceptStops(window[n], k.bal, k.batch) = {}
           /\ m.from = n /\ m.bal = k.bal /\ m.slots = DOMAIN k.batch
<1>1. PICK n \in Node : Replies(n)
  BY NextReplies DEF SendsOthers
<1>2. PICK k \in msgs :
        HandleAccept(n, k) /\ m \in AcceptReplies(n, window[n], k.bal, k.batch)
  BY <1>1 DEF Replies, PrepareReply
<1>. QED
  BY <1>2 DEF AcceptReplies

LEMMA AcceptedHigh ==
  ASSUME PInv, [Next]_vars,
         NEW m \in msgs' \ msgs, m.type = "Accepted", m.slots # {},
         NEW p, p.bal \in BallotOption, PromiseHeld(p, window[m.from])
  PROVE  AtMost(p.bal, m.bal)
<1>1. PICK n \in Node, k \in msgs :
        /\ k.type = "Accept" /\ AcceptStops(window[n], k.bal, k.batch) = {}
        /\ m.from = n /\ m.bal = k.bal /\ m.slots = DOMAIN k.batch
  BY NewAccepted DEF HandleAccept
<1>. DEFINE w == window[n]
            b == k.bal
<1>2. PICK s \in DOMAIN k.batch : TRUE
  BY <1>1
<1>3. /\ b \in BallotOption /\ GoodBatch(k.batch)
      /\ Ballots(Issued(proposer)) /\ GoodWindow(w, Issued(proposer))
  BY <1>1, IssuedBallots, MessageFields, BatchIsGood
  DEF PInv, LInv, IInv, GoodMessage, BallotOption
<1>4. s \in WindowSlot
  BY <1>2, <1>3, BatchSlots, SlotBound
<1>5. ~ResolvedAt(w, s) /\ ~Less(b, PromisedAt(w, s))
  BY <1>1, <1>2 DEF AcceptStops
<1>6. AtMost(p.bal, PromisedAt(w, s))
  BY <1>1, <1>4, <1>5 DEF PromiseHeld
<1>7. PromisedAt(w, s) \in BallotOption
  BY <1>3, <1>4, WindowBallots
<1>. HIDE DEF w
<1>. QED
  BY <1>1, <1>3, <1>5, <1>6, <1>7, BallotOrder

\* An acceptance is of a ballot no lower than any promise of its sender.
LEMMA NewAcceptedHigh ==
  ASSUME PInv, [Next]_vars,
         NEW m \in msgs' \ msgs, m.type = "Accepted", m.slots # {},
         NEW p \in Sent("Promise"), p.from = m.from
  PROVE  AtMost(p.bal, m.bal)
<1>1. p.bal \in BallotOption /\ PromiseHeld(p, window[m.from])
  BY MessageFields DEF PInv, LInv, IInv, GoodMessage, Sent, BallotOption
<1>. QED
  BY <1>1, AcceptedHigh

(***************************************************************************)
(* max_promised is above every promise of the window, whatever handlers    *)
(* ran: a slot opened later never promises less than one opened before.    *)
(***************************************************************************)
THEOREM MaxPromisedCovers == Spec => []MaxPromisedCoversWindow
BY InitPInv, NextPInv, PInvImplies, PTL DEF Spec

(***************************************************************************)
(* The promise of Paxos: a node that has sent a Promise never sends an     *)
(* Accepted of a lower ballot, for any slot, open then or opened since.    *)
(***************************************************************************)
THEOREM PromisesAreKept == Spec => PromiseKept
<1>. DEFINE Kept == \A m \in msgs' \ msgs :
                      m.type = "Accepted" /\ m.slots # {} =>
                        \A p \in Sent("Promise") : p.from = m.from => AtMost(p.bal, m.bal)
<1>1. PInv /\ [Next]_vars => [Kept]_vars
  BY NewAcceptedHigh
<1>. HIDE DEF Kept
<1>2. Spec => [][Kept]_vars
  BY <1>1, InitPInv, NextPInv, PTL DEF Spec
<1>. QED
  BY <1>2 DEF Kept, PromiseKept
=============================================================================
