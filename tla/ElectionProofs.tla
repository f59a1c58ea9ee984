--------------------------- MODULE ElectionProofs ---------------------------
(***************************************************************************)
(* Theorems about a group that watches its leader: NoElectionAgainstLeader *)
(* of module Elections, for every number of nodes.                         *)
(*                                                                         *)
(* Nothing in the code compares the clocks of two nodes.  The timer of a   *)
(* node does not lapse because the commands that would restart it are      *)
(* always on their way when it matters.  Time passes only when none is, so *)
(* a node n whose timer has run since it heard of the ballot of c knows    *)
(* that ballot by a prepare everybody else has answered as well.  From     *)
(* then on c, the candidate, is not elected any more (Exhausted); and c,   *)
(* the leader, is due first, and what it sends reaches n (Fresh).          *)
(* Last, what the group keeps whatever is delivered holds under timers,    *)
(* stops and losses too (TimedInv).                                        *)
(***************************************************************************)
EXTENDS TimedGroup, GroupProofs

(***************************************************************************)
(* What a call makes of the proposer p of its node: the role and ballot    *)
(* stay, or it yields to a higher ballot that another node has issued.     *)
(***************************************************************************)
Same(p, q) ==
  /\ q.st = p.st /\ q.highest = p.highest
  /\ ~IsFollower(p) => q.promises = p.promises

Yields(p, q) ==
  IsFollower(q) /\ Less(p.highest, q.highest) /\ q.highest \in Issued(proposer)

LEMMA ObserveYields ==
  ASSUME NEW n \in Node, NEW p, GoodProposer(n, p),
         NEW b \in Issued(proposer), Started(b), Owner(b) = n => AtMost(b, p.highest)
  PROVE  LET q == Observe(p, b, n)
         IN  (Same(p, q) \/ Yields(p, q)) /\ AtMost(b, q.highest)
<1>. DEFINE h == Higher(p.highest, b)
            raised == [p EXCEPT !.highest = h]
            q == Observe(p, b, n)
<1>1. p \in Proposer /\ p.highest \in BallotOption /\ b \in BallotOption
  BY DEF GoodProposer, Proposer, Started
<1>2. AtMost(b, b) /\ (AtMost(b, p.highest) \/ Less(p.highest, b))
  BY <1>1, BallotOrder
<1>3. q.highest = h
  BY <1>1 DEF Observe, StepDown, Proposer
<1>4. CASE Less(p.highest, b)
  <2>1. h = b /\ Owner(b) # n
    BY <1>1, <1>4, BallotOrder DEF Higher
  <2>2. q.st = "Follower"
    BY <1>1, <2>1 DEF Observe, StepDown, Proposer
  <2>. QED
    BY <1>2, <1>3, <1>4, <2>1, <2>2 DEF Yields, IsFollower
<1>5. CASE ~Less(p.highest, b)
  <2>1. h = p.highest /\ AtMost(b, h)
    BY <1>2, <1>5 DEF Higher
  <2>2. CASE Owner(h) = n
    <3>1. q = raised
      BY <1>1, <2>2 DEF Observe, Proposer
    <3>. QED
      BY <1>1, <1>3, <2>1, <3>1 DEF Same, Proposer
  <2>3. CASE Owner(h) # n
    <3>1. IsFollower(p)
      BY <2>1, <2>3 DEF GoodProposer
    <3>2. q.st = "Follower"
      BY <1>1, <2>3 DEF Observe, StepDown, Proposer
    <3>. QED
      BY <1>3, <2>1, <3>1, <3>2 DEF Same, IsFollower
  <2>. QED
    BY <2>2, <2>3
<1>. QED
  BY <1>4, <1>5

LEMMA SetProposerAt ==
  ASSUME IInv, NEW n \in Node, NEW q, SetProposer(n, q)
  PROVE  proposer'[n] = q /\ \A k \in Node \ {n} : proposer'[k] = proposer[k]
BY DEF SetProposer, IInv
-----------------------------------------------------------------------------
(***************************************************************************)
(* A call of node n: the handler of a command m, or a call of the          *)
(* embedding, which we give the form of a command.  Every call below       *)
(* starts with an empty outbox.                                            *)
(***************************************************************************)
Asking == [type |-> "Ask"]

Ticking == [type |-> "Tick"]

\* The commands that restart the timer.
Bumps(m) == m.type \notin {"Proposal", "Catchup", "Ask", "Tick"}

PrepareMsg(b) == [type |-> "Prepare", bal |-> b]

\* A follower starts an election.
Campaigns(n, p, q) ==
  /\ IsFollower(p) /\ IsCandidate(q)
  /\ Less(p.highest, q.highest) /\ Owner(q.highest) = n
  /\ q.promises = {n} /\ PrepareMsg(q.highest) \in msgs'

\* A candidate counts a promise for its election.
Counts(p, q, m) ==
  LET promises == p.promises \cup {m.from}
  IN  /\ m.type = "Promise" /\ m.bal = p.highest
      /\ IsCandidate(p) /\ q.highest = p.highest
      /\ \/ IsLeader(q) /\ EnoughPromises(promises)
         \/ IsCandidate(q) /\ ~EnoughPromises(promises) /\ q.promises = promises

Evolves(n, p, q, m) ==
  \/ Same(p, q)
  \/ Yields(p, q) /\ Bumps(m)
  \/ Campaigns(n, p, q) /\ ~Bumps(m)
  \/ Counts(p, q, m)

\* What the node has heard by the command.
Learns(p, q, m) ==
  /\ m.type \in {"Prepare", "Accept", "Accepted", "Resolution"} => AtMost(m.bal, q.highest)
  /\ m.type = "Reject" /\ Less(m.proposed, m.preempted) => AtMost(m.preempted, q.highest)
  /\ m.type = "Promise" /\ IsCandidate(p) /\ m.bal = p.highest => Counts(p, q, m)

\* k may be sent by the call.
Sends(n, q, m, k) ==
  /\ k.type = "Prepare" => IsCandidate(q) /\ k.bal = q.highest
  /\ k.type = "Accept" => IsLeader(q) /\ k.bal = q.highest
  /\ k.type = "Promise" => m.type = "Prepare" /\ k.bal = m.bal
  /\ k.type = "Accepted" => m.type = "Accept" /\ k.bal = m.bal
  /\ k.type = "Reject" => m.type \in {"Prepare", "Accept"} /\ k.proposed = m.bal
  /\ k.type = "Resolution" =>
       \/ m.type = "Accepted" /\ k.bal = m.bal
       \/ m.type = "Catchup" /\ k.to = {m.from}
  /\ k.type = "Catchup" => m.type = "Resolution"
  /\ k.type \in {"Promise", "Accepted", "Catchup"} => k.from = n

\* k answers the prepare of ballot b.
Answers(k, b) ==
  \/ k.type = "Promise" /\ k.bal = b
  \/ k.type = "Reject" /\ k.proposed = b /\ Less(b, k.preempted)

\* What the call does send.
Responds(p, m) ==
  /\ m.type = "Prepare" => \E k \in msgs' : Answers(k, m.bal)
  /\ m.type = "Accept" /\ m.batch = NoValues =>
       \E k \in msgs' : k.type = "Accepted" /\ k.bal = m.bal
  /\ m.type = "Tick" /\ IsLeader(p) => AcceptMsg(p.highest, NoValues) \in msgs'
  /\ m.type \in {"Ask", "Proposal"} /\ IsLeader(p) =>
       \E batch : AcceptMsg(p.highest, batch) \in msgs'

Call(n, m) ==
  /\ \A k \in Node \ {n} : proposer'[k] = proposer[k]
  /\ Evolves(n, proposer[n], proposer'[n], m)
  /\ Learns(proposer[n], proposer'[n], m)
  /\ Responds(proposer[n], m)
  /\ \A k \in msgs' : Sends(n, proposer'[n], m, k)

LEMMA BallotYields ==
  ASSUME IInv, NEW n \in Node, NEW m, GoodMessage(m, Issued(proposer)),
         m.type \in {"Prepare", "Promise", "Accept", "Accepted", "Resolution"}
  PROVE  LET q == Observe(proposer[n], m.bal, n)
         IN  (Same(proposer[n], q) \/ Yields(proposer[n], q)) /\ AtMost(m.bal, q.highest)
<1>1. m.bal \in Issued(proposer) /\ m.bal # NoBallot
  BY GoodBallot
<1>2. Started(m.bal) /\ AtMost(m.bal, proposer[Owner(m.bal)].highest)
  BY <1>1, IssuedStarted
<1>3. GoodProposer(n, proposer[n])
  BY DEF IInv
<1>. QED
  BY <1>1, <1>2, <1>3, ObserveYields

LEMMA PrepareCalls ==
  ASSUME IInv, msgs = {}, NEW n \in Node, NEW m, GoodMessage(m, Issued(proposer)),
         HandlePrepare(n, m)
  PROVE  Call(n, m)
<1>. DEFINE p == proposer[n]
            q == Observe(p, m.bal, n)
            w == window[n]
            reply == PrepareReply(n, w, m.bal)
<1>1. /\ m.type = "Prepare" /\ Owner(m.bal) # n
      /\ SetProposer(n, q) /\ SendTo(n, Owner(m.bal), {reply})
  BY DEF HandlePrepare
<1>2. proposer'[n] = q /\ \A k \in Node \ {n} : proposer'[k] = proposer[k]
  BY <1>1, SetProposerAt
<1>3. msgs' = {reply}
  BY <1>1 DEF SendTo, Send
<1>4. (Same(p, q) \/ Yields(p, q)) /\ AtMost(m.bal, q.highest)
  BY <1>1, BallotYields
<1>5. Answers(reply, m.bal) /\ reply.type \in {"Promise", "Reject"}
      /\ (reply.type = "Promise" => reply.from = n /\ reply.bal = m.bal)
      /\ (reply.type = "Reject" => reply.proposed = m.bal)
  <2>1. CASE PrepareStops(w, m.bal) = {}
    BY <2>1 DEF PrepareReply, Answers
  <2>2. CASE PrepareStops(w, m.bal) # {}
    <3>1. /\ Ballots(Issued(proposer)) /\ GoodWindow(w, Issued(proposer))
          /\ m.bal \in BallotOption /\ m.bal # NoBallot
      BY <1>1, GoodBallot, IssuedBallots DEF IInv, Issued
    <3>2. Less(m.bal, PreparePreempted(w, m.bal))
      BY <2>2, <3>1, PreparePreemptedGood
    <3>. QED
      BY <2>2, <3>2 DEF PrepareReply, Answers
  <2>. QED
    BY <2>1, <2>2
<1>. HIDE DEF q, reply
<1>6. Sends(n, q, m, reply)
  BY <1>1, <1>5 DEF Sends
<1>7. Evolves(n, p, q, m)
  BY <1>1, <1>4 DEF Evolves, Bumps
<1>8. Learns(p, q, m) /\ Responds(p, m)
  BY <1>1, <1>3, <1>4, <1>5 DEF Learns, Responds
<1>. QED
  BY <1>2, <1>3, <1>6, <1>7, <1>8 DEF Call

LEMMA PromiseCalls ==
  ASSUME IInv, msgs = {}, NEW n \in Node, NEW m, GoodMessage(m, Issued(proposer)),
         HandlePromise(n, m)
  PROVE  Call(n, m)
<1>. DEFINE p == proposer[n]
            r == ReceivePromise(p, m.from, m.bal)
            w == NoticeReport(window[n], m.report)
            q == proposer'[n]
            promises == p.promises \cup {m.from}
<1>1. /\ m.type = "Promise" /\ IsCandidate(p)
      /\ \/ IsLeader(r) /\ DriveAccept(n, r, w)
         \/ ~IsLeader(r) /\ SetProposer(n, r) /\ UNCHANGED msgs
  BY DEF HandlePromise
<1>2. GoodProposer(n, p) /\ p \in Proposer /\ p.proposal = p.highest /\ ~IsLeader(p)
  BY <1>1 DEF IInv, GoodProposer, IsCandidate, IsFollower, IsLeader
<1>3. r.highest = p.highest /\ r \in Proposer
  <2>1. m.from \in Node
    BY <1>1, MessageFields DEF GoodMessage
  <2>. QED
    BY <1>2, <2>1, ReceivePromiseContinues DEF GoodProposer
<1>4. CASE m.bal # p.highest
  <2>1. r = p
    BY <1>2, <1>4 DEF ReceivePromise
  <2>2. q = p /\ msgs' = {} /\ \A k \in Node \ {n} : proposer'[k] = proposer[k]
    BY <1>1, <1>2, <2>1, SetProposerAt
  <2>. QED
    BY <1>1, <1>4, <2>2 DEF Call, Evolves, Same, Learns, Responds
<1>5. CASE m.bal = p.highest /\ EnoughPromises(promises)
  <2>1. r = [p EXCEPT !.st = "Leader", !.promises = {}]
    BY <1>1, <1>2, <1>5 DEF ReceivePromise, Count
  <2>2. IsLeader(r)
    BY <1>2, <2>1 DEF IsLeader, Proposer
  <2>3. SetProposer(n, TakeProposals(r))
        /\ Send({AcceptMsg(r.highest, DriveValues(DriveWindow(w, r.highest, r.queue)))})
    BY <1>1, <2>2 DEF DriveAccept
  <2>4. q = TakeProposals(r) /\ \A k \in Node \ {n} : proposer'[k] = proposer[k]
    BY <2>3, SetProposerAt
  <2>5. IsLeader(q) /\ q.highest = p.highest
    BY <1>3, <2>2, <2>4 DEF TakeProposals, IsLeader, Proposer
  <2>6. Counts(p, q, m)
    BY <1>1, <1>5, <2>5 DEF Counts
  <2>7. \A k \in msgs' : k.type = "Accept" /\ k.bal = q.highest
    BY <1>3, <2>3, <2>5 DEF Send, AcceptMsg
  <2>. QED
    BY <1>1, <2>4, <2>5, <2>6, <2>7 DEF Call, Evolves, Learns, Responds, Sends
<1>6. CASE m.bal = p.highest /\ ~EnoughPromises(promises)
  <2>1. r = [p EXCEPT !.promises = promises]
    BY <1>1, <1>2, <1>6 DEF ReceivePromise, Count
  <2>2. r.promises = promises /\ IsCandidate(r) /\ ~IsLeader(r)
    BY <1>1, <1>2, <2>1 DEF IsLeader, IsCandidate, Proposer
  <2>3. q = r /\ msgs' = {} /\ \A k \in Node \ {n} : proposer'[k] = proposer[k]
    BY <1>1, <2>2, SetProposerAt
  <2>4. Counts(p, q, m)
    BY <1>1, <1>3, <1>6, <2>2, <2>3 DEF Counts
  <2>. QED
    BY <1>1, <2>3, <2>4 DEF Call, Evolves, Learns, Responds
<1>. QED
  BY <1>4, <1>5, <1>6

LEMMA AcceptCalls ==
  ASSUME IInv, msgs = {}, NEW n \in Node, NEW m, GoodMessage(m, Issued(proposer)),
         HandleAccept(n, m)
  PROVE  Call(n, m)
<1>. DEFINE p == proposer[n]
            q == Observe(p, m.bal, n)
            replies == AcceptReplies(n, window[n], m.bal, m.batch)
<1>1. /\ m.type = "Accept" /\ Owner(m.bal) # n
      /\ SetProposer(n, q) /\ SendTo(n, Owner(m.bal), replies)
  BY DEF HandleAccept
<1>2. proposer'[n] = q /\ \A k \in Node \ {n} : proposer'[k] = proposer[k]
  BY <1>1, SetProposerAt
<1>3. msgs' = replies
  BY <1>1 DEF SendTo, Send
<1>4. (Same(p, q) \/ Yields(p, q)) /\ AtMost(m.bal, q.highest)
  BY <1>1, BallotYields
<1>5. \A k \in replies :
        \/ k.type = "Accepted" /\ k.from = n /\ k.bal = m.bal
        \/ k.type = "Reject" /\ k.proposed = m.bal
  BY DEF AcceptReplies
<1>6. m.batch = NoValues => \E k \in replies : k.type = "Accepted" /\ k.bal = m.bal
  BY DEF AcceptReplies, AcceptStops, NoValues
<1>. HIDE DEF q, replies
<1>7. \A k \in msgs' : Sends(n, q, m, k)
  BY <1>1, <1>3, <1>5 DEF Sends
<1>8. Evolves(n, p, q, m)
  BY <1>1, <1>4 DEF Evolves, Bumps
<1>9. Learns(p, q, m) /\ Responds(p, m)
  BY <1>1, <1>3, <1>4, <1>6 DEF Learns, Responds
<1>. QED
  BY <1>2, <1>7, <1>8, <1>9 DEF Call

LEMMA AcceptedCalls ==
  ASSUME IInv, msgs = {}, NEW n \in Node, NEW m, GoodMessage(m, Issued(proposer)),
         HandleAccepted(n, m)
  PROVE  Call(n, m)
<1>. DEFINE p == proposer[n]
            q == Observe(p, m.bal, n)
            decisions == NewlyResolved(window[n], m.from, m.bal, m.slots)
            k == [type |-> "Resolution", to |-> Peers(n), bal |-> m.bal,
                  decisions |-> decisions]
<1>1. m.type = "Accepted" /\ SetProposer(n, q) /\ (Send({k}) \/ UNCHANGED msgs)
  BY DEF HandleAccepted
<1>2. proposer'[n] = q /\ \A j \in Node \ {n} : proposer'[j] = proposer[j]
  BY <1>1, SetProposerAt
<1>3. msgs' \subseteq {k}
  BY <1>1 DEF Send
<1>4. (Same(p, q) \/ Yields(p, q)) /\ AtMost(m.bal, q.highest)
  BY <1>1, BallotYields
<1>5. k.type = "Resolution" /\ k.bal = m.bal
  OBVIOUS
<1>. HIDE DEF q, k
<1>6. \A j \in msgs' : Sends(n, q, m, j)
  BY <1>1, <1>3, <1>5 DEF Sends
<1>7. Evolves(n, p, q, m)
  BY <1>1, <1>4 DEF Evolves, Bumps
<1>8. Learns(p, q, m) /\ Responds(p, m)
  BY <1>1, <1>4 DEF Learns, Responds
<1>. QED
  BY <1>2, <1>6, <1>7, <1>8 DEF Call

LEMMA ResolutionCalls ==
  ASSUME IInv, msgs = {}, NEW n \in Node, NEW m, GoodMessage(m, Issued(proposer)),
         HandleResolution(n, m)
  PROVE  Call(n, m)
<1>. DEFINE p == proposer[n]
            q == Observe(p, m.bal, n)
            w == ResolutionWindow(window[n], m.bal, m.decisions)
            k == [type |-> "Catchup", to |-> Owner(q.highest), from |-> n,
                  slots |-> MissingSlots(w)]
<1>1. /\ m.type = "Resolution" /\ SetProposer(n, q)
      /\ (SendTo(n, Owner(q.highest), {k}) \/ UNCHANGED msgs)
  BY DEF HandleResolution
<1>2. proposer'[n] = q /\ \A j \in Node \ {n} : proposer'[j] = proposer[j]
  BY <1>1, SetProposerAt
<1>3. msgs' \subseteq {k}
  BY <1>1 DEF SendTo, Send
<1>4. (Same(p, q) \/ Yields(p, q)) /\ AtMost(m.bal, q.highest)
  BY <1>1, BallotYields
<1>5. k.type = "Catchup" /\ k.from = n
  OBVIOUS
<1>. HIDE DEF q, k
<1>6. \A j \in msgs' : Sends(n, q, m, j)
  BY <1>1, <1>3, <1>5 DEF Sends
<1>7. Evolves(n, p, q, m)
  BY <1>1, <1>4 DEF Evolves, Bumps
<1>8. Learns(p, q, m) /\ Responds(p, m)
  BY <1>1, <1>4 DEF Learns, Responds
<1>. QED
  BY <1>2, <1>6, <1>7, <1>8 DEF Call

LEMMA RejectCalls ==
  ASSUME IInv, msgs = {}, NEW n \in Node, NEW m, GoodMessage(m, Issued(proposer)),
         HandleReject(n, m)
  PROVE  Call(n, m)
<1>. DEFINE p == proposer[n]
            r == ReceiveReject(p, m.proposed, m.preempted, n)
            q == proposer'[n]
            M == {[type |-> "Proposal", to |-> Owner(r.highest), val |-> v] :
                    v \in {r.queue[i] : i \in DOMAIN r.queue}}
<1>1. m.type = "Reject" /\ Forward(n, r)
  BY DEF HandleReject
<1>2. /\ SetProposer(n, r) \/ SetProposer(n, TakeProposals(r))
      /\ UNCHANGED msgs \/ SendTo(n, Owner(r.highest), M)
  BY <1>1 DEF Forward
<1>3. (q = r \/ q = TakeProposals(r)) /\ \A k \in Node \ {n} : proposer'[k] = proposer[k]
  BY <1>2, SetProposerAt
<1>4. \A k \in msgs' : k.type = "Proposal"
  BY <1>2 DEF SendTo, Send
<1>5. /\ Same(p, r) \/ Yields(p, r)
      /\ Less(m.proposed, m.preempted) => AtMost(m.preempted, r.highest)
  <2>1. GoodProposer(n, p)
    BY DEF IInv
  <2>2. m.preempted \in Issued(proposer) /\ m.preempted # NoBallot
    BY <1>1, MessageFields, NoBallotNotBallot DEF GoodMessage
  <2>3. LET o == Observe(p, m.preempted, n)
        IN  (Same(p, o) \/ Yields(p, o)) /\ AtMost(m.preempted, o.highest)
    BY <2>1, <2>2, IssuedStarted, ObserveYields
  <2>4. Same(p, p)
    BY DEF Same
  <2>. QED
    BY <2>3, <2>4 DEF ReceiveReject
<1>6. q.st = r.st /\ q.highest = r.highest /\ q.promises = r.promises
  <2>1. Continues(n, Observe(p, m.preempted, n)) /\ Continues(n, p)
    <3>1. m.preempted \in Issued(proposer) /\ m.preempted # NoBallot
      BY <1>1, MessageFields, NoBallotNotBallot DEF GoodMessage
    <3>. QED
      BY <3>1, IssuedStarted, ObserveContinues, KeepProposer DEF Continues, IInv
  <2>2. r \in Proposer
    BY <2>1 DEF ReceiveReject, Continues, GoodProposer
  <2>. HIDE DEF r
  <2>. QED
    BY <1>3, <2>2 DEF TakeProposals, Proposer
<1>. HIDE DEF r, q
<1>7. Same(p, q) \/ Yields(p, q)
  BY <1>5, <1>6 DEF Same, Yields, IsFollower
<1>8. Evolves(n, p, q, m)
  BY <1>1, <1>7 DEF Evolves, Bumps
<1>9. Learns(p, q, m) /\ Responds(p, m)
  BY <1>1, <1>5, <1>6 DEF Learns, Responds
<1>10. \A k \in msgs' : Sends(n, q, m, k)
  BY <1>4 DEF Sends
<1>. QED
  BY <1>3, <1>8, <1>9, <1>10 DEF Call, q

LEMMA CatchupCalls ==
  ASSUME IInv, msgs = {}, NEW n \in Node, NEW m, HandleCatchup(n, m)
  PROVE  Call(n, m)
<1>. DEFINE w == window[n]
            M == {[type |-> "Resolution", to |-> {m.from}, bal |-> w.acc[s].bal,
                   decisions |-> [t \in RunOf(w, m.slots, s) |-> w.acc[t].val]] :
                    s \in Decided(w, m.slots)}
<1>1. m.type = "Catchup" /\ Send(M) /\ UNCHANGED proposer
  BY DEF HandleCatchup
<1>2. \A k \in M : k.type = "Resolution" /\ k.to = {m.from}
  OBVIOUS
<1>. HIDE DEF M
<1>3. \A k \in msgs' : k.type = "Resolution" /\ k.to = {m.from}
  BY <1>1, <1>2 DEF Send
<1>. QED
  BY <1>1, <1>3 DEF Call, Evolves, Same, Learns, Responds, Sends

LEMMA IgnoringCalls ==
  ASSUME IInv, msgs = {}, NEW n \in Node, NEW m, Ignores(n, m), UNCHANGED vars
  PROVE  Call(n, m)
<1>1. /\ m.type \in {"Promise", "Catchup"} /\ (m.type = "Promise" => ~IsCandidate(proposer[n]))
      /\ proposer' = proposer /\ msgs' = {}
  BY DEF Ignores, vars
<1>. QED
  BY <1>1 DEF Call, Evolves, Same, Learns, Responds

LEMMA CampaignCalls ==
  ASSUME IInv, msgs = {}, NEW n \in Node, IsFollower(proposer[n]),
         NEW p, GoodProposer(n, p), p.highest = proposer[n].highest, Campaign(n, p),
         NEW m, m.type \in {"Ask", "Proposal", "Tick"}
  PROVE  Call(n, m)
<1>. DEFINE r == Prepare(p, n)
            q == proposer'[n]
<1>1. SetProposer(n, r) /\ Send({PrepareMsg(r.highest)}) /\ r.highest[1] <= MaxRound
  BY DEF Campaign, PrepareMsg
<1>2. q = r /\ \A k \in Node \ {n} : proposer'[k] = proposer[k]
  BY <1>1, SetProposerAt
<1>3. AtMost(p.highest, r.highest) /\ Owner(r.highest) = n
  BY <1>1, PrepareContinues
<1>4. Owner(proposer[n].highest) # n
  BY DEF IInv, GoodProposer
<1>5. r.promises = {n} /\ IsCandidate(r)
  BY DEF GoodProposer, Proposer, Prepare, IsCandidate
<1>. HIDE DEF r
<1>6. msgs' = {PrepareMsg(q.highest)}
  BY <1>1, <1>2 DEF Send
<1>7. Campaigns(n, proposer[n], q)
  BY <1>2, <1>3, <1>4, <1>5, <1>6 DEF Campaigns, AtMost
<1>8. ~IsLeader(proposer[n]) /\ ~Bumps(m) /\ m.type \notin {"Prepare", "Accept"}
  BY DEF IsFollower, IsLeader, Bumps
<1>9. Evolves(n, proposer[n], q, m) /\ Learns(proposer[n], q, m) /\ Responds(proposer[n], m)
  BY <1>7, <1>8 DEF Evolves, Learns, Responds
<1>10. \A k \in msgs' : Sends(n, q, m, k)
  BY <1>6, <1>7 DEF Sends, Campaigns, PrepareMsg
<1>. QED
  BY <1>2, <1>9, <1>10 DEF Call

LEMMA ProposeCalls ==
  ASSUME IInv, msgs = {}, NEW n \in Node, NEW v \in ClientValue, Propose(n, v),
         NEW m, m.type \in {"Ask", "Proposal"}
  PROVE  Call(n, m)
<1>. DEFINE p == proposer[n]
            q == proposer'[n]
<1>1. GoodProposer(n, p) /\ p \in Proposer
  BY DEF IInv, GoodProposer
<1>2. ~Bumps(m) /\ m.type \notin {"Prepare", "Accept", "Tick"}
  BY DEF Bumps
<1>3. CASE ProposeFirst(n, v)
  BY <1>1, <1>3, QueueContinues, CampaignCalls DEF ProposeFirst
<1>4. CASE ProposeRedirect(n, v)
  <2>. DEFINE k == [type |-> "Proposal", to |-> Owner(p.highest), val |-> v]
  <2>1. proposer' = proposer /\ IsFollower(p) /\ SendTo(n, Owner(p.highest), {k})
    BY <1>4 DEF ProposeRedirect
  <2>2. \A j \in msgs' : j.type = "Proposal"
    BY <2>1 DEF SendTo, Send
  <2>3. Same(p, q) /\ ~IsLeader(p)
    BY <2>1 DEF Same, IsFollower, IsLeader
  <2>4. Evolves(n, p, q, m) /\ Learns(p, q, m) /\ Responds(p, m)
    BY <1>2, <2>3 DEF Evolves, Learns, Responds
  <2>. QED
    BY <2>1, <2>2, <2>4 DEF Call, Sends
<1>5. CASE ProposeQueue(n, v)
  <2>1. SetProposer(n, PushProposal(p, v)) /\ IsCandidate(p) /\ msgs' = {}
    BY <1>5 DEF ProposeQueue
  <2>2. q = PushProposal(p, v) /\ \A k \in Node \ {n} : proposer'[k] = proposer[k]
    BY <2>1, SetProposerAt
  <2>3. Same(p, q) /\ ~IsLeader(p)
    BY <1>1, <2>1, <2>2 DEF Same, PushProposal, Proposer, IsCandidate, IsLeader
  <2>4. Evolves(n, p, q, m) /\ Learns(p, q, m) /\ Responds(p, m)
    BY <1>2, <2>3 DEF Evolves, Learns, Responds
  <2>. QED
    BY <2>1, <2>2, <2>4 DEF Call
<1>6. CASE ProposeLead(n, v)
  <2>1. p.proposal = p.highest
    BY <1>1, <1>6, OwnBallot DEF ProposeLead, IsLeader, IsFollower
  <2>2. PICK batch : Send({AcceptMsg(p.highest, batch)})
    BY <1>6, <2>1 DEF ProposeLead
  <2>3. msgs' = {AcceptMsg(p.highest, batch)} /\ proposer' = proposer /\ IsLeader(p)
    BY <1>6, <2>2 DEF ProposeLead, Send
  <2>4. Same(p, q)
    BY <2>3 DEF Same
  <2>5. Evolves(n, p, q, m) /\ Learns(p, q, m) /\ Responds(p, m)
    BY <1>2, <2>3, <2>4 DEF Evolves, Learns, Responds
  <2>6. \A k \in msgs' : Sends(n, q, m, k)
    BY <2>3 DEF Sends, AcceptMsg
  <2>. QED
    BY <2>3, <2>5, <2>6 DEF Call
<1>. QED
  BY <1>3, <1>4, <1>5, <1>6 DEF Propose

LEMMA LeadershipCalls ==
  ASSUME IInv, msgs = {}, NEW n \in Node, ProposeLeadership(n)
  PROVE  Call(n, Ticking)
<1>. DEFINE p == proposer[n]
            q == proposer'[n]
            m == Ticking
<1>1. GoodProposer(n, p) /\ (~IsFollower(p) => p.proposal = p.highest)
  BY DEF IInv, GoodProposer
<1>2. ~Bumps(m) /\ m.type = "Tick"
  BY DEF Bumps, Ticking
<1>3. CASE IsFollower(p) /\ Campaign(n, p)
  BY <1>1, <1>2, <1>3, CampaignCalls
<1>4. ASSUME proposer' = proposer, NEW k, msgs' = {k}, Sends(n, q, m, k),
             IsLeader(p) => k = AcceptMsg(p.highest, NoValues)
      PROVE  Call(n, m)
  <2>1. Evolves(n, p, q, m) /\ Learns(p, q, m) /\ Responds(p, m)
    BY <1>2, <1>4 DEF Evolves, Same, Learns, Responds
  <2>. QED
    BY <1>4, <2>1 DEF Call
<1>5. CASE IsCandidate(p) /\ Send({PrepareMsg(p.proposal)}) /\ UNCHANGED proposer
  <2>1. p.proposal = p.highest /\ ~IsLeader(p)
    BY <1>1, <1>5 DEF IsCandidate, IsFollower, IsLeader
  <2>2. msgs' = {PrepareMsg(p.highest)}
    BY <1>5, <2>1 DEF Send
  <2>3. Sends(n, q, m, PrepareMsg(p.highest))
    BY <1>5 DEF Sends, PrepareMsg
  <2>. QED
    BY <1>4, <1>5, <2>1, <2>2, <2>3
<1>6. CASE IsLeader(p) /\ Send({AcceptMsg(p.proposal, NoValues)}) /\ UNCHANGED proposer
  <2>1. p.proposal = p.highest
    BY <1>1, <1>6 DEF IsFollower, IsLeader
  <2>2. msgs' = {AcceptMsg(p.highest, NoValues)}
    BY <1>6, <2>1 DEF Send
  <2>3. Sends(n, q, m, AcceptMsg(p.highest, NoValues))
    BY <1>6 DEF Sends, AcceptMsg
  <2>. QED
    BY <1>4, <1>6, <2>2, <2>3
<1>. QED
  BY <1>3, <1>5, <1>6 DEF ProposeLeadership, PrepareMsg

LEMMA HandlerCalls ==
  ASSUME IInv, msgs = {}, NEW n \in Node, NEW m, GoodMessage(m, Issued(proposer)),
         Handle(n, m)
  PROVE  Call(n, m)
<1>1. CASE HandleProposal(n, m)
  <2>1. m.type = "Proposal" /\ m.val \in ClientValue /\ Propose(n, m.val)
    BY <1>1, MessageFields DEF GoodMessage, HandleProposal
  <2>. QED
    BY <2>1, ProposeCalls
<1>. QED
  BY <1>1, PrepareCalls, PromiseCalls, AcceptCalls, RejectCalls, AcceptedCalls,
     ResolutionCalls, CatchupCalls, IgnoringCalls DEF Handle
-----------------------------------------------------------------------------
(***************************************************************************)
(* The commands on their way, those in the outbox included.                *)
(***************************************************************************)
Flight(P, c, A, M) ==
  P \cup UNION {{c} \X (Destinations(m) \cap A) \X {m} : m \in M}

InFlight == Flight(pending, caller, alive, msgs)

LEMMA FlightOf ==
  ASSUME NEW P, NEW c, NEW A, NEW M
  PROVE  /\ \A a, k, m : <<a, k, m>> \in Flight(P, c, A, M) <=>
              \/ <<a, k, m>> \in P
              \/ a = c /\ k \in Destinations(m) /\ k \in A /\ m \in M
         /\ \A d \in Flight(P, c, A, M) : d \in P \/ d = <<d[1], d[2], d[3]>>
<1>. DEFINE Of(m) == {c} \X (Destinations(m) \cap A) \X {m}
            U == UNION {Of(m) : m \in M}
<1>1. \A a, k, m : <<a, k, m>> \in U <=>
        a = c /\ k \in Destinations(m) /\ k \in A /\ m \in M
  OBVIOUS
<1>2. \A d \in U : d = <<d[1], d[2], d[3]>>
  OBVIOUS
<1>. QED
  BY <1>1, <1>2 DEF Flight

(***************************************************************************)
(* What is known of every command on its way.                              *)
(***************************************************************************)
Travels(a, k, m) ==
  /\ a \in Node /\ k \in alive /\ k \in Destinations(m)
  /\ GoodMessage(m, Issued(proposer))
  /\ m.type \in {"Prepare", "Accept"} => a = Owner(m.bal)
  /\ m.type \in {"Promise", "Accepted", "Catchup"} => a = m.from

NInv ==
  /\ IInv
  /\ alive \subseteq Node /\ timer \in [Node -> -1..2]
  /\ \A d \in InFlight : d = <<d[1], d[2], d[3]>> /\ Travels(d[1], d[2], d[3])
  /\ \A n \in Node :
       /\ proposer[n].highest \in Issued(proposer)
       /\ IsCandidate(proposer[n]) => ~EnoughPromises(proposer[n].promises)

LEMMA Travelling ==
  ASSUME NInv, NEW a, NEW k, NEW m, <<a, k, m>> \in InFlight
  PROVE  Travels(a, k, m)
<1>. DEFINE d == <<a, k, m>>
<1>1. Travels(d[1], d[2], d[3])
  BY DEF NInv
<1>2. d[1] = a /\ d[2] = k /\ d[3] = m
  OBVIOUS
<1>. QED
  BY <1>1, <1>2

LEMMA Commands ==
  ASSUME NEW m, m.type \notin {"Ask", "Tick"}
  PROVE  m # Ticking /\ m # Asking
BY DEF Ticking, Asking

(***************************************************************************)
(* A call that node n starts while nothing else runs: what was on its way  *)
(* still is, but for m; and what it sends is.                              *)
(***************************************************************************)
Timed(n, m) ==
  timer' = IF m.type = "Tick" THEN [timer EXCEPT ![n] = Cleared]
           ELSE IF Bumps(m) THEN [timer EXCEPT ![n] = 0] ELSE timer

Forwards(n, m) ==
  /\ \A a, k, x : <<a, k, x>> \in InFlight /\ (k # n \/ x # m) => <<a, k, x>> \in InFlight'
  /\ \A x \in msgs' : \A k \in Destinations(x) \cap alive : <<n, k, x>> \in InFlight'
  /\ \A a, k, x : <<a, k, x>> \in InFlight' =>
       \/ <<a, k, x>> \in InFlight
       \/ a = n /\ k \in Destinations(x) /\ k \in alive /\ x \in msgs'
  /\ \A d \in InFlight' : d = <<d[1], d[2], d[3]>>

CallStep(n, m) ==
  /\ n \in alive /\ alive' = alive
  /\ Call(n, m) /\ Timed(n, m) /\ Forwards(n, m)
  /\ \/ m = Ticking /\ Due(n)
     \/ m = Asking
     \/ \E a : <<a, n, m>> \in InFlight

LEMMA CallForwards ==
  ASSUME NInv, msgs = {}, NEW n, Calls(n), alive' = alive, NEW m,
         NEW a, pending' = pending \ {<<a, n, m>>}
  PROVE  Forwards(n, m)
<1>1. InFlight = pending
  BY DEF InFlight, Flight
<1>2. InFlight' = Flight(pending', caller', alive, msgs')
  BY DEF InFlight
<1>3. \A x \in msgs' : caller' = n
  BY DEF Calls
<1>4. /\ \A b, k, x : <<b, k, x>> \in InFlight' <=>
           \/ <<b, k, x>> \in pending'
           \/ b = caller' /\ k \in Destinations(x) /\ k \in alive /\ x \in msgs'
      /\ \A d \in InFlight' : d \in pending' \/ d = <<d[1], d[2], d[3]>>
  BY <1>2, FlightOf
<1>5. \A b, k, x : (k # n \/ x # m) => <<b, k, x>> # <<a, n, m>>
  OBVIOUS
<1>6. \A d \in InFlight : d = <<d[1], d[2], d[3]>>
  BY DEF NInv
<1>. QED
  BY <1>1, <1>3, <1>4, <1>5, <1>6 DEF Forwards

(***************************************************************************)
(* Ballots only rise by a call.                                            *)
(***************************************************************************)
LEMMA CallRaises ==
  ASSUME IInv, IInv', NEW n \in Node, NEW m, Call(n, m)
  PROVE  /\ \A k \in Node : AtMost(proposer[k].highest, proposer'[k].highest)
         /\ Issued(proposer) \subseteq Issued(proposer')
<1>. DEFINE p == proposer[n]
            q == proposer'[n]
<1>1. /\ proposer \in [Node -> Proposer] /\ proposer' \in [Node -> Proposer]
      /\ q \in Proposer
      /\ \A k \in Node : proposer[k].highest \in BallotOption
  BY DEF IInv, Proposer
<1>2. AtMost(p.highest, q.highest)
  BY DEF Call, Evolves, Same, Yields, Campaigns, Counts, AtMost
<1>3. \A k \in Node : AtMost(proposer[k].highest, proposer'[k].highest)
  BY <1>1, <1>2 DEF Call, AtMost
<1>4. proposer' = [proposer EXCEPT ![n] = q]
  BY <1>1 DEF Call
<1>5. Issued(proposer) \subseteq Issued([proposer EXCEPT ![n] = q])
  BY <1>1, <1>2, IssuedGrows
<1>. QED
  BY <1>3, <1>4, <1>5
-----------------------------------------------------------------------------
(***************************************************************************)
(* The steps of the specification: a call, time that passes, a node that   *)
(* stops, or nothing to see from here (the outbox is handed over).         *)
(***************************************************************************)
TimeStep ==
  /\ InFlight = {} /\ InFlight' = {}
  /\ proposer' = proposer /\ alive' = alive
  /\ \A n \in alive : ~Due(n)
  /\ timer' = [n \in Node |-> IF n \in alive /\ timer[n] \in 0..1
                                THEN timer[n] + 1 ELSE timer[n]]

CrashStep(n) ==
  /\ proposer' = proposer /\ timer' = timer /\ alive' = alive \ {n}
  /\ InFlight' \subseteq InFlight
  /\ \A a, k, m : <<a, k, m>> \in InFlight /\ a # n /\ k # n => <<a, k, m>> \in InFlight'
  /\ \A a, k, m : <<a, k, m>> \in InFlight' => k # n

QuietStep ==
  proposer' = proposer /\ timer' = timer /\ alive' = alive /\ InFlight' = InFlight

LEMMA NotACommand ==
  ASSUME NInv, NEW a, NEW k, NEW m, m.type \in {"Ask", "Tick"}
  PROVE  <<a, k, m>> \notin InFlight
<1>1. SUFFICES ASSUME <<a, k, m>> \in InFlight PROVE FALSE
  OBVIOUS
<1>2. m \in Message
  BY <1>1, Travelling DEF Travels, GoodMessage
<1>3. m.type \notin {"Ask", "Tick"}
  BY <1>2 DEF Message
<1>. QED
  BY <1>3

LEMMA ReceiveIsCall ==
  ASSUME NInv, NEW d \in pending, Receive(d)
  PROVE  IInv' /\ \E n \in Node : \E m : CallStep(n, m)
<1>. DEFINE a == d[1]
            n == d[2]
            m == d[3]
<1>1. d \in InFlight /\ d = <<a, n, m>>
  BY DEF InFlight, Flight, NInv
<1>2. Travels(a, n, m)
  BY <1>1 DEF NInv
<1>. HIDE DEF a, n, m
<1>3. n \in alive /\ n \in Node /\ GoodMessage(m, Issued(proposer))
  BY <1>2 DEF Travels, NInv
<1>4. /\ msgs = {} /\ Handle(n, m) /\ Bump(n, m) /\ Calls(n)
      /\ pending' = pending \ {<<a, n, m>>} /\ alive' = alive
  BY <1>1 DEF Receive, Idle, a, n, m
<1>5. Call(n, m)
  BY <1>3, <1>4, HandlerCalls DEF NInv
<1>6. IInv'
  <2>1. CASE UNCHANGED vars
    BY <2>1 DEF IInv, vars, NInv
  <2>. QED
    BY <2>1, <1>3, <1>4, HandlerPreserves DEF Handle, NInv
<1>7. Forwards(n, m)
  BY <1>3, <1>4, CallForwards
<1>8. Timed(n, m)
  <2>1. m.type \notin {"Ask", "Tick"}
    BY <1>1, NotACommand
  <2>. QED
    BY <2>1, <1>4 DEF Timed, Bump, Bumps
<1>. QED
  BY <1>1, <1>3, <1>4, <1>5, <1>6, <1>7, <1>8 DEF CallStep

LEMMA AskIsCall ==
  ASSUME NInv, NEW n \in Node, NEW v \in ClientValue, Ask(n, v)
  PROVE  IInv' /\ CallStep(n, Asking)
<1>1. /\ msgs = {} /\ n \in alive /\ Propose(n, v) /\ Calls(n)
      /\ timer' = timer /\ pending' = pending /\ alive' = alive
  BY DEF Ask, Idle
<1>2. Asking.type = "Ask"
  BY DEF Asking
<1>3. <<n, n, Asking>> \notin InFlight
  BY <1>2, NotACommand
<1>4. pending' = pending \ {<<n, n, Asking>>}
  BY <1>1, <1>3 DEF InFlight, Flight
<1>5. Call(n, Asking)
  BY <1>1, <1>2, ProposeCalls DEF NInv
<1>6. Forwards(n, Asking)
  BY <1>1, <1>4, CallForwards
<1>7. IInv'
  BY <1>1, ProposePreserves DEF NInv
<1>8. Timed(n, Asking)
  BY <1>1, <1>2 DEF Timed, Bumps
<1>. QED
  BY <1>1, <1>5, <1>6, <1>7, <1>8 DEF CallStep

LEMMA TickIsCall ==
  ASSUME NInv, NEW n \in Node, Tick(n)
  PROVE  IInv' /\ CallStep(n, Ticking)
<1>1. /\ msgs = {} /\ n \in alive /\ Due(n) /\ ProposeLeadership(n) /\ Calls(n)
      /\ timer' = [timer EXCEPT ![n] = Cleared]
      /\ pending' = pending /\ alive' = alive
  BY DEF Tick, Idle
<1>2. Ticking.type = "Tick"
  BY DEF Ticking
<1>3. <<n, n, Ticking>> \notin InFlight
  BY <1>2, NotACommand
<1>4. pending' = pending \ {<<n, n, Ticking>>}
  BY <1>1, <1>3 DEF InFlight, Flight
<1>5. Call(n, Ticking)
  BY <1>1, LeadershipCalls DEF NInv
<1>6. Forwards(n, Ticking)
  BY <1>1, <1>4, CallForwards
<1>7. IInv'
  BY <1>1, ProposeLeadershipPreserves DEF NInv
<1>8. Timed(n, Ticking)
  BY <1>1, <1>2 DEF Timed
<1>. QED
  BY <1>1, <1>5, <1>6, <1>7, <1>8 DEF CallStep

LEMMA CrashIsStep ==
  ASSUME NInv, NEW n \in Node, Crash(n)
  PROVE  IInv' /\ CrashStep(n)
<1>1. /\ msgs = {} /\ alive' = alive \ {n}
      /\ UNCHANGED <<proposer, window, msgs, panicked, timer, caller>>
  BY DEF Crash, Idle
<1>2. PICK unsent \in SUBSET {d \in pending : d[1] = n} :
        pending' = {d \in pending \ unsent : d[2] # n}
  BY DEF Crash
<1>3. InFlight = pending /\ InFlight' = pending'
  BY <1>1 DEF InFlight, Flight
<1>4. \A a, k, m : <<a, k, m>>[1] = a /\ <<a, k, m>>[2] = k
  OBVIOUS
<1>5. IInv'
  BY <1>1 DEF IInv, NInv
<1>. QED
  BY <1>1, <1>2, <1>3, <1>4, <1>5 DEF CrashStep

LEMMA StepIs ==
  ASSUME NInv, [NextElections]_electionVars
  PROVE  /\ IInv'
         /\ \/ QuietStep \/ TimeStep
            \/ \E n \in Node : CrashStep(n) \/ \E m : CallStep(n, m)
<1>1. CASE UNCHANGED electionVars
  BY <1>1 DEF electionVars, QuietStep, InFlight, IInv, NInv
<1>2. CASE Dispatch
  <2>1. /\ InFlight' = pending' /\ pending' = InFlight
        /\ UNCHANGED <<proposer, window, panicked, timer, alive>> /\ msgs' = {}
    BY <1>2 DEF Dispatch, InFlight, Flight
  <2>. QED
    BY <2>1 DEF QuietStep, IInv, NInv
<1>3. CASE Deliver
  BY <1>3, ReceiveIsCall DEF Deliver
<1>4. CASE TimePasses
  <2>1. InFlight = {} /\ InFlight' = {}
    BY <1>4 DEF TimePasses, Idle, InFlight, Flight
  <2>. QED
    BY <1>4, <2>1 DEF TimePasses, TimeStep, IInv, NInv
<1>5. CASE Rest
  BY <1>5 DEF Rest, electionVars, QuietStep, InFlight, IInv, NInv
<1>6. ASSUME NEW n \in Node, Tick(n) \/ Crash(n) \/ \E v \in ClientValue : Ask(n, v)
      PROVE  IInv' /\ (CrashStep(n) \/ \E m : CallStep(n, m))
  BY <1>6, TickIsCall, CrashIsStep, AskIsCall
<1>. QED
  BY <1>1, <1>2, <1>3, <1>4, <1>5, <1>6 DEF NextElections
-----------------------------------------------------------------------------
(***************************************************************************)
(* NInv is preserved.                                                      *)
(***************************************************************************)
LEMMA TwoPromises == \A n \in Node : ~EnoughPromises({n})
<1>1. Cardinality(Node) \in Nat /\ Cardinality(Node) >= 3
  BY NodeAssumption, FS_CardinalityType
<1>2. QuorumSize \in Int /\ QuorumSize >= 2
  BY <1>1 DEF QuorumSize
<1>3. \A n : Cardinality({n}) = 1
  BY FS_Singleton
<1>. QED
  BY <1>2, <1>3 DEF EnoughPromises

LEMMA SentTravels ==
  ASSUME NInv, IInv', NEW n \in Node, NEW m, CallStep(n, m),
         NEW x \in msgs', NEW k \in alive, k \in Destinations(x)
  PROVE  Travels(n, k, x)'
<1>. DEFINE q == proposer'[n]
<1>1. Sends(n, q, m, x) /\ alive' = alive
  BY DEF CallStep, Call
<1>2. GoodMessage(x, Issued(proposer')) /\ GoodProposer(n, q)
  BY DEF IInv
<1>3. IsCandidate(q) \/ IsLeader(q) => Owner(q.highest) = n
  BY <1>2 DEF GoodProposer, IsFollower, IsCandidate, IsLeader
<1>4. /\ x.type \in {"Prepare", "Accept"} => n = Owner(x.bal)
      /\ x.type \in {"Promise", "Accepted", "Catchup"} => n = x.from
  BY <1>1, <1>3 DEF Sends
<1>. QED
  BY <1>1, <1>2, <1>4 DEF Travels

LEMMA CallNInv ==
  ASSUME NInv, IInv', NEW n \in Node, NEW m, CallStep(n, m)
  PROVE  NInv'
<1>1. alive' = alive /\ Call(n, m) /\ Forwards(n, m) /\ Timed(n, m)
  BY DEF CallStep
<1>2. Issued(proposer) \subseteq Issued(proposer')
  BY <1>1, CallRaises DEF NInv
<1>3. timer' \in [Node -> -1..2]
  BY <1>1 DEF Timed, NInv, Cleared
<1>4. ASSUME NEW d \in InFlight'
      PROVE  d = <<d[1], d[2], d[3]>> /\ Travels(d[1], d[2], d[3])'
  <2>. DEFINE a == d[1]
              k == d[2]
              x == d[3]
  <2>1. d = <<a, k, x>>
    BY <1>1 DEF Forwards
  <2>. HIDE DEF a, k, x
  <2>2. CASE <<a, k, x>> \in InFlight
    <3>1. Travels(a, k, x)
      BY <2>2, Travelling
    <3>2. GoodMessage(x, Issued(proposer'))
      BY <3>1, <1>2, MoreBallots DEF Travels
    <3>3. Travels(a, k, x)'
      BY <3>1, <3>2, <1>1 DEF Travels
    <3>. QED
      BY <2>1, <3>3 DEF a, k, x
  <2>3. CASE a = n /\ k \in Destinations(x) /\ k \in alive /\ x \in msgs'
    BY <2>1, <2>3, SentTravels DEF a, k, x
  <2>. QED
    BY <1>1, <2>1, <2>2, <2>3 DEF Forwards
<1>5. ASSUME NEW k \in Node, IsCandidate(proposer'[k])
      PROVE  ~EnoughPromises(proposer'[k].promises)
  <2>1. CASE k # n
    BY <1>1, <1>5, <2>1 DEF Call, NInv
  <2>2. CASE k = n
    <3>1. Evolves(n, proposer[n], proposer'[n], m)
      BY <1>1 DEF Call
    <3>. QED
      BY <1>5, <2>2, <3>1, TwoPromises
      DEF Evolves, Same, Yields, Campaigns, Counts, NInv, IsFollower, IsCandidate, IsLeader
  <2>. QED
    BY <2>1, <2>2
<1>6. ASSUME NEW k \in Node PROVE proposer'[k].highest \in Issued(proposer')
  <2>1. proposer[k].highest \in Issued(proposer')
    BY <1>2 DEF NInv
  <2>2. CASE k # n
    BY <1>1, <2>1, <2>2 DEF Call
  <2>3. CASE k = n /\ Campaigns(n, proposer[n], proposer'[n])
    <3>1. proposer'[n].highest \in BallotOption /\ Owner(proposer'[n].highest) = n
      BY <2>3 DEF IInv, Proposer, Campaigns
    <3>. QED
      BY <2>3, <3>1, BallotOrder DEF Issued
  <2>. QED
    BY <1>1, <1>2, <2>1, <2>2, <2>3 DEF Call, Evolves, Same, Yields, Counts
<1>. QED
  BY <1>1, <1>3, <1>4, <1>5, <1>6 DEF NInv

LEMMA NextNInv == NInv /\ [NextElections]_electionVars => NInv'
<1>. SUFFICES ASSUME NInv, [NextElections]_electionVars PROVE NInv'
  OBVIOUS
<1>1. IInv'
  BY StepIs
<1>2. CASE QuietStep
  BY <1>1, <1>2 DEF QuietStep, NInv, Travels
<1>3. CASE TimeStep
  <2>1. timer' \in [Node -> -1..2]
    BY <1>3 DEF TimeStep, NInv
  <2>. QED
    BY <1>1, <1>3, <2>1 DEF TimeStep, NInv
<1>4. ASSUME NEW n \in Node, CrashStep(n) PROVE NInv'
  <2>1. ASSUME NEW d \in InFlight'
        PROVE  d = <<d[1], d[2], d[3]>> /\ Travels(d[1], d[2], d[3])'
    <3>1. d = <<d[1], d[2], d[3]>> /\ Travels(d[1], d[2], d[3]) /\ d[2] # n
      BY <1>4, <2>1 DEF CrashStep, NInv
    <3>. QED
      BY <1>4, <3>1 DEF CrashStep, Travels
  <2>. QED
    BY <1>1, <1>4, <2>1 DEF CrashStep, NInv
<1>. QED
  BY <1>1, <1>2, <1>3, <1>4, StepIs, CallNInv

LEMMA InitNInv == InitElections => NInv
<1>. SUFFICES ASSUME InitElections PROVE NInv
  OBVIOUS
<1>1. InFlight = {}
  BY DEF InitElections, Init, InFlight, Flight
<1>2. IInv /\ \A n \in Node : proposer[n].st = "Follower"
  BY InitIInv DEF InitElections, Init, NewProposer
<1>3. \A n \in Node : proposer[n].highest \in Issued(proposer)
  BY DEF InitElections, Init, NewProposer, Issued, BallotOption
<1>. QED
  BY <1>1, <1>2, <1>3 DEF InitElections, NInv, Cleared, IsCandidate
-----------------------------------------------------------------------------
(***************************************************************************)
(* A candidate or leader after a call was one before, with the same        *)
(* ballot, unless it has just started an election.                         *)
(***************************************************************************)
LEMMA RoleOf ==
  ASSUME NInv, NInv', NEW n \in Node, NEW m, CallStep(n, m),
         NEW c \in Node, ~IsFollower(proposer'[c])
  PROVE  /\ Owner(proposer'[c].highest) = c
         /\ \/ ~IsFollower(proposer[c]) /\ proposer'[c].highest = proposer[c].highest
            \/ c = n /\ Campaigns(n, proposer[n], proposer'[n])
<1>1. Owner(proposer'[c].highest) = c
  BY DEF NInv, IInv, GoodProposer
<1>2. CASE c # n
  BY <1>1, <1>2 DEF CallStep, Call
<1>3. CASE c = n
  BY <1>1, <1>3
  DEF CallStep, Call, Evolves, Same, Yields, Counts, IsFollower, IsCandidate
<1>. QED
  BY <1>2, <1>3

(***************************************************************************)
(* Everybody has heard of the ballot of a candidate or leader, or will by  *)
(* the prepare on its way.                                                 *)
(***************************************************************************)
Heard ==
  \A c \in alive : ~IsFollower(proposer[c]) =>
    \A k \in alive :
      \/ AtMost(proposer[c].highest, proposer[k].highest)
      \/ <<c, k, PrepareMsg(proposer[c].highest)>> \in InFlight

LEMMA CallHeard ==
  ASSUME NInv, NInv', NEW n \in Node, NEW m, CallStep(n, m), Heard
  PROVE  Heard'
<1>. SUFFICES ASSUME NEW c \in alive', ~IsFollower(proposer'[c]), NEW k \in alive'
              PROVE  \/ AtMost(proposer'[c].highest, proposer'[k].highest)
                     \/ <<c, k, PrepareMsg(proposer'[c].highest)>> \in InFlight'
  BY DEF Heard, PrepareMsg
<1>. DEFINE b == proposer'[c].highest
<1>1. c \in alive /\ k \in alive /\ c \in Node /\ k \in Node
  BY DEF CallStep, NInv
<1>2. b \in BallotOption /\ proposer[k].highest \in BallotOption
      /\ proposer'[k].highest \in BallotOption
  BY <1>1 DEF NInv, IInv, Proposer
<1>3. AtMost(proposer[k].highest, proposer'[k].highest)
  BY <1>1, CallRaises DEF CallStep, NInv
<1>4. CASE ~IsFollower(proposer[c]) /\ b = proposer[c].highest
  <2>1. CASE AtMost(b, proposer[k].highest)
    BY <1>2, <1>3, <2>1, BallotOrder
  <2>2. CASE <<c, k, PrepareMsg(b)>> \in InFlight /\ (k # n \/ m # PrepareMsg(b))
    BY <2>2 DEF CallStep, Forwards
  <2>3. CASE k = n /\ m = PrepareMsg(b)
    <3>1. m.type = "Prepare" /\ m.bal = b
      BY <2>3 DEF PrepareMsg
    <3>. QED
      BY <2>3, <3>1 DEF CallStep, Call, Learns
  <2>. QED
    BY <1>1, <1>4, <2>1, <2>2, <2>3 DEF Heard
<1>5. CASE c = n /\ Campaigns(n, proposer[n], proposer'[n])
  <2>1. PrepareMsg(b) \in msgs' /\ Owner(b) = n
    BY <1>5 DEF Campaigns
  <2>2. CASE k # n
    <3>1. k \in Destinations(PrepareMsg(b))
      BY <1>1, <2>1, <2>2 DEF Destinations, PrepareMsg, Peers
    <3>. QED
      BY <1>1, <1>5, <2>1, <3>1 DEF CallStep, Forwards
  <2>3. CASE k = n
    BY <1>2, <1>5, <2>3, BallotOrder
  <2>. QED
    BY <2>2, <2>3
<1>. QED
  BY <1>1, <1>4, <1>5, RoleOf

(***************************************************************************)
(* The timer of n has run since n heard of the ballot of c.                *)
(***************************************************************************)
Old(n, c) ==
  n # c /\ proposer[n].highest = proposer[c].highest /\ timer[n] >= 1

\* It is not by a call that this becomes true.
LEMMA OldBefore ==
  ASSUME NInv, NInv', NEW x \in Node, NEW m, CallStep(x, m),
         NEW n \in alive, NEW c \in alive, Old(n, c)', ~IsFollower(proposer'[c])
  PROVE  /\ Old(n, c) /\ ~IsFollower(proposer[c])
         /\ proposer'[c].highest = proposer[c].highest /\ timer'[n] = timer[n]
         /\ n = x => ~Bumps(m)
<1>1. n \in Node /\ c \in Node /\ n # c
      /\ proposer'[n].highest = proposer'[c].highest /\ timer'[n] >= 1
  BY DEF NInv, Old
<1>2. timer'[n] = timer[n] /\ (n = x => ~Bumps(m))
  BY <1>1 DEF CallStep, Timed, NInv, Cleared
<1>3. Owner(proposer'[c].highest) = c
  BY <1>1, RoleOf
<1>4. proposer'[n].highest = proposer[n].highest
  <2>1. CASE n # x
    BY <1>1, <2>1 DEF CallStep, Call
  <2>2. CASE n = x
    <3>1. ~Campaigns(x, proposer[x], proposer'[x])
      BY <1>1, <1>3, <2>2 DEF Campaigns
    <3>. QED
      BY <1>2, <2>2, <3>1 DEF CallStep, Call, Evolves, Same, Counts
  <2>. QED
    BY <2>1, <2>2
<1>5. ~(c = x /\ Campaigns(x, proposer[x], proposer'[x]))
  <2>1. SUFFICES ASSUME c = x, Campaigns(x, proposer[x], proposer'[x])
                 PROVE  FALSE
    OBVIOUS
  <2>. DEFINE b == proposer[n].highest
  <2>2. b \in Issued(proposer) /\ Owner(b) = c /\ Less(proposer[c].highest, b)
    BY <1>1, <1>3, <1>4, <2>1 DEF NInv, Campaigns
  <2>3. b # NoBallot
    BY <1>1, <2>2, NodeAssumption DEF Owner, NoBallot
  <2>4. AtMost(b, proposer[c].highest)
    BY <2>2, <2>3, IssuedStarted
  <2>5. b \in BallotOption /\ proposer[c].highest \in BallotOption
    BY <1>1 DEF NInv, IInv, Proposer
  <2>. QED
    BY <2>2, <2>4, <2>5, BallotOrder
<1>6. ~IsFollower(proposer[c]) /\ proposer'[c].highest = proposer[c].highest
  BY <1>1, <1>5, RoleOf
<1>. QED
  BY <1>1, <1>2, <1>4, <1>6 DEF Old
-----------------------------------------------------------------------------
(***************************************************************************)
(* A prepare is answered: each node has promised what the candidate asks,  *)
(* or the prepare or the answer is on its way.                             *)
(***************************************************************************)
Answered ==
  \A c \in alive : IsCandidate(proposer[c]) =>
    \A k \in alive \ {c} :
      \/ k \in proposer[c].promises
      \/ <<c, k, PrepareMsg(proposer[c].highest)>> \in InFlight
      \/ \E x \in Message :
           <<k, c, x>> \in InFlight /\ Answers(x, proposer[c].highest)

\* The candidate itself takes the answer m.
LEMMA AnswerTaken ==
  ASSUME NInv, NInv', NEW c \in Node, NEW m, CallStep(c, m),
         IsCandidate(proposer[c]), IsCandidate(proposer'[c]),
         proposer'[c].highest = proposer[c].highest,
         NEW k, <<k, c, m>> \in InFlight, Answers(m, proposer[c].highest)
  PROVE  k \in proposer'[c].promises
<1>. DEFINE b == proposer[c].highest
<1>1. Learns(proposer[c], proposer'[c], m) /\ Travels(k, c, m)
  BY Travelling DEF CallStep, Call
<1>2. CASE m.type = "Promise"
  <2>1. m.bal = b /\ m.from = k
    BY <1>1, <1>2 DEF Answers, Travels
  <2>. QED
    BY <1>1, <1>2, <2>1 DEF Learns, Counts, IsCandidate, IsLeader
<1>3. CASE m.type = "Reject"
  <2>1. m.proposed = b /\ Less(b, m.preempted) /\ AtMost(m.preempted, b)
    BY <1>1, <1>3 DEF Answers, Learns
  <2>2. b \in BallotOption /\ m.preempted \in BallotOption
    BY <1>1, <1>3, MessageFields DEF NInv, IInv, Proposer, Travels, GoodMessage, BallotOption
  <2>. QED
    BY <2>1, <2>2, BallotOrder
<1>. QED
  BY <1>2, <1>3 DEF Answers

LEMMA CallAnswered ==
  ASSUME NInv, NInv', NEW n \in Node, NEW m, CallStep(n, m), Answered
  PROVE  Answered'
<1>. SUFFICES ASSUME NEW c \in alive', IsCandidate(proposer'[c]), NEW k \in alive' \ {c}
              PROVE  \/ k \in proposer'[c].promises
                     \/ <<c, k, PrepareMsg(proposer'[c].highest)>> \in InFlight'
                     \/ \E x \in Message :
                          <<k, c, x>> \in InFlight' /\ Answers(x, proposer'[c].highest)
  BY DEF Answered, PrepareMsg, Answers
<1>. DEFINE b == proposer'[c].highest
<1>1. c \in alive /\ k \in alive /\ c \in Node /\ k \in Node /\ k # c
  BY DEF CallStep, NInv
<1>2. ~IsFollower(proposer'[c])
  BY DEF IsFollower, IsCandidate
<1>3. Owner(b) = c
  BY <1>1, <1>2, RoleOf
<1>4. CASE c = n /\ Campaigns(n, proposer[n], proposer'[n])
  <2>1. PrepareMsg(b) \in msgs'
    BY <1>4 DEF Campaigns
  <2>2. k \in Destinations(PrepareMsg(b))
    BY <1>1, <1>3 DEF Destinations, PrepareMsg, Peers
  <2>. QED
    BY <1>1, <1>4, <2>1, <2>2 DEF CallStep, Forwards
<1>5. CASE ~IsFollower(proposer[c]) /\ b = proposer[c].highest
  <2>1. IsCandidate(proposer[c]) /\ proposer[c].promises \subseteq proposer'[c].promises
    <3>1. CASE c # n
      BY <1>1, <3>1 DEF CallStep, Call
    <3>2. CASE c = n
      BY <1>2, <1>5, <3>2
      DEF CallStep, Call, Evolves, Same, Yields, Campaigns, Counts, IsCandidate,
          IsLeader, IsFollower
    <3>. QED
      BY <3>1, <3>2
  <2>2. CASE k \in proposer[c].promises
    BY <2>1, <2>2
  <2>3. CASE <<c, k, PrepareMsg(b)>> \in InFlight /\ (k # n \/ m # PrepareMsg(b))
    BY <2>3 DEF CallStep, Forwards
  <2>4. CASE k = n /\ m = PrepareMsg(b)
    <3>1. m.type = "Prepare" /\ m.bal = b
      BY <2>4 DEF PrepareMsg
    <3>2. PICK x \in msgs' : Answers(x, b)
      BY <3>1 DEF CallStep, Call, Responds
    <3>3. c \in Destinations(x)
      BY <1>3, <3>2 DEF Destinations, Answers
    <3>4. x \in Message
      BY DEF NInv, IInv, GoodMessage
    <3>. QED
      BY <1>1, <2>4, <3>2, <3>3, <3>4 DEF CallStep, Forwards
  <2>5. ASSUME NEW x \in Message, <<k, c, x>> \in InFlight, Answers(x, b)
        PROVE  \/ k \in proposer'[c].promises
               \/ <<k, c, x>> \in InFlight'
    <3>1. CASE c # n \/ x # m
      BY <2>5, <3>1 DEF CallStep, Forwards
    <3>2. CASE c = n /\ x = m
      BY <1>1, <1>5, <2>1, <2>5, <3>2, AnswerTaken
    <3>. QED
      BY <3>1, <3>2
  <2>. QED
    BY <1>1, <1>5, <2>1, <2>2, <2>3, <2>4, <2>5 DEF Answered
<1>. QED
  BY <1>1, <1>2, <1>4, <1>5, RoleOf

(***************************************************************************)
(* A candidate whose ballot is old news to another node is not elected any *)
(* more: whoever runs has answered it, and no promise is on its way but    *)
(* from nodes it has counted.                                              *)
(***************************************************************************)
Exhausted ==
  \A n, c \in alive : Old(n, c) /\ IsCandidate(proposer[c]) =>
    /\ alive \subseteq proposer[c].promises \cup {c}
    /\ \A a, k \in Node : \A x \in Message :
         <<a, k, x>> \in InFlight /\ x.type = "Promise" /\ x.bal = proposer[c].highest
           => x.from \in proposer[c].promises

LEMMA NotElected ==
  ASSUME NInv, NInv', NEW x \in Node, NEW m, CallStep(x, m), Exhausted,
         NEW n \in alive, NEW c \in alive, Old(n, c), IsCandidate(proposer[c]),
         ~IsFollower(proposer'[c]), proposer'[c].highest = proposer[c].highest
  PROVE  IsCandidate(proposer'[c]) /\ proposer'[c].promises = proposer[c].promises
<1>. DEFINE p == proposer[c]
            q == proposer'[c]
<1>1. c \in Node
  BY DEF NInv
<1>2. CASE c # x
  BY <1>1, <1>2 DEF CallStep, Call
<1>3. CASE c = x /\ Counts(p, q, m)
  <2>1. m.type = "Promise" /\ m.bal = p.highest
    BY <1>3 DEF Counts
  <2>2. PICK a : <<a, c, m>> \in InFlight
    BY <1>3, <2>1, Commands DEF CallStep
  <2>3. a \in Node /\ m \in Message
    BY <2>2, Travelling DEF Travels, GoodMessage
  <2>4. m.from \in p.promises
    BY <1>1, <2>1, <2>2, <2>3 DEF Exhausted
  <2>5. p.promises \cup {m.from} = p.promises /\ ~EnoughPromises(p.promises)
    BY <1>1, <2>4 DEF NInv
  <2>. QED
    BY <1>3, <2>5 DEF Counts
<1>4. CASE c = x /\ ~Counts(p, q, m)
  BY <1>4
  DEF CallStep, Call, Evolves, Same, Yields, Campaigns, IsFollower, IsCandidate
<1>. QED
  BY <1>2, <1>3, <1>4

LEMMA CallExhausted ==
  ASSUME NInv, NInv', NEW x \in Node, NEW m, CallStep(x, m), Exhausted
  PROVE  Exhausted'
<1>. SUFFICES ASSUME NEW n \in alive', NEW c \in alive', Old(n, c)',
                     IsCandidate(proposer'[c])
              PROVE  /\ alive' \subseteq proposer'[c].promises \cup {c}
                     /\ \A a, k \in Node : \A y \in Message :
                          /\ <<a, k, y>> \in InFlight' /\ y.type = "Promise"
                          /\ y.bal = proposer'[c].highest
                          => y.from \in proposer'[c].promises
  BY DEF Exhausted
<1>. DEFINE p == proposer[c]
            q == proposer'[c]
<1>1. n \in alive /\ c \in alive /\ c \in Node /\ alive' = alive
  BY DEF CallStep, NInv
<1>2. ~IsFollower(q)
  BY DEF IsFollower, IsCandidate
<1>3. Old(n, c) /\ ~IsFollower(p) /\ q.highest = p.highest
  BY <1>1, <1>2, OldBefore
<1>4. IsCandidate(p)
  <2>1. CASE c # x
    BY <1>1, <2>1 DEF CallStep, Call
  <2>2. CASE c = x
    BY <1>2, <1>3, <2>2
    DEF CallStep, Call, Evolves, Same, Yields, Campaigns, Counts, IsCandidate, IsFollower
  <2>. QED
    BY <2>1, <2>2
<1>5. q.promises = p.promises
  BY <1>1, <1>2, <1>3, <1>4, NotElected
<1>6. alive \subseteq p.promises \cup {c}
  BY <1>1, <1>3, <1>4 DEF Exhausted
<1>7. ASSUME NEW a \in Node, NEW k \in Node, NEW y \in Message,
             <<a, k, y>> \in InFlight', y.type = "Promise", y.bal = p.highest
      PROVE  y.from \in p.promises
  <2>1. CASE <<a, k, y>> \in InFlight
    BY <1>1, <1>3, <1>4, <1>7, <2>1 DEF Exhausted
  <2>2. CASE y \in msgs'
    <3>1. m.type = "Prepare" /\ y.bal = m.bal /\ y.from = x
      BY <1>7, <2>2 DEF CallStep, Call, Sends
    <3>2. PICK b : <<b, x, m>> \in InFlight
      BY <3>1, Commands DEF CallStep
    <3>3. x \in Peers(Owner(m.bal))
      BY <3>1, <3>2, Travelling DEF Travels, Destinations
    <3>4. Owner(p.highest) = c
      BY <1>1, <1>3 DEF NInv, IInv, GoodProposer
    <3>5. x # c
      BY <1>7, <3>1, <3>3, <3>4 DEF Peers
    <3>. QED
      BY <1>6, <3>1, <3>5 DEF CallStep
  <2>. QED
    BY <1>7, <2>1, <2>2 DEF CallStep, Forwards
<1>. QED
  BY <1>1, <1>3, <1>5, <1>6, <1>7
-----------------------------------------------------------------------------
(***************************************************************************)
(* While the timer of a leader is cleared, each other node has its         *)
(* heartbeat before it, or has sent what will restart that timer.          *)
(***************************************************************************)
Beats ==
  \A c \in alive : IsLeader(proposer[c]) /\ timer[c] = Cleared =>
    \A k \in alive \ {c} :
      \/ <<c, k, AcceptMsg(proposer[c].highest, NoValues)>> \in InFlight
      \/ \E x \in Message : <<k, c, x>> \in InFlight /\ Bumps(x)

LEMMA CallBeats ==
  ASSUME NInv, NInv', NEW n \in Node, NEW m, CallStep(n, m), Beats
  PROVE  Beats'
<1>. SUFFICES ASSUME NEW c \in alive', IsLeader(proposer'[c]), timer'[c] = Cleared,
                     NEW k \in alive' \ {c}
              PROVE  \/ <<c, k, AcceptMsg(proposer'[c].highest, NoValues)>> \in InFlight'
                     \/ \E x \in Message : <<k, c, x>> \in InFlight' /\ Bumps(x)
  BY DEF Beats, AcceptMsg, NoValues, Bumps, Cleared
<1>. DEFINE b == proposer'[c].highest
            beat == AcceptMsg(b, NoValues)
<1>1. c \in alive /\ k \in alive /\ c \in Node /\ k \in Node /\ k # c
  BY DEF CallStep, NInv
<1>2. ~IsFollower(proposer'[c]) /\ ~IsCandidate(proposer'[c])
  BY DEF IsFollower, IsCandidate, IsLeader
<1>3. Owner(b) = c
  BY <1>1, <1>2, RoleOf
<1>4. beat.type = "Accept" /\ beat.bal = b /\ beat.batch = NoValues
  BY DEF AcceptMsg
<1>5. CASE c = n /\ m.type = "Tick"
  <2>1. Evolves(n, proposer[n], proposer'[n], m)
    BY DEF CallStep, Call
  <2>2. IsLeader(proposer[n]) /\ b = proposer[n].highest
    BY <1>2, <1>5, <2>1 DEF Evolves, Same, Yields, Campaigns, Counts, Bumps, IsLeader
  <2>3. beat \in msgs'
    BY <1>5, <2>2 DEF CallStep, Call, Responds
  <2>4. k \in Destinations(beat)
    BY <1>1, <1>3, <1>4 DEF Destinations, Peers
  <2>. QED
    BY <1>1, <1>5, <2>3, <2>4 DEF CallStep, Forwards
<1>6. CASE c # n \/ m.type # "Tick"
  <2>1. timer[c] = Cleared /\ (c = n => ~Bumps(m))
    BY <1>1, <1>6 DEF CallStep, Timed, NInv, Cleared
  <2>2. IsLeader(proposer[c]) /\ b = proposer[c].highest
    <3>1. CASE c # n
      BY <1>1, <3>1 DEF CallStep, Call
    <3>2. CASE c = n
      <4>1. Evolves(n, proposer[n], proposer'[n], m)
        BY DEF CallStep, Call
      <4>. QED
        BY <1>2, <2>1, <3>2, <4>1 DEF Evolves, Same, Campaigns, Counts, Bumps, IsLeader
    <3>. QED
      BY <3>1, <3>2
  <2>3. CASE <<c, k, beat>> \in InFlight /\ (k # n \/ m # beat)
    BY <2>3 DEF CallStep, Forwards
  <2>4. CASE k = n /\ m = beat
    <3>1. PICK x \in msgs' : x.type = "Accepted" /\ x.bal = b
      BY <1>4, <2>4 DEF CallStep, Call, Responds
    <3>2. c \in Destinations(x) /\ Bumps(x) /\ x \in Message
      BY <1>3, <3>1 DEF Destinations, Bumps, NInv, IInv, GoodMessage
    <3>. QED
      BY <1>1, <2>4, <3>1, <3>2 DEF CallStep, Forwards
  <2>5. ASSUME NEW x \in Message, <<k, c, x>> \in InFlight, Bumps(x)
        PROVE  <<k, c, x>> \in InFlight'
    <3>1. c # n \/ x # m
      BY <2>1, <2>5
    <3>. QED
      BY <2>5, <3>1 DEF CallStep, Forwards
  <2>. QED
    BY <1>1, <2>1, <2>2, <2>3, <2>4, <2>5 DEF Beats
<1>. QED
  BY <1>5, <1>6
-----------------------------------------------------------------------------
(***************************************************************************)
(* A leader whose ballot is old news to n: n's timer has run for half of   *)
(* the timeout only, and what restarts it is coming, or the leader is due  *)
(* and nothing on its way can keep it from acting.                         *)
(***************************************************************************)
\* The command x from a to k was sent after everybody had heard of b.
Later(a, k, x, c, b) ==
  /\ x.type \in {"Prepare", "Promise", "Accept", "Accepted"} => Less(b, x.bal)
  /\ x.type = "Reject" => Less(b, x.proposed)
  /\ x.type = "Resolution" /\ k = c => Less(b, x.bal)
  /\ x.type = "Catchup" => a # c

Coming(n, c) == \E x \in Message : <<c, n, x>> \in InFlight /\ Bumps(x)

First(c) ==
  /\ timer[c] >= 1
  /\ \A k \in alive : AtMost(proposer[c].highest, proposer[k].highest)
  /\ \A a, k \in Node : \A x \in Message :
       <<a, k, x>> \in InFlight => Later(a, k, x, c, proposer[c].highest)

Fresh ==
  \A n, c \in alive : Old(n, c) /\ IsLeader(proposer[c]) =>
    timer[n] = 1 /\ (Coming(n, c) \/ First(c))

\* The command a node handles while c is first.
LEMMA HandlesLater ==
  ASSUME NInv, NEW x \in Node, NEW m, CallStep(x, m), NEW c \in alive, First(c),
         m.type \notin {"Ask", "Tick"}
  PROVE  \E a \in Node : Travels(a, x, m) /\ Later(a, x, m, c, proposer[c].highest)
<1>1. PICK a : <<a, x, m>> \in InFlight
  BY Commands DEF CallStep
<1>2. Travels(a, x, m) /\ a \in Node /\ m \in Message
  BY <1>1, Travelling DEF Travels, GoodMessage
<1>. QED
  BY <1>1, <1>2 DEF First

\* What another node than c sends is later.
LEMMA SentLater ==
  ASSUME NInv, NInv', NEW x \in Node, NEW m, CallStep(x, m),
         NEW c \in alive, c # x, ~IsFollower(proposer[c]), First(c),
         NEW y \in msgs', NEW k \in Destinations(y)
  PROVE  Later(x, k, y, c, proposer[c].highest)
<1>. DEFINE b == proposer[c].highest
            q == proposer'[x]
<1>1. Sends(x, q, m, y) /\ x \in alive /\ c \in Node
  BY DEF CallStep, Call, NInv
<1>2. ASSUME y.type \in {"Prepare", "Accept"} PROVE Less(b, y.bal)
  <2>1. y.bal = q.highest /\ ~IsFollower(q)
    BY <1>1, <1>2 DEF Sends, IsFollower, IsCandidate, IsLeader
  <2>2. Owner(q.highest) = x /\ Owner(b) = c
    BY <1>1, <2>1 DEF NInv, IInv, GoodProposer
  <2>3. AtMost(b, proposer[x].highest) /\ AtMost(proposer[x].highest, q.highest)
    BY <1>1, CallRaises DEF First, CallStep, NInv
  <2>4. b \in BallotOption /\ proposer[x].highest \in BallotOption
        /\ q.highest \in BallotOption
    BY <1>1 DEF NInv, IInv, Proposer
  <2>5. AtMost(b, q.highest)
    BY <2>3, <2>4, BallotOrder
  <2>. QED
    BY <2>1, <2>2, <2>5 DEF AtMost
<1>3. ASSUME y.type \in {"Promise", "Accepted", "Reject", "Resolution"}
      PROVE  \E a \in Node : Travels(a, x, m) /\ Later(a, x, m, c, b)
  <2>1. m.type \notin {"Ask", "Tick"}
    BY <1>1, <1>3 DEF Sends
  <2>. QED
    BY <2>1, HandlesLater
<1>4. ASSUME y.type \in {"Promise", "Accepted"} PROVE Less(b, y.bal)
  BY <1>1, <1>3, <1>4 DEF Sends, Later
<1>5. ASSUME y.type = "Reject" PROVE Less(b, y.proposed)
  BY <1>1, <1>3, <1>5 DEF Sends, Later
<1>6. ASSUME y.type = "Resolution", k = c PROVE Less(b, y.bal)
  <2>1. PICK a \in Node : Travels(a, x, m) /\ Later(a, x, m, c, b)
    BY <1>3, <1>6
  <2>2. CASE m.type = "Accepted" /\ y.bal = m.bal
    BY <2>1, <2>2 DEF Later
  <2>3. CASE m.type = "Catchup" /\ y.to = {m.from}
    <3>1. a = m.from /\ a # c
      BY <2>1, <2>3 DEF Travels, Later
    <3>2. k \in y.to
      BY <1>6 DEF Destinations
    <3>. QED
      BY <1>6, <2>3, <3>1, <3>2
  <2>. QED
    BY <1>1, <1>6, <2>2, <2>3 DEF Sends
<1>. QED
  BY <1>2, <1>4, <1>5, <1>6 DEF Later

\* What c can still be called for is no reason to lose its ballot or its turn.
LEMMA LeaderCalls ==
  ASSUME NInv, NInv', NEW c \in Node, NEW m, CallStep(c, m), First(c),
         IsLeader(proposer[c]), IsLeader(proposer'[c]),
         proposer'[c].highest = proposer[c].highest,
         ~\E y \in msgs' : y.type = "Accept"
  PROVE  m.type = "Catchup" /\ m.from # c
<1>. DEFINE b == proposer[c].highest
<1>1. c \in alive /\ b \in BallotOption
  BY DEF CallStep, NInv, IInv, Proposer
<1>2. Learns(proposer[c], proposer'[c], m) /\ Responds(proposer[c], m)
  BY DEF CallStep, Call
<1>3. m.type \notin {"Ask", "Proposal", "Tick"}
  BY <1>2 DEF Responds, AcceptMsg
<1>4. PICK a \in Node : Travels(a, c, m) /\ Later(a, c, m, c, b)
  BY <1>1, <1>3, HandlesLater
<1>5. m \in Message /\ GoodMessage(m, Issued(proposer)) /\ c \in Destinations(m)
  BY <1>4 DEF Travels, GoodMessage
<1>6. \A d \in Issued(proposer) : d # NoBallot /\ Owner(d) = c => AtMost(d, b)
  BY IssuedStarted
<1>7. \A d \in Ballot : ~(Less(b, d) /\ AtMost(d, b))
  BY <1>1, BallotOrder DEF BallotOption
<1>8. m.type \notin {"Prepare", "Accept", "Accepted", "Resolution"}
  BY <1>2, <1>4, <1>5, <1>7, MessageFields DEF Learns, Later
<1>9. m.type # "Promise"
  <2>1. SUFFICES ASSUME m.type = "Promise" PROVE FALSE
    OBVIOUS
  <2>2. m.bal \in Issued(proposer) /\ m.bal \in Ballot /\ Owner(m.bal) = c /\ Less(b, m.bal)
    BY <1>4, <1>5, <2>1, MessageFields DEF GoodMessage, Destinations, Later
  <2>. QED
    BY <1>6, <1>7, <2>2, NoBallotNotBallot
<1>10. m.type # "Reject"
  <2>1. SUFFICES ASSUME m.type = "Reject" PROVE FALSE
    OBVIOUS
  <2>2. /\ m.proposed \in Issued(proposer) /\ m.proposed \in Ballot
        /\ Owner(m.proposed) = c /\ Less(b, m.proposed)
    BY <1>4, <1>5, <2>1, MessageFields DEF GoodMessage, Destinations, Later
  <2>. QED
    BY <1>6, <1>7, <2>2, NoBallotNotBallot
<1>11. m.type = "Catchup"
  BY <1>3, <1>5, <1>8, <1>9, <1>10 DEF Message
<1>. QED
  BY <1>4, <1>11 DEF Travels, Later

LEMMA LeaderStaysFirst ==
  ASSUME NInv, NInv', NEW c \in Node, NEW m, CallStep(c, m), First(c),
         IsLeader(proposer[c]), IsLeader(proposer'[c]),
         proposer'[c].highest = proposer[c].highest,
         NEW n \in alive, n # c
  PROVE  Coming(n, c)' \/ First(c)'
<1>. DEFINE b == proposer[c].highest
<1>1. /\ alive' = alive /\ n \in Node /\ c \in alive /\ Owner(b) = c
      /\ \A y \in msgs' : Sends(c, proposer'[c], m, y) /\ y \in Message
  BY DEF CallStep, Call, NInv, IInv, GoodMessage, GoodProposer, IsLeader, IsFollower
<1>2. ASSUME NEW y \in msgs', y.type = "Accept" PROVE Coming(n, c)'
  <2>1. n \in Destinations(y)
    BY <1>1, <1>2 DEF Sends, Destinations, Peers
  <2>2. <<c, n, y>> \in InFlight' /\ Bumps(y)
    BY <1>2, <2>1 DEF CallStep, Forwards, Bumps
  <2>. QED
    BY <1>1, <2>2 DEF Coming, Bumps
<1>3. ASSUME m.type = "Catchup", m.from # c, \A y \in msgs' : y.type # "Accept"
      PROVE  First(c)'
  <2>1. timer' = timer
    BY <1>3 DEF CallStep, Timed, Bumps
  <2>2. \A k \in alive : AtMost(b, proposer'[k].highest)
    <3>1. ASSUME NEW k \in alive PROVE AtMost(b, proposer'[k].highest)
      <4>1. /\ b \in BallotOption /\ proposer[k].highest \in BallotOption
            /\ proposer'[k].highest \in BallotOption
        BY DEF NInv, IInv, Proposer
      <4>2. AtMost(b, proposer[k].highest)
            /\ AtMost(proposer[k].highest, proposer'[k].highest)
        BY CallRaises DEF First, CallStep, NInv
      <4>. QED
        BY <4>1, <4>2, BallotOrder
    <3>. QED
      BY <3>1
  <2>3. ASSUME NEW a \in Node, NEW k \in Node, NEW y \in Message,
               <<a, k, y>> \in InFlight'
        PROVE  Later(a, k, y, c, b)
    <3>1. CASE <<a, k, y>> \in InFlight
      BY <3>1 DEF First
    <3>2. CASE k \in Destinations(y) /\ y \in msgs'
      <4>1. y.type \in {"Proposal", "Resolution"}
            /\ (y.type = "Resolution" => y.to = {m.from})
        BY <1>1, <1>3, <3>2 DEF Sends, Message, IsLeader, IsCandidate
      <4>2. ~(y.type = "Resolution" /\ k = c)
        BY <1>3, <3>2, <4>1 DEF Destinations
      <4>. QED
        BY <4>1, <4>2 DEF Later
    <3>. QED
      BY <2>3, <3>1, <3>2 DEF CallStep, Forwards
  <2>. QED
    BY <1>1, <2>1, <2>2, <2>3 DEF First, Later
<1>. QED
  BY <1>2, <1>3, LeaderCalls

LEMMA CallFresh ==
  ASSUME NInv, NInv', NEW x \in Node, NEW m, CallStep(x, m), Exhausted, Fresh
  PROVE  Fresh'
<1>. SUFFICES ASSUME NEW n \in alive', NEW c \in alive', Old(n, c)',
                     IsLeader(proposer'[c])
              PROVE  timer'[n] = 1 /\ (Coming(n, c)' \/ First(c)')
  BY DEF Fresh
<1>. DEFINE b == proposer[c].highest
<1>1. n \in alive /\ c \in alive /\ n \in Node /\ c \in Node /\ alive' = alive
  BY DEF CallStep, NInv
<1>2. ~IsFollower(proposer'[c]) /\ ~IsCandidate(proposer'[c])
  BY DEF IsFollower, IsCandidate, IsLeader
<1>3. /\ Old(n, c) /\ n # c /\ ~IsFollower(proposer[c])
      /\ proposer'[c].highest = b /\ timer'[n] = timer[n] /\ (n = x => ~Bumps(m))
  BY <1>1, <1>2, OldBefore DEF Old
<1>4. IsLeader(proposer[c])
  <2>1. ~IsCandidate(proposer[c])
    BY <1>1, <1>2, <1>3, NotElected
  <2>. QED
    BY <1>1, <1>3, <2>1 DEF NInv, IInv, Proposer, IsFollower, IsCandidate, IsLeader
<1>5. timer[n] = 1 /\ (Coming(n, c) \/ First(c))
  BY <1>1, <1>3, <1>4 DEF Fresh
<1>6. CASE Coming(n, c)
  <2>1. PICK y \in Message : <<c, n, y>> \in InFlight /\ Bumps(y)
    BY <1>6 DEF Coming
  <2>2. <<c, n, y>> \in InFlight'
    BY <1>3, <2>1 DEF CallStep, Forwards
  <2>. QED
    BY <1>3, <1>5, <2>1, <2>2 DEF Coming, Bumps
<1>7. CASE First(c) /\ c = x
  BY <1>1, <1>3, <1>4, <1>5, <1>7, LeaderStaysFirst
<1>8. CASE First(c) /\ c # x
  <2>1. timer'[c] >= 1
    BY <1>1, <1>8 DEF CallStep, Timed, NInv, First
  <2>2. ASSUME NEW k \in alive PROVE AtMost(b, proposer'[k].highest)
    <3>1. /\ b \in BallotOption /\ proposer[k].highest \in BallotOption
          /\ proposer'[k].highest \in BallotOption
      BY <1>1 DEF NInv, IInv, Proposer
    <3>2. AtMost(b, proposer[k].highest)
          /\ AtMost(proposer[k].highest, proposer'[k].highest)
      BY <1>8, CallRaises DEF First, CallStep, NInv
    <3>. QED
      BY <3>1, <3>2, BallotOrder
  <2>3. ASSUME NEW a \in Node, NEW k \in Node, NEW y \in Message,
               <<a, k, y>> \in InFlight'
        PROVE  Later(a, k, y, c, b)
    <3>1. CASE <<a, k, y>> \in InFlight
      BY <1>8, <3>1 DEF First
    <3>2. CASE a = x /\ k \in Destinations(y) /\ y \in msgs'
      BY <1>1, <1>3, <1>8, <3>2, SentLater
    <3>. QED
      BY <2>3, <3>1, <3>2 DEF CallStep, Forwards
  <2>4. First(c)'
    BY <1>1, <1>3, <2>1, <2>2, <2>3 DEF First, Later
  <2>. QED
    BY <1>3, <1>5, <2>4
<1>. QED
  BY <1>5, <1>6, <1>7, <1>8
-----------------------------------------------------------------------------
(***************************************************************************)
(* The other steps.  Time only passes when nothing is on its way, so that  *)
(* what was coming has come; a node that stops takes with it only its own. *)
(***************************************************************************)
ElectionInv == NInv /\ Heard /\ Answered /\ Exhausted /\ Beats /\ Fresh

LEMMA TimeKeeps ==
  ASSUME ElectionInv, NInv', TimeStep
  PROVE  ElectionInv'
<1>. USE DEF ElectionInv
<1>1. InFlight = {} /\ InFlight' = {} /\ proposer' = proposer /\ alive' = alive
      /\ alive \subseteq Node /\ timer \in [Node -> -1..2]
  BY DEF TimeStep, NInv
<1>2. \A n \in alive :
        timer'[n] = IF timer[n] \in 0..1 THEN timer[n] + 1 ELSE timer[n]
  BY <1>1 DEF TimeStep
<1>3. Heard'
  BY <1>1 DEF Heard
<1>4. Answered'
  BY <1>1 DEF Answered
<1>5. Beats'
  <2>1. \A n \in alive : timer'[n] = Cleared => timer[n] = Cleared
    BY <1>1, <1>2 DEF Cleared
  <2>. QED
    BY <1>1, <2>1 DEF Beats
<1>6. Exhausted'
  BY <1>1 DEF Exhausted, Answered
<1>7. ASSUME NEW n \in alive, NEW c \in alive, Old(n, c)', IsLeader(proposer[c])
      PROVE  timer'[n] = 1 /\ First(c)'
  <2>1. n # c /\ proposer[n].highest = proposer[c].highest /\ timer'[n] >= 1
    BY <1>1, <1>7 DEF Old
  <2>2. timer[c] \in -1..0
    BY <1>1, <1>7 DEF TimeStep, Due
  <2>3. timer[c] # Cleared
    BY <1>1, <1>7, <2>1 DEF Beats
  <2>4. timer'[c] = 1
    BY <1>2, <2>2, <2>3 DEF Cleared
  <2>5. ~(timer[n] >= 1)
    <3>1. SUFFICES ASSUME timer[n] >= 1 PROVE FALSE
      OBVIOUS
    <3>2. Old(n, c)
      BY <2>1, <3>1 DEF Old
    <3>3. Coming(n, c) \/ First(c)
      BY <1>7, <3>2 DEF Fresh
    <3>. QED
      BY <1>1, <2>2, <3>3 DEF Coming, First
  <2>6. timer'[n] = 1
    BY <1>1, <1>2, <2>1, <2>5
  <2>7. \A k \in alive : AtMost(proposer[c].highest, proposer[k].highest)
    BY <1>1, <1>7 DEF Heard, IsLeader, IsFollower
  <2>8. First(c)'
    BY <1>1, <2>4, <2>7 DEF First
  <2>. QED
    BY <2>6, <2>8
<1>8. Fresh'
  BY <1>1, <1>7 DEF Fresh
<1>. QED
  BY <1>3, <1>4, <1>5, <1>6, <1>8

LEMMA CrashKeeps ==
  ASSUME ElectionInv, NInv', NEW x \in Node, CrashStep(x)
  PROVE  ElectionInv'
<1>. USE DEF ElectionInv
<1>1. /\ proposer' = proposer /\ timer' = timer /\ alive' = alive \ {x}
      /\ InFlight' \subseteq InFlight
      /\ \A a, k, m : <<a, k, m>> \in InFlight /\ a # x /\ k # x => <<a, k, m>> \in InFlight'
  BY DEF CrashStep
<1>2. Heard'
  BY <1>1 DEF Heard
<1>3. Answered'
  BY <1>1 DEF Answered
<1>4. Beats'
  BY <1>1 DEF Beats
<1>5. Exhausted'
  BY <1>1 DEF Exhausted, Old
<1>6. \A n, c \in alive' : Coming(n, c) => Coming(n, c)'
  BY <1>1 DEF Coming
<1>7. \A c \in alive' : First(c) => First(c)'
  BY <1>1 DEF First
<1>8. \A n, c \in alive' : Old(n, c)' => Old(n, c)
  BY <1>1 DEF Old
<1>9. Fresh'
  BY <1>1, <1>6, <1>7, <1>8 DEF Fresh
<1>. QED
  BY <1>2, <1>3, <1>4, <1>5, <1>9

LEMMA QuietKeeps ==
  ASSUME ElectionInv, NInv', QuietStep
  PROVE  ElectionInv'
BY DEF ElectionInv, QuietStep, Heard, Answered, Exhausted, Old, Beats, Fresh, Coming, First

LEMMA NextElectionInv == ElectionInv /\ [NextElections]_electionVars => ElectionInv'
<1>. SUFFICES ASSUME ElectionInv, [NextElections]_electionVars PROVE ElectionInv'
  OBVIOUS
<1>1. NInv'
  BY NextNInv DEF ElectionInv
<1>2. ASSUME NEW n \in Node, NEW m, CallStep(n, m) PROVE ElectionInv'
  BY <1>1, <1>2, CallHeard, CallAnswered, CallExhausted, CallBeats, CallFresh
  DEF ElectionInv
<1>. QED
  BY <1>1, <1>2, StepIs, QuietKeeps, TimeKeeps, CrashKeeps DEF ElectionInv

LEMMA InitElectionInv == InitElections => ElectionInv
<1>. SUFFICES ASSUME InitElections PROVE ElectionInv
  OBVIOUS
<1>1. \A n \in Node : IsFollower(proposer[n]) /\ ~IsCandidate(proposer[n])
                      /\ ~IsLeader(proposer[n])
  BY DEF InitElections, Init, NewProposer, IsFollower, IsCandidate, IsLeader
<1>2. alive = Node
  BY DEF InitElections
<1>. QED
  BY <1>1, <1>2, InitNInv DEF ElectionInv, Heard, Answered, Exhausted, Beats, Fresh

(***************************************************************************)
(* The timer that lapses: its node is due, and due later than its leader.  *)
(***************************************************************************)
Against(n, c) ==
  /\ IsLeader(proposer[c]) /\ proposer[c].highest = proposer[n].highest
  /\ timer[n] >= 0 /\ timer'[n] = Cleared /\ IsCandidate(proposer'[n])

LEMMA NeverAgainst ==
  ASSUME ElectionInv, [NextElections]_electionVars, NEW n \in alive, NEW c \in alive
  PROVE  ~Against(n, c)
<1>. SUFFICES ASSUME Against(n, c) PROVE FALSE
  OBVIOUS
<1>1. NInv /\ Fresh /\ n \in Node /\ c \in Node /\ timer \in [Node -> -1..2]
  BY DEF ElectionInv, NInv
<1>2. ~(QuietStep \/ TimeStep \/ \E x \in Node : CrashStep(x))
  BY <1>1 DEF Against, QuietStep, TimeStep, CrashStep, Cleared
<1>3. PICK x \in Node : \E m : CallStep(x, m)
  BY <1>1, <1>2, StepIs
<1>. PICK m : CallStep(x, m)
  BY <1>3
<1>4. x = n /\ m.type = "Tick"
  BY <1>1 DEF CallStep, Timed, Against, Cleared
<1>5. Due(n)
  <2>1. m # Asking
    BY <1>4 DEF Asking
  <2>2. \A a : <<a, n, m>> \notin InFlight
    BY <1>1, <1>4, NotACommand
  <2>. QED
    BY <1>4, <2>1, <2>2 DEF CallStep
<1>6. CASE IsLeader(proposer[n])
  <2>1. Evolves(n, proposer[n], proposer'[n], m)
    BY <1>4 DEF CallStep, Call
  <2>. QED
    BY <1>4, <1>6, <2>1
    DEF Against, Evolves, Same, Yields, Campaigns, Counts, Bumps, IsLeader, IsCandidate,
        IsFollower
<1>7. CASE ~IsLeader(proposer[n])
  <2>1. timer[n] >= 2 /\ n # c
    BY <1>5, <1>7 DEF Due, Against
  <2>2. Old(n, c)
    BY <1>1, <2>1 DEF Old, Against
  <2>3. timer[n] = 1
    BY <1>1, <2>2 DEF Fresh, Against
  <2>. QED
    BY <2>1, <2>3
<1>. QED
  BY <1>6, <1>7

(***************************************************************************)
(* A timer never starts an election against the leader its node follows,   *)
(* while that leader runs: in a group of any size, wherever nodes stop.    *)
(***************************************************************************)
THEOREM LeaderIsNotChallenged == ElectionSpec => NoElectionAgainstLeader
<1>. DEFINE Unchallenged ==
              \A n, c \in alive :
                IsLeader(proposer[c]) /\ proposer[c].highest = proposer[n].highest =>
                  ~(timer[n] >= 0 /\ timer'[n] = Cleared /\ IsCandidate(proposer'[n]))
<1>1. ElectionInv /\ [NextElections]_electionVars => [Unchallenged]_electionVars
  BY NeverAgainst DEF Against
<1>. HIDE DEF Unchallenged
<1>2. ElectionSpec => [][Unchallenged]_electionVars
  BY <1>1, InitElectionInv, NextElectionInv, PTL DEF ElectionSpec
<1>. QED
  BY <1>2 DEF Unchallenged, NoElectionAgainstLeader

-----------------------------------------------------------------------------
(***************************************************************************)
(* What the group keeps whatever is delivered, it keeps under the timers   *)
(* too, when nodes stop and the network loses commands.                    *)
(***************************************************************************)
TimedInv == NInv /\ LInv

LEMMA LoseIsQuiet ==
  ASSUME NInv, Lose
  PROVE  NInv' /\ UNCHANGED <<proposer, window>>
<1>1. /\ msgs = {} /\ pending' \subseteq pending
      /\ UNCHANGED <<proposer, window, msgs, panicked, timer, caller, alive>>
  BY DEF Lose, Idle
<1>2. InFlight' \subseteq InFlight
  BY <1>1 DEF InFlight, Flight
<1>3. IInv'
  BY <1>1 DEF IInv, NInv
<1>. QED
  BY <1>1, <1>2, <1>3 DEF NInv, Travels

LEMMA TimedHandled ==
  ASSUME TimedInv, [NextElections \/ Lose]_electionVars
  PROVE  \A k \in Node : Handled(k)
<1>1. CASE Dispatch \/ TimePasses \/ Rest \/ Lose \/ UNCHANGED electionVars
  BY <1>1, SameWindowHandled
  DEF Dispatch, TimePasses, Rest, Lose, electionVars, TimedInv
<1>2. CASE Deliver
  <2>1. PICK d \in pending : Receive(d)
    BY <1>2 DEF Deliver
  <2>2. d \in InFlight /\ d = <<d[1], d[2], d[3]>>
    BY <2>1 DEF InFlight, Flight, TimedInv, NInv
  <2>3. d[2] \in Node /\ GoodMessage(d[3], Issued(proposer))
    BY <2>2 DEF Travels, TimedInv, NInv
  <2>4. Handle(d[2], d[3])
    BY <2>1 DEF Receive
  <2>5. CASE UNCHANGED vars
    BY <2>5, SameWindowHandled DEF vars, TimedInv
  <2>. QED
    BY <2>3, <2>4, <2>5, HandlerHandled DEF Handle, TimedInv
<1>3. ASSUME NEW n \in Node, Tick(n) \/ Crash(n)
      PROVE  \A k \in Node : Handled(k)
  BY <1>3, SameWindowHandled DEF Tick, ProposeLeadership, Crash, TimedInv
<1>4. ASSUME NEW n \in Node, NEW v \in ClientValue, Ask(n, v)
      PROVE  \A k \in Node : Handled(k)
  BY <1>4, ProposeHandled DEF Ask, TimedInv
<1>. QED
  BY <1>1, <1>2, <1>3, <1>4 DEF NextElections

LEMMA NextTimedInv == TimedInv /\ [NextElections \/ Lose]_electionVars => TimedInv'
<1>1. TimedInv /\ [NextElections \/ Lose]_electionVars => NInv'
  BY NextNInv, LoseIsQuiet DEF TimedInv
<1>. QED
  BY <1>1, TimedHandled DEF TimedInv, NInv, LInv, Handled

(***************************************************************************)
(* With timers, heartbeats, nodes that stop in the middle of a broadcast   *)
(* and lost commands, in a group of any size: whoever campaigns or leads   *)
(* holds the highest ballot it has observed (the assertion of              *)
(* drive_accept), no follower follows itself, and the decided slots of     *)
(* each replica are exactly the resolved prefix of its log.                *)
(***************************************************************************)
THEOREM TimedGroupHolds ==
  LossySpec => [](LeaderHoldsHighest /\ FollowsAnother /\ OpenMinUndecided)
<1>1. InitElections => TimedInv
  BY InitNInv, InitLInv DEF InitElections, TimedInv
<1>2. TimedInv => LeaderHoldsHighest /\ FollowsAnother /\ OpenMinUndecided
  BY IInvImplies, LInvImplies DEF TimedInv, LInv
<1>. QED
  BY <1>1, <1>2, NextTimedInv, PTL DEF LossySpec

(***************************************************************************)
(* Under the same conditions no step makes a replica forget or change a    *)
(* decision, or moves its open_min_slot back.                              *)
(***************************************************************************)
THEOREM TimedDecisionsAreFinal == LossySpec => ResolvedIsFinal
<1>. DEFINE Final == \A n \in Node :
                       /\ window[n].min <= window'[n].min
                       /\ \A s \in Slot :
                            ResolvedAt(window[n], s) => window'[n].acc[s] = window[n].acc[s]
<1>1. InitElections => TimedInv
  BY InitNInv, InitLInv DEF InitElections, TimedInv
<1>2. TimedInv /\ [NextElections \/ Lose]_electionVars => Final
  BY TimedHandled, SlotBound DEF Handled, Keeps
<1>3. TimedInv /\ [NextElections \/ Lose]_electionVars => [Final]_vars
  BY <1>2
<1>. HIDE DEF Final
<1>4. LossySpec => [][Final]_vars
  BY <1>1, <1>3, NextTimedInv, PTL DEF LossySpec
<1>. QED
  BY <1>4 DEF Final, ResolvedIsFinal
-----------------------------------------------------------------------------
(***************************************************************************)
(* Module TimedGroup states the group with its own instances of the        *)
(* operators of PaxosGroup: but for `msgs`, they are the same operators.   *)
(***************************************************************************)
LEMMA SameNewWindow ==
  Group!NewWindow = NewWindow
  BY Zenon DEF Group!NewWindow, NewWindow, Group!WindowSlot, WindowSlot,
      Group!Unopened, Unopened, Group!AwaitValue, AwaitValue, Group!NoBallot,
      NoBallot

LEMMA SameSlots ==
  Group!Slot = Slot
  BY Zenon DEF Group!Slot, Slot

LEMMA SameValue ==
  Group!Value = Value
  BY Zenon DEF Group!Value, Value

LEMMA SamePrepareWindow ==
  ASSUME NEW u, NEW b
  PROVE  Group!PrepareWindow(u, b) = PrepareWindow(u, b)
  BY Zenon DEF Group!PrepareWindow, PrepareWindow, Group!Reached, Reached,
      Group!OpenSlots, OpenSlots, Group!OpenRange, OpenRange,
      Group!ResolvedAt, ResolvedAt, Group!IsResolved, IsResolved,
      Group!Resolved, Resolved, Group!PrepareStops, PrepareStops,
      Group!Rejects, Rejects, Group!Less, Less, Group!Update, Update,
      Group!WindowSlot, WindowSlot, Group!Highest, Highest, Group!AtMost,
      AtMost, Group!ReceivePrepare, ReceivePrepare

LEMMA SamePreparePreempted ==
  ASSUME NEW u, NEW b
  PROVE  Group!PreparePreempted(u, b) = PreparePreempted(u, b)
  BY Zenon DEF Group!PreparePreempted, PreparePreempted, Group!PrepareStops,
      PrepareStops, Group!OpenRange, OpenRange, Group!Rejects, Rejects,
      Group!IsResolved, IsResolved, Group!Resolved, Resolved, Group!Less,
      Less, Group!NoBallot, NoBallot, Group!Min, Min

LEMMA SamePrepareStops ==
  ASSUME NEW u, NEW b
  PROVE  Group!PrepareStops(u, b) = PrepareStops(u, b)
  BY Zenon DEF Group!PrepareStops, PrepareStops, Group!OpenRange, OpenRange,
      Group!Rejects, Rejects, Group!IsResolved, IsResolved, Group!Resolved,
      Resolved, Group!Less, Less

LEMMA SameReported ==
  ASSUME NEW u
  PROVE  Group!Report(u) = Report(u)
  BY Zenon DEF Group!Report, Report, Group!OpenRange, OpenRange,
      Group!HasValue, HasValue, Group!AwaitValue, AwaitValue, Group!NoBallot,
      NoBallot

LEMMA SameNoticeReport ==
  ASSUME NEW u, NEW report
  PROVE  Group!NoticeReport(u, report) = NoticeReport(u, report)
  BY Zenon DEF Group!NoticeReport, NoticeReport, Group!ResolvedAt, ResolvedAt,
      Group!IsResolved, IsResolved, Group!Resolved, Resolved, Group!Opened,
      Opened, Group!OpenUpTo, OpenUpTo, Group!WindowSlot, WindowSlot,
      Group!AwaitValue, AwaitValue, Group!NoBallot, NoBallot,
      Group!FreshPromise, FreshPromise, Group!Highest, Highest, Group!AtMost,
      AtMost, Group!Less, Less, Group!Below, Below, Group!LastOf, LastOf,
      Group!Max, Max, Group!Update, Update, Group!NoticeValue, NoticeValue,
      Group!AwaitQuorum, AwaitQuorum, Group!Higher, Higher

LEMMA SameFreshSlots ==
  ASSUME NEW u, NEW queue
  PROVE  Group!FreshSlots(u, queue) = FreshSlots(u, queue)
  BY Zenon DEF Group!FreshSlots, FreshSlots, Group!NextSlot, NextSlot,
      Group!HasValue, HasValue, Group!AwaitValue, AwaitValue, Group!NoBallot,
      NoBallot

LEMMA SameNextSlot ==
  ASSUME NEW u
  PROVE  Group!NextSlot(u) = NextSlot(u)
  BY Zenon DEF Group!NextSlot, NextSlot, Group!HasValue, HasValue,
      Group!AwaitValue, AwaitValue, Group!NoBallot, NoBallot

LEMMA SameOpened ==
  ASSUME NEW u, NEW seen
  PROVE  Group!Opened(u, seen) = Opened(u, seen)
  BY Zenon DEF Group!Opened, Opened, Group!OpenUpTo, OpenUpTo, Group!WindowSlot,
      WindowSlot, Group!FreshPromise, FreshPromise, Group!Highest, Highest,
      Group!AtMost, AtMost, Group!Less, Less, Group!Below, Below, Group!LastOf,
      LastOf, Group!Max, Max, Group!AwaitValue, AwaitValue, Group!NoBallot, NoBallot

LEMMA SameUpdate ==
  ASSUME NEW u, NEW accs
  PROVE  Group!Update(u, accs) = Update(u, accs)
  BY Zenon DEF Group!Update, Update, Group!WindowSlot, WindowSlot, Group!Highest,
      Highest, Group!AtMost, AtMost, Group!Less, Less

LEMMA SameNoticeValue ==
  ASSUME NEW a, NEW b, NEW val
  PROVE  Group!NoticeValue(a, b, val) = NoticeValue(a, b, val)
  BY Zenon DEF Group!NoticeValue, NoticeValue, Group!IsResolved, IsResolved,
      Group!AwaitQuorum, AwaitQuorum, Group!Higher, Higher, Group!Less, Less

LEMMA SameProposeWindow ==
  ASSUME NEW u, NEW b, NEW queue
  PROVE  Group!ProposeWindow(u, b, queue) = ProposeWindow(u, b, queue)
<1>1. PICK S : S = FreshSlots(u, queue)
  OBVIOUS
<1>2. PICK n : n = NextSlot(u)
  OBVIOUS
<1>3. PICK F : F = Const(S, b)
  OBVIOUS
<1>4. PICK o : o = Opened(u, F)
  OBVIOUS
<1>5. PICK A : A = [s \in S |-> NoticeValue(o.acc[s], b, queue[s - n + 1])]
  OBVIOUS
<1>6. ProposeWindow(u, b, queue) = Update(o, A)
  BY <1>1, <1>2, <1>3, <1>4, <1>5 DEF ProposeWindow
<1>7. Group!FreshSlots(u, queue) = S /\ Group!NextSlot(u) = n
  BY <1>1, <1>2, SameFreshSlots, SameNextSlot
<1>8. Group!Const(S, b) = F
  BY <1>3, Zenon DEF Const, Group!Const
<1>9. Group!Opened(u, F) = o
  BY <1>4, SameOpened
<1>10. [s \in S |-> Group!NoticeValue(o.acc[s], b, queue[s - n + 1])] = A
  BY <1>5, SameNoticeValue
<1>11. Group!ProposeWindow(u, b, queue) = Group!Update(o, A)
  BY <1>7, <1>8, <1>9, <1>10 DEF Group!ProposeWindow
<1>. QED  BY <1>6, <1>11, SameUpdate

LEMMA SameDriveWindow ==
  ASSUME NEW u, NEW b, NEW queue
  PROVE  Group!DriveWindow(u, b, queue) = DriveWindow(u, b, queue)
<1>1. PICK p : p = ProposeWindow(u, b, queue)
  OBVIOUS
<1>2. PICK S : S = OpenSlots(p)
  OBVIOUS
<1>3. PICK A : A = [s \in S |-> NoticeValue(p.acc[s], b, p.acc[s].val)]
  OBVIOUS
<1>4. DriveWindow(u, b, queue) = Update(p, A)
  BY <1>1, <1>2, <1>3 DEF DriveWindow
<1>5. Group!ProposeWindow(u, b, queue) = p
  BY <1>1, SameProposeWindow
<1>6. Group!OpenSlots(p) = S
  BY <1>2, Zenon DEF Group!OpenSlots, OpenSlots, Group!OpenRange, OpenRange,
      Group!ResolvedAt, ResolvedAt, Group!IsResolved, IsResolved
<1>7. [s \in S |-> Group!NoticeValue(p.acc[s], b, p.acc[s].val)] = A
  BY <1>3, SameNoticeValue
<1>8. Group!DriveWindow(u, b, queue) = Group!Update(p, A)
  BY <1>5, <1>6, <1>7 DEF Group!DriveWindow
<1>. QED  BY <1>4, <1>8, SameUpdate

LEMMA SameDriveValues ==
  ASSUME NEW u
  PROVE  Group!DriveValues(u) = DriveValues(u)
  BY Zenon DEF Group!DriveValues, DriveValues, Group!OpenSlots, OpenSlots,
      Group!OpenRange, OpenRange, Group!ResolvedAt, ResolvedAt,
      Group!IsResolved, IsResolved, Group!Resolved, Resolved

LEMMA SameAcceptWindow ==
  ASSUME NEW u, NEW b, NEW batch
  PROVE  Group!AcceptWindow(u, b, batch) = AcceptWindow(u, b, batch)
  BY ZenonT(40) DEF Group!AcceptWindow, AcceptWindow, Group!AcceptStops,
      AcceptStops, Group!ResolvedAt, ResolvedAt, Group!IsResolved, IsResolved,
      Group!Resolved, Resolved, Group!Less, Less, Group!PromisedAt,
      PromisedAt, Group!EmptyAt, EmptyAt, Group!Reached, Reached,
      Group!OpenUpTo, OpenUpTo, Group!WindowSlot, WindowSlot,
      Group!AwaitValue, AwaitValue, Group!NoBallot, NoBallot,
      Group!FreshPromise, FreshPromise, Group!Highest, Highest, Group!AtMost,
      AtMost, Group!Below, Below, Group!Const, Const, Group!LastOf, LastOf,
      Group!Max, Max, Group!Update, Update, Group!ReceiveAccept,
      ReceiveAccept, Group!NoticeValue, NoticeValue, Group!AwaitQuorum,
      AwaitQuorum, Group!Higher, Higher

LEMMA SameAcceptSilent ==
  ASSUME NEW u, NEW b, NEW batch
  PROVE  Group!AcceptSilent(u, b, batch) = AcceptSilent(u, b, batch)
  BY Zenon DEF Group!AcceptSilent, AcceptSilent, Group!AcceptStops,
      AcceptStops, Group!ResolvedAt, ResolvedAt, Group!IsResolved, IsResolved,
      Group!Resolved, Resolved, Group!Less, Less, Group!PromisedAt,
      PromisedAt, Group!EmptyAt, EmptyAt, Group!Min, Min

LEMMA SameAcceptPreempted ==
  ASSUME NEW u, NEW b, NEW batch
  PROVE  Group!AcceptPreempted(u, b, batch) = AcceptPreempted(u, b, batch)
  BY Zenon DEF Group!AcceptPreempted, AcceptPreempted, Group!AcceptStops,
      AcceptStops, Group!ResolvedAt, ResolvedAt, Group!IsResolved, IsResolved,
      Group!Resolved, Resolved, Group!Less, Less, Group!PromisedAt,
      PromisedAt, Group!EmptyAt, EmptyAt, Group!AcceptSilent, AcceptSilent,
      Group!Min, Min, Group!NoBallot, NoBallot

LEMMA SameAcceptStops ==
  ASSUME NEW u, NEW b, NEW batch
  PROVE  Group!AcceptStops(u, b, batch) = AcceptStops(u, b, batch)
  BY Zenon DEF Group!AcceptStops, AcceptStops, Group!ResolvedAt, ResolvedAt,
      Group!IsResolved, IsResolved, Group!Resolved, Resolved, Group!Less,
      Less, Group!PromisedAt, PromisedAt, Group!EmptyAt, EmptyAt

LEMMA SameAcceptedWindow ==
  ASSUME NEW u, NEW peer, NEW b, NEW slots
  PROVE  Group!AcceptedWindow(u, peer, b, slots) = AcceptedWindow(u, peer, b, slots)
  BY Zenon DEF Group!AcceptedWindow, AcceptedWindow, Group!FillDecisions,
      FillDecisions, Group!FirstUnresolved, FirstUnresolved, Group!ResolvedAt,
      ResolvedAt, Group!IsResolved, IsResolved, Group!Resolved, Resolved,
      Group!OpenUpTo, OpenUpTo, Group!WindowSlot, WindowSlot,
      Group!AwaitValue, AwaitValue, Group!NoBallot, NoBallot,
      Group!FreshPromise, FreshPromise, Group!Highest, Highest, Group!AtMost,
      AtMost, Group!Less, Less, Group!Below, Below, Group!Update, Update,
      Group!CountedSlots, CountedSlots, Group!Reached, Reached,
      Group!OpenSlots, OpenSlots, Group!OpenRange, OpenRange,
      Group!AcceptedStops, AcceptedStops, Group!ReceiveAccepted,
      ReceiveAccepted, Group!AwaitQuorum, AwaitQuorum, Group!EnoughAccepted,
      EnoughAccepted, Group!Cardinality, Cardinality, Group!QuorumSize,
      QuorumSize

LEMMA SameAcceptedStops ==
  ASSUME NEW u, NEW slots
  PROVE  Group!AcceptedStops(u, slots) = AcceptedStops(u, slots)
  BY Zenon DEF Group!AcceptedStops, AcceptedStops, Group!ResolvedAt,
      ResolvedAt, Group!IsResolved, IsResolved, Group!Resolved, Resolved

LEMMA SameNewlyResolved ==
  ASSUME NEW u, NEW peer, NEW b, NEW slots
  PROVE  Group!NewlyResolved(u, peer, b, slots) = NewlyResolved(u, peer, b, slots)
  BY Zenon DEF Group!NewlyResolved, NewlyResolved, Group!CountedSlots,
      CountedSlots, Group!Reached, Reached, Group!OpenSlots, OpenSlots,
      Group!OpenRange, OpenRange, Group!ResolvedAt, ResolvedAt,
      Group!IsResolved, IsResolved, Group!Resolved, Resolved,
      Group!AcceptedStops, AcceptedStops, Group!ReceiveAccepted,
      ReceiveAccepted, Group!AwaitQuorum, AwaitQuorum, Group!EnoughAccepted,
      EnoughAccepted, Group!Cardinality, Cardinality, Group!QuorumSize,
      QuorumSize

LEMMA SameFillDecisions ==
  ASSUME NEW u
  PROVE  Group!FillDecisions(u) = FillDecisions(u)
  BY Zenon DEF Group!FillDecisions, FillDecisions, Group!FirstUnresolved,
      FirstUnresolved, Group!ResolvedAt, ResolvedAt, Group!IsResolved, IsResolved,
      Group!OpenUpTo, OpenUpTo, Group!WindowSlot, WindowSlot,
      Group!AwaitValue, AwaitValue, Group!NoBallot, NoBallot,
      Group!FreshPromise, FreshPromise, Group!Highest, Highest, Group!AtMost,
      AtMost, Group!Less, Less, Group!Below, Below

LEMMA SameResolutionWindow ==
  ASSUME NEW u, NEW b, NEW batch
  PROVE  Group!ResolutionWindow(u, b, batch) = ResolutionWindow(u, b, batch)
<1>1. PICK S : S = {s \in DOMAIN batch : ~ResolvedAt(u, s)}
  OBVIOUS
<1>2. PICK F : F = Const(S, b)
  OBVIOUS
<1>3. PICK o : o = Opened(u, F)
  OBVIOUS
<1>4. PICK A : A = [s \in S |-> Resolve(o.acc[s], b, batch[s])]
  OBVIOUS
<1>5. ResolutionWindow(u, b, batch) = FillDecisions(Update(o, A))
  BY <1>1, <1>2, <1>3, <1>4 DEF ResolutionWindow
<1>6. {s \in DOMAIN batch : ~Group!ResolvedAt(u, s)} = S
  BY <1>1, Zenon DEF Group!ResolvedAt, ResolvedAt, Group!IsResolved, IsResolved
<1>7. Group!Const(S, b) = F
  BY <1>2, Zenon DEF Const, Group!Const
<1>8. Group!Opened(u, F) = o
  BY <1>3, SameOpened
<1>9. [s \in S |-> Group!Resolve(o.acc[s], b, batch[s])] = A
  BY <1>4, Zenon DEF Group!Resolve, Resolve, Group!Resolved, Resolved,
     Group!IsResolved, IsResolved
<1>10. Group!ResolutionWindow(u, b, batch) = Group!FillDecisions(Group!Update(o, A))
  BY <1>6, <1>7, <1>8, <1>9 DEF Group!ResolutionWindow
<1>. QED  BY <1>5, <1>10, SameUpdate, SameFillDecisions

LEMMA SameMissingSlots ==
  ASSUME NEW u
  PROVE  Group!MissingSlots(u) = MissingSlots(u)
  BY Zenon DEF Group!MissingSlots, MissingSlots, Group!OpenSlots, OpenSlots,
      Group!OpenRange, OpenRange, Group!ResolvedAt, ResolvedAt,
      Group!IsResolved, IsResolved, Group!Resolved, Resolved

LEMMA SameObserve ==
  ASSUME NEW p, NEW b, NEW n
  PROVE  Group!Observe(p, b, n) = Observe(p, b, n)
  BY Zenon DEF Group!Observe, Observe, Group!Higher, Higher, Group!Less, Less,
      Group!Owner, Owner, Group!StepDown, StepDown, Group!NoBallot, NoBallot

LEMMA SamePrepare ==
  ASSUME NEW p, NEW n
  PROVE  Group!Prepare(p, n) = Prepare(p, n)
  BY Zenon DEF Group!Prepare, Prepare, Group!NextBallot, NextBallot,
      Group!HigherFor, HigherFor, Group!NoBallot, NoBallot

LEMMA SameReceivePromise ==
  ASSUME NEW p, NEW peer, NEW b
  PROVE  Group!ReceivePromise(p, peer, b) = ReceivePromise(p, peer, b)
  BY Zenon DEF Group!ReceivePromise, ReceivePromise, Group!IsCandidate, IsCandidate,
      Group!Count, Count, Group!EnoughPromises, EnoughPromises, Group!QuorumSize,
      QuorumSize, Group!Cardinality, Cardinality

LEMMA SameReceiveReject ==
  ASSUME NEW p, NEW b, NEW c, NEW n
  PROVE  Group!ReceiveReject(p, b, c, n) = ReceiveReject(p, b, c, n)
BY SameObserve DEF Group!ReceiveReject, ReceiveReject, Group!Less, Less

LEMMA SameProposer ==
  /\ \A p, v : Group!PushProposal(p, v) = PushProposal(p, v)
  /\ \A p : Group!TakeProposals(p) = TakeProposals(p)
  /\ \A p : Group!IsFollower(p) = IsFollower(p)
  /\ \A p : Group!IsCandidate(p) = IsCandidate(p)
  /\ \A p : Group!IsLeader(p) = IsLeader(p)
  /\ \A b : Group!Owner(b) = Owner(b)
  /\ \A n : Group!Peers(n) = Peers(n)
  /\ \A S, v : Group!Const(S, v) = Const(S, v)
  /\ Group!NoBallot = NoBallot /\ Group!NoValues = NoValues
  BY Zenon DEF Group!PushProposal, PushProposal, Group!TakeProposals, TakeProposals,
      Group!IsFollower, IsFollower, Group!IsCandidate, IsCandidate, Group!IsLeader,
      IsLeader, Group!Owner, Owner, Group!Peers, Peers, Group!Const, Const,
      Group!NoBallot, NoBallot, Group!NoValues, NoValues

LEMMA SameDecided ==
  ASSUME NEW u, NEW slots
  PROVE  /\ Group!Decided(u, slots) = Decided(u, slots)
         /\ \A s : Group!RunOf(u, slots, s) = RunOf(u, slots, s)
  BY Zenon DEF Group!Decided, Decided, Group!RunOf, RunOf, Group!ResolvedAt, ResolvedAt,
      Group!IsResolved, IsResolved, Group!Resolved, Resolved

-----------------------------------------------------------------------------
(***************************************************************************)
(* Each call is one of the group, which finds the command among those      *)
(* sent.                                                                   *)
(***************************************************************************)
Records == sent' = sent \cup msgs' /\ Cardinality(sent') <= MaxMsgs

LEMMA SameSend ==
  ASSUME msgs = {}, Records
  PROVE  /\ \A M : Send(M) => Group!Send(M)
         /\ \A n, to, M : SendTo(n, to, M) => Group!SendTo(n, to, M)
         /\ UNCHANGED <<msgs, panicked>> => UNCHANGED <<sent, panicked>>
<1>1. ASSUME NEW M, Send(M) PROVE Group!Send(M)
  BY <1>1, Zenon DEF Records, Send, Group!Send, Group!Cardinality, Cardinality
<1>2. UNCHANGED msgs => UNCHANGED sent
  BY DEF Records
<1>3. ASSUME NEW n, NEW to, NEW M, SendTo(n, to, M)
      PROVE  Group!SendTo(n, to, M)
  BY <1>1, <1>2, <1>3 DEF SendTo, Group!SendTo
<1>. QED
  BY <1>1, <1>2, <1>3

LEMMA SameSet ==
  /\ \A n, p : SetProposer(n, p) => Group!SetProposer(n, p)
  /\ \A n, w : SetWindow(n, w) => Group!SetWindow(n, w)
BY DEF SetProposer, SetWindow, Group!SetProposer, Group!SetWindow

LEMMA CampaignImplements ==
  ASSUME msgs = {}, Records, NEW n, NEW p, Campaign(n, p)
  PROVE  Group!Campaign(n, p)
<1>. DEFINE q == Prepare(p, n)
<1>1. /\ q.highest[1] <= MaxRound /\ SetProposer(n, q)
      /\ Send({[type |-> "Prepare", bal |-> q.highest]})
  BY DEF Campaign
<1>2. Group!Prepare(p, n) = q
  BY SamePrepare
<1>. HIDE DEF q
<1>3. Group!SetProposer(n, q) /\ Group!Send({[type |-> "Prepare", bal |-> q.highest]})
  BY <1>1, SameSet, SameSend
<1>. QED
  BY <1>1, <1>2, <1>3 DEF Group!Campaign

LEMMA ProposeImplements ==
  ASSUME msgs = {}, Records, NEW n, NEW v, Propose(n, v)
  PROVE  Group!Propose(n, v)
<1>. DEFINE p == proposer[n]
            w == window[n]
            s == NextSlot(w)
<1>1. /\ Group!IsFollower(p) = IsFollower(p) /\ Group!IsCandidate(p) = IsCandidate(p)
      /\ Group!IsLeader(p) = IsLeader(p) /\ Group!NoBallot = NoBallot
      /\ Group!PushProposal(p, v) = PushProposal(p, v)
      /\ Group!Owner(p.highest) = Owner(p.highest)
  BY SameProposer
<1>2. CASE ProposeFirst(n, v)
  <2>1. Group!Campaign(n, PushProposal(p, v))
    BY <1>2, CampaignImplements DEF ProposeFirst
  <2>. QED
    BY <1>1, <1>2, <2>1 DEF ProposeFirst, Group!ProposeFirst, Group!Propose
<1>3. CASE ProposeRedirect(n, v)
  <2>. DEFINE M == {[type |-> "Proposal", to |-> Owner(p.highest), val |-> v]}
  <2>1. SendTo(n, Owner(p.highest), M) /\ UNCHANGED <<proposer, window>>
        /\ IsFollower(p) /\ p.highest # NoBallot
    BY <1>3 DEF ProposeRedirect
  <2>2. Group!SendTo(n, Owner(p.highest), M)
    BY <2>1, SameSend
  <2>. QED
    BY <1>1, <2>1, <2>2 DEF Group!ProposeRedirect, Group!Propose
<1>4. CASE ProposeQueue(n, v)
  BY <1>1, <1>4, SameSend, SameSet DEF ProposeQueue, Group!ProposeQueue, Group!Propose
<1>5. CASE ProposeLead(n, v)
  <2>1. Group!NextSlot(w) = s /\ Group!Slot = Slot
    BY SameNextSlot, SameSlots
  <2>. DEFINE u == ProposeWindow(w, p.proposal, <<v>>)
              k == AcceptMsg(p.proposal, Const({s}, v))
  <2>2. Group!ProposeWindow(w, p.proposal, <<v>>) = u
    BY SameProposeWindow
  <2>3. Group!AcceptMsg(p.proposal, Group!Const({s}, v)) = k
    BY SameProposer DEF Group!AcceptMsg, AcceptMsg
  <2>4. IsLeader(p) /\ s \in Slot /\ SetWindow(n, u) /\ Send({k}) /\ UNCHANGED proposer
    BY <1>5 DEF ProposeLead
  <2>. HIDE DEF u, k
  <2>5. Group!SetWindow(n, u) /\ Group!Send({k})
    BY <2>4, SameSend, SameSet
  <2>. QED
    BY <1>1, <2>1, <2>2, <2>3, <2>4, <2>5 DEF Group!ProposeLead, Group!Propose
<1>. QED
  BY <1>2, <1>3, <1>4, <1>5 DEF Propose

LEMMA LeadershipImplements ==
  ASSUME msgs = {}, Records, NEW n, ProposeLeadership(n)
  PROVE  Group!ProposeLeadership(n)
<1>. DEFINE p == proposer[n]
            k == [type |-> "Prepare", bal |-> p.proposal]
            a == AcceptMsg(p.proposal, NoValues)
<1>1. /\ Group!IsFollower(p) = IsFollower(p) /\ Group!IsCandidate(p) = IsCandidate(p)
      /\ Group!IsLeader(p) = IsLeader(p)
      /\ Group!AcceptMsg(p.proposal, Group!NoValues) = a
  BY SameProposer DEF Group!AcceptMsg, AcceptMsg
<1>2. n \in Timers /\ UNCHANGED window
  BY DEF ProposeLeadership
<1>3. CASE IsFollower(p) /\ Campaign(n, p)
  BY <1>1, <1>2, <1>3, CampaignImplements DEF Group!ProposeLeadership
<1>4. CASE IsCandidate(p) /\ Send({k}) /\ UNCHANGED proposer
  <2>. HIDE DEF a
  <2>. QED
    BY <1>1, <1>2, <1>4, SameSend DEF Group!ProposeLeadership
<1>5. CASE IsLeader(p) /\ n \in Heartbeats /\ Send({a}) /\ UNCHANGED proposer
  <2>. HIDE DEF a
  <2>. QED
    BY <1>1, <1>2, <1>5, SameSend DEF Group!ProposeLeadership
<1>. QED
  BY <1>3, <1>4, <1>5 DEF ProposeLeadership

LEMMA PrepareImplements ==
  ASSUME msgs = {}, Records, NEW n, NEW m, HandlePrepare(n, m)
  PROVE  Group!HandlePrepare(n, m)
<1>. DEFINE q == Observe(proposer[n], m.bal, n)
            u == PrepareWindow(window[n], m.bal)
            k == PrepareReply(n, window[n], m.bal)
<1>1. /\ Group!Observe(proposer[n], m.bal, n) = q /\ Group!Owner(m.bal) = Owner(m.bal)
      /\ Group!PrepareWindow(window[n], m.bal) = u
  BY SameObserve, SameProposer, SamePrepareWindow
<1>2. Group!PrepareReply(n, window[n], m.bal) = k
  BY SamePrepareStops, SamePrepareWindow, SameReported, SamePreparePreempted
  DEF PrepareReply, Group!PrepareReply
<1>3. /\ m.type = "Prepare" /\ Owner(m.bal) # n
      /\ SetProposer(n, q) /\ SetWindow(n, u) /\ SendTo(n, Owner(m.bal), {k})
  BY DEF HandlePrepare
<1>. HIDE DEF q, u, k
<1>4. Group!SetProposer(n, q) /\ Group!SetWindow(n, u) /\ Group!SendTo(n, Owner(m.bal), {k})
  BY <1>3, SameSet, SameSend
<1>. QED
  BY <1>1, <1>2, <1>3, <1>4 DEF Group!HandlePrepare

LEMMA DriveImplements ==
  ASSUME msgs = {}, Records, NEW n, NEW p, NEW w, DriveAccept(n, p, w)
  PROVE  Group!DriveAccept(n, p, w)
<1>. DEFINE b == p.highest
            u == DriveWindow(w, b, p.queue)
            k == AcceptMsg(b, DriveValues(u))
            q == TakeProposals(p)
<1>1. /\ FreshSlots(w, p.queue) \subseteq Slot /\ DOMAIN DriveValues(u) \subseteq Slot
      /\ SetProposer(n, q) /\ SetWindow(n, u) /\ Send({k})
  BY DEF DriveAccept
<1>2. Group!DriveWindow(w, b, p.queue) = u /\ Group!TakeProposals(p) = q
      /\ Group!FreshSlots(w, p.queue) = FreshSlots(w, p.queue) /\ Group!Slot = Slot
  BY SameDriveWindow, SameProposer, SameFreshSlots, SameSlots
<1>3. Group!DriveValues(u) = DriveValues(u)
  BY SameDriveValues
<1>4. Group!AcceptMsg(b, Group!DriveValues(u)) = k
  BY <1>3 DEF Group!AcceptMsg, AcceptMsg
<1>. HIDE DEF u, k, q
<1>5. Group!SetProposer(n, q) /\ Group!SetWindow(n, u) /\ Group!Send({k})
  BY <1>1, SameSet, SameSend
<1>. QED
  BY <1>1, <1>2, <1>3, <1>4, <1>5 DEF Group!DriveAccept

LEMMA PromiseImplements ==
  ASSUME msgs = {}, Records, NEW n, NEW m, HandlePromise(n, m)
  PROVE  Group!HandlePromise(n, m)
<1>. DEFINE p == ReceivePromise(proposer[n], m.from, m.bal)
            w == NoticeReport(window[n], m.report)
<1>1. /\ m.type = "Promise" /\ Owner(m.bal) = n /\ IsCandidate(proposer[n])
      /\ \/ IsLeader(p) /\ DriveAccept(n, p, w)
         \/ /\ ~IsLeader(p) /\ SetProposer(n, p) /\ SetWindow(n, w)
            /\ UNCHANGED <<msgs, panicked>>
  BY DEF HandlePromise
<1>2. /\ Group!ReceivePromise(proposer[n], m.from, m.bal) = p
      /\ Group!NoticeReport(window[n], m.report) = w
      /\ Group!Owner(m.bal) = Owner(m.bal)
      /\ Group!IsCandidate(proposer[n]) = IsCandidate(proposer[n])
      /\ Group!IsLeader(p) = IsLeader(p)
  BY SameReceivePromise, SameNoticeReport, SameProposer
<1>. HIDE DEF p, w
<1>3. CASE IsLeader(p) /\ DriveAccept(n, p, w)
  <2>1. Group!DriveAccept(n, p, w)
    BY <1>3, DriveImplements
  <2>. QED
    BY <1>1, <1>2, <1>3, <2>1 DEF Group!HandlePromise
<1>4. CASE /\ ~IsLeader(p) /\ SetProposer(n, p) /\ SetWindow(n, w)
           /\ UNCHANGED <<msgs, panicked>>
  <2>1. Group!SetProposer(n, p) /\ Group!SetWindow(n, w) /\ UNCHANGED <<sent, panicked>>
    BY <1>4, SameSet, SameSend
  <2>. QED
    BY <1>1, <1>2, <1>4, <2>1 DEF Group!HandlePromise
<1>. QED
  BY <1>1, <1>3, <1>4

LEMMA AcceptImplements ==
  ASSUME msgs = {}, Records, NEW n, NEW m, HandleAccept(n, m)
  PROVE  Group!HandleAccept(n, m)
<1>. DEFINE q == Observe(proposer[n], m.bal, n)
            u == AcceptWindow(window[n], m.bal, m.batch)
            K == AcceptReplies(n, window[n], m.bal, m.batch)
<1>1. /\ Group!Observe(proposer[n], m.bal, n) = q /\ Group!Owner(m.bal) = Owner(m.bal)
      /\ Group!AcceptWindow(window[n], m.bal, m.batch) = u
  BY SameObserve, SameProposer, SameAcceptWindow
<1>2. Group!AcceptReplies(n, window[n], m.bal, m.batch) = K
  BY SameAcceptStops, SameAcceptSilent, SameAcceptPreempted
  DEF AcceptReplies, Group!AcceptReplies
<1>3. /\ m.type = "Accept" /\ Owner(m.bal) # n
      /\ SetProposer(n, q) /\ SetWindow(n, u) /\ SendTo(n, Owner(m.bal), K)
  BY DEF HandleAccept
<1>. HIDE DEF q, u, K
<1>4. Group!SetProposer(n, q) /\ Group!SetWindow(n, u) /\ Group!SendTo(n, Owner(m.bal), K)
  BY <1>3, SameSet, SameSend
<1>. QED
  BY <1>1, <1>2, <1>3, <1>4 DEF Group!HandleAccept

LEMMA ForwardImplements ==
  ASSUME msgs = {}, Records, NEW n, NEW p, Forward(n, p)
  PROVE  Group!Forward(n, p)
<1>. DEFINE leader == Owner(p.highest)
            M == {[type |-> "Proposal", to |-> leader, val |-> v] :
                    v \in {p.queue[i] : i \in DOMAIN p.queue}}
            q == TakeProposals(p)
<1>1. /\ Group!IsFollower(p) = IsFollower(p) /\ Group!TakeProposals(p) = q
      /\ Group!Owner(p.highest) = leader /\ Group!NoBallot = NoBallot
  BY SameProposer
<1>2. IF IsFollower(p) /\ p.queue # <<>>
        THEN /\ SetProposer(n, q)
             /\ IF p.highest = NoBallot THEN UNCHANGED <<msgs, panicked>>
                                        ELSE SendTo(n, leader, M)
        ELSE SetProposer(n, p) /\ UNCHANGED <<msgs, panicked>>
  BY DEF Forward
<1>. HIDE DEF leader, M, q
<1>3. IF IsFollower(p) /\ p.queue # <<>>
        THEN /\ Group!SetProposer(n, q)
             /\ IF p.highest = NoBallot THEN UNCHANGED <<sent, panicked>>
                                        ELSE Group!SendTo(n, leader, M)
        ELSE Group!SetProposer(n, p) /\ UNCHANGED <<sent, panicked>>
  BY <1>2, SameSet, SameSend
<1>. QED
  BY <1>1, <1>3 DEF Group!Forward, M

LEMMA RejectImplements ==
  ASSUME msgs = {}, Records, NEW n, NEW m, HandleReject(n, m)
  PROVE  Group!HandleReject(n, m)
<1>. DEFINE p == ReceiveReject(proposer[n], m.proposed, m.preempted, n)
<1>1. /\ m.type = "Reject" /\ Owner(m.proposed) = n
      /\ Forward(n, p) /\ UNCHANGED window
  BY DEF HandleReject
<1>2. /\ Group!ReceiveReject(proposer[n], m.proposed, m.preempted, n) = p
      /\ Group!Owner(m.proposed) = Owner(m.proposed)
  BY SameReceiveReject, SameProposer
<1>. HIDE DEF p
<1>3. Group!Forward(n, p)
  BY <1>1, ForwardImplements
<1>. QED
  BY <1>1, <1>2, <1>3 DEF Group!HandleReject

LEMMA AcceptedImplements ==
  ASSUME msgs = {}, Records, NEW n, NEW m, HandleAccepted(n, m)
  PROVE  Group!HandleAccepted(n, m)
<1>. DEFINE w == window[n]
            q == Observe(proposer[n], m.bal, n)
            u == AcceptedWindow(w, m.from, m.bal, m.slots)
            D == NewlyResolved(w, m.from, m.bal, m.slots)
            S == AcceptedStops(w, m.slots)
            k == [type |-> "Resolution", to |-> Peers(n), bal |-> m.bal, decisions |-> D]
<1>1. /\ Group!Observe(proposer[n], m.bal, n) = q
      /\ Group!AcceptedWindow(w, m.from, m.bal, m.slots) = u
      /\ Group!NewlyResolved(w, m.from, m.bal, m.slots) = D
      /\ Group!AcceptedStops(w, m.slots) = S
      /\ Group!Owner(m.bal) = Owner(m.bal) /\ Group!Peers(n) = Peers(n)
  BY SameObserve, SameAcceptedWindow, SameNewlyResolved, SameAcceptedStops, SameProposer
<1>2. /\ m.type = "Accepted" /\ Owner(m.bal) = n
      /\ SetProposer(n, q) /\ SetWindow(n, u)
      /\ IF S = {} /\ DOMAIN D # {} THEN Send({k}) ELSE UNCHANGED <<msgs, panicked>>
  BY DEF HandleAccepted
<1>. HIDE DEF q, u, D, S
<1>3. /\ Group!SetProposer(n, q) /\ Group!SetWindow(n, u)
      /\ IF S = {} /\ DOMAIN D # {} THEN Group!Send({k})
                                    ELSE UNCHANGED <<sent, panicked>>
  BY <1>2, SameSet, SameSend
<1>. QED
  BY <1>1, <1>2, <1>3 DEF Group!HandleAccepted

LEMMA ResolutionImplements ==
  ASSUME msgs = {}, Records, NEW n, NEW m, HandleResolution(n, m)
  PROVE  Group!HandleResolution(n, m)
<1>. DEFINE p == Observe(proposer[n], m.bal, n)
            w == ResolutionWindow(window[n], m.bal, m.decisions)
            leader == Owner(p.highest)
            k == [type |-> "Catchup", to |-> leader, from |-> n, slots |-> MissingSlots(w)]
<1>1. /\ Group!Observe(proposer[n], m.bal, n) = p
      /\ Group!ResolutionWindow(window[n], m.bal, m.decisions) = w
      /\ Group!Owner(p.highest) = leader /\ Group!MissingSlots(w) = MissingSlots(w)
  BY SameObserve, SameResolutionWindow, SameMissingSlots, SameProposer
<1>2. /\ m.type = "Resolution" /\ n \in m.to
      /\ SetProposer(n, p) /\ SetWindow(n, w)
      /\ IF w.end > w.min + 1 THEN SendTo(n, leader, {k}) ELSE UNCHANGED <<msgs, panicked>>
  BY DEF HandleResolution
<1>. HIDE DEF p, w, leader
<1>3. /\ Group!SetProposer(n, p) /\ Group!SetWindow(n, w)
      /\ IF w.end > w.min + 1 THEN Group!SendTo(n, leader, {k})
                              ELSE UNCHANGED <<sent, panicked>>
  BY <1>2, SameSet, SameSend
<1>. QED
  BY <1>1, <1>2, <1>3 DEF Group!HandleResolution

LEMMA CatchupImplements ==
  ASSUME msgs = {}, Records, NEW n, NEW m, HandleCatchup(n, m)
  PROVE  Group!HandleCatchup(n, m)
<1>. DEFINE w == window[n]
            M == {[type |-> "Resolution", to |-> {m.from}, bal |-> w.acc[s].bal,
                   decisions |-> [t \in RunOf(w, m.slots, s) |-> w.acc[t].val]] :
                    s \in Decided(w, m.slots)}
            GM == {[type |-> "Resolution", to |-> {m.from}, bal |-> w.acc[s].bal,
                    decisions |-> [t \in Group!RunOf(w, m.slots, s) |-> w.acc[t].val]] :
                     s \in Group!Decided(w, m.slots)}
<1>1. M = GM
  BY SameDecided
<1>2. m.type = "Catchup" /\ m.to = n /\ IsLeader(proposer[n]) /\ Send(M)
      /\ UNCHANGED <<proposer, window>>
  BY DEF HandleCatchup
<1>3. Group!Send(GM)
  <2>. HIDE DEF M, GM
  <2>. QED
    BY <1>1, <1>2, SameSend
<1>. QED
  BY <1>2, <1>3, SameProposer DEF Group!HandleCatchup

(***************************************************************************)
(* What is on its way, or still in the outbox, has been sent.              *)
(***************************************************************************)
SentInv == NInv /\ msgs \subseteq sent /\ \A d \in pending : d[3] \in sent

LEMMA NextSentInv == SentInv /\ [NextTimed]_timedVars => SentInv'
<1>. SUFFICES ASSUME SentInv, [NextTimed]_timedVars PROVE SentInv'
  OBVIOUS
<1>1. CASE UNCHANGED timedVars
  <2>1. NInv'
    BY <1>1, NextNInv DEF SentInv, timedVars
  <2>. QED
    BY <1>1, <2>1 DEF SentInv, timedVars, electionVars
<1>2. CASE NextTimed
  <2>1. NInv'
    BY <1>2, NextNInv, LoseIsQuiet DEF NextTimed, SentInv
  <2>2. msgs' \subseteq sent' /\ sent \subseteq sent'
    BY <1>2 DEF NextTimed
  <2>3. \A d \in pending' : d \in pending \/ d[3] \in msgs
    <3>1. CASE Dispatch
      <4>1. ASSUME NEW d \in pending', d \notin pending PROVE d[3] \in msgs
        <5>1. PICK m \in msgs : d \in {caller} \X (Destinations(m) \cap alive) \X {m}
          BY <3>1, <4>1 DEF Dispatch
        <5>. QED
          BY <5>1
      <4>. QED
        BY <4>1
    <3>2. CASE Deliver \/ TimePasses \/ Rest \/ Lose
      BY <3>2 DEF Deliver, Receive, TimePasses, Rest, Lose, electionVars
    <3>3. ASSUME NEW n \in Node, Tick(n) \/ Crash(n) \/ \E v \in ClientValue : Ask(n, v)
          PROVE  \A d \in pending' : d \in pending
      BY <3>3 DEF Tick, Crash, Ask
    <3>. QED
      BY <1>2, <3>1, <3>2, <3>3 DEF NextTimed, NextElections
  <2>. QED
    BY <2>1, <2>2, <2>3 DEF SentInv
<1>. QED
  BY <1>1, <1>2

LEMMA ReceiveImplements ==
  ASSUME SentInv, Records, NEW d \in pending, Receive(d)
  PROVE  [Group!Next]_Group!vars
<1>. DEFINE n == d[2]
            m == d[3]
<1>1. n \in Node /\ GoodMessage(m, Issued(proposer)) /\ m \in sent
  <2>1. d \in InFlight
    BY DEF InFlight, Flight
  <2>. QED
    BY <2>1 DEF SentInv, NInv, Travels
<1>2. msgs = {} /\ Handle(n, m)
  BY DEF Receive, Idle
<1>. HIDE DEF n, m
<1>3. CASE Ignores(n, m) /\ UNCHANGED vars
  BY <1>3, <1>2, SameSend DEF vars, Group!vars
<1>4. CASE HandleProposal(n, m)
  <2>1. Group!HandleProposal(n, m)
    BY <1>2, <1>4, ProposeImplements DEF HandleProposal, Group!HandleProposal
  <2>. QED
    BY <1>1, <2>1 DEF Group!OnProposal, Group!Next
<1>5. CASE HandlePrepare(n, m) \/ HandlePromise(n, m)
  BY <1>1, <1>2, <1>5, PrepareImplements, PromiseImplements
  DEF Group!OnPrepare, Group!OnPromise, Group!Next
<1>6. CASE HandleAccept(n, m) \/ HandleAccepted(n, m)
  BY <1>1, <1>2, <1>6, AcceptImplements, AcceptedImplements
  DEF Group!OnAccept, Group!OnAccepted, Group!Next
<1>7. CASE HandleReject(n, m) \/ HandleResolution(n, m) \/ HandleCatchup(n, m)
  BY <1>1, <1>2, <1>7, RejectImplements, ResolutionImplements, CatchupImplements
  DEF Group!OnReject, Group!OnResolution, Group!OnCatchup, Group!Next
<1>. QED
  BY <1>2, <1>3, <1>4, <1>5, <1>6, <1>7 DEF Handle

LEMMA StepImplements == SentInv /\ [NextTimed]_timedVars => [Group!Next]_Group!vars
<1>. SUFFICES ASSUME SentInv, [NextTimed]_timedVars PROVE [Group!Next]_Group!vars
  OBVIOUS
<1>1. CASE UNCHANGED timedVars
  BY <1>1 DEF timedVars, electionVars, Group!vars
<1>2. CASE NextTimed
  <2>1. Records
    BY <1>2 DEF NextTimed, Records
  <2>2. CASE Dispatch \/ TimePasses \/ Rest \/ Lose
    <3>1. UNCHANGED <<proposer, window, panicked>> /\ msgs' \subseteq msgs
      BY <2>2 DEF Dispatch, TimePasses, Rest, Lose, electionVars
    <3>2. sent' = sent
      BY <2>1, <3>1 DEF Records, SentInv
    <3>. QED
      BY <3>1, <3>2 DEF Group!vars
  <2>3. CASE Deliver
    BY <2>1, <2>3, ReceiveImplements DEF Deliver
  <2>4. ASSUME NEW n \in Node, Tick(n) PROVE Group!Next
    <3>1. Group!ProposeLeadership(n)
      BY <2>1, <2>4, LeadershipImplements DEF Tick, Idle
    <3>. QED
      BY <3>1 DEF Group!Next
  <2>5. ASSUME NEW n \in Node, NEW v \in ClientValue, Ask(n, v) PROVE Group!Next
    <3>1. n \in Clients /\ Group!Propose(n, v)
      BY <2>1, <2>5, ProposeImplements DEF Ask, Idle
    <3>. QED
      BY <3>1 DEF Group!ClientProposal, Group!Next
  <2>6. ASSUME NEW n \in Node, Crash(n) PROVE UNCHANGED Group!vars
    <3>1. msgs = {} /\ UNCHANGED <<proposer, window, msgs, panicked>>
      BY <2>6 DEF Crash, Idle
    <3>. QED
      BY <2>1, <3>1 DEF Records, Group!vars
  <2>. QED
    BY <1>2, <2>2, <2>3, <2>4, <2>5, <2>6 DEF NextTimed, NextElections
<1>. QED
  BY <1>1, <1>2

(***************************************************************************)
(* The replicas behind Liveness, with their clocks, in a network that      *)
(* delivers in any order and may lose commands, and wherever nodes stop,   *)
(* are a group in the sense of PaxosGroup: for every size and all bounds.  *)
(***************************************************************************)
THEOREM TimedIsGroup == TimedSpec => ImplementsGroup
<1>1. InitTimed => SentInv /\ Group!Init
  <2>1. SUFFICES ASSUME InitTimed PROVE SentInv /\ Group!Init
    OBVIOUS
  <2>2. SentInv
    BY <2>1, InitNInv DEF InitTimed, InitElections, Init, SentInv
  <2>3. Group!NewProposer = NewProposer
    BY Zenon DEF Group!NewProposer, NewProposer, Group!NoBallot, NoBallot
  <2>4. Group!Init
    BY <2>1, <2>3, SameNewWindow DEF InitTimed, InitElections, Init, Group!Init
  <2>. QED
    BY <2>2, <2>4
<1>. QED
  BY <1>1, NextSentInv, StepImplements, PTL DEF TimedSpec, ImplementsGroup, Group!Spec
=============================================================================
