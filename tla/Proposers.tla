----------------------------- MODULE Proposers ------------------------------
(***************************************************************************)
(* The proposer role of one node: the Proposer of src/proposer.rs and its  *)
(* state machine Follower -> Candidate -> Leader.                          *)
(*                                                                         *)
(*   st        the variant of ProposerState                                *)
(*   highest   the highest ballot observed                                 *)
(*   proposal  the ballot of a Candidate or Leader (none for a Follower)   *)
(*   promises  the QuorumSet of a Candidate: the nodes that promised       *)
(*   queue     the proposals kept while an election is going on            *)
(***************************************************************************)
EXTENDS Acceptors, Sequences

CONSTANT MaxQueue   \* bound: a node queues at most this many proposals

ASSUME MaxQueueAssumption == MaxQueue \in Nat

Queue == UNION {[1..k -> ClientValue] : k \in 0..MaxQueue}

Proposer ==
  [st : {"Follower", "Candidate", "Leader"}, highest : BallotOption,
   proposal : BallotOption, promises : SUBSET Node, queue : Queue]

\* Proposer::new
NewProposer ==
  [st |-> "Follower", highest |-> NoBallot, proposal |-> NoBallot,
   promises |-> {}, queue |-> <<>>]

IsLeader(p) == p.st = "Leader"

IsCandidate(p) == p.st = "Candidate"

IsFollower(p) == p.st = "Follower"
-----------------------------------------------------------------------------
(***************************************************************************)
(* A follower drops the state a Candidate or Leader carries.               *)
(***************************************************************************)
StepDown(p) ==
  [p EXCEPT !.st = "Follower", !.proposal = NoBallot, !.promises = {}]

(***************************************************************************)
(* observe_ballot: node n raises its highest ballot, and steps down when   *)
(* that ballot belongs to another node.                                    *)
(***************************************************************************)
FaultObserve(p, b, n) == [p EXCEPT !.highest = Higher(p.highest, b)]

FaultObserveStale(p, b, n) ==
  LET raised == [p EXCEPT !.highest = Higher(p.highest, b)]
  IN  IF Owner(b) = n THEN raised ELSE StepDown(raised)

Observe(p, b, n) ==
  LET raised == [p EXCEPT !.highest = Higher(p.highest, b)]
  IN  IF Owner(raised.highest) = n THEN raised ELSE StepDown(raised)

(***************************************************************************)
(* prepare: start an election with a ballot above every one observed; the  *)
(* node counts itself.  Its own acceptors promise nothing.                 *)
(***************************************************************************)
Prepare(p, n) ==
  LET b == NextBallot(p.highest, n)
  IN  [p EXCEPT !.st = "Candidate", !.highest = b, !.proposal = b,
                !.promises = {n}]

(***************************************************************************)
(* The QuorumSet of a candidate has a place for every node of the quorum,  *)
(* the candidate included.                                                 *)
(***************************************************************************)
EnoughPromises(promises) == Cardinality(promises) >= QuorumSize

(***************************************************************************)
(* receive_promise: count a new peer that promised the ballot of the       *)
(* election, and become leader at the quorum.                              *)
(***************************************************************************)
Count(p, peer) ==
  LET promises == p.promises \cup {peer}
  IN  IF EnoughPromises(promises)
        THEN [p EXCEPT !.st = "Leader", !.promises = {}]
        ELSE [p EXCEPT !.promises = promises]

FaultReceivePromise(p, peer, b) == IF IsCandidate(p) THEN Count(p, peer) ELSE p

ReceivePromise(p, peer, b) ==
  IF IsCandidate(p) /\ p.proposal = b THEN Count(p, peer) ELSE p

(***************************************************************************)
(* receive_reject: a reject in the wrong order is ignored.                 *)
(***************************************************************************)
ReceiveReject(p, proposed, preempted, n) ==
  IF Less(proposed, preempted) THEN Observe(p, preempted, n) ELSE p

PushProposal(p, v) == [p EXCEPT !.queue = Append(@, v)]

\* take_proposals leaves the queue empty
TakeProposals(p) == [p EXCEPT !.queue = <<>>]
=============================================================================
