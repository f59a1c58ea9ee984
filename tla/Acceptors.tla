----------------------------- MODULE Acceptors ------------------------------
(***************************************************************************)
(* One Paxos instance as seen by one node: the Acceptor of src/acceptor.rs *)
(* and its state machine AwaitValue -> AwaitQuorum -> Resolved.            *)
(*                                                                         *)
(* An acceptor is a record with the same fields in every state:            *)
(*   st        the variant of AcceptorState                                *)
(*   promised  the ballot promised() returns                               *)
(*   bal, val  the proposal highest_value() returns (none in AwaitValue)   *)
(*   quorum    the peers counted so far by the acceptor's QuorumSet        *)
(* The operators below are the methods of Acceptor: each maps the acceptor *)
(* before the call to the acceptor after it.                               *)
(***************************************************************************)
EXTENDS Ballots

CONSTANTS
  ClientValue,  \* the values clients propose
  Noop          \* Bytes::default(), which fills the holes of the log

ASSUME NoopAssumption == Noop \notin ClientValue

Value == ClientValue \cup {Noop}

Acceptor ==
  [st : {"AwaitValue", "AwaitQuorum", "Resolved"},
   promised : BallotOption, bal : BallotOption, val : Value,
   quorum : SUBSET Node]

\* Acceptor::new(promised, quorum)
AwaitValue(promised) ==
  [st |-> "AwaitValue", promised |-> promised, bal |-> NoBallot,
   val |-> Noop, quorum |-> {}]

AwaitQuorum(promised, bal, val) ==
  [st |-> "AwaitQuorum", promised |-> promised, bal |-> bal, val |-> val,
   quorum |-> {}]

\* promised() of a resolved acceptor is the ballot it was resolved with
Resolved(bal, val) ==
  [st |-> "Resolved", promised |-> bal, bal |-> bal, val |-> val,
   quorum |-> {}]

IsResolved(a) == a.st = "Resolved"

\* highest_value() is Some(_)
HasValue(a) == a.st # "AwaitValue"
-----------------------------------------------------------------------------
(***************************************************************************)
(* The test receive_prepare and receive_accept begin with: has a ballot    *)
(* above b been promised?  A resolved acceptor rejects nothing.            *)
(***************************************************************************)
Rejects(a, b) == ~IsResolved(a) /\ Less(b, a.promised)

(***************************************************************************)
(* receive_prepare, when the acceptor does not reject b.                   *)
(***************************************************************************)
ReceivePrepare(a, b) == IF IsResolved(a) THEN a ELSE [a EXCEPT !.promised = b]

(***************************************************************************)
(* notice_value: adopt a proposal above the one held, and forget the peers *)
(* counted for the lower one.  AwaitValue holds NoBallot, which is below   *)
(* every ballot.                                                           *)
(***************************************************************************)
NoticeValue(a, b, v) ==
  IF ~IsResolved(a) /\ Less(a.bal, b)
    THEN AwaitQuorum(Higher(a.promised, b), b, v)
    ELSE a

(***************************************************************************)
(* receive_accept, when the acceptor does not reject b.                    *)
(***************************************************************************)
ReceiveAccept(a, b, v) ==
  IF IsResolved(a) THEN a ELSE NoticeValue([a EXCEPT !.promised = b], b, v)

(***************************************************************************)
(* The QuorumSet of an acceptor has one place less than the phase 2        *)
(* quorum: the proposer that counts has accepted its own proposal.         *)
(***************************************************************************)
FaultEnoughAccepted(peers) == Cardinality(peers) >= QuorumSize - 2

EnoughAccepted(peers) == Cardinality(peers) >= QuorumSize - 1

(***************************************************************************)
(* receive_accepted: count a peer that accepted the proposal held, and     *)
(* resolve at the quorum.                                                  *)
(***************************************************************************)
ReceiveAccepted(a, peer, b) ==
  LET peers == a.quorum \cup {peer}
  IN  IF a.st # "AwaitQuorum" \/ a.bal # b THEN a
      ELSE IF EnoughAccepted(peers) THEN Resolved(a.bal, a.val)
      ELSE [a EXCEPT !.quorum = peers]

(***************************************************************************)
(* resolve: learn the decision, unless one is already known.               *)
(***************************************************************************)
Resolve(a, b, v) == IF IsResolved(a) THEN a ELSE Resolved(b, v)
=============================================================================
