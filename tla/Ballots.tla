------------------------------ MODULE Ballots -------------------------------
(***************************************************************************)
(* Ballot numbers (src/lib.rs): a pair of a round and the node that owns   *)
(* the ballot, ordered lexicographically.  Option<Ballot> adds a value     *)
(* below every ballot, because None < Some(_) in Rust.                     *)
(***************************************************************************)
EXTENDS Config

CONSTANT MaxRound   \* bound: no node starts a ballot of a higher round

ASSUME MaxRoundAssumption == MaxRound \in Nat

Ballot == (0..MaxRound) \X Node

NoBallot == <<-1, -1>>

BallotOption == Ballot \cup {NoBallot}

Owner(b) == b[2]

(***************************************************************************)
(* Ord for Ballot.                                                         *)
(***************************************************************************)
Less(a, b) == a[1] < b[1] \/ (a[1] = b[1] /\ a[2] < b[2])

AtMost(a, b) == Less(a, b) \/ a = b

\* std::cmp::max, as the code uses it on ballots and on Option<Ballot>
Higher(a, b) == IF Less(a, b) THEN b ELSE a

\* The greatest element of a finite, non-empty set of ballots.
Highest(B) == CHOOSE b \in B : \A c \in B : AtMost(c, b)

(***************************************************************************)
(* Ballot::higher_for: the next ballot of node n above b.  The round is    *)
(* kept when the node id alone makes the ballot higher.                    *)
(***************************************************************************)
HigherFor(b, n) == IF b[2] < n THEN <<b[1], n>> ELSE <<b[1] + 1, n>>

(***************************************************************************)
(* The ballot Proposer::prepare starts, given the highest ballot observed. *)
(***************************************************************************)
FaultNextBallot(highest, n) == HigherFor(highest, n)

NextBallot(highest, n) ==
  IF highest = NoBallot THEN <<0, n>> ELSE HigherFor(highest, n)
=============================================================================
