---------------------------- MODULE QuorumSlices ----------------------------
(***************************************************************************)
(* QuorumSet of src/config.rs: a slice with as many places as the quorum   *)
(* has members, filled from the front.  The modules of the group use the   *)
(* set of the nodes it holds; this one shows when that is the same.        *)
(*                                                                         *)
(* Its users insert any node any number of times, in the order in which    *)
(* its messages arrive.                                                    *)
(***************************************************************************)
EXTENDS Integers, FiniteSets

CONSTANTS
  Member,     \* the nodes that may be inserted
  Size,       \* the size of the quorum
  Absent      \* Option::None

ASSUME SizeAssumption == Size \in Nat \ {0}

ASSUME MemberAssumption == IsFiniteSet(Member) /\ Absent \notin Member

VARIABLES
  values,     \* the places of the slice
  heard       \* history: the nodes inserted so far

quorumVars == <<values, heard>>

Place == 0..(Size - 1)

Least(S) == CHOOSE i \in S : \A j \in S : i <= j

SliceTypeOK ==
  /\ values \in [Place -> Member \cup {Absent}]
  /\ heard \subseteq Member
-----------------------------------------------------------------------------
InitSlice ==
  /\ values = [i \in Place |-> Absent]
  /\ heard = {}

HasQuorum == values[Size - 1] # Absent

(***************************************************************************)
(* search(n) scans the places up to the node or the first empty one; when  *)
(* it passes them all, it offers the last place.                           *)
(***************************************************************************)
Stops(n) == {i \in Place : values[i] \in {n, Absent}}

\* Fault: the scan stops short of the last place.
FaultSearch(n) ==
  IF Stops(n) \subseteq {Size - 1} THEN Size - 2 ELSE Least(Stops(n))

Search(n) == IF Stops(n) = {} THEN Size - 1 ELSE Least(Stops(n))

Contains(n) == Stops(n) # {} /\ values[Search(n)] = n

\* Fault: a node that is there already is inserted again.
FaultInsert(n) ==
  values' = [values EXCEPT ![IF HasQuorum THEN Size - 1
                             ELSE Least({i \in Place : values[i] = Absent})] = n]

Insert(n) ==
  IF Contains(n) THEN UNCHANGED values
                 ELSE values' = [values EXCEPT ![Search(n)] = n]

Hear(n) == Insert(n) /\ heard' = heard \cup {n}

NextSlice == \E n \in Member : Hear(n)

SliceSpec == InitSlice /\ [][NextSlice]_quorumVars
-----------------------------------------------------------------------------
(***************************************************************************)
(* The slice has quorum exactly when Size different nodes were inserted,   *)
(* in whatever order and however often each: the closed form that          *)
(* EnoughPromises and EnoughAccepted of the group use.                     *)
(***************************************************************************)
QuorumIsDistinctNodes == HasQuorum <=> Cardinality(heard) >= Size

(***************************************************************************)
(* As long as the slice has not been inserted into beyond its quorum, it   *)
(* contains the nodes that were heard, all of them and no other.           *)
(***************************************************************************)
HoldsTheHeard ==
  Cardinality(heard) <= Size => \A n \in Member : Contains(n) <=> n \in heard
=============================================================================
