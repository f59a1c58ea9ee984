---------------------------- MODULE QuorumProofs ----------------------------
(***************************************************************************)
(* The slice of a QuorumSet counts different nodes, for every size of the  *)
(* quorum and every set of members.                                        *)
(*                                                                         *)
(* The invariant: the first k places hold different nodes that were heard, *)
(* the others are empty, and while a place is empty they hold all of them. *)
(***************************************************************************)
EXTENDS QuorumSlices, FiniteSetTheorems, WellFoundedInduction, TLAPS

Held(k) == {values[i] : i \in 0..(k - 1)}

Prefix(k) ==
  /\ \A i \in Place : values[i] # Absent <=> i < k
  /\ \A i, j \in Place : i < k /\ j < k /\ values[i] = values[j] => i = j
  /\ Held(k) \subseteq heard
  /\ k < Size => heard = Held(k)

SliceInv == SliceTypeOK /\ \E k \in 0..Size : Prefix(k)

(***************************************************************************)
(* The first k places hold k nodes.                                        *)
(***************************************************************************)
LEMMA HeldCount ==
  ASSUME SliceTypeOK, NEW k \in 0..Size, Prefix(k)
  PROVE  IsFiniteSet(Held(k)) /\ Cardinality(Held(k)) = k
<1>. DEFINE f == [i \in 0..(k - 1) |-> values[i]]
<1>1. 0..(k - 1) \subseteq Place
  BY SizeAssumption DEF Place
<1>2. f \in Bijection(0..(k - 1), Held(k))
  <2>1. f \in [0..(k - 1) -> Held(k)]
    BY DEF Held
  <2>2. \A i, j \in 0..(k - 1) : f[i] = f[j] => i = j
    BY <1>1 DEF Prefix
  <2>3. \A v \in Held(k) : \E i \in 0..(k - 1) : f[i] = v
    BY DEF Held
  <2>. QED
    BY <2>1, <2>2, <2>3 DEF Bijection, Injection, Surjection, IsInjective
<1>3. IsFiniteSet(0..(k - 1)) /\ Cardinality(0..(k - 1)) = k
  BY FS_Interval, SizeAssumption
<1>. QED
  BY <1>2, <1>3, FS_Bijection DEF ExistsBijection

(***************************************************************************)
(* A set of places has a first one.                                        *)
(***************************************************************************)
LEMMA LeastPlace ==
  ASSUME NEW S \in SUBSET Place, S # {}
  PROVE  Least(S) \in S /\ \A j \in S : Least(S) <= j
<1>1. S \subseteq Nat
  BY SizeAssumption DEF Place
<1>2. PICK x \in S : \A y \in S : ~(<<y, x>> \in OpToRel(<, Nat))
  BY <1>1, NatLessThanWellFounded, WFMin
<1>3. \A y \in S : x <= y
  <2>. TAKE y \in S
  <2>1. ~(y < x)
    BY <1>1, <1>2 DEF OpToRel
  <2>. QED
    BY <1>1, <2>1
<1>. QED
  BY <1>3 DEF Least

(***************************************************************************)
(* contains(n) finds a node wherever it is in the slice.                   *)
(***************************************************************************)
LEMMA ContainsHeld ==
  ASSUME SliceTypeOK, NEW k \in 0..Size, Prefix(k), NEW n \in Member
  PROVE  Contains(n) <=> n \in Held(k)
<1>. USE SizeAssumption, MemberAssumption
<1>1. ASSUME Contains(n) PROVE n \in Held(k)
  <2>1. Search(n) \in Place /\ values[Search(n)] = n
    BY <1>1, LeastPlace DEF Contains, Search, Stops, Place
  <2>2. Search(n) \in 0..(k - 1)
    BY <2>1 DEF Prefix, Place
  <2>. QED
    BY <2>1, <2>2 DEF Held
<1>2. ASSUME n \in Held(k) PROVE Contains(n)
  <2>1. PICK i \in 0..(k - 1) : values[i] = n
    BY <1>2 DEF Held
  <2>2. i \in Stops(n) /\ Stops(n) \subseteq Place
    BY <2>1 DEF Stops, Place
  <2>3. Search(n) \in Stops(n) /\ Search(n) <= i
    BY <2>2, LeastPlace DEF Search
  <2>4. values[Search(n)] # Absent
    BY <2>1, <2>2, <2>3 DEF Prefix, Place
  <2>. QED
    BY <2>2, <2>3, <2>4 DEF Contains, Stops
<1>. QED
  BY <1>1, <1>2

(***************************************************************************)
(* A new node goes to the first empty place, or to the last of a full      *)
(* slice.                                                                  *)
(***************************************************************************)
LEMMA SearchNew ==
  ASSUME SliceTypeOK, NEW k \in 0..Size, Prefix(k), NEW n \in Member \ Held(k)
  PROVE  Search(n) = IF k < Size THEN k ELSE Size - 1
<1>. USE SizeAssumption, MemberAssumption
<1>1. Stops(n) = {i \in Place : k <= i}
  BY DEF Stops, Prefix, Held, Place
<1>2. CASE k < Size
  <2>1. k \in Stops(n) /\ Stops(n) \subseteq Place
    BY <1>1, <1>2 DEF Place
  <2>2. Search(n) \in Stops(n) /\ Search(n) <= k
    BY <2>1, LeastPlace DEF Search
  <2>. QED
    BY <1>1, <1>2, <2>2 DEF Place
<1>3. CASE k = Size
  BY <1>1, <1>3 DEF Search, Place
<1>. QED
  BY <1>2, <1>3
-----------------------------------------------------------------------------
LEMMA SliceInit == InitSlice => SliceInv
<1>. SUFFICES ASSUME InitSlice PROVE SliceInv
  OBVIOUS
<1>. USE SizeAssumption, MemberAssumption DEF InitSlice
<1>1. SliceTypeOK
  BY DEF SliceTypeOK
<1>2. Prefix(0)
  BY DEF Prefix, Held, Place
<1>. QED
  BY <1>1, <1>2 DEF SliceInv

LEMMA SliceStep == SliceInv /\ [NextSlice]_quorumVars => SliceInv'
<1>. SUFFICES ASSUME SliceInv, [NextSlice]_quorumVars PROVE SliceInv'
  OBVIOUS
<1>. USE SizeAssumption, MemberAssumption
<1>0. PICK k \in 0..Size : Prefix(k)
  BY DEF SliceInv
<1>. SliceTypeOK
  BY DEF SliceInv
<1>1. CASE UNCHANGED quorumVars
  BY <1>1, <1>0 DEF quorumVars, SliceInv, SliceTypeOK, Prefix, Held
<1>2. ASSUME NEW n \in Member, Hear(n) PROVE SliceInv'
  <2>. heard' = heard \cup {n}
    BY <1>2 DEF Hear
  <2>1. CASE n \in Held(k)
    <3>1. UNCHANGED values
      BY <1>0, <1>2, <2>1, ContainsHeld DEF Hear, Insert
    <3>2. heard' = heard
      BY <1>0, <2>1 DEF Prefix
    <3>. QED
      BY <3>1, <3>2, <1>0 DEF SliceInv, SliceTypeOK, Prefix, Held
  <2>2. CASE n \notin Held(k) /\ k < Size
    <3>1. values' = [values EXCEPT ![k] = n]
      BY <1>0, <1>2, <2>2, ContainsHeld, SearchNew DEF Hear, Insert
    <3>2. SliceTypeOK'
      BY <3>1 DEF SliceTypeOK
    <3>3. \A i \in Place : values'[i] = IF i = k THEN n ELSE values[i]
      BY <3>1 DEF SliceTypeOK
    <3>4. Held(k + 1)' = Held(k) \cup {n}
      <4>1. \A i \in 0..(k - 1) : values'[i] = values[i]
        BY <3>3, <2>2 DEF Place
      <4>2. values'[k] = n
        BY <3>3, <2>2 DEF Place
      <4>3. 0..(k + 1 - 1) = 0..(k - 1) \cup {k}
        OBVIOUS
      <4>. QED
        BY <4>1, <4>2, <4>3 DEF Held
    <3>5. \A i \in Place : values'[i] # Absent <=> i < k + 1
      BY <3>3, <1>0 DEF Prefix, Place
    <3>6. \A i, j \in Place : i < k + 1 /\ j < k + 1 /\ values'[i] = values'[j] => i = j
      <4>1. \A i \in Place : i < k => values[i] # n
        BY <2>2 DEF Held, Place
      <4>. QED
        BY <4>1, <3>3, <1>0 DEF Prefix, Place
    <3>7. Held(k + 1)' \subseteq heard' /\ heard' = Held(k + 1)'
      BY <3>4, <2>2, <1>0 DEF Prefix
    <3>8. Prefix(k + 1)'
      BY <3>5, <3>6, <3>7 DEF Prefix
    <3>. QED
      BY <3>2, <3>8, <2>2 DEF SliceInv
  <2>3. CASE n \notin Held(k) /\ k = Size
    <3>1. values' = [values EXCEPT ![Size - 1] = n]
      BY <1>0, <1>2, <2>3, ContainsHeld, SearchNew DEF Hear, Insert
    <3>2. SliceTypeOK'
      BY <3>1 DEF SliceTypeOK
    <3>3. \A i \in Place : values'[i] = IF i = Size - 1 THEN n ELSE values[i]
      BY <3>1 DEF SliceTypeOK
    <3>4. \A i \in Place : values[i] \in Held(k) /\ values'[i] \in Held(k) \cup {n}
      BY <3>3, <2>3 DEF Held, Place
    <3>5. Held(Size)' \subseteq heard'
      BY <3>4, <1>0 DEF Held, Prefix, Place
    <3>6. \A i \in Place : values'[i] # Absent <=> i < Size
      BY <3>3, <1>0, <2>3 DEF Prefix, Place
    <3>7. \A i, j \in Place : values'[i] = values'[j] => i = j
      BY <3>3, <3>4, <1>0, <2>3 DEF Prefix, Place
    <3>8. Prefix(Size)'
      BY <3>5, <3>6, <3>7 DEF Prefix
    <3>. QED
      BY <3>2, <3>8 DEF SliceInv
  <2>. QED
    BY <2>1, <2>2, <2>3
<1>. QED
  BY <1>1, <1>2 DEF NextSlice

LEMMA SliceInvariant == SliceSpec => []SliceInv
BY SliceInit, SliceStep, PTL DEF SliceSpec
-----------------------------------------------------------------------------
(***************************************************************************)
(* has_quorum() counts different nodes: it is true exactly when as many of *)
(* them as the quorum needs were inserted.                                 *)
(***************************************************************************)
THEOREM QuorumCounts == SliceSpec => []QuorumIsDistinctNodes
<1>1. ASSUME SliceInv PROVE QuorumIsDistinctNodes
  <2>. USE SizeAssumption, MemberAssumption
  <2>1. PICK k \in 0..Size : Prefix(k)
    BY <1>1 DEF SliceInv
  <2>2. SliceTypeOK /\ IsFiniteSet(heard)
    BY <1>1, FS_Subset DEF SliceInv, SliceTypeOK
  <2>3. Cardinality(Held(k)) = k /\ Cardinality(Held(k)) <= Cardinality(heard)
    BY <2>1, <2>2, HeldCount, FS_Subset DEF Prefix
  <2>4. HasQuorum <=> k = Size
    BY <2>1 DEF HasQuorum, Prefix, Place
  <2>5. Cardinality(heard) \in Nat
    BY <2>2, FS_CardinalityType
  <2>. QED
    BY <2>1, <2>3, <2>4, <2>5 DEF QuorumIsDistinctNodes, Prefix
<1>. QED
  BY <1>1, SliceInvariant, PTL

(***************************************************************************)
(* contains(n) answers for all nodes inserted, and for no other, until the *)
(* slice is inserted into beyond its quorum.                               *)
(***************************************************************************)
THEOREM QuorumRemembers == SliceSpec => []HoldsTheHeard
<1>1. ASSUME SliceInv PROVE HoldsTheHeard
  <2>. USE SizeAssumption, MemberAssumption
  <2>1. PICK k \in 0..Size : Prefix(k)
    BY <1>1 DEF SliceInv
  <2>2. SliceTypeOK /\ IsFiniteSet(heard)
    BY <1>1, FS_Subset DEF SliceInv, SliceTypeOK
  <2>3. SUFFICES ASSUME Cardinality(heard) <= Size PROVE heard = Held(k)
    BY <2>1, <2>2, ContainsHeld DEF HoldsTheHeard
  <2>4. CASE k < Size
    BY <2>1, <2>4 DEF Prefix
  <2>5. CASE k = Size
    <3>1. /\ Cardinality(Held(k)) = Size
          /\ Held(k) \subseteq heard
          /\ Cardinality(Held(k)) <= Cardinality(heard)
      BY <2>1, <2>2, <2>5, HeldCount, FS_Subset DEF Prefix
    <3>2. Cardinality(heard) \in Nat
      BY <2>2, FS_CardinalityType
    <3>. QED
      BY <2>2, <2>3, <3>1, <3>2, FS_Subset
  <2>. QED
    BY <2>1, <2>4, <2>5
<1>. QED
  BY <1>1, SliceInvariant, PTL
=============================================================================
