--------------------------- MODULE DecisionRanges ---------------------------
(***************************************************************************)
(* DecisionSet::range of src/window.rs: the decided slots of a range that  *)
(* is given by its two bounds.                                             *)
(***************************************************************************)
EXTENDS Integers, FiniteSets, FiniteSetsExt

\* std::ops::Bound of a slot; the slot of Unbounded plays no part.
Included(s) == [kind |-> "Included", slot |-> s]

Excluded(s) == [kind |-> "Excluded", slot |-> s]

Unbounded == [kind |-> "Unbounded", slot |-> 0]

StartIndex(from) ==
  CASE from.kind = "Excluded"  -> from.slot + 1
    [] from.kind = "Included"  -> from.slot
    [] from.kind = "Unbounded" -> 0

FaultEndIndex(to, len) == IF to.kind = "Unbounded" THEN len ELSE to.slot

\* len is the number of decided slots; saturating_sub stops at zero.
EndIndex(to, len) ==
  CASE to.kind = "Excluded"  -> Min({to.slot, len})
    [] to.kind = "Included"  -> Min({IF to.slot = 0 THEN 0 ELSE to.slot - 1, len})
    [] to.kind = "Unbounded" -> len

\* The slots the iterator yields, in increasing order.
Yielded(from, to, len) == StartIndex(from)..(EndIndex(to, len) - 1)

\* The range contains slot s; its end is not inclusive.
Within(s, from, to) ==
  /\ from.kind = "Excluded" => from.slot < s
  /\ from.kind = "Included" => from.slot <= s
  /\ to.kind = "Excluded" => s < to.slot
=============================================================================
