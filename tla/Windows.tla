------------------------------ MODULE Windows -------------------------------
(***************************************************************************)
(* The slots of one replica: the SlotWindow of src/window.rs.              *)
(*                                                                         *)
(* The code keeps two vectors: `decided`, the slots below open_min_slot,   *)
(* and `open`, the acceptors of the slots from open_min_slot on.  Here one *)
(* function holds both, indexed by the absolute slot: moving a resolved    *)
(* acceptor from `open` to `decided` keeps its ballot and value at the     *)
(* same slot, so fill_decisions only advances `min`.                       *)
(*   acc   the acceptor of each slot; a slot not yet opened holds Unopened *)
(*   min   open_min_slot                                                   *)
(*   end   the slot after the last opened one                              *)
(*   max   max_promised                                                    *)
(* `decided` never shrinks below open_min_slot, so slot_mut never returns  *)
(* ResolutionTruncated.                                                    *)
(***************************************************************************)
EXTENDS Acceptors, FiniteSetsExt

CONSTANT MaxSlot    \* bound: no leader proposes a slot above this one

ASSUME MaxSlotAssumption == MaxSlot \in Nat

\* The slots that can be proposed, and so decided.
Slot == 0..MaxSlot

(***************************************************************************)
(* A window opens one slot more: the one that stays open behind the        *)
(* decided slots.                                                          *)
(***************************************************************************)
WindowSlot == 0..(MaxSlot + 1)

Unopened == AwaitValue(NoBallot)

Window ==
  [acc : [WindowSlot -> Acceptor], min : WindowSlot, end : 1..(MaxSlot + 2),
   max : BallotOption]

\* SlotWindow::new: slot 0 is open
NewWindow ==
  [acc |-> [s \in WindowSlot |-> Unopened], min |-> 0, end |-> 1,
   max |-> NoBallot]

OpenRange(w) == w.min..(w.end - 1)

(***************************************************************************)
(* slot_mut classifies a slot as Resolved (decided, or resolved within the *)
(* open range), Open or Empty.                                             *)
(***************************************************************************)
ResolvedAt(w, s) == IsResolved(w.acc[s])

OpenSlots(w) == {s \in OpenRange(w) : ~ResolvedAt(w, s)}

EmptyAt(w, s) == s >= w.end

(***************************************************************************)
(* Operators named Fault... are mutated forms of the operator that follows *)
(* them: the properties of this project are shown to notice them.          *)
(*                                                                         *)
(* next_slot: the last open slot while it holds no value, else a new one.  *)
(***************************************************************************)
FaultNextSlot(w) == w.end - 1

NextSlot(w) == IF HasValue(w.acc[w.end - 1]) THEN w.end ELSE w.end - 1
-----------------------------------------------------------------------------
(***************************************************************************)
(* A handler of the replica visits slots in increasing order.  Visiting a  *)
(* slot through an OpenSlotMutRef raises max_promised, when the reference  *)
(* is dropped, to the ballot the visited acceptor has promised.  A slot    *)
(* opened on the way (EmptySlotRef::fill) starts with max_promised as it   *)
(* is at that moment.  So the window after a whole visit has two steps:    *)
(* Opened, with all the slots the visit opens, then Update.  Here `seen`   *)
(* is a function from the visited slots to the ballots of the visit.       *)
(***************************************************************************)
Below(seen, s) == {p \in DOMAIN seen : p < s}

FaultFreshPromise(w, seen, s) == NoBallot

\* The promise of slot s if the visit is what opens it.
FreshPromise(w, seen, s) == Highest({w.max} \cup {seen[p] : p \in Below(seen, s)})

(***************************************************************************)
(* fill_open_slots(last): the slots up to `last` exist.                    *)
(***************************************************************************)
OpenUpTo(w, seen, last) ==
  [w EXCEPT
     !.acc = [s \in WindowSlot |-> IF w.end <= s /\ s <= last
                                     THEN AwaitValue(FreshPromise(w, seen, s))
                                     ELSE w.acc[s]],
     !.end = IF w.end <= last THEN last + 1 ELSE w.end]

\* The last slot of a finite set of slots, or of the open range.
LastOf(w, S) == Max({w.end - 1} \cup S)

Opened(w, seen) == OpenUpTo(w, seen, LastOf(w, DOMAIN seen))

(***************************************************************************)
(* The visited slots have the acceptors accs, and every reference to one   *)
(* of them has been dropped.                                               *)
(***************************************************************************)
FaultUpdate(w, accs) ==
  [w EXCEPT !.acc = [s \in WindowSlot |-> IF s \in DOMAIN accs THEN accs[s]
                                                               ELSE w.acc[s]]]

Update(w, accs) ==
  [w EXCEPT !.acc = [s \in WindowSlot |-> IF s \in DOMAIN accs THEN accs[s]
                                                               ELSE w.acc[s]],
            !.max = Highest({w.max} \cup {accs[s].promised : s \in DOMAIN accs})]

(***************************************************************************)
(* fill_decisions: the resolved prefix of the open range becomes decided,  *)
(* and at least one slot stays open.                                       *)
(***************************************************************************)
FirstUnresolved(w) ==
  CHOOSE m \in w.min..w.end :
    /\ \A s \in w.min..(m - 1) : ResolvedAt(w, s)
    /\ m < w.end => ~ResolvedAt(w, m)

FaultFillDecisions(w) == [w EXCEPT !.min = FirstUnresolved(w)]

FillDecisions(w) ==
  LET m == FirstUnresolved(w)
  IN  [OpenUpTo(w, <<>>, m) EXCEPT !.min = m]
=============================================================================
