----------------------------- MODULE SlotVectors -----------------------------
(***************************************************************************)
(* The window with the data structures of src/window.rs and the loops of   *)
(* src/node.rs, one iteration at a time: what module Windows and module    *)
(* Handlers put in closed form.                                            *)
(*   open     the acceptors of the slots from min on                       *)
(*   min      open_min_slot                                                *)
(*   max      max_promised                                                 *)
(*   decided  the ballots and values of the slots below min                *)
(***************************************************************************)
EXTENDS Windows, DecisionRanges, Sequences

CONSTANT CallBallots    \* the ballots the calls carry

ASSUME CallBallotsAssumption == CallBallots \subseteq Ballot

VARIABLES vec, call, reply

vectorVars == <<vec, call, reply>>

NewVector ==
  [open |-> <<AwaitValue(NoBallot)>>, min |-> 0, max |-> NoBallot,
   decided |-> <<>>]

FillOpenSlots(v, last) ==
  [v EXCEPT !.open = @ \o [i \in 1..(last + 1 - v.min - Len(@)) |-> AwaitValue(v.max)]]

\* resolution(), of a resolved acceptor
DecisionOf(a) == [bal |-> a.bal, val |-> a.val]

\* The first k acceptors of `open` move to `decided`.
Drained(v, k) ==
  [v EXCEPT !.open = SubSeq(@, k + 1, Len(@)), !.min = @ + k,
            !.decided = @ \o [i \in 1..k |-> DecisionOf(v.open[i])]]

ResolvedPrefixes(v) ==
  {k \in 0..Len(v.open) : \A i \in 1..k : IsResolved(v.open[i])}

\* fill_decisions: drain the resolved prefix of `open` into `decided`.
DrainDecisions(v) ==
  LET k == Max(ResolvedPrefixes(v))
  IN  IF k = 0 THEN v ELSE FillOpenSlots(Drained(v, k), v.min + k)

\* The acceptor of an open slot changes, and its OpenSlotMutRef is dropped.
FaultSetAcceptor(v, s, a) == DrainDecisions([v EXCEPT !.open[s - v.min + 1] = a])

SetAcceptor(v, s, a) ==
  DrainDecisions([v EXCEPT !.open[s - v.min + 1] = a,
                           !.max = Higher(@, a.promised)])

AcceptorAt(v, s) == v.open[s - v.min + 1]

\* The variant of SlotMutRef slot_mut returns for slot s.
SlotMut(v, s) ==
  IF s < v.min THEN "Resolved"
  ELSE IF s >= v.min + Len(v.open) THEN "Empty"
  ELSE IF IsResolved(AcceptorAt(v, s)) THEN "Resolved"
  ELSE "Open"

\* EmptySlotRef::fill, when there is something to fill
Filled(v, s) == IF SlotMut(v, s) = "Empty" THEN FillOpenSlots(v, s) ELSE v

DecisionAt(v, s) ==
  IF s < v.min THEN v.decided[s + 1]
  ELSE DecisionOf(AcceptorAt(v, s))

\* open_range
OpenIndices(v) == v.min..(v.min + Len(v.open) - 1)

NextOpen(v) ==
  IF HasValue(v.open[Len(v.open)])
    THEN [v EXCEPT !.open = Append(@, AwaitValue(v.max))]
    ELSE v
-----------------------------------------------------------------------------
(***************************************************************************)
(* The loops.  A loop carries the vectors, what it has collected (a        *)
(* function of slots) and whether it has returned early.                   *)
(***************************************************************************)
Start(v) == [vec |-> v, out |-> <<>>, stop |-> "No", preempted |-> NoBallot]

\* What is collected so far, and the entry of slot s.
Collect(out, s, entry) ==
  [t \in DOMAIN out \cup {s} |-> IF t = s THEN entry ELSE out[t]]

Going(x, v, out) == [x EXCEPT !.vec = v, !.out = out]

Preempted(x, v, bal) == [x EXCEPT !.vec = v, !.stop = "Reject", !.preempted = bal]

PrepareVisit(x, s, b) ==
  IF SlotMut(x.vec, s) = "Resolved"
    THEN Going(x, x.vec, Collect(x.out, s, DecisionAt(x.vec, s)))
    ELSE LET a == AcceptorAt(x.vec, s)
         IN  IF Rejects(a, b)
               THEN Preempted(x, SetAcceptor(x.vec, s, a), a.promised)
               ELSE Going(x, SetAcceptor(x.vec, s, ReceivePrepare(a, b)),
                          IF HasValue(a) THEN Collect(x.out, s, DecisionOf(a)) ELSE x.out)

PromiseVisit(x, s, report) ==
  IF SlotMut(x.vec, s) = "Resolved" THEN x
  ELSE LET o == Filled(x.vec, s)
           a == NoticeValue(AcceptorAt(o, s), report[s].bal, report[s].val)
       IN  Going(x, SetAcceptor(o, s, a), x.out)

DriveVisit(x, s, b) ==
  IF SlotMut(x.vec, s) = "Resolved" THEN x
  ELSE LET a == AcceptorAt(x.vec, s)
           val == IF HasValue(a) THEN a.val ELSE Noop
       IN  Going(x, SetAcceptor(x.vec, s, NoticeValue(a, b, val)), Collect(x.out, s, val))

AcceptVisit(x, s, b, batch) ==
  IF SlotMut(x.vec, s) = "Resolved" THEN [x EXCEPT !.stop = "Resolved"]
  ELSE LET o == Filled(x.vec, s)
           a == AcceptorAt(o, s)
       IN  IF Rejects(a, b)
             THEN Preempted(x, SetAcceptor(o, s, a), a.promised)
             ELSE Going(x, SetAcceptor(o, s, ReceiveAccept(a, b, batch[s])),
                        Collect(x.out, s, batch[s]))

AcceptedVisit(x, s, peer, b) ==
  IF SlotMut(x.vec, s) = "Resolved" THEN [x EXCEPT !.stop = "Resolved"]
  ELSE IF SlotMut(x.vec, s) = "Empty" THEN x
  ELSE LET a == ReceiveAccepted(AcceptorAt(x.vec, s), peer, b)
       IN  Going(x, SetAcceptor(x.vec, s, a),
                 IF IsResolved(a) THEN Collect(x.out, s, a.val) ELSE x.out)

ResolutionVisit(x, s, b, batch) ==
  IF SlotMut(x.vec, s) = "Resolved" THEN x
  ELSE LET o == Filled(x.vec, s)
       IN  Going(x, SetAcceptor(o, s, Resolve(AcceptorAt(o, s), b, batch[s])), x.out)

\* One iteration of the loop of call c, which may have returned already.
Visit(c, x, s) ==
  IF x.stop # "No" THEN x
  ELSE CASE c.type = "Prepare"    -> PrepareVisit(x, s, c.bal)
         [] c.type = "Promise"    -> PromiseVisit(x, s, c.report)
         [] c.type = "Drive"      -> DriveVisit(x, s, c.bal)
         [] c.type = "Accept"     -> AcceptVisit(x, s, c.bal, c.batch)
         [] c.type = "Accepted"   -> AcceptedVisit(x, s, c.peer, c.bal)
         [] c.type = "Resolution" -> ResolutionVisit(x, s, c.bal, c.batch)

\* The loop of call c over a set of slots, in increasing order.
Loop(c, v, slots) ==
  LET after[k \in 0..(MaxSlot + 2)] ==    \* with the slots below k behind it
        IF k = 0 THEN Start(v)
        ELSE IF k - 1 \in slots THEN Visit(c, after[k - 1], k - 1) ELSE after[k - 1]
  IN  after[MaxSlot + 2]

\* The loop over the queue, and the single value of a proposal: to next_slot.
Place(v, b, val) ==
  LET o == NextOpen(v)
      s == o.min + Len(o.open) - 1
  IN  SetAcceptor(o, s, NoticeValue(AcceptorAt(o, s), b, val))

PlaceLoop(v, b, queue) ==
  LET after[k \in 0..Len(queue)] ==
        IF k = 0 THEN v ELSE Place(after[k - 1], b, queue[k])
  IN  after[Len(queue)]

UnresolvedSlots(v) == {s \in OpenIndices(v) : SlotMut(v, s) # "Resolved"}
-----------------------------------------------------------------------------
(***************************************************************************)
(* The vectors hold the window of module Windows, slot by slot.            *)
(***************************************************************************)
AsWindow(v) ==
  [acc |-> [s \in WindowSlot |->
              IF s < v.min THEN Resolved(v.decided[s + 1].bal, v.decided[s + 1].val)
              ELSE IF s < v.min + Len(v.open) THEN AcceptorAt(v, s)
              ELSE Unopened],
   min |-> v.min, end |-> v.min + Len(v.open), max |-> v.max]

Calls == INSTANCE WindowCalls WITH w <- AsWindow(vec)

InitVectors == vec = NewVector /\ call = Calls!NoCall /\ reply = <<>>

PrepareStep(b) ==
  LET c == [type |-> "Prepare", bal |-> b]
      x == Loop(c, vec, OpenIndices(vec))
  IN  /\ call' = c
      /\ vec' = x.vec
      /\ reply' = [preempted |-> x.preempted,
                   report |-> IF x.stop = "No" THEN x.out ELSE <<>>]

PromiseStep(report) ==
  LET c == [type |-> "Promise", report |-> report]
  IN  /\ call' = c
      /\ vec' = Loop(c, vec, DOMAIN report).vec
      /\ reply' = <<>>

\* Bound: the values fit in Slot, and so does every slot that is open.
Fits(v, queue) ==
  LET last == v.min + Len(v.open) - 1
      used == IF HasValue(v.open[Len(v.open)]) THEN last ELSE last - 1
  IN  used + Len(queue) <= MaxSlot

DriveStep(b, queue) ==
  LET c == [type |-> "Drive", bal |-> b, queue |-> queue]
      placed == PlaceLoop(vec, b, queue)
      x == Loop(c, placed, OpenIndices(placed))
  IN  /\ Fits(vec, queue) /\ OpenIndices(vec) \subseteq Slot
      /\ call' = c
      /\ vec' = x.vec
      /\ reply' = x.out

ProposeStep(b, v) ==
  LET placed == PlaceLoop(vec, b, <<v>>)
  IN  /\ Fits(vec, <<v>>)
      /\ call' = [type |-> "Propose", bal |-> b, val |-> v]
      /\ vec' = placed
      /\ reply' = <<placed.min + Len(placed.open) - 1>>

AcceptStep(b, batch) ==
  LET c == [type |-> "Accept", bal |-> b, batch |-> batch]
      x == Loop(c, vec, DOMAIN batch)
  IN  /\ call' = c
      /\ vec' = x.vec
      /\ reply' = [silent |-> x.stop = "Resolved", preempted |-> x.preempted,
                   slots |-> IF x.stop = "No" THEN DOMAIN x.out ELSE {}]

AcceptedStep(peer, b, slots) ==
  LET c == [type |-> "Accepted", peer |-> peer, bal |-> b, slots |-> slots]
      x == Loop(c, vec, slots)
  IN  /\ call' = c
      /\ vec' = x.vec
      /\ reply' = IF x.stop = "No" THEN x.out ELSE <<>>

ResolutionStep(b, batch) ==
  LET c == [type |-> "Resolution", bal |-> b, batch |-> batch]
      x == Loop(c, vec, DOMAIN batch)
  IN  /\ call' = c
      /\ vec' = x.vec
      /\ reply' = IF Len(x.vec.open) > 1 THEN UnresolvedSlots(x.vec) ELSE {}

NextVectors ==
  \/ \E b \in CallBallots :
       \/ PrepareStep(b)
       \/ \E batch \in Calls!Batches : AcceptStep(b, batch) \/ ResolutionStep(b, batch)
       \/ \E peer \in Peers(Owner(b)), slots \in SUBSET Slot :
            AcceptedStep(peer, b, slots)
       \/ \E v \in ClientValue : ProposeStep(b, v)
       \/ \E v \in ClientValue, k \in 0..2 : DriveStep(b, [i \in 1..k |-> v])
  \/ \E report \in Calls!Reported : PromiseStep(report)

VectorsSpec == InitVectors /\ [][NextVectors]_vectorVars
-----------------------------------------------------------------------------
(***************************************************************************)
(* The vectors and the loops of the code implement the closed forms that   *)
(* the modules of the group use, call by call: the same window after the   *)
(* call, and the same slots, values and ballots to send.                   *)
(***************************************************************************)
CallsHold == Calls!CallsSpec

(***************************************************************************)
(* DecisionSet::range yields the slots of the decided vector that lie in   *)
(* the range, no other, also for bounds behind the last decision and for   *)
(* the `next_execution_slot..` of the state machine replica.  (Ranges with *)
(* an inclusive end lose slots.)                                           *)
(***************************************************************************)
\* The bounds of a range; they may lie behind the last decided slot.
FromBounds == UNION {{Included(s), Excluded(s), Unbounded} : s \in 0..(MaxSlot + 2)}

ToBounds == UNION {{Excluded(s), Unbounded} : s \in 0..(MaxSlot + 2)}

OpenRangeIsExact ==
  \A from \in FromBounds : \A to \in ToBounds :
    Yielded(from, to, Len(vec.decided))
      = {s \in 0..(Len(vec.decided) - 1) : Within(s, from, to)}
=============================================================================
