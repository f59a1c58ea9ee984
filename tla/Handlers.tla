------------------------------ MODULE Handlers ------------------------------
(***************************************************************************)
(* What each handler of src/node.rs does to the window of its replica: the *)
(* loops over the slots of a message or of the open range, with the points *)
(* where they stop early, in closed form.  Module SlotVectors states the   *)
(* same loops one iteration at a time, and its run compares the two.       *)
(***************************************************************************)
EXTENDS Windows, Sequences

\* The slots of S a loop has handled before it reaches a slot of `stops`.
Reached(S, stops) == {s \in S : \A t \in stops : s < t}

Const(S, v) == [s \in S |-> v]
-----------------------------------------------------------------------------
(***************************************************************************)
(* prepare: the open slots promise b in turn, up to the first one that has *)
(* promised a higher ballot.  The slots before it keep the new promise     *)
(* although no Promise is sent.                                            *)
(***************************************************************************)
PrepareStops(w, b) == {s \in OpenRange(w) : Rejects(w.acc[s], b)}

PrepareWindow(w, b) ==
  LET promising == Reached(OpenSlots(w), PrepareStops(w, b))
  IN  Update(w, [s \in promising |-> ReceivePrepare(w.acc[s], b)])

\* The ballot a Reject of the prepare carries, or NoBallot.
PreparePreempted(w, b) ==
  LET stops == PrepareStops(w, b)
  IN  IF stops = {} THEN NoBallot ELSE w.acc[Min(stops)].promised

(***************************************************************************)
(* What a Promise reports: the proposals accepted or resolved within the   *)
(* open range.  The slots below open_min_slot are decided and left out.    *)
(***************************************************************************)
FaultReport(w) ==
  [s \in {r \in OpenRange(w) : ResolvedAt(w, r)} |->
     [bal |-> w.acc[s].bal, val |-> w.acc[s].val]]

Report(w) ==
  [s \in {r \in OpenRange(w) : HasValue(w.acc[r])} |->
     [bal |-> w.acc[s].bal, val |-> w.acc[s].val]]
-----------------------------------------------------------------------------
(***************************************************************************)
(* promise: note the reported proposals in the slots not yet resolved.     *)
(***************************************************************************)
NoticeReport(w, report) ==
  LET noted == {s \in DOMAIN report : ~ResolvedAt(w, s)}
      o == Opened(w, [s \in noted |-> report[s].bal])
  IN  Update(o, [s \in noted |->
                   NoticeValue(o.acc[s], report[s].bal, report[s].val)])

(***************************************************************************)
(* A leader puts values in fresh slots, in order: the loop at the start of *)
(* drive_accept, and the Leader arm of proposal for a single value.        *)
(***************************************************************************)
FreshSlots(w, values) == NextSlot(w)..(NextSlot(w) + Len(values) - 1)

ProposeWindow(w, b, values) ==
  LET fresh == FreshSlots(w, values)
      o == Opened(w, Const(fresh, b))
  IN  Update(o, [s \in fresh |->
                   NoticeValue(o.acc[s], b, values[s - NextSlot(w) + 1])])

(***************************************************************************)
(* drive_accept: the queued values go to new slots, then every open slot   *)
(* is proposed at b with the value of its highest proposal, or with the    *)
(* no-op if it has none (the val of an acceptor in AwaitValue is Noop).    *)
(***************************************************************************)
DriveWindow(w, b, queue) ==
  LET p == ProposeWindow(w, b, queue)
  IN  Update(p, [s \in OpenSlots(p) |-> NoticeValue(p.acc[s], b, p.acc[s].val)])

\* The batch of the Accept drive_accept broadcasts.
DriveValues(w) == [s \in OpenSlots(w) |-> w.acc[s].val]
-----------------------------------------------------------------------------
(***************************************************************************)
(* accept: the slots of the batch accept in turn, up to the first one that *)
(* is resolved (the handler returns without an answer) or that has         *)
(* promised a higher ballot (it answers with a Reject).  A slot opened by  *)
(* the handler has promised max_promised.                                  *)
(***************************************************************************)
PromisedAt(w, s) == IF EmptyAt(w, s) THEN w.max ELSE w.acc[s].promised

AcceptStops(w, b, batch) ==
  {s \in DOMAIN batch : ResolvedAt(w, s) \/ Less(b, PromisedAt(w, s))}

AcceptSilent(w, b, batch) ==
  LET stops == AcceptStops(w, b, batch)
  IN  stops # {} /\ ResolvedAt(w, Min(stops))

\* The ballot a Reject of the accept carries, or NoBallot.
AcceptPreempted(w, b, batch) ==
  LET stops == AcceptStops(w, b, batch)
  IN  IF stops = {} \/ AcceptSilent(w, b, batch) THEN NoBallot
      ELSE PromisedAt(w, Min(stops))

AcceptWindow(w, b, batch) ==
  LET stops == AcceptStops(w, b, batch)
      done == Reached(DOMAIN batch, stops)
      filled == {s \in stops : EmptyAt(w, s) /\ \A t \in stops : s <= t}
      o == OpenUpTo(w, Const(done, b), LastOf(w, done \cup filled))
  IN  Update(o, [s \in done |-> ReceiveAccept(o.acc[s], b, batch[s])])
-----------------------------------------------------------------------------
(***************************************************************************)
(* accepted: each open slot counts the peer, up to the first slot that is  *)
(* already resolved, where the handler returns: the slots after it are not *)
(* counted, and what the slots before it resolved is not announced.        *)
(***************************************************************************)
AcceptedStops(w, slots) == {s \in slots : ResolvedAt(w, s)}

FaultCountedSlots(w, slots) == OpenSlots(w)

CountedSlots(w, slots) ==
  Reached(slots \cap OpenSlots(w), AcceptedStops(w, slots))

AcceptedWindow(w, peer, b, slots) ==
  FillDecisions(Update(w, [s \in CountedSlots(w, slots) |->
                             ReceiveAccepted(w.acc[s], peer, b)]))

\* The decisions an Accepted completes.
NewlyResolved(w, peer, b, slots) ==
  [s \in {r \in CountedSlots(w, slots) :
            IsResolved(ReceiveAccepted(w.acc[r], peer, b))} |-> w.acc[s].val]
-----------------------------------------------------------------------------
(***************************************************************************)
(* resolution: the slots not yet resolved learn their decision.            *)
(***************************************************************************)
FaultResolutionWindow(w, b, decisions) ==
  LET o == Opened(w, Const(DOMAIN decisions, b))
  IN  FillDecisions(Update(o, [s \in DOMAIN decisions |-> Resolved(b, decisions[s])]))

ResolutionWindow(w, b, decisions) ==
  LET learnt == {s \in DOMAIN decisions : ~ResolvedAt(w, s)}
      o == Opened(w, Const(learnt, b))
  IN  FillDecisions(Update(o, [s \in learnt |-> Resolve(o.acc[s], b, decisions[s])]))

\* The open slots resolution asks the leader about.
MissingSlots(w) == OpenSlots(w)

(***************************************************************************)
(* catchup: the requested decisions, in slot order, cut where the ballot   *)
(* changes: RunOf is the run of equal ballots around slot s.               *)
(***************************************************************************)
Decided(w, slots) == {s \in slots : ResolvedAt(w, s)}

RunOf(w, slots, s) ==
  {t \in Decided(w, slots) :
     \A u \in Decided(w, slots) :
       (s <= u /\ u <= t) \/ (t <= u /\ u <= s) => w.acc[u].bal = w.acc[s].bal}
=============================================================================
