---------------------------- MODULE WindowCalls -----------------------------
(***************************************************************************)
(* The window of one replica as its handlers use it: any sequence of       *)
(* calls, each with the window it leaves and what the handler would send.  *)
(* A call is a command without its sender, for commands that write the     *)
(* window.  Module SlotVectors implements this specification with the      *)
(* vectors and loops of the code.                                          *)
(***************************************************************************)
EXTENDS Handlers

CONSTANT CallBallots    \* the ballots the calls carry

VARIABLES
  w,        \* the window
  call,     \* the last call
  reply     \* what its handler collected to send

callVars == <<w, call, reply>>

NoCall == [type |-> "None"]

Proposals == [bal : CallBallots, val : Value]

Batches == UNION {[S -> Value] : S \in SUBSET Slot}

Proposable(u, queue) == FreshSlots(u, queue) \subseteq Slot

InitCalls == w = NewWindow /\ call = NoCall /\ reply = <<>>

PrepareCall(b) ==
  /\ call' = [type |-> "Prepare", bal |-> b]
  /\ w' = PrepareWindow(w, b)
  /\ reply' = [preempted |-> PreparePreempted(w, b),
               report |-> IF PrepareStops(w, b) = {} THEN Report(w') ELSE <<>>]

PromiseCall(report) ==
  /\ call' = [type |-> "Promise", report |-> report]
  /\ w' = NoticeReport(w, report)
  /\ reply' = <<>>

DriveCall(b, queue) ==
  /\ Proposable(w, queue)
  /\ DOMAIN DriveValues(DriveWindow(w, b, queue)) \subseteq Slot
  /\ call' = [type |-> "Drive", bal |-> b, queue |-> queue]
  /\ w' = DriveWindow(w, b, queue)
  /\ reply' = DriveValues(w')

ProposeCall(b, v) ==
  /\ Proposable(w, <<v>>)
  /\ call' = [type |-> "Propose", bal |-> b, val |-> v]
  /\ w' = ProposeWindow(w, b, <<v>>)
  /\ reply' = <<NextSlot(w)>>

AcceptCall(b, batch) ==
  /\ call' = [type |-> "Accept", bal |-> b, batch |-> batch]
  /\ w' = AcceptWindow(w, b, batch)
  /\ reply' = [silent |-> AcceptSilent(w, b, batch),
               preempted |-> AcceptPreempted(w, b, batch),
               slots |-> IF AcceptStops(w, b, batch) = {} THEN DOMAIN batch ELSE {}]

AcceptedCall(peer, b, slots) ==
  /\ call' = [type |-> "Accepted", peer |-> peer, bal |-> b, slots |-> slots]
  /\ w' = AcceptedWindow(w, peer, b, slots)
  /\ reply' = IF AcceptedStops(w, slots) = {} THEN NewlyResolved(w, peer, b, slots)
                                           ELSE <<>>

ResolutionCall(b, batch) ==
  /\ call' = [type |-> "Resolution", bal |-> b, batch |-> batch]
  /\ w' = ResolutionWindow(w, b, batch)
  /\ reply' = IF w'.end > w'.min + 1 THEN MissingSlots(w') ELSE {}

Reported == UNION {[S -> Proposals] : S \in SUBSET Slot}

NextCall ==
  \/ \E b \in CallBallots :
       \/ PrepareCall(b)
       \/ \E batch \in Batches : AcceptCall(b, batch) \/ ResolutionCall(b, batch)
       \/ \E peer \in Peers(Owner(b)), slots \in SUBSET Slot :
            AcceptedCall(peer, b, slots)
       \/ \E v \in ClientValue : ProposeCall(b, v)
       \/ \E v \in ClientValue, k \in 0..2 : DriveCall(b, [i \in 1..k |-> v])
  \/ \E report \in Reported : PromiseCall(report)

CallsSpec == InitCalls /\ [][NextCall]_callVars
=============================================================================
