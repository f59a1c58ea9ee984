------------------------------ MODULE Machines ------------------------------
(***************************************************************************)
(* A group whose replicas run a state machine: StateMachineReplica of      *)
(* src/statemachine.rs over the nodes of module PaxosGroup.                *)
(*                                                                         *)
(* receive(cmd) runs the handler of the node and then executes what has    *)
(* become decided.  propose_leadership, and the tick that calls it, do not *)
(* execute.  A handler that unwinds never gets to the execution: a later   *)
(* command makes up for it.                                                *)
(***************************************************************************)
EXTENDS GroupProperties, DecisionRanges

VARIABLES
  next,       \* next_execution_slot of each node
  executed    \* the calls of execute of each node: slots with values

machineVars == <<next, executed>>

groupVars == <<proposer, window, msgs, panicked, next, executed>>

MachineInit ==
  /\ Init
  /\ next = [n \in Node |-> 0]
  /\ executed = [n \in Node |-> <<>>]
-----------------------------------------------------------------------------
\* The i-th slot of a set of slots, from the lowest on: i of them lie up to it.
Nth(slots, i) == CHOOSE s \in slots : Cardinality({t \in slots : t <= s}) = i

\* The calls of execute for a set of slots: the no-op is skipped.
Executions(w, slots) ==
  LET called == {s \in slots : w.acc[s].val # Noop}
  IN  [i \in 1..Cardinality(called) |->
         <<Nth(called, i), w.acc[Nth(called, i)].val>>]

(***************************************************************************)
(* try_execute_slots: the decided slots (those below open_min_slot) from   *)
(* next_execution_slot on.                                                 *)
(***************************************************************************)
\* Fault: every resolved slot is executed, also those behind a hole.
FaultTryExecute(n) ==
  LET w == window'[n]
      resolved == {s \in WindowSlot : s >= next[n] /\ ResolvedAt(w, s)}
  IN  /\ next' = [next EXCEPT ![n] = IF resolved = {} THEN @ ELSE Max(resolved) + 1]
      /\ executed' = [executed EXCEPT ![n] = @ \o Executions(w, resolved)]

\* Fault: the slot executed last is the next one again.
FaultNextSlotKept(n) ==
  LET w == window'[n]
      slots == Yielded(Included(next[n]), Unbounded, w.min)
  IN  /\ next' = [next EXCEPT ![n] = IF slots = {} THEN @ ELSE Max(slots)]
      /\ executed' = [executed EXCEPT ![n] = @ \o Executions(w, slots)]

TryExecute(n) ==
  LET w == window'[n]
      slots == Yielded(Included(next[n]), Unbounded, w.min)
  IN  /\ next' = [next EXCEPT ![n] = IF slots = {} THEN @ ELSE Max(slots) + 1]
      /\ executed' = [executed EXCEPT ![n] = @ \o Executions(w, slots)]

(***************************************************************************)
(* The only handler that may unwind is resolution, when it asks the node   *)
(* itself for the missing slots.                                           *)
(***************************************************************************)
AsksItself(n, m) ==
  LET w == ResolutionWindow(window[n], m.bal, m.decisions)
  IN  /\ w.end > w.min + 1
      /\ Owner(Observe(proposer[n], m.bal, n).highest) = n

Receive(n) ==
  \/ /\ \/ ClientProposal(n) \/ OnProposal(n) \/ OnPrepare(n) \/ OnPromise(n)
        \/ OnAccept(n) \/ OnReject(n) \/ OnAccepted(n) \/ OnCatchup(n)
     /\ TryExecute(n)
  \/ \E m \in msgs :
       /\ HandleResolution(n, m)
       /\ IF AsksItself(n, m) THEN UNCHANGED machineVars ELSE TryExecute(n)

Tick(n) == ProposeLeadership(n) /\ UNCHANGED machineVars

MachineNext == \E n \in Node : Receive(n) \/ Tick(n)

MachineSpec == MachineInit /\ [][MachineNext]_groupVars
-----------------------------------------------------------------------------
(***************************************************************************)
(* A replica executes what it has decided as soon as it has handled the    *)
(* command that decided it, except when the handler unwound; then it lags  *)
(* behind and never runs ahead.                                            *)
(***************************************************************************)
ExecutesDecided ==
  \A n \in Node : /\ next[n] <= window[n].min
                  /\ n \notin panicked => next[n] = window[n].min

(***************************************************************************)
(* The calls of execute of a replica are the decided slots of its own log, *)
(* in slot order, each once, the no-ops left out, whatever the order in    *)
(* which decisions came and however many of them one command completed.    *)
(***************************************************************************)
ExecutesOnceInOrder ==
  \A n \in Node : executed[n] = Executions(window[n], 0..(next[n] - 1))

(***************************************************************************)
(* As long as no leader has proposed a slot that a promise for its ballot  *)
(* left out (FullyReported, which stays false once it is), the group       *)
(* implements one replicated log: a slot is decided once for all replicas, *)
(* and every state machine applies a growing prefix of the same log.       *)
(***************************************************************************)
GroupLog ==
  [s \in {t \in Slot : DecisionsOf(t) # {}} |-> CHOOSE v \in DecisionsOf(s) : TRUE]

Log == INSTANCE ReplicatedLog
         WITH Replica <- Node, Skip <- Noop,
              log <- GroupLog, position <- next, applied <- executed

OneLogWhenReported ==
  Log!InitLog /\ [][FullyReported' => [Log!NextLog]_(Log!logVars)]_groupVars
=============================================================================
