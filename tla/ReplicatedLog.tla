--------------------------- MODULE ReplicatedLog ----------------------------
(***************************************************************************)
(* What a group promises to its state machines (ReplicatedState of         *)
(* src/statemachine.rs): there is one log, a slot of it is decided once,   *)
(* and every replica applies a growing prefix of it, in slot order, each   *)
(* slot once.                                                              *)
(***************************************************************************)
EXTENDS Integers, Sequences, FiniteSets

CONSTANTS
  Replica,    \* the replicas that apply the log
  Skip        \* the value that fills a slot without a command

VARIABLES
  log,        \* the decided slots and their values: a partial function
  position,   \* the slot each replica applies next
  applied     \* the calls of execute of each replica: slots with values

logVars == <<log, position, applied>>

\* The calls of execute for the slots from..(to - 1) of a log.
Calls(l, from, to) ==
  LET commands == {s \in from..(to - 1) : l[s] # Skip}
      Command(i) == CHOOSE s \in commands :
                      Cardinality({t \in commands : t <= s}) = i
  IN  [i \in 1..Cardinality(commands) |-> <<Command(i), l[Command(i)]>>]

InitLog ==
  /\ log = <<>>
  /\ position = [r \in Replica |-> 0]
  /\ applied = [r \in Replica |-> <<>>]

\* Slots may be decided, in any order; those decided before stay as they are.
Decide ==
  /\ DOMAIN log \subseteq DOMAIN log'
  /\ \A s \in DOMAIN log : log'[s] = log[s]

\* Replica r applies what is decided up to some slot, possibly nothing.
Apply(r) ==
  /\ position[r] <= position'[r]
  /\ 0..(position'[r] - 1) \subseteq DOMAIN log'
  /\ applied'[r] = applied[r] \o Calls(log', position[r], position'[r])
  /\ position' = [position EXCEPT ![r] = position'[r]]
  /\ applied' = [applied EXCEPT ![r] = applied'[r]]

NextLog == Decide /\ \E r \in Replica : Apply(r)

LogSpec == InitLog /\ [][NextLog]_logVars
=============================================================================
