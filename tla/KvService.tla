----------------------------- MODULE KvService ------------------------------
(***************************************************************************)
(* The replicated key-value store of examples/http-paxos: the request      *)
(* handlers of service.rs and the store of kvstore.rs, on every replica.   *)
(*                                                                         *)
(* A request handler registers a listener for its request id, hands the    *)
(* command to the replica and waits until the replica executes it.         *)
(* Handlers, the execution of decisions and the pruning of listeners       *)
(* interleave: each call of the store holds its mutex on its own.          *)
(*                                                                         *)
(* Nothing is taken from the group but that it executes only commands that *)
(* were handed to it: a replica may execute any of them, or none, in any   *)
(* order and more than once.  What holds when the group keeps its promise  *)
(* (module ReplicatedLog, which Machines shows under a condition) is       *)
(* stated under that condition, OneOrder below.                            *)
(*                                                                         *)
(* Every command touches one key, so one key is modelled.  A Set writes a  *)
(* value of its own.  Request ids are random 64-bit numbers; they are      *)
(* taken to differ.                                                        *)
(***************************************************************************)
EXTENDS Integers, Sequences, FiniteSets

CONSTANTS
  Replica,    \* the replicas, each with its own store and service
  Request,    \* the requests clients make
  Gets,       \* those of them that read
  Nothing,    \* Option::None
  MaxExecuted \* bound: commands a replica executes

ASSUME RequestAssumption ==
  Gets \subseteq Request /\ Nothing \notin Request /\ Replica # {}

VARIABLES
  phase,      \* how far the handler of each request is
  home,       \* the replica each request was made at
  listeners,  \* pending_get and pending_set of each replica
  proposed,   \* the commands handed to the group
  executed,   \* the commands each replica has executed, in order
  values,     \* the value of the key at each replica
  answer      \* what was sent to the listener of each request

kvVars == <<phase, home, listeners, proposed, executed, values, answer>>

NoAnswer == [slot |-> 0, val |-> Nothing]

TypeOK ==
  /\ phase \in [Request -> {"new", "registered", "waiting", "answered", "gone"}]
  /\ home \in [Request -> Replica \cup {Nothing}]
  /\ listeners \in [Replica -> SUBSET Request]
  /\ proposed \subseteq Request
  /\ executed \in [Replica -> Seq(Request)]
  /\ values \in [Replica -> Request \cup {Nothing}]
  /\ answer \in [Request -> [slot : Nat, val : Request \cup {Nothing}]]

InitKv ==
  /\ phase = [r \in Request |-> "new"]
  /\ home = [r \in Request |-> Nothing]
  /\ listeners = [n \in Replica |-> {}]
  /\ proposed = {}
  /\ executed = [n \in Replica |-> <<>>]
  /\ values = [n \in Replica |-> Nothing]
  /\ answer = [r \in Request |-> NoAnswer]

Enter(r, from, to) == phase[r] \in from /\ phase' = [phase EXCEPT ![r] = to]
-----------------------------------------------------------------------------
(***************************************************************************)
(* handle, up to the lock of the replica: register_get or register_set.    *)
(***************************************************************************)
Register(n, r) ==
  /\ Enter(r, {"new"}, "registered")
  /\ home' = [home EXCEPT ![r] = n]
  /\ listeners' = [listeners EXCEPT ![n] = @ \cup {r}]
  /\ UNCHANGED <<proposed, executed, values, answer>>

\* With the lock: receive(Proposal).  The group has the command from here.
Submit(r) ==
  /\ Enter(r, {"registered"}, "waiting")
  /\ proposed' = proposed \cup {r}
  /\ UNCHANGED <<home, listeners, executed, values, answer>>

\* receiver.await: the answer is there.
Respond(r) ==
  /\ answer[r] # NoAnswer
  /\ Enter(r, {"waiting"}, "answered")
  /\ UNCHANGED <<home, listeners, proposed, executed, values, answer>>

\* The connection breaks: the handler is dropped where it waits.
HangUp(r) ==
  /\ Enter(r, {"registered", "waiting"}, "gone")
  /\ UNCHANGED <<home, listeners, proposed, executed, values, answer>>
-----------------------------------------------------------------------------
\* Sender::send, which fails when the receiver was dropped.
Answers(n, r) == r \in listeners[n] /\ phase[r] # "gone"

\* Fault: a Get that finds no value is not answered.
FaultReply(n, r, v) ==
  IF Answers(n, r) /\ (r \in Gets => v # Nothing)
    THEN answer' = [answer EXCEPT ![r] = [slot |-> Len(executed[n]) + 1, val |-> v]]
    ELSE UNCHANGED answer

Reply(n, r, v) ==
  IF Answers(n, r)
    THEN answer' = [answer EXCEPT ![r] = [slot |-> Len(executed[n]) + 1, val |-> v]]
    ELSE UNCHANGED answer

(***************************************************************************)
(* execute: a Set stores its value; a Get looks the value up if somebody   *)
(* here listens.  The commands a replica executes are counted from one.    *)
(***************************************************************************)
\* Fault: a Set nobody here listens for is skipped, as a Get is.
FaultStoredBy(n, r) == IF r \in Gets \/ r \notin listeners[n] THEN values[n] ELSE r

StoredBy(n, r) == IF r \in Gets THEN values[n] ELSE r

Execute(n, r) ==
  /\ r \in proposed /\ Len(executed[n]) < MaxExecuted
  /\ values' = [values EXCEPT ![n] = StoredBy(n, r)]
  /\ Reply(n, r, IF r \in Gets THEN values[n] ELSE Nothing)
  /\ listeners' = [listeners EXCEPT ![n] = @ \ {r}]
  /\ executed' = [executed EXCEPT ![n] = Append(@, r)]
  /\ UNCHANGED <<phase, home, proposed>>

(***************************************************************************)
(* prune_listeners, every thirty seconds: listeners whose receiver is gone *)
(* are dropped.                                                            *)
(***************************************************************************)
\* Fault: only the listeners of one of the two maps are pruned.
FaultClosedGet(r) == phase[r] = "gone" /\ r \in Gets

Closed(r) == phase[r] = "gone"

Prune(n) ==
  /\ listeners' = [listeners EXCEPT ![n] = {r \in @ : ~Closed(r)}]
  /\ UNCHANGED <<phase, home, proposed, executed, values, answer>>

NextKv ==
  \/ \E r \in Request : Submit(r) \/ Respond(r) \/ HangUp(r)
  \/ \E n \in Replica :
       Prune(n) \/ \E r \in Request : Register(n, r) \/ Execute(n, r)

(***************************************************************************)
(* Pruning is periodic.  Nothing makes a replica execute a command, or     *)
(* clients stay or leave.                                                  *)
(***************************************************************************)
KvFairness == \A n \in Replica : WF_kvVars(Prune(n))

KvSpec == InitKv /\ [][NextKv]_kvVars /\ KvFairness
-----------------------------------------------------------------------------
(***************************************************************************)
(* A handler never waits in vain: until its replica has executed the       *)
(* command, its listener is there, and afterwards it has its answer.  So   *)
(* the service has no reason to answer "internal server error".            *)
(***************************************************************************)
ExecutedBy(n) == {executed[n][i] : i \in DOMAIN executed[n]}

NoLostAnswer ==
  \A r \in Request :
    phase[r] \in {"registered", "waiting"} =>
      IF r \in ExecutedBy(home[r]) THEN answer[r] # NoAnswer
                                   ELSE r \in listeners[home[r]]

(***************************************************************************)
(* Listeners do not pile up: one whose client left is dropped, although    *)
(* its command may never be executed.                                      *)
(***************************************************************************)
ListenersArePruned ==
  \A r \in Request :
    phase[r] = "gone" ~> \A n \in Replica : r \notin listeners[n]

(***************************************************************************)
(* One order of execution: replicas execute the same command at the same   *)
(* position, and no command at two of them.  This is what module           *)
(* ReplicatedLog promises, for commands the group decides once; Machines   *)
(* shows it for as long as FullyReported holds.  Once it fails it stays    *)
(* false.                                                                  *)
(***************************************************************************)
OneOrder ==
  \A n \in Replica : \A k \in Replica :
    \A i \in DOMAIN executed[n] : \A j \in DOMAIN executed[k] :
      (executed[n][i] = executed[k][j]) <=> (i = j)

\* The log of a replica that has executed most.
Log ==
  executed[CHOOSE n \in Replica :
             \A k \in Replica : Len(executed[k]) <= Len(executed[n])]

InLog == {Log[i] : i \in DOMAIN Log}

LastSet(k) ==
  LET sets == {i \in 1..k : Log[i] \notin Gets}
  IN  IF sets = {} THEN Nothing
      ELSE Log[CHOOSE i \in sets : \A j \in sets : j <= i]

Found(r) ==
  IF r \notin InLog \cap Gets THEN Nothing
  ELSE LastSet((CHOOSE i \in DOMAIN Log : Log[i] = r) - 1)

Status(r) ==
  CASE phase[r] = "new" -> "idle"
    [] phase[r] = "answered" -> "returned"
    [] OTHER -> IF r \in InLog THEN "done" ELSE "called"

Store == INSTANCE AtomicStore
           WITH status <- [r \in Request |-> Status(r)],
                stored <- LastSet(Len(Log)),
                result <- [r \in Request |->
                             IF phase[r] = "answered" THEN answer[r].val ELSE Found(r)]

(***************************************************************************)
(* As long as the replicas execute in one order they are one atomic store: *)
(* a request takes effect when the first of them executes it, and a Get    *)
(* answers with the last Set that took effect before it, at whichever      *)
(* replica it was made and however late that replica executes.             *)
(***************************************************************************)
StoreIsAtomic ==
  Store!InitStore /\ [][OneOrder' => [Store!NextStore]_(Store!storeVars)]_kvVars
=============================================================================
