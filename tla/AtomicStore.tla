---------------------------- MODULE AtomicStore -----------------------------
(***************************************************************************)
(* What a replicated store promises to its clients, for one key: every     *)
(* request takes effect at one moment between its call and its return, and *)
(* returns what it found then.  A client may give up; its request may then *)
(* still take effect, once, or never.                                      *)
(***************************************************************************)
CONSTANTS
  Request,    \* the requests of the clients
  Gets,       \* the requests that read; the others write, each its own value
  Nothing     \* no value is stored, or no result is known

VARIABLES
  status,     \* of each request: "idle", "called", "done" or "returned"
  stored,     \* the stored value: the request that wrote it, or Nothing
  result      \* what each request that took effect has found

storeVars == <<status, stored, result>>

InitStore ==
  /\ status = [r \in Request |-> "idle"]
  /\ stored = Nothing
  /\ result = [r \in Request |-> Nothing]

Moves(r, from, to) == status[r] = from /\ status' = [status EXCEPT ![r] = to]

Call(r) == Moves(r, "idle", "called") /\ UNCHANGED <<stored, result>>

TakeEffect(r) ==
  /\ Moves(r, "called", "done")
  /\ IF r \in Gets
       THEN result' = [result EXCEPT ![r] = stored] /\ UNCHANGED stored
       ELSE stored' = r /\ UNCHANGED result

Return(r) == Moves(r, "done", "returned") /\ UNCHANGED <<stored, result>>

NextStore == \E r \in Request : Call(r) \/ TakeEffect(r) \/ Return(r)

StoreSpec == InitStore /\ [][NextStore]_storeVars
=============================================================================
