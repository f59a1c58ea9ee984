---------------------------- MODULE MCElections -----------------------------
EXTENDS Elections

(***************************************************************************)
(* Rival elections: each client hands one value of its own to its replica, *)
(* whenever it likes.  Values are only compared for equality, so the value *)
(* of the client at node n may be n.  No node stops.                       *)
(***************************************************************************)
RivalNext ==
  \/ Dispatch \/ Deliver \/ TimePasses \/ Rest
  \/ \E n \in Node : Tick(n)
  \/ \E n \in Clients : Ask(n, n)

RivalSpec == InitElections /\ [][RivalNext]_electionVars /\ Fairness
=============================================================================
