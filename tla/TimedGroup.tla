----------------------------- MODULE TimedGroup -----------------------------
(***************************************************************************)
(* The group of module Elections is a group of module PaxosGroup: watching *)
(* the leader, stopping nodes and a network that delivers once or loses    *)
(* add no behaviour of the replicas and commands to those of the worst     *)
(* network.  So what PaxosGroup never does, replicas behind Liveness never *)
(* do.                                                                     *)
(*                                                                         *)
(* The history variable `sent` keeps the commands of all calls, as `msgs`  *)
(* does in PaxosGroup; here `msgs` is the outbox of one call.              *)
(***************************************************************************)
EXTENDS Elections

VARIABLE sent   \* the commands sent so far

Group == INSTANCE PaxosGroup WITH msgs <- sent

timedVars == <<electionVars, sent>>

InitTimed == InitElections /\ sent = {}

\* MaxMsgs, here too, bounds the commands of all calls.
NextTimed ==
  /\ NextElections \/ Lose
  /\ sent' = sent \cup msgs' /\ Cardinality(sent') <= MaxMsgs

TimedSpec == InitTimed /\ [][NextTimed]_timedVars

(***************************************************************************)
(* Every call that Liveness passes on, whenever its clock and the network  *)
(* let it, is one the replica may get from the network of PaxosGroup, and  *)
(* a node that has stopped is one whose commands are lost for ever.        *)
(***************************************************************************)
ImplementsGroup == Group!Spec
=============================================================================
