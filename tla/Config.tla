------------------------------- MODULE Config -------------------------------
(***************************************************************************)
(* The static membership of a Paxos group (src/config.rs).                 *)
(*                                                                         *)
(* A Configuration holds the id of the current node and a map of its       *)
(* PEERS: the current node is not one of them.  Every node of a group is   *)
(* configured with the same membership, so the modules below share one set *)
(* Node and derive each node's peers from it.                              *)
(***************************************************************************)
EXTENDS Integers, FiniteSets

CONSTANT Node       \* the ids (u32) of the members of the group

(***************************************************************************)
(* Node ids are numbers: ballots are ordered by them.  Acceptor::new       *)
(* asserts that the quorum is larger than one, so a group has at least     *)
(* three members.                                                          *)
(***************************************************************************)
ASSUME NodeAssumption ==
  /\ Node \subseteq Nat
  /\ IsFiniteSet(Node)
  /\ Cardinality(Node) >= 3

Peers(n) == Node \ {n}

(***************************************************************************)
(* quorum_size computes 1 + peers.len() / 2 for both phases, counting the  *)
(* peers and not the members.                                              *)
(***************************************************************************)
QuorumSize == 1 + (Cardinality(Node) - 1) \div 2
=============================================================================
