--------------------------- MODULE MCPaxosGroup -----------------------------
EXTENDS GroupProperties, TLC

(***************************************************************************)
(* Client values are only compared for equality.  Nodes are not symmetric: *)
(* ballots are ordered by them.                                            *)
(***************************************************************************)
ValueSymmetry == Permutations(ClientValue)
=============================================================================
