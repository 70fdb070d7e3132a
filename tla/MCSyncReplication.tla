-------------------------- MODULE MCSyncReplication --------------------------
(***************************************************************************)
(* Small instances of SyncReplication: the nodes are model values.         *)
(***************************************************************************)
EXTENDS SyncReplication, TLC

NodeSymmetry == Permutations(Nodes)

=============================================================================
