---------------------------- MODULE MCHaFailover ----------------------------
(***************************************************************************)
(* Instances of HaFailover with two or three nodes.                        *)
(***************************************************************************)
EXTENDS HaFailover, TLC

NodeSymmetry == Permutations(Nodes)

=============================================================================
