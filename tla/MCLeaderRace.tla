---------------------------- MODULE MCLeaderRace ----------------------------
(***************************************************************************)
(* Three nodes, one of which is tagged nofailover.                         *)
(***************************************************************************)
EXTENDS LeaderRace

=============================================================================
