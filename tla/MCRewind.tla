------------------------------ MODULE MCRewind ------------------------------
(***************************************************************************)
(* An instance of Rewind.  Removing the data directory takes the same way  *)
(* as in the configuration "both", which is checked with more faults.      *)
(***************************************************************************)
EXTENDS Rewind

MCMaxFaults == [c \in Configs |-> IF c = "remove" THEN 1 ELSE 2]

(***************************************************************************)
(* The HA loop, the thread of AsyncExecutor and the thread that makes the  *)
(* checkpoint go on, and a server makes a checkpoint sooner or later.      *)
(***************************************************************************)
Spec ==
    /\ Init /\ [][Next]_vars
    /\ \A n \in Nodes :
         /\ WF_vars(Loop(n)) /\ WF_vars(Work(n))
         /\ WF_vars(checkpoint(n)) /\ WF_vars(server_checkpoint(n))

=============================================================================
