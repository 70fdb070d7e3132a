------------------------------ MODULE LeaderKey ------------------------------
(***************************************************************************)
(* What AbstractDCS promises about the leader key, whatever the back end:  *)
(* the key has one owner, it is created atomically and never overwritten,  *)
(* it leaves its owner only when the owner asks for it or has not renewed  *)
(* it for a whole ttl.                                                     *)
(***************************************************************************)
CONSTANTS Nodes, None

VARIABLES
    owner,      \* the value of the leader key
    lapsed,     \* the owner has not renewed it for ttl seconds
    releasing   \* the nodes that are giving the key up

vars == <<owner, lapsed, releasing>>

Init == owner = None /\ lapsed = FALSE /\ releasing = {}

(***************************************************************************)
(* attempt_to_acquire_leader: "In case if key already exists it should not *)
(* be overwritten".  A key whose owner has lapsed counts as absent; the    *)
(* session that the new key hangs on may be older than the key.            *)
(***************************************************************************)
Acquire(n) ==
    /\ owner = None \/ lapsed
    /\ owner' = n
    /\ lapsed' \in BOOLEAN

(***************************************************************************)
(* update_leader, by the owner alone.                                      *)
(***************************************************************************)
Renew(n) ==
    /\ owner = n
    /\ lapsed' = FALSE
    /\ UNCHANGED owner

(***************************************************************************)
(* delete_leader: "should remove leader key if current instance is the     *)
(* leader".                                                                *)
(***************************************************************************)
Release(n) ==
    /\ n \in releasing
    /\ owner = n
    /\ owner' = None
    /\ lapsed' = FALSE

Lapse ==
    /\ owner # None
    /\ lapsed' = TRUE
    /\ UNCHANGED owner

Expire ==
    /\ lapsed
    /\ owner' = None
    /\ lapsed' = FALSE

Next ==
    /\ releasing' \in SUBSET Nodes
    /\ \/ \E n \in Nodes : Acquire(n) \/ Renew(n) \/ Release(n)
       \/ Lapse
       \/ Expire
       \/ UNCHANGED <<owner, lapsed>>

Spec == Init /\ [][Next]_vars

=============================================================================
