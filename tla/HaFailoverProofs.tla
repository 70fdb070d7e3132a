-------------------------- MODULE HaFailoverProofs --------------------------
(***************************************************************************)
(* Proofs about HaFailover, for any number of nodes and any number of      *)
(* faults.                                                                 *)
(***************************************************************************)
EXTENDS HaFailover, TLAPS

-----------------------------------------------------------------------------
(* The inductive invariants *)

PromoteCommitted == {"promote_committed", "promote_done", "promote_wait"}

(***************************************************************************)
(* A task that promote has completed is not cancelled any more: its result *)
(* stands until the worker is gone.                                        *)
(***************************************************************************)
TaskInv ==
    \A n \in Nodes :
        /\ bg[n] \in PromoteCommitted => response[n] = "true"
        /\ pc[n] \in {"acquired", "enforce"} => bg[n] = "none"

(***************************************************************************)
(* A tenure of the key belongs to one node, also after the tenure is over. *)
(***************************************************************************)
TermInv ==
    /\ tenure >= 1
    /\ \A n \in Nodes : term[n] <= tenure
    /\ \A m, n \in Nodes : m /= n /\ term[m] = term[n] => term[n] = 0
    /\ \A n \in Nodes : leader /= n /\ leader /= None => term[n] /= tenure
    /\ \A n \in Nodes :
          pc[n] \in {"acquired", "enforce"} \/ bg[n] \in PromoteSteps => term[n] >= 1

WinnerInv ==
    /\ \A w \in winners : w[1] >= 1 /\ w[1] <= tenure
    /\ \A w \in winners : \A n \in Nodes : w[1] = term[n] => w[2] = n
    /\ \A w \in winners : leader /= None /\ w[1] = tenure => w[2] = leader
    /\ OnePromotionPerTenure

(***************************************************************************)
(* Neither does the key expire nor a database crash.                       *)
(***************************************************************************)
Quiet == MaxExpiries = 0 /\ Faults \subseteq {"dcs", "promote", "watchdog"}

Early == {"promote_pre", "promote_committed", "promote_done"}

(***************************************************************************)
(* Who may do what without the leader key, then: a node that is primary,   *)
(* is being promoted, is about to be, or starts its database without       *)
(* "-M standby", has the key.                                              *)
(***************************************************************************)
KeyInv(n) ==
    /\ pg[n] = "primary" => leader = n
    /\ bg[n] \in PromoteSteps \cup {"demote_stop", "demote_release", "start_normal"}
           => leader = n
    /\ pc[n] \in {"acquired", "enforce", "demote", "offline", "demote_release",
                  "demoted_release"} => leader = n
    /\ pc[n] = "demoted" => leader = n \/ bg[n] = "none"
    /\ role[n] = "master" /\ bg[n] /= "none" => leader = n
    /\ pg[n] = "down" => \/ leader = n
                         \/ bg[n] \in {"demote_follow", "start_standby"}
                         \/ pc[n] = "demoted" /\ bg[n] = "none"
                         \/ pc[n] = "offline_start"

(***************************************************************************)
(* How far the HA loop and the worker of a node can be at the same time.   *)
(***************************************************************************)
StepInv(n) ==
    /\ pc[n] \in {"acquired", "enforce", "release", "demote_release",
                  "demoted_release"} => bg[n] = "none"
    /\ pc[n] \in {"acquired", "enforce"} => info[n] = pg[n] /\ pg[n] /= "down"
    /\ pc[n] = "release" => pg[n] = "replica"
    /\ pc[n] \in {"demote", "demote_release", "offline", "offline_start"} =>
          response[n] /= "false" /\ bg[n] /= "promote_pre"
    /\ pc[n] \in {"demoted", "demoted_release"} => pg[n] = "down"
    /\ pc[n] \in {"demote", "demoted"} =>
          bg[n] \notin Early \cup {"demote_follow", "start_standby", "start_normal"}
    /\ pc[n] \in {"demoted", "demoted_release"} => role[n] /= "master"
    /\ role[n] = "master" =>
          bg[n] \notin Early \cup {"demote_release", "demote_follow",
                                   "start_standby", "start_normal"}
    /\ bg[n] \in {"demote_release", "demote_follow", "start_standby"}
           => pg[n] /= "primary"
    /\ pg[n] = "down" => bg[n] \notin Early \/ pc[n] = "offline_start"
    /\ pg[n] = "down" => role[n] /= "master" \/ pc[n] = "offline_start"
    /\ response[n] = "false" =>
          /\ role[n] /= "master"
          /\ pg[n] /= "primary"
          /\ bg[n] /= "start_normal"
          /\ pg[n] = "down" =>
                bg[n] \in {"demote_release", "demote_follow", "start_standby"}
    /\ bg[n] = "promote_pre" => pg[n] = "replica"
    /\ n \in recovering =>
          /\ pg[n] = "down" => bg[n] = "start_normal" \/ pc[n] = "offline_start"
          /\ pc[n] \notin {"acquired", "enforce", "demote", "demoted",
                           "demote_release", "demoted_release"}
          /\ bg[n] \notin PromoteSteps \cup DemoteSteps
          /\ role[n] /= "master"

SafeInv == \A n \in Nodes : KeyInv(n) /\ StepInv(n)

-----------------------------------------------------------------------------
(* Type correctness *)

\* Every step of a node keeps the types.
LEMMA NodeKeepsTypes ==
    ASSUME TypeOK, NEW n \in Nodes, Node(n)
    PROVE  TypeOK'
<1> USE HaAssumption DEF TypeOK, PCs, BgSteps, PromoteSteps, DemoteSteps,
                         dcsVars, envVars, flagVars, recoverVars
<1>1. CASE PgDies(n)
  BY <1>1 DEF PgDies, Fault
<1>2. CASE BackoffEnds(n)
  BY <1>2 DEF BackoffEnds
<1>3. CASE DcsError(n)
  BY <1>3 DEF DcsError, Fault, DemoteOrSleep, Goto
<1>4. CASE enforce_WatchdogFails(n)
  BY <1>4 DEF enforce_WatchdogFails, Fault, Goto
<1>5. CASE load_cluster_from_dcs(n)
  BY <1>5 DEF load_cluster_from_dcs, Goto
<1>6. CASE long_action_WithLock(n)
  BY <1>6 DEF long_action_WithLock, busy, LockUpdated, UpdateKey, Goto
<1>7. CASE long_action_WithoutLock(n)
  BY <1>7 DEF long_action_WithoutLock, busy, LockNotUpdated, Fault, Goto
<1>8. CASE post_recover(n)
  BY <1>8 DEF post_recover, busy, ReleaseKey, DeleteKey, Fault, Goto
<1>9. CASE recover_FailsOver(n)
  BY <1>9 DEF recover_FailsOver, busy, LockUpdated, UpdateKey, Goto
<1>10. CASE recover_SingleUser(n)
  BY <1>10 DEF recover_SingleUser, busy, Goto
<1>11. CASE recover(n)
  BY <1>11 DEF recover, busy, LockUpdated, UpdateKey, LockNotUpdated, Fault,
               Goto
<1>12. CASE acquire_lock(n)
  BY <1>12 DEF acquire_lock, Healthy, busy, CreateKey, Goto
<1>13. CASE acquire_lock_Fails(n)
  BY <1>13 DEF acquire_lock_Fails, Healthy, busy, CreateKey, Fault,
               DemoteOrSleep, Goto
<1>14. CASE follow_NoLeader(n)
  BY <1>14 DEF follow_NoLeader, Healthy, busy, DemoteOrSleep, Goto
<1>15. CASE follow(n)
  BY <1>15 DEF follow, Healthy, busy, DemoteOrSleep, Goto
<1>16. CASE follow_Restart(n)
  BY <1>16 DEF follow_Restart, Healthy, busy, Fault, Goto
<1>17. CASE load_again_DcsError(n)
  BY <1>17 DEF load_again_DcsError, Healthy, busy, Fault, DemoteOrSleep,
               Goto
<1>18. CASE process_manual_failover_from_leader(n)
  BY <1>18 DEF process_manual_failover_from_leader, Healthy, busy,
               UpdateKey, Goto
<1>19. CASE update_lock(n)
  BY <1>19 DEF update_lock, Healthy, busy, LockUpdated, UpdateKey, Goto
<1>20. CASE update_lock_Fails(n)
  BY <1>20 DEF update_lock_Fails, Healthy, busy, LockNotUpdated, Fault,
               DemoteOrSleep, Goto
<1>21. CASE acquired(n)
  BY <1>21 DEF acquired, Goto
<1>22. CASE enforce_PrePromoteFailed(n)
  BY <1>22 DEF enforce_PrePromoteFailed, ReleaseKey, DeleteKey, Fault, Goto
<1>23. CASE enforce_Master(n)
  BY <1>23 DEF enforce_Master, Goto
<1>24. CASE enforce_Promote(n)
  BY <1>24 DEF enforce_Promote, Goto
<1>25. CASE demote_Stop(n)
  BY <1>25 DEF demote_Stop, Goto
<1>26. CASE release_leader_key(n)
  BY <1>26 DEF release_leader_key, ReleaseKey, DeleteKey, Fault, Goto
<1>27. CASE demote_Start(n)
  BY <1>27 DEF demote_Start, busy, Fault, Goto
<1>28. CASE offline_Start(n)
  BY <1>28 DEF offline_Start, Fault, Goto
<1>29. CASE promote_Task(n)
  BY <1>29 DEF promote_Task, Fault, BgGoto
<1>30. CASE promote_Failover(n)
  BY <1>30 DEF promote_Failover, Fault, BgGoto
<1>31. CASE promote_SetRole(n)
  BY <1>31 DEF promote_SetRole, BgGoto
<1>32. CASE promote_Wait(n)
  BY <1>32 DEF promote_Wait, BgGoto
<1>33. CASE demote_graceful_Stop(n)
  BY <1>33 DEF demote_graceful_Stop, BgGoto
<1>34. CASE demote_graceful_Release(n)
  BY <1>34 DEF demote_graceful_Release, ReleaseKey, DeleteKey, Fault, BgGoto
<1>35. CASE demote_graceful_Follow(n)
  BY <1>35 DEF demote_graceful_Follow, Fault, BgGoto
<1>36. CASE start(n)
  BY <1>36 DEF start, Fault, BgGoto
<1>37. CASE bg_Ends(n)
  BY <1>37 DEF bg_Ends, BgGoto
<1>q. QED
  BY <1>1, <1>2, <1>3, <1>4, <1>5, <1>6, <1>7, <1>8, <1>9, <1>10, <1>11,
     <1>12, <1>13, <1>14, <1>15, <1>16, <1>17, <1>18, <1>19, <1>20, <1>21,
     <1>22, <1>23, <1>24, <1>25, <1>26, <1>27, <1>28, <1>29, <1>30, <1>31,
     <1>32, <1>33, <1>34, <1>35, <1>36, <1>37
  DEF Node, HaLoop, Worker

-----------------------------------------------------------------------------
(* Cancelled promotions *)

\* Every step of a node keeps TaskInv: only a worker whose task was neither
\* complete nor cancelled completes it, and nobody resets it before the worker
\* is gone.
LEMMA NodeKeepsTaskInv ==
    ASSUME TypeOK, TaskInv, NEW n \in Nodes, Node(n)
    PROVE  TaskInv'
<1> USE DEF TypeOK, TaskInv, PromoteCommitted, PromoteSteps, DemoteSteps,
            dcsVars, envVars, flagVars, recoverVars
<1>1. CASE PgDies(n)
  BY <1>1 DEF PgDies, Fault
<1>2. CASE BackoffEnds(n)
  BY <1>2 DEF BackoffEnds
<1>3. CASE DcsError(n)
  BY <1>3 DEF DcsError, Fault, DemoteOrSleep, Goto
<1>4. CASE enforce_WatchdogFails(n)
  BY <1>4 DEF enforce_WatchdogFails, Fault, Goto
<1>5. CASE load_cluster_from_dcs(n)
  BY <1>5 DEF load_cluster_from_dcs, Goto
<1>6. CASE long_action_WithLock(n)
  BY <1>6 DEF long_action_WithLock, busy, LockUpdated, UpdateKey, Goto
<1>7. CASE long_action_WithoutLock(n)
  BY <1>7 DEF long_action_WithoutLock, busy, LockNotUpdated, Fault, Goto
<1>8. CASE post_recover(n)
  BY <1>8 DEF post_recover, busy, ReleaseKey, DeleteKey, Fault, Goto
<1>9. CASE recover_FailsOver(n)
  BY <1>9 DEF recover_FailsOver, busy, LockUpdated, UpdateKey, Goto
<1>10. CASE recover_SingleUser(n)
  BY <1>10 DEF recover_SingleUser, busy, Goto
<1>11. CASE recover(n)
  BY <1>11 DEF recover, busy, LockUpdated, UpdateKey, LockNotUpdated, Fault,
               Goto
<1>12. CASE acquire_lock(n)
  BY <1>12 DEF acquire_lock, Healthy, busy, CreateKey, Goto
<1>13. CASE acquire_lock_Fails(n)
  BY <1>13 DEF acquire_lock_Fails, Healthy, busy, CreateKey, Fault,
               DemoteOrSleep, Goto
<1>14. CASE follow_NoLeader(n)
  BY <1>14 DEF follow_NoLeader, Healthy, busy, DemoteOrSleep, Goto
<1>15. CASE follow(n)
  BY <1>15 DEF follow, Healthy, busy, DemoteOrSleep, Goto
<1>16. CASE follow_Restart(n)
  BY <1>16 DEF follow_Restart, Healthy, busy, Fault, Goto
<1>17. CASE load_again_DcsError(n)
  BY <1>17 DEF load_again_DcsError, Healthy, busy, Fault, DemoteOrSleep,
               Goto
<1>18. CASE process_manual_failover_from_leader(n)
  BY <1>18 DEF process_manual_failover_from_leader, Healthy, busy,
               UpdateKey, Goto
<1>19. CASE update_lock(n)
  BY <1>19 DEF update_lock, Healthy, busy, LockUpdated, UpdateKey, Goto
<1>20. CASE update_lock_Fails(n)
  BY <1>20 DEF update_lock_Fails, Healthy, busy, LockNotUpdated, Fault,
               DemoteOrSleep, Goto
<1>21. CASE acquired(n)
  BY <1>21 DEF acquired, Goto
<1>22. CASE enforce_PrePromoteFailed(n)
  BY <1>22 DEF enforce_PrePromoteFailed, ReleaseKey, DeleteKey, Fault, Goto
<1>23. CASE enforce_Master(n)
  BY <1>23 DEF enforce_Master, Goto
<1>24. CASE enforce_Promote(n)
  BY <1>24 DEF enforce_Promote, Goto
<1>25. CASE demote_Stop(n)
  BY <1>25 DEF demote_Stop, Goto
<1>26. CASE release_leader_key(n)
  BY <1>26 DEF release_leader_key, ReleaseKey, DeleteKey, Fault, Goto
<1>27. CASE demote_Start(n)
  BY <1>27 DEF demote_Start, busy, Fault, Goto
<1>28. CASE offline_Start(n)
  BY <1>28 DEF offline_Start, Fault, Goto
<1>29. CASE promote_Task(n)
  BY <1>29 DEF promote_Task, Fault, BgGoto
<1>30. CASE promote_Failover(n)
  BY <1>30 DEF promote_Failover, Fault, BgGoto
<1>31. CASE promote_SetRole(n)
  BY <1>31 DEF promote_SetRole, BgGoto
<1>32. CASE promote_Wait(n)
  BY <1>32 DEF promote_Wait, BgGoto
<1>33. CASE demote_graceful_Stop(n)
  BY <1>33 DEF demote_graceful_Stop, BgGoto
<1>34. CASE demote_graceful_Release(n)
  BY <1>34 DEF demote_graceful_Release, ReleaseKey, DeleteKey, Fault, BgGoto
<1>35. CASE demote_graceful_Follow(n)
  BY <1>35 DEF demote_graceful_Follow, Fault, BgGoto
<1>36. CASE start(n)
  BY <1>36 DEF start, Fault, BgGoto
<1>37. CASE bg_Ends(n)
  BY <1>37 DEF bg_Ends, BgGoto
<1>q. QED
  BY <1>1, <1>2, <1>3, <1>4, <1>5, <1>6, <1>7, <1>8, <1>9, <1>10, <1>11,
     <1>12, <1>13, <1>14, <1>15, <1>16, <1>17, <1>18, <1>19, <1>20, <1>21,
     <1>22, <1>23, <1>24, <1>25, <1>26, <1>27, <1>28, <1>29, <1>30, <1>31,
     <1>32, <1>33, <1>34, <1>35, <1>36, <1>37
  DEF Node, HaLoop, Worker

-----------------------------------------------------------------------------
(* Tenures of the leader key *)

\* Every step of a node keeps TermInv: only the creation of the key starts a
\* tenure, and only its owner renews it.
LEMMA NodeKeepsTermInv ==
    ASSUME TypeOK, TermInv, NEW n \in Nodes, Node(n)
    PROVE  TermInv'
<1> USE HaAssumption DEF TypeOK, TermInv, PromoteSteps,
                         dcsVars, envVars, flagVars, recoverVars
<1>1. CASE PgDies(n)
  BY <1>1 DEF PgDies, Fault
<1>2. CASE BackoffEnds(n)
  BY <1>2 DEF BackoffEnds
<1>3. CASE DcsError(n)
  BY <1>3 DEF DcsError, Fault, DemoteOrSleep, Goto
<1>4. CASE enforce_WatchdogFails(n)
  BY <1>4 DEF enforce_WatchdogFails, Fault, Goto
<1>5. CASE load_cluster_from_dcs(n)
  BY <1>5 DEF load_cluster_from_dcs, Goto
<1>6. CASE long_action_WithLock(n)
  BY <1>6 DEF long_action_WithLock, busy, LockUpdated, UpdateKey, Goto
<1>7. CASE long_action_WithoutLock(n)
  BY <1>7 DEF long_action_WithoutLock, busy, LockNotUpdated, Fault, Goto
<1>8. CASE post_recover(n)
  BY <1>8 DEF post_recover, busy, ReleaseKey, DeleteKey, Fault, Goto
<1>9. CASE recover_FailsOver(n)
  BY <1>9 DEF recover_FailsOver, busy, LockUpdated, UpdateKey, Goto
<1>10. CASE recover_SingleUser(n)
  BY <1>10 DEF recover_SingleUser, busy, Goto
<1>11. CASE recover(n)
  BY <1>11 DEF recover, busy, LockUpdated, UpdateKey, LockNotUpdated, Fault,
               Goto
<1>12. CASE acquire_lock(n)
  BY <1>12 DEF acquire_lock, Healthy, busy, CreateKey, Goto
<1>13. CASE acquire_lock_Fails(n)
  BY <1>13 DEF acquire_lock_Fails, Healthy, busy, CreateKey, Fault,
               DemoteOrSleep, Goto
<1>14. CASE follow_NoLeader(n)
  BY <1>14 DEF follow_NoLeader, Healthy, busy, DemoteOrSleep, Goto
<1>15. CASE follow(n)
  BY <1>15 DEF follow, Healthy, busy, DemoteOrSleep, Goto
<1>16. CASE follow_Restart(n)
  BY <1>16 DEF follow_Restart, Healthy, busy, Fault, Goto
<1>17. CASE load_again_DcsError(n)
  BY <1>17 DEF load_again_DcsError, Healthy, busy, Fault, DemoteOrSleep,
               Goto
<1>18. CASE process_manual_failover_from_leader(n)
  BY <1>18 DEF process_manual_failover_from_leader, Healthy, busy,
               UpdateKey, Goto
<1>19. CASE update_lock(n)
  BY <1>19 DEF update_lock, Healthy, busy, LockUpdated, UpdateKey, Goto
<1>20. CASE update_lock_Fails(n)
  BY <1>20 DEF update_lock_Fails, Healthy, busy, LockNotUpdated, Fault,
               DemoteOrSleep, Goto
<1>21. CASE acquired(n)
  BY <1>21 DEF acquired, Goto
<1>22. CASE enforce_PrePromoteFailed(n)
  BY <1>22 DEF enforce_PrePromoteFailed, ReleaseKey, DeleteKey, Fault, Goto
<1>23. CASE enforce_Master(n)
  BY <1>23 DEF enforce_Master, Goto
<1>24. CASE enforce_Promote(n)
  BY <1>24 DEF enforce_Promote, Goto
<1>25. CASE demote_Stop(n)
  BY <1>25 DEF demote_Stop, Goto
<1>26. CASE release_leader_key(n)
  BY <1>26 DEF release_leader_key, ReleaseKey, DeleteKey, Fault, Goto
<1>27. CASE demote_Start(n)
  BY <1>27 DEF demote_Start, busy, Fault, Goto
<1>28. CASE offline_Start(n)
  BY <1>28 DEF offline_Start, Fault, Goto
<1>29. CASE promote_Task(n)
  BY <1>29 DEF promote_Task, Fault, BgGoto
<1>30. CASE promote_Failover(n)
  BY <1>30 DEF promote_Failover, Fault, BgGoto
<1>31. CASE promote_SetRole(n)
  BY <1>31 DEF promote_SetRole, BgGoto
<1>32. CASE promote_Wait(n)
  BY <1>32 DEF promote_Wait, BgGoto
<1>33. CASE demote_graceful_Stop(n)
  BY <1>33 DEF demote_graceful_Stop, BgGoto
<1>34. CASE demote_graceful_Release(n)
  BY <1>34 DEF demote_graceful_Release, ReleaseKey, DeleteKey, Fault, BgGoto
<1>35. CASE demote_graceful_Follow(n)
  BY <1>35 DEF demote_graceful_Follow, Fault, BgGoto
<1>36. CASE start(n)
  BY <1>36 DEF start, Fault, BgGoto
<1>37. CASE bg_Ends(n)
  BY <1>37 DEF bg_Ends, BgGoto
<1>q. QED
  BY <1>1, <1>2, <1>3, <1>4, <1>5, <1>6, <1>7, <1>8, <1>9, <1>10, <1>11,
     <1>12, <1>13, <1>14, <1>15, <1>16, <1>17, <1>18, <1>19, <1>20, <1>21,
     <1>22, <1>23, <1>24, <1>25, <1>26, <1>27, <1>28, <1>29, <1>30, <1>31,
     <1>32, <1>33, <1>34, <1>35, <1>36, <1>37
  DEF Node, HaLoop, Worker

\* Every step of a node keeps WinnerInv: gs_ctl failover runs under a tenure
\* of its own node.
LEMMA NodeKeepsWinnerInv ==
    ASSUME TypeOK, TermInv, WinnerInv, NEW n \in Nodes, Node(n)
    PROVE  WinnerInv'
<1> USE HaAssumption DEF TypeOK, TermInv, WinnerInv, OnePromotionPerTenure,
                         PromoteSteps,
                         dcsVars, envVars, flagVars, recoverVars
<1>1. CASE PgDies(n)
  BY <1>1 DEF PgDies, Fault
<1>2. CASE BackoffEnds(n)
  BY <1>2 DEF BackoffEnds
<1>3. CASE DcsError(n)
  BY <1>3 DEF DcsError, Fault, DemoteOrSleep, Goto
<1>4. CASE enforce_WatchdogFails(n)
  BY <1>4 DEF enforce_WatchdogFails, Fault, Goto
<1>5. CASE load_cluster_from_dcs(n)
  BY <1>5 DEF load_cluster_from_dcs, Goto
<1>6. CASE long_action_WithLock(n)
  BY <1>6 DEF long_action_WithLock, busy, LockUpdated, UpdateKey, Goto
<1>7. CASE long_action_WithoutLock(n)
  BY <1>7 DEF long_action_WithoutLock, busy, LockNotUpdated, Fault, Goto
<1>8. CASE post_recover(n)
  BY <1>8 DEF post_recover, busy, ReleaseKey, DeleteKey, Fault, Goto
<1>9. CASE recover_FailsOver(n)
  BY <1>9 DEF recover_FailsOver, busy, LockUpdated, UpdateKey, Goto
<1>10. CASE recover_SingleUser(n)
  BY <1>10 DEF recover_SingleUser, busy, Goto
<1>11. CASE recover(n)
  BY <1>11 DEF recover, busy, LockUpdated, UpdateKey, LockNotUpdated, Fault,
               Goto
<1>12. CASE acquire_lock(n)
  BY <1>12 DEF acquire_lock, Healthy, busy, CreateKey, Goto
<1>13. CASE acquire_lock_Fails(n)
  BY <1>13 DEF acquire_lock_Fails, Healthy, busy, CreateKey, Fault,
               DemoteOrSleep, Goto
<1>14. CASE follow_NoLeader(n)
  BY <1>14 DEF follow_NoLeader, Healthy, busy, DemoteOrSleep, Goto
<1>15. CASE follow(n)
  BY <1>15 DEF follow, Healthy, busy, DemoteOrSleep, Goto
<1>16. CASE follow_Restart(n)
  BY <1>16 DEF follow_Restart, Healthy, busy, Fault, Goto
<1>17. CASE load_again_DcsError(n)
  BY <1>17 DEF load_again_DcsError, Healthy, busy, Fault, DemoteOrSleep,
               Goto
<1>18. CASE process_manual_failover_from_leader(n)
  BY <1>18 DEF process_manual_failover_from_leader, Healthy, busy,
               UpdateKey, Goto
<1>19. CASE update_lock(n)
  BY <1>19 DEF update_lock, Healthy, busy, LockUpdated, UpdateKey, Goto
<1>20. CASE update_lock_Fails(n)
  BY <1>20 DEF update_lock_Fails, Healthy, busy, LockNotUpdated, Fault,
               DemoteOrSleep, Goto
<1>21. CASE acquired(n)
  BY <1>21 DEF acquired, Goto
<1>22. CASE enforce_PrePromoteFailed(n)
  BY <1>22 DEF enforce_PrePromoteFailed, ReleaseKey, DeleteKey, Fault, Goto
<1>23. CASE enforce_Master(n)
  BY <1>23 DEF enforce_Master, Goto
<1>24. CASE enforce_Promote(n)
  BY <1>24 DEF enforce_Promote, Goto
<1>25. CASE demote_Stop(n)
  BY <1>25 DEF demote_Stop, Goto
<1>26. CASE release_leader_key(n)
  BY <1>26 DEF release_leader_key, ReleaseKey, DeleteKey, Fault, Goto
<1>27. CASE demote_Start(n)
  BY <1>27 DEF demote_Start, busy, Fault, Goto
<1>28. CASE offline_Start(n)
  BY <1>28 DEF offline_Start, Fault, Goto
<1>29. CASE promote_Task(n)
  BY <1>29 DEF promote_Task, Fault, BgGoto
<1>30. CASE promote_Failover(n)
  BY <1>30 DEF promote_Failover, Fault, BgGoto
<1>31. CASE promote_SetRole(n)
  BY <1>31 DEF promote_SetRole, BgGoto
<1>32. CASE promote_Wait(n)
  BY <1>32 DEF promote_Wait, BgGoto
<1>33. CASE demote_graceful_Stop(n)
  BY <1>33 DEF demote_graceful_Stop, BgGoto
<1>34. CASE demote_graceful_Release(n)
  BY <1>34 DEF demote_graceful_Release, ReleaseKey, DeleteKey, Fault, BgGoto
<1>35. CASE demote_graceful_Follow(n)
  BY <1>35 DEF demote_graceful_Follow, Fault, BgGoto
<1>36. CASE start(n)
  BY <1>36 DEF start, Fault, BgGoto
<1>37. CASE bg_Ends(n)
  BY <1>37 DEF bg_Ends, BgGoto
<1>q. QED
  BY <1>1, <1>2, <1>3, <1>4, <1>5, <1>6, <1>7, <1>8, <1>9, <1>10, <1>11,
     <1>12, <1>13, <1>14, <1>15, <1>16, <1>17, <1>18, <1>19, <1>20, <1>21,
     <1>22, <1>23, <1>24, <1>25, <1>26, <1>27, <1>28, <1>29, <1>30, <1>31,
     <1>32, <1>33, <1>34, <1>35, <1>36, <1>37
  DEF Node, HaLoop, Worker

-----------------------------------------------------------------------------
(* One primary *)

\* Every step of a node keeps SafeInv in a quiet cluster.
LEMMA NodeKeepsSafeInv ==
    ASSUME TypeOK, TaskInv, Quiet, SafeInv, NEW n \in Nodes, Node(n)
    PROVE  SafeInv'
<1> USE HaAssumption DEF TypeOK, TaskInv, Quiet, SafeInv, KeyInv, StepInv, Early,
                         PromoteCommitted, PromoteSteps, DemoteSteps,
                         dcsVars, envVars, flagVars, recoverVars
<1>1. CASE PgDies(n)
  BY <1>1 DEF PgDies, Fault
<1>2. CASE BackoffEnds(n)
  BY <1>2 DEF BackoffEnds
<1>3. CASE DcsError(n)
  BY <1>3 DEF DcsError, Fault, DemoteOrSleep, Goto
<1>4. CASE enforce_WatchdogFails(n)
  BY <1>4 DEF enforce_WatchdogFails, Fault, Goto
<1>5. CASE load_cluster_from_dcs(n)
  BY <1>5 DEF load_cluster_from_dcs, Goto
<1>6. CASE long_action_WithLock(n)
  BY <1>6 DEF long_action_WithLock, busy, LockUpdated, UpdateKey, Goto
<1>7. CASE long_action_WithoutLock(n)
  BY <1>7 DEF long_action_WithoutLock, busy, LockNotUpdated, Fault, Goto
<1>8. CASE post_recover(n)
  BY <1>8 DEF post_recover, busy, ReleaseKey, DeleteKey, Fault, Goto
<1>9. CASE recover_FailsOver(n)
  BY <1>9 DEF recover_FailsOver, busy, LockUpdated, UpdateKey, Goto
<1>10. CASE recover_SingleUser(n)
  BY <1>10 DEF recover_SingleUser, busy, Goto
<1>11. CASE recover(n)
  BY <1>11 DEF recover, busy, LockUpdated, UpdateKey, LockNotUpdated, Fault,
               Goto
<1>12. CASE acquire_lock(n)
  BY <1>12 DEF acquire_lock, Healthy, busy, CreateKey, Goto
<1>13. CASE acquire_lock_Fails(n)
  BY <1>13 DEF acquire_lock_Fails, Healthy, busy, CreateKey, Fault,
               DemoteOrSleep, Goto
<1>14. CASE follow_NoLeader(n)
  BY <1>14 DEF follow_NoLeader, Healthy, busy, DemoteOrSleep, Goto
<1>15. CASE follow(n)
  BY <1>15 DEF follow, Healthy, busy, DemoteOrSleep, Goto
<1>16. CASE follow_Restart(n)
  BY <1>16 DEF follow_Restart, Healthy, busy, Fault, Goto
<1>17. CASE load_again_DcsError(n)
  BY <1>17 DEF load_again_DcsError, Healthy, busy, Fault, DemoteOrSleep,
               Goto
<1>18. CASE process_manual_failover_from_leader(n)
  BY <1>18 DEF process_manual_failover_from_leader, Healthy, busy,
               UpdateKey, Goto
<1>19. CASE update_lock(n)
  BY <1>19 DEF update_lock, Healthy, busy, LockUpdated, UpdateKey, Goto
<1>20. CASE update_lock_Fails(n)
  BY <1>20 DEF update_lock_Fails, Healthy, busy, LockNotUpdated, Fault,
               DemoteOrSleep, Goto
<1>21. CASE acquired(n)
  BY <1>21 DEF acquired, Goto
<1>22. CASE enforce_PrePromoteFailed(n)
  BY <1>22 DEF enforce_PrePromoteFailed, ReleaseKey, DeleteKey, Fault, Goto
<1>23. CASE enforce_Master(n)
  BY <1>23 DEF enforce_Master, Goto
<1>24. CASE enforce_Promote(n)
  BY <1>24 DEF enforce_Promote, Goto
<1>25. CASE demote_Stop(n)
  BY <1>25 DEF demote_Stop, Goto
<1>26. CASE release_leader_key(n)
  BY <1>26 DEF release_leader_key, ReleaseKey, DeleteKey, Fault, Goto
<1>27. CASE demote_Start(n)
  BY <1>27 DEF demote_Start, busy, Fault, Goto
<1>28. CASE offline_Start(n)
  BY <1>28 DEF offline_Start, Fault, Goto
<1>29. CASE promote_Task(n)
  BY <1>29 DEF promote_Task, Fault, BgGoto
<1>30. CASE promote_Failover(n)
  BY <1>30 DEF promote_Failover, Fault, BgGoto
<1>31. CASE promote_SetRole(n)
  BY <1>31 DEF promote_SetRole, BgGoto
<1>32. CASE promote_Wait(n)
  BY <1>32 DEF promote_Wait, BgGoto
<1>33. CASE demote_graceful_Stop(n)
  BY <1>33 DEF demote_graceful_Stop, BgGoto
<1>34. CASE demote_graceful_Release(n)
  BY <1>34 DEF demote_graceful_Release, ReleaseKey, DeleteKey, Fault, BgGoto
<1>35. CASE demote_graceful_Follow(n)
  BY <1>35 DEF demote_graceful_Follow, Fault, BgGoto
<1>36. CASE start(n)
  BY <1>36 DEF start, Fault, BgGoto
<1>37. CASE bg_Ends(n)
  BY <1>37 DEF bg_Ends, BgGoto
<1>q. QED
  BY <1>1, <1>2, <1>3, <1>4, <1>5, <1>6, <1>7, <1>8, <1>9, <1>10, <1>11,
     <1>12, <1>13, <1>14, <1>15, <1>16, <1>17, <1>18, <1>19, <1>20, <1>21,
     <1>22, <1>23, <1>24, <1>25, <1>26, <1>27, <1>28, <1>29, <1>30, <1>31,
     <1>32, <1>33, <1>34, <1>35, <1>36, <1>37
  DEF Node, HaLoop, Worker

-----------------------------------------------------------------------------
(* The theorems *)

(***************************************************************************)
(* The state of the loops, the workers and the databases (ha.py,           *)
(* postgresql/__init__.py) stays within its types.                         *)
(***************************************************************************)
THEOREM TypeCorrect == Spec => []TypeOK
<1>1. Init => TypeOK
  BY HaAssumption DEF Init, TypeOK, PCs, BgSteps
<1>2. TypeOK /\ [Next]_vars => TypeOK'
  <2> SUFFICES ASSUME TypeOK, [Next]_vars PROVE TypeOK'
    OBVIOUS
  <2>1. CASE Expire
    BY <2>1 DEF Expire, TypeOK, flagVars, recoverVars
  <2>2. CASE \E n \in Nodes : Node(n)
    BY <2>2, NodeKeepsTypes
  <2>3. CASE UNCHANGED vars
    BY <2>3 DEF TypeOK, vars
  <2>4. QED
    BY <2>1, <2>2, <2>3 DEF Next
<1>3. QED
  BY <1>1, <1>2, PTL DEF Spec

(***************************************************************************)
(* A promotion that handle_long_action_in_progress has cancelled never     *)
(* reaches gs_ctl failover (Postgresql.promote), for any number of nodes,  *)
(* faults and expiries of the key.                                         *)
(***************************************************************************)
THEOREM CancelledNeverPromotesHolds == Spec => []CancelledNeverPromotes
<1>1. Init => TaskInv
  BY DEF Init, TaskInv, PromoteCommitted
<1>2. TypeOK /\ TaskInv /\ [Next]_vars => TaskInv'
  <2> SUFFICES ASSUME TypeOK, TaskInv, [Next]_vars PROVE TaskInv'
    OBVIOUS
  <2>1. CASE Expire
    BY <2>1 DEF Expire, TaskInv, flagVars
  <2>2. CASE \E n \in Nodes : Node(n)
    BY <2>2, NodeKeepsTaskInv
  <2>3. CASE UNCHANGED vars
    BY <2>3 DEF TaskInv, vars
  <2>4. QED
    BY <2>1, <2>2, <2>3 DEF Next
<1>3. TaskInv => CancelledNeverPromotes
  BY DEF TaskInv, CancelledNeverPromotes, PromoteCommitted
<1>4. QED
  BY <1>1, <1>2, <1>3, TypeCorrect, PTL DEF Spec

(***************************************************************************)
(* No two nodes run gs_ctl failover on the strength of the same tenure of  *)
(* the leader key (Ha.acquire_lock, Ha.update_lock, Postgresql.promote),   *)
(* for any number of nodes, faults and expiries of the key.                *)
(***************************************************************************)
THEOREM OnePromotionPerTenureHolds == Spec => []OnePromotionPerTenure
<1>1. Init => TermInv /\ WinnerInv
  BY HaAssumption DEF Init, TermInv, WinnerInv, OnePromotionPerTenure, PromoteSteps
<1>2. TypeOK /\ TermInv /\ WinnerInv /\ [Next]_vars => TermInv' /\ WinnerInv'
  <2> SUFFICES ASSUME TypeOK, TermInv, WinnerInv, [Next]_vars
               PROVE  TermInv' /\ WinnerInv'
    OBVIOUS
  <2>1. CASE Expire
    BY <2>1 DEF Expire, TypeOK, TermInv, WinnerInv, OnePromotionPerTenure
  <2>2. CASE \E n \in Nodes : Node(n)
    BY <2>2, NodeKeepsTermInv, NodeKeepsWinnerInv
  <2>3. CASE UNCHANGED vars
    BY <2>3 DEF TermInv, WinnerInv, OnePromotionPerTenure, vars
  <2>4. QED
    BY <2>1, <2>2, <2>3 DEF Next
<1>3. WinnerInv => OnePromotionPerTenure
  BY DEF WinnerInv
<1>4. QED
  BY <1>1, <1>2, <1>3, TypeCorrect, PTL DEF Spec

(***************************************************************************)
(* As long as the key does not expire, no database crashes and the DCS     *)
(* answers within a demotion, two nodes never accept writes at the same    *)
(* time: through switchovers, failed and cancelled promotions, failed      *)
(* watchdogs and demotions in all modes (Ha.demote), whatever else fails,  *)
(* for any number of nodes and faults.                                     *)
(***************************************************************************)
THEOREM NoSplitBrainHolds == Quiet /\ Spec => []NoSplitBrain
<1> DEFINE IInv == Quiet /\ TaskInv /\ SafeInv
<1>1. Quiet /\ Init => IInv
  BY HaAssumption DEF Init, TaskInv, SafeInv, KeyInv, StepInv, Early, PromoteCommitted,
                      PromoteSteps, DemoteSteps
<1>2. TypeOK /\ IInv /\ [Next]_vars => IInv'
  <2> SUFFICES ASSUME TypeOK, IInv, [Next]_vars PROVE IInv'
    OBVIOUS
  <2>1. ~Expire
    BY DEF Expire, Quiet, TypeOK
  <2>2. CASE \E n \in Nodes : Node(n)
    <3> PICK n \in Nodes : Node(n)
      BY <2>2
    <3>1. TaskInv' /\ SafeInv'
      BY NodeKeepsTaskInv, NodeKeepsSafeInv
    <3>2. QED
      BY <3>1 DEF Quiet
  <2>3. CASE UNCHANGED vars
    BY <2>3 DEF Quiet, TaskInv, SafeInv, KeyInv, StepInv, vars
  <2>4. QED
    BY <2>1, <2>2, <2>3 DEF Next
<1>3. IInv => NoSplitBrain
  BY DEF SafeInv, KeyInv, NoSplitBrain, Primaries
<1>4. QED
  BY <1>1, <1>2, <1>3, TypeCorrect, PTL DEF Spec

=============================================================================
