----------------------------- MODULE HaFailover -----------------------------
(***************************************************************************)
(* The HA loop of every node of a cluster (patroni/ha.py), the leader key  *)
(* in the DCS that the loops compete for, and the background functions     *)
(* that promote, demote and start the databases                            *)
(* (patroni/postgresql/__init__.py).                                       *)
(*                                                                         *)
(* A step is one interaction with the DCS or one change of a database;     *)
(* the loops, the background workers and the DCS interleave between steps. *)
(* The executor's lock is held for a whole cycle, so that a worker can     *)
(* finish only between cycles.  Time is left out: the leader key may       *)
(* expire at any moment (a stalled or partitioned owner).                  *)
(*                                                                         *)
(* An initialised cluster with asynchronous replication that is neither    *)
(* paused nor a standby cluster.  Whether a replica is the healthiest node *)
(* is left open.  The database server (external) started without           *)
(* "-M standby" is not in recovery: it accepts writes.                     *)
(***************************************************************************)
EXTENDS Naturals

CONSTANTS
    Nodes,          \* the members of the cluster
    None,           \* no leader
    Faults,         \* the kinds of faults that happen (see FaultKinds)
    MaxFaults,      \* bound on their number
    MaxExpiries,    \* bound on the number of times the leader key expires
    MaxSwitchovers  \* bound on the number of requested switchovers

(***************************************************************************)
(*   "dcs"        the DCS fails to answer at the start of a cycle or to a  *)
(*                write, which it may have applied all the same;           *)
(*   "dcs_demote" it fails to answer between the stop and the start of a   *)
(*                database that is demoted;                                *)
(*   "promote"    the pre_promote script or gs_ctl failover fails;         *)
(*   "watchdog"   the watchdog cannot be activated;                        *)
(*   "crash"      a database dies or cannot be started.                    *)
(***************************************************************************)
FaultKinds == {"dcs", "dcs_demote", "promote", "watchdog", "crash"}

ASSUME HaAssumption ==
    /\ None \notin Nodes
    /\ Faults \subseteq FaultKinds
    /\ MaxFaults \in Nat
    /\ MaxExpiries \in Nat
    /\ MaxSwitchovers \in Nat

VARIABLES
    leader,       \* the leader key: its owner or None
    tenure,       \* how often the key has been created
    view,         \* Ha.cluster.leader of each node
    pc,           \* where each HA loop is
    pg,           \* each database
    role,         \* Postgresql.role
    bg,           \* the background function of each node and where it is
    response,     \* Ha._async_response: cancelled, or its result
    info,         \* Postgresql._cluster_info_state: primary or replica, as
                  \* the cycle has read it
    recovering,     \* the nodes with Ha.recovering
    crashRecovered, \* the nodes with Ha._crash_recovery_executed
    backoff,        \* the nodes that released the leader key voluntarily less
                    \* than ttl seconds ago
    term,         \* history: the tenure of each node's last acquire or update
    winners,      \* history: the tenures for which nodes ran gs_ctl failover
    faults, expiries, switchovers  \* how many there were

vars == <<leader, tenure, view, pc, pg, role, bg, response, info, recovering,
          crashRecovered, backoff, term, winners, faults, expiries,
          switchovers>>

dcsVars == <<leader, tenure, term>>
envVars == <<faults, expiries, switchovers>>
recoverVars == <<recovering, crashRecovered>>
flagVars == <<response, info, recoverVars, backoff>>

PCs == {"sleep", "cycle", "acquired", "enforce", "demote", "demoted",
        "demote_release", "demoted_release", "release", "offline",
        "offline_start"}
PromoteSteps == {"promote_pre", "promote_committed", "promote_done",
                 "promote_wait"}
DemoteSteps == {"demote_stop", "demote_release", "demote_follow"}
BgSteps == PromoteSteps \cup DemoteSteps
           \cup {"none", "start_standby", "start_normal", "ending"}

TypeOK ==
    /\ leader \in Nodes \cup {None}
    /\ tenure \in Nat
    /\ view \in [Nodes -> Nodes \cup {None}]
    /\ pc \in [Nodes -> PCs]
    /\ pg \in [Nodes -> {"replica", "primary", "down"}]
    /\ role \in [Nodes -> {"replica", "master", "demoted"}]
    /\ bg \in [Nodes -> BgSteps]
    /\ response \in [Nodes -> {"unset", "cancelled", "true", "false"}]
    /\ info \in [Nodes -> {"unset", "replica", "primary"}]
    /\ recovering \subseteq Nodes
    /\ crashRecovered \subseteq Nodes
    /\ backoff \subseteq Nodes
    /\ term \in [Nodes -> Nat]
    /\ winners \subseteq Nat \X Nodes
    /\ faults \in Nat
    /\ expiries \in Nat
    /\ switchovers \in Nat

\* A running cluster: one node has the key and is the primary.
Init ==
    /\ leader \in Nodes
    /\ tenure = 1
    /\ view = [n \in Nodes |-> leader]
    /\ pc = [n \in Nodes |-> "sleep"]
    /\ pg = [n \in Nodes |-> IF n = leader THEN "primary" ELSE "replica"]
    /\ role = [n \in Nodes |-> IF n = leader THEN "master" ELSE "replica"]
    /\ bg = [n \in Nodes |-> "none"]
    /\ response = [n \in Nodes |-> "unset"]
    /\ info = [n \in Nodes |-> "unset"]
    /\ recovering = {}
    /\ crashRecovered = {}
    /\ backoff = {}
    /\ term = [n \in Nodes |-> IF n = leader THEN 1 ELSE 0]
    /\ winners = {<<1, leader>>}
    /\ faults = 0
    /\ expiries = 0
    /\ switchovers = 0

-----------------------------------------------------------------------------
busy(n) == bg[n] /= "none"

\* One more fault of the given kind.
Fault(kind) ==
    /\ kind \in Faults
    /\ faults < MaxFaults
    /\ faults' = faults + 1
    /\ UNCHANGED <<expiries, switchovers>>

Goto(n, step) == pc' = [pc EXCEPT ![n] = step]

\* A primary that is not allowed to go on is demoted, anyone else goes on.
DemoteOrSleep(n, demote) == Goto(n, IF pg[n] = "primary" THEN demote ELSE "sleep")

\* A plausible bug: the key is written whether or not it exists.
CreateKey_Overwrites(n) ==
    /\ leader' = n
    /\ tenure' = IF leader = None THEN tenure + 1 ELSE tenure

(***************************************************************************)
(* The leader key in the DCS: attempt_to_acquire_leader creates it when    *)
(* there is none, update_leader renews it when the owner is unchanged,     *)
(* delete_leader removes it when the owner is unchanged.                   *)
(***************************************************************************)
CreateKey(n) ==
    /\ leader = None
    /\ leader' = n
    /\ tenure' = tenure + 1

UpdateKey(n) ==
    /\ leader = n
    /\ UNCHANGED <<leader, tenure>>

DeleteKey(n) ==
    /\ leader' = IF leader = n THEN None ELSE leader
    /\ UNCHANGED <<tenure, term>>

\* _delete_leader: the key is deleted, or the DCS cannot be reached.
ReleaseKey(n) ==
    \/ DeleteKey(n) /\ UNCHANGED envVars
    \/ Fault("dcs") /\ UNCHANGED dcsVars

(***************************************************************************)
(* The key is not renewed in time (external).                              *)
(***************************************************************************)
Expire ==
    /\ leader /= None
    /\ expiries < MaxExpiries
    /\ leader' = None
    /\ expiries' = expiries + 1
    /\ UNCHANGED <<tenure, term, view, pc, pg, role, bg, flagVars, winners,
                   faults, switchovers>>

(***************************************************************************)
(* A database dies (external).                                             *)
(***************************************************************************)
PgDies(n) ==
    /\ pg[n] /= "down"
    /\ Fault("crash")
    /\ pg' = [pg EXCEPT ![n] = "down"]
    /\ UNCHANGED <<dcsVars, view, pc, role, bg, flagVars, winners>>

(***************************************************************************)
(* ttl seconds have passed since the key was released because of the       *)
(* pre_promote script.                                                     *)
(***************************************************************************)
BackoffEnds(n) ==
    /\ n \in backoff
    /\ backoff' = backoff \ {n}
    /\ UNCHANGED <<dcsVars, view, pc, pg, role, bg, response, info,
                   recoverVars, winners, envVars>>

-----------------------------------------------------------------------------
(* The HA loop: one cycle *)

(***************************************************************************)
(* _run_cycle forgets what it knew of the database and begins with         *)
(* load_cluster_from_dcs ...                                               *)
(***************************************************************************)
load_cluster_from_dcs(n) ==
    /\ pc[n] = "sleep"
    /\ view' = [view EXCEPT ![n] = leader]
    /\ info' = [info EXCEPT ![n] = "unset"]
    /\ Goto(n, "cycle")
    /\ UNCHANGED <<dcsVars, pg, role, bg, response, recoverVars, backoff,
                   winners, envVars>>

(***************************************************************************)
(* ... or with a DCSError, which demotes a primary (mode offline).  The    *)
(* second load, after acquire_lock, may raise it too.                      *)
(***************************************************************************)
DcsError(n) ==
    /\ pc[n] \in {"sleep", "acquired"}
    /\ Fault("dcs")
    /\ DemoteOrSleep(n, "offline")
    /\ UNCHANGED <<dcsVars, view, pg, role, bg, flagVars, winners>>

\* update_lock succeeds.
LockUpdated(n) ==
    /\ view[n] = n
    /\ UpdateKey(n)
    /\ term' = [term EXCEPT ![n] = tenure]
    /\ UNCHANGED envVars

\* The node has no lock to update, or the key is not its own any more, or no
\* answer comes (a renewal that was applied all the same only moves the
\* expiry of the key).
LockNotUpdated(n) ==
    \/ view[n] /= n /\ UNCHANGED <<dcsVars, envVars>>
    \/ view[n] = n /\ leader /= n /\ UNCHANGED <<dcsVars, envVars>>
    \/ view[n] = n /\ Fault("dcs") /\ UNCHANGED dcsVars

(***************************************************************************)
(* handle_long_action_in_progress: with the lock, wait.                    *)
(***************************************************************************)
long_action_WithLock(n) ==
    /\ pc[n] = "cycle"
    /\ busy(n)
    /\ LockUpdated(n)
    /\ Goto(n, "sleep")
    /\ UNCHANGED <<view, pg, role, bg, flagVars, winners>>

(***************************************************************************)
(* handle_long_action_in_progress without the lock: cancel a promote whose *)
(* task is not complete, else demote a master.                             *)
(***************************************************************************)
long_action_WithoutLock(n) ==
    /\ pc[n] = "cycle"
    /\ busy(n)
    /\ LockNotUpdated(n)
    /\ IF bg[n] \in PromoteSteps /\ response[n] \in {"unset", "cancelled"}
       THEN /\ response' = [response EXCEPT ![n] = "cancelled"]
            /\ Goto(n, "sleep")
       ELSE /\ Goto(n, IF role[n] = "master" THEN "demote" ELSE "sleep")
            /\ UNCHANGED response
    /\ UNCHANGED <<view, pg, role, bg, info, recoverVars, backoff, winners>>

\* A plausible bug: the flag is not reset when the start has failed.
post_recover_KeepsFlag(n) ==
    /\ pc[n] = "cycle"
    /\ ~busy(n)
    /\ n \in recovering /\ pg[n] = "down"
    /\ Goto(n, "sleep")
    /\ IF view[n] = n THEN ReleaseKey(n) ELSE UNCHANGED <<dcsVars, envVars>>
    /\ UNCHANGED <<view, pg, role, bg, flagVars, winners>>

(***************************************************************************)
(* post_recover: starting the database has failed; the key, if it is ours, *)
(* is removed.                                                             *)
(***************************************************************************)
post_recover(n) ==
    /\ pc[n] = "cycle"
    /\ ~busy(n)
    /\ n \in recovering /\ pg[n] = "down"
    /\ recovering' = recovering \ {n}
    /\ IF view[n] = n
       THEN /\ role' = [role EXCEPT ![n] = IF @ = "master" THEN "demoted" ELSE @]
            /\ ReleaseKey(n)
       ELSE UNCHANGED <<role, dcsVars, envVars>>
    /\ Goto(n, "sleep")
    /\ UNCHANGED <<view, pg, bg, response, info, crashRecovered, backoff, winners>>

(***************************************************************************)
(* recover with the lock and master_start_timeout = 0: fail over to        *)
(* another node.                                                           *)
(***************************************************************************)
recover_FailsOver(n) ==
    /\ pc[n] = "cycle"
    /\ ~busy(n)
    /\ n \notin recovering /\ pg[n] = "down"
    /\ LockUpdated(n)
    /\ Goto(n, "demote_release")
    /\ UNCHANGED <<view, pg, role, bg, flagVars, winners>>

(***************************************************************************)
(* recover of a database that was not shut down cleanly while there is no  *)
(* leader: once, crash recovery in a single user mode, in the background.  *)
(* (There is no pg_rewind for this server.)                                *)
(***************************************************************************)
recover_SingleUser(n) ==
    /\ pc[n] = "cycle"
    /\ ~busy(n)
    /\ n \notin recovering /\ pg[n] = "down"
    /\ view[n] = None
    /\ n \notin crashRecovered
    /\ crashRecovered' = crashRecovered \cup {n}
    /\ bg' = [bg EXCEPT ![n] = "ending"]
    /\ Goto(n, "sleep")
    /\ UNCHANGED <<dcsVars, view, pg, role, response, info, recovering, backoff,
                   winners, envVars>>

(***************************************************************************)
(* recover: renew the lock, load the cluster again, and start the database *)
(* in the background: as a standby only when another node has the key.     *)
(***************************************************************************)
recover(n) ==
    /\ pc[n] = "cycle"
    /\ ~busy(n)
    /\ n \notin recovering /\ pg[n] = "down"
    /\ LockUpdated(n) \/ LockNotUpdated(n)
    /\ view' = [view EXCEPT ![n] = leader]
    /\ bg' = [bg EXCEPT ![n] = IF leader \in {None, n} THEN "start_normal"
                                                       ELSE "start_standby"]
    /\ recovering' = recovering \cup {n}
    /\ Goto(n, "sleep")
    /\ UNCHANGED <<pg, role, response, info, crashRecovered, backoff, winners>>

\* The cycle reaches process_(un)healthy_cluster, where it asks the database
\* for its role.  A recovery that was under way has succeeded.
Healthy(n) ==
    /\ pc[n] = "cycle"
    /\ ~busy(n)
    /\ pg[n] /= "down"
    /\ info' = [info EXCEPT ![n] = pg[n]]
    /\ recovering' = recovering \ {n}
    /\ crashRecovered' = IF n \in recovering THEN crashRecovered \ {n}
                                           ELSE crashRecovered

(***************************************************************************)
(* process_unhealthy_cluster of a node that takes itself for the           *)
(* healthiest: acquire_lock succeeds.                                      *)
(***************************************************************************)
acquire_lock(n) ==
    /\ Healthy(n)
    /\ view[n] = None
    /\ n \notin backoff
    /\ CreateKey(n)
    /\ term' = [term EXCEPT ![n] = tenure']
    /\ Goto(n, "acquired")
    /\ UNCHANGED <<view, pg, role, bg, response, backoff, winners, envVars>>

(***************************************************************************)
(* acquire_lock fails: somebody was faster, or the answer was lost.        *)
(* follow loads the cluster again and demotes a primary.                   *)
(***************************************************************************)
acquire_lock_Fails(n) ==
    /\ Healthy(n)
    /\ view[n] = None
    /\ n \notin backoff
    /\ \/ leader /= None /\ UNCHANGED <<dcsVars, envVars>>
       \/ Fault("dcs") /\ CreateKey(n) /\ UNCHANGED term
       \/ Fault("dcs") /\ UNCHANGED dcsVars
    /\ view' = [view EXCEPT ![n] = leader']
    /\ DemoteOrSleep(n, "demote")
    /\ UNCHANGED <<pg, role, bg, response, backoff, winners>>

(***************************************************************************)
(* process_unhealthy_cluster of a node that is not the healthiest.  A      *)
(* database that is not in recovery always is, unless it is in backoff.    *)
(***************************************************************************)
follow_NoLeader(n) ==
    /\ Healthy(n)
    /\ view[n] = None
    /\ pg[n] = "primary" => n \in backoff
    /\ view' = [view EXCEPT ![n] = leader]
    /\ DemoteOrSleep(n, "demote")
    /\ UNCHANGED <<dcsVars, pg, role, bg, response, backoff, winners, envVars>>

\* A plausible bug: a database that still accepts writes is left alone.
follow_NoDemote(n) ==
    /\ Healthy(n)
    /\ view[n] \notin {None, n}
    /\ Goto(n, "sleep")
    /\ UNCHANGED <<dcsVars, view, pg, role, bg, response, backoff, winners,
                   envVars>>

(***************************************************************************)
(* process_healthy_cluster, another node has the key: follow.              *)
(***************************************************************************)
follow(n) ==
    /\ Healthy(n)
    /\ view[n] \notin {None, n}
    /\ DemoteOrSleep(n, "demote")
    /\ UNCHANGED <<dcsVars, view, pg, role, bg, response, backoff, winners,
                   envVars>>

(***************************************************************************)
(* The end of follow, after acquire_lock has failed or not been tried: a   *)
(* replica whose server does not answer gs_ctl is restarted as a standby   *)
(* in the background.  (One that is rebuilt remains a replica.)            *)
(***************************************************************************)
follow_Restart(n) ==
    /\ Healthy(n)
    /\ view[n] /= n
    /\ pg[n] = "replica"
    /\ Fault("crash")
    /\ view' = [view EXCEPT ![n] = IF @ = None THEN leader ELSE @]
    /\ bg' = [bg EXCEPT ![n] = "start_standby"]
    /\ Goto(n, "sleep")
    /\ UNCHANGED <<dcsVars, pg, role, response, backoff, winners>>

(***************************************************************************)
(* recover and follow load the cluster a second time in the cycle; the     *)
(* DCSError they may raise demotes a primary (mode offline).               *)
(***************************************************************************)
load_again_DcsError(n) ==
    /\ \/ Healthy(n) /\ view[n] = None
       \/ /\ pc[n] = "cycle"
          /\ ~busy(n)
          /\ n \notin recovering /\ pg[n] = "down"
          /\ UNCHANGED <<info, recoverVars>>
    /\ Fault("dcs")
    /\ DemoteOrSleep(n, "offline")
    /\ UNCHANGED <<dcsVars, view, pg, role, bg, response, backoff, winners>>

(***************************************************************************)
(* process_healthy_cluster, this node has the key and update_lock          *)
(* succeeds: a requested switchover starts a graceful demotion ...         *)
(***************************************************************************)
process_manual_failover_from_leader(n) ==
    /\ Healthy(n)
    /\ view[n] = n
    /\ UpdateKey(n)
    /\ term' = [term EXCEPT ![n] = tenure]
    /\ switchovers < MaxSwitchovers
    /\ switchovers' = switchovers + 1
    /\ bg' = [bg EXCEPT ![n] = "demote_stop"]
    /\ Goto(n, "sleep")
    /\ UNCHANGED <<view, pg, role, response, backoff, winners, faults, expiries>>

(***************************************************************************)
(* ... otherwise enforce_master_role is next.                              *)
(***************************************************************************)
update_lock(n) ==
    /\ Healthy(n)
    /\ view[n] = n
    /\ LockUpdated(n)
    /\ Goto(n, "enforce")
    /\ UNCHANGED <<view, pg, role, bg, response, backoff, winners>>

(***************************************************************************)
(* process_healthy_cluster, update_lock fails: demote a primary.           *)
(***************************************************************************)
update_lock_Fails(n) ==
    /\ Healthy(n)
    /\ view[n] = n
    /\ LockNotUpdated(n)
    /\ DemoteOrSleep(n, "demote")
    /\ UNCHANGED <<view, pg, role, bg, response, backoff, winners>>

(***************************************************************************)
(* After acquire_lock: load_cluster_from_dcs, then enforce_master_role     *)
(* without another look at the lock.                                       *)
(***************************************************************************)
acquired(n) ==
    /\ pc[n] = "acquired"
    /\ view' = [view EXCEPT ![n] = leader]
    /\ Goto(n, "enforce")
    /\ UNCHANGED <<dcsVars, pg, role, bg, flagVars, winners, envVars>>

(***************************************************************************)
(* enforce_master_role: the watchdog cannot be activated.                  *)
(***************************************************************************)
enforce_WatchdogFails(n) ==
    /\ pc[n] = "enforce"
    /\ Fault("watchdog")
    /\ Goto(n, IF info[n] = "primary" THEN "demote_release" ELSE "release")
    /\ UNCHANGED <<dcsVars, view, pg, role, bg, flagVars, winners>>

(***************************************************************************)
(* enforce_master_role: the last pre_promote script has failed, the key is *)
(* released voluntarily.                                                   *)
(***************************************************************************)
enforce_PrePromoteFailed(n) ==
    /\ pc[n] = "enforce"
    /\ response[n] = "false"
    /\ ReleaseKey(n)
    /\ response' = [response EXCEPT ![n] = "unset"]
    /\ backoff' = backoff \cup {n}
    /\ Goto(n, "sleep")
    /\ UNCHANGED <<view, pg, role, bg, info, recoverVars, winners>>

(***************************************************************************)
(* enforce_master_role of a master: check_and_repair_leader stops and      *)
(* starts (as a primary) a database that is not the primary.               *)
(***************************************************************************)
enforce_Master(n) ==
    /\ pc[n] = "enforce"
    /\ response[n] /= "false"
    /\ info[n] = "primary" \/ role[n] = "master"
    /\ pg' = [pg EXCEPT ![n] = "primary"]
    /\ role' = [role EXCEPT ![n] = "master"]
    /\ Goto(n, "sleep")
    /\ UNCHANGED <<dcsVars, view, bg, flagVars, winners, envVars>>

(***************************************************************************)
(* enforce_master_role of a replica: reset the task, promote in the        *)
(* background.                                                             *)
(***************************************************************************)
enforce_Promote(n) ==
    /\ pc[n] = "enforce"
    /\ response[n] /= "false"
    /\ info[n] /= "primary" /\ role[n] /= "master"
    /\ response' = [response EXCEPT ![n] = "unset"]
    /\ bg' = [bg EXCEPT ![n] = "promote_pre"]
    /\ Goto(n, "sleep")
    /\ UNCHANGED <<dcsVars, view, pg, role, info, recoverVars, backoff, winners,
                   envVars>>

-----------------------------------------------------------------------------
(* demote in the HA loop's own thread *)

(***************************************************************************)
(* Stop the database, in the modes immediate-nolock, immediate, offline.   *)
(***************************************************************************)
demote_Stop(n) ==
    /\ pg' = [pg EXCEPT ![n] = "down"]
    /\ role' = [role EXCEPT ![n] = "demoted"]
    /\ \/ pc[n] = "demote" /\ Goto(n, "demoted")
       \/ pc[n] = "demote_release" /\ Goto(n, "demoted_release")
       \/ pc[n] = "offline" /\ Goto(n, "offline_start")
    /\ UNCHANGED <<dcsVars, view, bg, flagVars, winners, envVars>>

(***************************************************************************)
(* release_leader_key_voluntarily; the DCS may fail to answer.             *)
(***************************************************************************)
release_leader_key(n) ==
    /\ pc[n] \in {"release", "demoted_release"}
    /\ ReleaseKey(n)
    /\ Goto(n, IF pc[n] = "release" THEN "sleep" ELSE "demoted")
    /\ UNCHANGED <<view, pg, role, bg, flagVars, winners>>

(***************************************************************************)
(* Start it again as a standby in the background, unless the executor is   *)
(* busy or the DCS cannot be asked whom to follow.                         *)
(***************************************************************************)
demote_Start(n) ==
    /\ pc[n] = "demoted"
    /\ \/ /\ bg' = [bg EXCEPT ![n] = IF busy(n) THEN @ ELSE "start_standby"]
          /\ UNCHANGED envVars
       \/ Fault("dcs_demote") /\ UNCHANGED bg
    /\ Goto(n, "sleep")
    /\ UNCHANGED <<dcsVars, view, pg, role, flagVars, winners>>

(***************************************************************************)
(* Mode offline starts it in the HA loop's thread.                         *)
(***************************************************************************)
offline_Start(n) ==
    /\ pc[n] = "offline_start"
    /\ \/ /\ pg' = [pg EXCEPT ![n] = "replica"]
          /\ UNCHANGED envVars
       \/ Fault("crash") /\ UNCHANGED pg
    /\ role' = [role EXCEPT ![n] = "replica"]
    /\ Goto(n, "sleep")
    /\ UNCHANGED <<dcsVars, view, bg, flagVars, winners>>

-----------------------------------------------------------------------------
(* The background workers *)

BgGoto(n, step) == bg' = [bg EXCEPT ![n] = step]

\* A plausible bug: the task's flag is not looked at.
promote_Task_IgnoresCancel(n) ==
    /\ bg[n] = "promote_pre"
    /\ BgGoto(n, "promote_committed")
    /\ UNCHANGED <<response, envVars>>
    /\ UNCHANGED <<dcsVars, view, pc, pg, role, info, recoverVars, backoff,
                   winners>>

(***************************************************************************)
(* Postgresql.promote: nothing to do for a master; otherwise, when         *)
(* pre_promote is over, the task is completed with its result unless it    *)
(* has been cancelled.                                                     *)
(***************************************************************************)
promote_Task(n) ==
    /\ bg[n] = "promote_pre"
    /\ \/ /\ role[n] = "master" \/ response[n] = "cancelled"
          /\ BgGoto(n, "ending")
          /\ UNCHANGED <<response, envVars>>
       \/ /\ role[n] /= "master" /\ response[n] /= "cancelled"
          /\ BgGoto(n, "promote_committed")
          /\ response' = [response EXCEPT ![n] = "true"]
          /\ UNCHANGED envVars
       \/ /\ role[n] /= "master" /\ response[n] /= "cancelled"
          /\ Fault("promote")
          /\ BgGoto(n, "ending")
          /\ response' = [response EXCEPT ![n] = "false"]
    /\ UNCHANGED <<dcsVars, view, pc, pg, role, info, recoverVars, backoff,
                   winners>>

(***************************************************************************)
(* gs_ctl failover.                                                        *)
(***************************************************************************)
promote_Failover(n) ==
    /\ bg[n] = "promote_committed"
    /\ \/ /\ pg[n] /= "down"
          /\ pg' = [pg EXCEPT ![n] = "primary"]
          /\ winners' = winners \cup {<<term[n], n>>}
          /\ BgGoto(n, "promote_done")
          /\ UNCHANGED envVars
       \/ /\ pg[n] = "down"
          /\ BgGoto(n, "ending")
          /\ UNCHANGED <<pg, winners, envVars>>
       \/ /\ Fault("promote")
          /\ BgGoto(n, "ending")
          /\ UNCHANGED <<pg, winners>>
    /\ UNCHANGED <<dcsVars, view, pc, role, flagVars>>

(***************************************************************************)
(* set_role('master') once gs_ctl has returned, then _wait_promote.        *)
(***************************************************************************)
promote_SetRole(n) ==
    /\ bg[n] = "promote_done"
    /\ role' = [role EXCEPT ![n] = "master"]
    /\ BgGoto(n, "promote_wait")
    /\ UNCHANGED <<dcsVars, view, pc, pg, flagVars, winners, envVars>>

promote_Wait(n) ==
    /\ bg[n] = "promote_wait"
    /\ BgGoto(n, "ending")
    /\ UNCHANGED <<dcsVars, view, pc, pg, role, flagVars, winners, envVars>>

\* A plausible bug: the key is given away before the database is stopped.
demote_graceful_Stop_Late(n) ==
    /\ bg[n] = "demote_stop"
    /\ BgGoto(n, "demote_release")
    /\ UNCHANGED <<dcsVars, view, pc, pg, role, flagVars, winners, envVars>>

(***************************************************************************)
(* demote('graceful'): stop the database ...                               *)
(***************************************************************************)
demote_graceful_Stop(n) ==
    /\ bg[n] = "demote_stop"
    /\ pg' = [pg EXCEPT ![n] = "down"]
    /\ role' = [role EXCEPT ![n] = "demoted"]
    /\ BgGoto(n, "demote_release")
    /\ UNCHANGED <<dcsVars, view, pc, flagVars, winners, envVars>>

(***************************************************************************)
(* ... release the leader key, under the executor's lock ...               *)
(***************************************************************************)
demote_graceful_Release(n) ==
    /\ bg[n] = "demote_release"
    /\ pc[n] = "sleep"
    /\ ReleaseKey(n)
    /\ BgGoto(n, "demote_follow")
    /\ UNCHANGED <<view, pc, pg, role, flagVars, winners>>

(***************************************************************************)
(* ... and start the database as a standby.                                *)
(***************************************************************************)
demote_graceful_Follow(n) ==
    /\ bg[n] = "demote_follow"
    /\ \/ BgGoto(n, "start_standby") /\ UNCHANGED envVars
       \/ Fault("dcs_demote") /\ BgGoto(n, "ending")
    /\ UNCHANGED <<dcsVars, view, pc, pg, role, flagVars, winners>>

(***************************************************************************)
(* Postgresql.follow starts or restarts the database, with or without      *)
(* "-M standby".                                                           *)
(***************************************************************************)
start(n) ==
    /\ bg[n] \in {"start_standby", "start_normal"}
    /\ role' = [role EXCEPT ![n] = "replica"]
    /\ \/ /\ pg' = [pg EXCEPT ![n] = IF bg[n] = "start_standby"
                                     THEN "replica" ELSE "primary"]
          /\ UNCHANGED envVars
       \/ /\ Fault("crash")
          /\ pg' = [pg EXCEPT ![n] = "down"]
    /\ BgGoto(n, "ending")
    /\ UNCHANGED <<dcsVars, view, pc, flagVars, winners>>

(***************************************************************************)
(* AsyncExecutor.run ends, under the executor's lock.                      *)
(***************************************************************************)
bg_Ends(n) ==
    /\ bg[n] = "ending"
    /\ pc[n] = "sleep"
    /\ BgGoto(n, "none")
    /\ UNCHANGED <<dcsVars, view, pc, pg, role, flagVars, winners, envVars>>

-----------------------------------------------------------------------------
HaLoop(n) ==
    \/ load_cluster_from_dcs(n)
    \/ long_action_WithLock(n)
    \/ long_action_WithoutLock(n)
    \/ post_recover(n)
    \/ recover_FailsOver(n)
    \/ recover_SingleUser(n)
    \/ recover(n)
    \/ acquire_lock(n)
    \/ acquire_lock_Fails(n)
    \/ follow_NoLeader(n)
    \/ follow(n)
    \/ follow_Restart(n)
    \/ load_again_DcsError(n)
    \/ process_manual_failover_from_leader(n)
    \/ update_lock(n)
    \/ update_lock_Fails(n)
    \/ acquired(n)
    \/ enforce_PrePromoteFailed(n)
    \/ enforce_Master(n)
    \/ enforce_Promote(n)
    \/ demote_Stop(n)
    \/ release_leader_key(n)
    \/ demote_Start(n)
    \/ offline_Start(n)

Worker(n) ==
    \/ promote_Task(n)
    \/ promote_Failover(n)
    \/ promote_SetRole(n)
    \/ promote_Wait(n)
    \/ demote_graceful_Stop(n)
    \/ demote_graceful_Release(n)
    \/ demote_graceful_Follow(n)
    \/ start(n)
    \/ bg_Ends(n)

Node(n) ==
    \/ PgDies(n)
    \/ BackoffEnds(n)
    \/ DcsError(n)
    \/ enforce_WatchdogFails(n)
    \/ HaLoop(n)
    \/ Worker(n)

Next ==
    \/ Expire
    \/ \E n \in Nodes : Node(n)

Spec == Init /\ [][Next]_vars

(***************************************************************************)
(* Every HA loop and every worker keeps running, the backoff passes, and a *)
(* worker gets the executor's lock between cycles.  A node that again and  *)
(* again could take the free key takes it: in a quiet cluster the most     *)
(* advanced replica passes is_healthiest_node in every cycle.              *)
(***************************************************************************)
Fairness ==
    \A n \in Nodes :
        /\ WF_vars(HaLoop(n))
        /\ SF_vars(Worker(n))
        /\ WF_vars(BackoffEnds(n))
        /\ SF_vars(acquire_lock(n))

FairSpec == Spec /\ Fairness

-----------------------------------------------------------------------------
(* Properties *)

Primaries == {n \in Nodes : pg[n] = "primary"}

(***************************************************************************)
(* Two nodes never accept writes at the same time.                         *)
(***************************************************************************)
NoSplitBrain == \A m, n \in Primaries : m = n

(***************************************************************************)
(* No two nodes run gs_ctl failover on the strength of the same tenure of  *)
(* the leader key, however late the background promotion comes.            *)
(***************************************************************************)
OnePromotionPerTenure == \A v, w \in winners : v[1] = w[1] => v[2] = w[2]

(***************************************************************************)
(* A promotion that handle_long_action_in_progress has cancelled ("lost    *)
(* leader before promote") never reaches gs_ctl failover.                  *)
(***************************************************************************)
CancelledNeverPromotes ==
    \A n \in Nodes :
        response[n] = "cancelled" =>
            bg[n] \notin {"promote_committed", "promote_done", "promote_wait"}

(***************************************************************************)
(* A node that accepts writes without the leader key stops doing so, or    *)
(* gets the key back.                                                      *)
(***************************************************************************)
LostKeyEndsPrimary ==
    \A n \in Nodes : pg[n] = "primary" /\ leader /= n
                        ~> pg[n] /= "primary" \/ leader = n

(***************************************************************************)
(* When the faults are over the cluster settles: one node has the key for  *)
(* good and is the only primary, the others are replicas.                  *)
(***************************************************************************)
Settles ==
    <>[](\E n \in Nodes : leader = n /\ pg = [m \in Nodes |->
                             IF m = n THEN "primary" ELSE "replica"])

=============================================================================
