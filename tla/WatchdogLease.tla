---------------------------- MODULE WatchdogLease ----------------------------
(***************************************************************************)
(* The leader key's lease against the watchdog, on one node, with time.    *)
(*                                                                         *)
(* The node's HA loop (patroni/ha.py) renews the leader key in the DCS and *)
(* afterwards sends a keepalive to the watchdog (patroni/watchdog), which  *)
(* resets the host when keepalives stop.  Between any two steps the        *)
(* process may be suspended, or wait for an answer, for any time: Tick is  *)
(* enabled between all steps.  Clocks of the node and of the DCS advance   *)
(* at the same rate.  What other nodes do is left open: when the key has   *)
(* expired they may or may not have taken it.  Pause mode, in which the    *)
(* watchdog is off, and changes of ttl at run time are left out.           *)
(***************************************************************************)
EXTENDS Integers

CONSTANTS
    TTL,           \* ttl of the leader key
    SafetyMargin,  \* watchdog.safety_margin; -1 asks for half of the TTL
    LoopWait,      \* loop_wait
    Prompt,        \* the delays that are assumed to stay within the margin:
                   \* "renew", from the renewal of the key to the keepalive;
                   \* "activate", from the key to the watchdog's activation
    MaxRestarts,   \* bound on the times Patroni starts a dead database
    Horizon        \* bound on the time

(***************************************************************************)
(* WatchdogConfig.timeout and timing_slack.                                *)
(***************************************************************************)
timeout == IF SafetyMargin = -1 THEN TTL \div 2 ELSE TTL - SafetyMargin
timing_slack == timeout - LoopWait

\* activate refuses (in mode "required") when timing_slack is negative.
ASSUME WatchdogAssumption ==
    /\ TTL \in Nat \ {0}
    /\ SafetyMargin \in -1 .. TTL
    /\ LoopWait \in Nat \ {0}
    /\ timing_slack >= 0
    /\ Prompt \subseteq {"renew", "activate"}
    /\ MaxRestarts \in Nat
    /\ Horizon \in Nat

VARIABLES
    now,        \* the time
    key,        \* when the leader key this node wrote expires
    applied,    \* when the DCS applied this node's last write of the key
    wd,         \* when the watchdog resets the host; 0 when it is off
    pg,         \* the database: "replica", "primary", "stopped" by demote,
                \* "down", or "off" with the host
    promoting,  \* the background promote: "no", "scheduled", "committed"
                \* (its task is complete), "ending", or "failing" (in
                \* pre_promote) and then "failed"
    pc,         \* where the HA loop is
    view,       \* did this cycle's cluster view show this node as leader?
    restarts    \* how often Patroni has started a dead database

vars == <<now, key, applied, wd, pg, promoting, pc, view, restarts>>

PgStates == {"replica", "primary", "stopped", "down", "off"}
PromoteStates == {"no", "scheduled", "committed", "ending", "failing", "failed"}
PCs == {"sleep", "cycle", "updated", "enforce", "demote", "safepoint", "off"}

TypeOK ==
    /\ now \in Nat
    /\ key \in Nat
    /\ applied \in Nat
    /\ wd \in Nat
    /\ pg \in PgStates
    /\ promoting \in PromoteStates
    /\ pc \in PCs
    /\ view \in {"mine", "other", "unlocked"}
    /\ restarts \in Nat

Init ==
    /\ now = 1
    /\ key = 0
    /\ applied = 0
    /\ wd = 0
    /\ pg = "replica"
    /\ promoting = "no"
    /\ pc = "sleep"
    /\ view = "other"
    /\ restarts = 0

-----------------------------------------------------------------------------
Running == wd /= 0

\* The longest delay after a write of the key that the margin covers.
Margin == TTL - timeout

(***************************************************************************)
(* Time passes.  An armed watchdog does not let its deadline pass, and the *)
(* delays in Prompt stay within the margin.                                *)
(***************************************************************************)
Tick ==
    /\ now < Horizon
    /\ Running => now < wd
    /\ (pc = "updated" /\ Running /\ "renew" \in Prompt) => now < applied + Margin
    /\ (pc \in {"updated", "enforce"} /\ ~Running /\ "activate" \in Prompt)
           => now < applied + Margin
    /\ now' = now + 1
    /\ UNCHANGED <<key, applied, wd, pg, promoting, pc, view, restarts>>

(***************************************************************************)
(* The watchdog resets the host.  Within the bound on restarts the host    *)
(* boots and Patroni finds the database down.                              *)
(***************************************************************************)
Reset ==
    /\ Running
    /\ now = wd
    /\ wd' = 0
    /\ promoting' = "no"
    /\ IF restarts < MaxRestarts
       THEN pg' = "down" /\ pc' = "sleep"
       ELSE pg' = "off" /\ pc' = "off"
    /\ UNCHANGED <<now, key, applied, view, restarts>>

(***************************************************************************)
(* The database dies.                                                      *)
(***************************************************************************)
PgDies ==
    /\ restarts < MaxRestarts
    /\ pg \in {"primary", "replica"}
    /\ pg' = "down"
    /\ UNCHANGED <<now, key, applied, wd, promoting, pc, view, restarts>>

-----------------------------------------------------------------------------
(***************************************************************************)
(* _run_cycle begins: load_cluster_from_dcs.                               *)
(***************************************************************************)
load_cluster_from_dcs ==
    /\ pc = "sleep"
    /\ view' \in IF now <= key THEN {"mine"} ELSE {"other", "unlocked"}
    /\ pc' = "cycle"
    /\ UNCHANGED <<now, key, applied, wd, pg, promoting, restarts>>

\* AsyncExecutor.busy; it does not change during a cycle, because the worker
\* needs the executor's lock to finish.
busy == promoting \notin {"no", "failed"}

MustRecover == pg = "down" /\ ~busy

\* The DCS renews the key, or creates it.
WriteKey ==
    /\ key' = now + TTL
    /\ applied' = now

(***************************************************************************)
(* The rest of a cycle of a node that is not, or not known to be, the key's*)
(* owner: handle_long_action_in_progress cancels a promote whose task is   *)
(* not complete; a primary is demoted.                                     *)
(***************************************************************************)
NotLeader ==
    IF promoting = "scheduled"
    THEN promoting' = "ending" /\ pc' = "sleep"
    ELSE /\ pc' = IF pg = "primary" THEN "demote" ELSE "sleep"
         /\ UNCHANGED promoting

(***************************************************************************)
(* recover: the watchdog is disabled, the key is renewed if it is ours,    *)
(* and the database is started: with -M standby when another node holds    *)
(* the key, without it (and so not in recovery) otherwise.                 *)
(***************************************************************************)
recover ==
    /\ pc = "cycle"
    /\ MustRecover
    /\ restarts < MaxRestarts
    /\ restarts' = restarts + 1
    /\ wd' = 0
    /\ \/ view = "mine" /\ now <= key /\ WriteKey
       \/ UNCHANGED <<key, applied>>
    /\ pg' \in IF now <= key THEN {"primary"} ELSE {"replica", "primary"}
    /\ pc' = "sleep"
    /\ UNCHANGED <<now, promoting, view>>

(***************************************************************************)
(* update_lock, the request: the DCS renews the key if it is still ours.   *)
(* The answer may be lost.                                                 *)
(***************************************************************************)
update_lock ==
    /\ pc = "cycle"
    /\ ~MustRecover
    /\ view = "mine"
    /\ \/ now <= key /\ WriteKey /\ pc' = "updated" /\ UNCHANGED promoting
       \/ now <= key /\ WriteKey /\ NotLeader
       \/ NotLeader /\ UNCHANGED <<key, applied>>
    /\ UNCHANGED <<now, wd, pg, view, restarts>>

\* A plausible bug: the keepalive gives the device a whole TTL.
keepalive_WholeTTL == wd' = IF Running THEN now + TTL ELSE wd

(***************************************************************************)
(* Watchdog.keepalive.                                                     *)
(***************************************************************************)
keepalive == wd' = IF Running THEN now + timeout ELSE wd

(***************************************************************************)
(* update_lock, the answer: set_is_leader and the keepalive.  A cycle that *)
(* waits for a background promote ends here.                               *)
(***************************************************************************)
update_lock_Reply ==
    /\ pc = "updated"
    /\ keepalive
    /\ pc' = IF busy THEN "sleep" ELSE "enforce"
    /\ UNCHANGED <<now, key, applied, pg, promoting, view, restarts>>

(***************************************************************************)
(* process_unhealthy_cluster: acquire_lock.  The answer (which may be      *)
(* lost), the cleanup of the failover key and the new                      *)
(* load_cluster_from_dcs are between this step and enforce_master_role,    *)
(* without a look at the key.                                              *)
(***************************************************************************)
acquire_lock ==
    /\ pc = "cycle"
    /\ pg \in {"replica", "primary"}
    /\ view = "unlocked"
    /\ ~busy
    /\ now > key
    /\ WriteKey
    /\ \/ pc' = "enforce" /\ UNCHANGED promoting
       \/ NotLeader
    /\ UNCHANGED <<now, wd, pg, view, restarts>>

(***************************************************************************)
(* A cycle without the key: another node has it, this node is not the      *)
(* healthiest or loses the race, or the DCS cannot be reached.             *)
(***************************************************************************)
follow ==
    /\ pc = "cycle"
    /\ ~MustRecover
    /\ view \in {"other", "unlocked"}
    /\ NotLeader
    /\ UNCHANGED <<now, key, applied, wd, pg, view, restarts>>

\* A plausible bug: promote first, activate the watchdog in a later cycle.
activate_Later == UNCHANGED wd

(***************************************************************************)
(* Watchdog.activate, called unless the watchdog is running.               *)
(***************************************************************************)
activate == wd' = IF Running THEN wd ELSE now + timeout

(***************************************************************************)
(* enforce_master_role: activate the watchdog; release the key after a     *)
(* failed pre_promote script; else schedule the promotion of a replica.    *)
(***************************************************************************)
enforce_master_role ==
    /\ pc = "enforce"
    /\ activate
    /\ pc' = "sleep"
    /\ promoting' = IF promoting = "no" /\ pg /= "primary" THEN "scheduled"
                                                          ELSE "no"
    /\ key' = IF promoting = "failed" THEN 0 ELSE key
    /\ UNCHANGED <<now, applied, pg, view, restarts>>

(***************************************************************************)
(* demote: stop reaches the safepoint, where no backend can commit ...     *)
(***************************************************************************)
demote_Stop ==
    /\ pc = "demote"
    /\ pg' = IF pg = "primary" THEN "stopped" ELSE pg
    /\ pc' = "safepoint"
    /\ UNCHANGED <<now, key, applied, wd, promoting, view, restarts>>

(***************************************************************************)
(* ... whose callback disables the watchdog.  The database is then started *)
(* with -M standby, unless the executor is still busy.                     *)
(***************************************************************************)
demote_Safepoint ==
    /\ pc = "safepoint"
    /\ wd' = 0
    /\ pg' = IF pg /= "stopped" THEN pg ELSE IF busy THEN "down" ELSE "replica"
    /\ pc' = "sleep"
    /\ UNCHANGED <<now, key, applied, promoting, view, restarts>>

-----------------------------------------------------------------------------
(* Postgresql.promote, in the background *)

(***************************************************************************)
(* pre_promote ends and the task is completed with its result.             *)
(***************************************************************************)
promote_Task ==
    /\ promoting = "scheduled"
    /\ promoting' \in {"committed", "failing"}
    /\ UNCHANGED <<now, key, applied, wd, pg, pc, view, restarts>>

(***************************************************************************)
(* gs_ctl failover succeeds, or fails and leaves the database as it was.   *)
(***************************************************************************)
promote_Failover ==
    /\ promoting = "committed"
    /\ promoting' = "ending"
    /\ \/ pg = "replica" /\ pg' = "primary"
       \/ UNCHANGED pg
    /\ UNCHANGED <<now, key, applied, wd, pc, view, restarts>>

(***************************************************************************)
(* The worker finishes, under the executor's lock.                         *)
(***************************************************************************)
promote_End ==
    /\ promoting \in {"ending", "failing"}
    /\ pc = "sleep"
    /\ promoting' = IF promoting = "failing" THEN "failed" ELSE "no"
    /\ UNCHANGED <<now, key, applied, wd, pg, pc, view, restarts>>

-----------------------------------------------------------------------------
Next ==
    \/ Tick
    \/ Reset
    \/ PgDies
    \/ load_cluster_from_dcs
    \/ recover
    \/ update_lock
    \/ update_lock_Reply
    \/ acquire_lock
    \/ follow
    \/ enforce_master_role
    \/ demote_Stop
    \/ demote_Safepoint
    \/ promote_Task
    \/ promote_Failover
    \/ promote_End

Spec == Init /\ [][Next]_vars

-----------------------------------------------------------------------------
(* Properties *)

(***************************************************************************)
(* The watchdog beats the lease: a primary under an armed watchdog never   *)
(* outlives the leader key it wrote last, however long Patroni was         *)
(* suspended in the renewal (Ha.update_lock, Watchdog.keepalive), also     *)
(* when Patroni starts dead databases in between.                          *)
(***************************************************************************)
WatchdogBeatsExpiry == pg = "primary" /\ Running => now <= applied + TTL

(***************************************************************************)
(* No promotion without the watchdog: as long as Patroni did not have to   *)
(* start a dead database, a database that is primary runs under an armed   *)
(* watchdog, through promotion, renewals and demotion                      *)
(* (Ha.enforce_master_role, Ha.demote).                                    *)
(***************************************************************************)
PrimaryIsGuarded == restarts = 0 /\ pg = "primary" => Running

(***************************************************************************)
(* docs/watchdog.rst: "Patroni needs to ensure PostgreSQL will not accept  *)
(* any transaction commits after leader key expires in the DCS"; and "To   *)
(* be absolutely sure that watchdog will trigger under all circumstances   *)
(* set up the watchdog to expire after half of TTL".  As long as Patroni   *)
(* did not have to start a dead database, a primary has the leader key,    *)
(* which it neither outlived nor released.                                 *)
(***************************************************************************)
NoCommitAfterExpiry == restarts = 0 /\ pg = "primary" => now <= key

=============================================================================
