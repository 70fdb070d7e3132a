------------------------------- MODULE Rewind -------------------------------
(***************************************************************************)
(* How a node finds out that its WAL has diverged from the leader's, and   *)
(* what it does about it: the state machine of class Rewind, the part of   *)
(* the HA loop that drives it, the checkpoint thread of a new leader and   *)
(* the background jobs.  The WAL is the sequence of the timelines of its   *)
(* records; a promotion writes the first record of a new timeline, whose   *)
(* number nobody has used before.  A position is a number of records.  The *)
(* DCS is read once in a cycle; recover and follow read it again in the    *)
(* code.  Standby clusters and pause mode are left out.                    *)
(***************************************************************************)
EXTENDS Integers, Sequences, SequencesExt

CONSTANTS
    Nodes,
    Configs,       \* "rewind", "remove", "both" or "none"
    MaxRecords,    \* bound on the length of the WAL
    MaxTimeline,   \* bound on promotions
    MaxFaults      \* bound on crashes, failing commands and lost keys, by Configs

None == "none"

ASSUME RewindAssumption ==
    /\ Nodes # {} /\ None \notin Nodes
    /\ MaxRecords \in Nat \ {0} /\ MaxTimeline \in Nat \ {0}
    /\ MaxFaults \in [Configs -> Nat]

VARIABLES
    config,        \* use_pg_rewind, remove_data_directory_on_...
    leader,        \* the leader key
    claim,         \* the members: role, and checkpoint_after_promote
    view,          \* Ha.cluster
    pc,            \* the HA loop
    job, source,   \* what AsyncExecutor does, and the leader it does it with
    state,         \* Rewind._state
    task,          \* Rewind._checkpoint_task
    crashRecovery, \* _crash_recovery_executed
    role, pg,      \* state_handler.role, the state of the cluster in pg_control
    wal, control,  \* the WAL, and the timeline of the latest checkpoint
    timelines,     \* the highest timeline so far
    unchecked,     \* nodes that have started as the holder of the key, unchecked
    faults

pgVars == <<role, pg, wal, control>>
rewindVars == <<state, task, crashRecovery>>
vars == <<config, leader, claim, view, pc, job, source, rewindVars, pgVars, timelines,
          unchecked, faults>>

Stopped == {"clean", "shut down in recovery", "in production", "in recovery", "removed"}
States == {"INITIAL", "CHECKPOINT", "CHECK", "NEED", "NOT_NEED", "SUCCESS", "FAILED"}

(***************************************************************************)
(* What a member publishes.  "awaited" is checkpoint_after_promote: false. *)
(* Its readers cannot tell the other two apart: "left over" is a claim     *)
(* about an earlier promotion than the member's last one.                  *)
(***************************************************************************)
Claims == [role : {"master", "replica"}, checkpoint : {"awaited", "made", "left over"}]

Clusters == [leader : Nodes \cup {None}, claim : Claims]
NoLeader == [leader |-> None, claim |-> [role |-> "replica", checkpoint |-> "awaited"]]

TypeOK ==
    /\ config \in Configs
    /\ leader \in Nodes \cup {None}
    /\ claim \in [Nodes -> Claims]
    /\ view \in [Nodes -> Clusters] /\ source \in [Nodes -> Clusters]
    /\ pc \in [Nodes -> {"load", "act"}]
    /\ job \in [Nodes -> {"idle", "promote", "on_success", "crash_recovery", "rewind",
                          "copy", "clone", "start"}]
    /\ state \in [Nodes -> States]
    /\ task \in [Nodes -> {"none", "running", "true", "false"}]
    /\ crashRecovery \in [Nodes -> BOOLEAN]
    /\ role \in [Nodes -> {"master", "replica", "demoted"}]
    /\ pg \in [Nodes -> {"primary", "replica"} \cup Stopped]
    /\ wal \in [Nodes -> Seq(1..MaxTimeline) \ {<<>>}]
    /\ \A n \in Nodes : Len(wal[n]) <= MaxRecords
    /\ control \in [Nodes -> 1..MaxTimeline]
    /\ timelines \in 1..MaxTimeline /\ unchecked \subseteq Nodes
    /\ faults \in 0..MaxFaults[config]

\* A cluster with a leader of timeline 1, and replicas that have its first record.
Init ==
    /\ config \in Configs
    /\ leader = CHOOSE n \in Nodes : TRUE      \* the nodes are alike
    /\ role = [n \in Nodes |-> IF n = leader THEN "master" ELSE "replica"]
    /\ claim = [n \in Nodes |-> [role |-> role[n], checkpoint |-> "made"]]
    /\ view = [n \in Nodes |-> [leader |-> leader, claim |-> claim[leader]]]
    /\ state = [n \in Nodes |-> IF n = leader THEN "CHECKPOINT" ELSE "NOT_NEED"]
    /\ pg = [n \in Nodes |-> IF n = leader THEN "primary" ELSE "replica"]
    /\ pc = [n \in Nodes |-> "load"]
    /\ job = [n \in Nodes |-> "idle"] /\ source = [n \in Nodes |-> NoLeader]
    /\ task = [n \in Nodes |-> "none"]
    /\ crashRecovery = [n \in Nodes |-> FALSE]
    /\ wal = [n \in Nodes |-> <<1>>] /\ control = [n \in Nodes |-> 1]
    /\ timelines = 1 /\ unchecked = {}
    /\ faults = 0

Fault == faults < MaxFaults[config] /\ faults' = faults + 1

Set(f, n, v) == [f EXCEPT ![n] = v]

Timeline(n) == Last(wal[n])

Running(n) == pg[n] \in {"primary", "replica"}
ShutDown(n) == pg[n] \in {"clean", "shut down in recovery"}

-----------------------------------------------------------------------------
(* class Rewind *)

can_rewind == config \in {"rewind", "both"}
can_rewind_or_reinitialize_allowed == config # "none"

\* A node that needs a rewind does not check again.
trigger_check_diverged_lsn(s) ==
    IF can_rewind_or_reinitialize_allowed /\ s # "NEED" THEN "CHECK" ELSE s

executed(s) == s \in {"SUCCESS", "FAILED"}

(***************************************************************************)
(* _get_local_timeline_lsn: for a server that was shut down as a primary   *)
(* this is where its last record, the shutdown checkpoint, begins.  The    *)
(* control file of a server that has crashed tells nothing.                *)
(***************************************************************************)
LocalKnown(n) == Running(n) \/ ShutDown(n)
in_recovery(n) == pg[n] # "clean"
local_lsn(n) == IF in_recovery(n) THEN Len(wal[n]) ELSE Len(wal[n]) - 1

\* TIMELINE_HISTORY: the switch points at which the leader has left timeline t.
SwitchPoints(l, t) ==
    {i \in 1..(Len(wal[l]) - 1) : wal[l][i] = t /\ wal[l][i + 1] # t}

\* A plausible bug: the start of the shutdown checkpoint is taken for its end.
diverged_StartOfCheckpoint(n, at, end) == local_lsn(n) > at

\* The WAL of n reaches beyond the switch point.
diverged(n, at, end) ==
    IF in_recovery(n) THEN local_lsn(n) > at
    ELSE local_lsn(n) >= at \/ at # end

(***************************************************************************)
(* _check_timeline_and_lsn with leader l.  end is the end of the           *)
(* checkpoint record, 0 if pg_waldump fails.  A timeline that is not in    *)
(* the leader's history is taken for one that needs no rewind.             *)
(***************************************************************************)
need_rewind(n, l, end) ==
    \/ Timeline(n) > Timeline(l)
    \/ /\ Timeline(n) < Timeline(l)
       /\ \E at \in SwitchPoints(l, Timeline(n)) : diverged(n, at, end)

check_timeline_and_lsn(n, l, end) ==
    IF ~LocalKnown(n) \/ view[n].claim.role # "master" \/ ~Running(l)
    THEN "CHECK"
    ELSE IF need_rewind(n, l, end) THEN "NEED" ELSE "NOT_NEED"

\* rewind_or_reinitialize_needed_and_possible: the state after it, from s.
CheckedState(n, s, end) ==
    LET l == view[n].leader IN
    IF l \notin {None, n} /\ s = "CHECK" THEN check_timeline_and_lsn(n, l, end) ELSE s

Needed(n, s) == view[n].leader # None /\ s = "NEED"

-----------------------------------------------------------------------------
(* The HA loop *)

load_cluster_from_dcs(n) ==
    /\ pc[n] = "load"
    /\ view' = Set(view, n, IF leader = None THEN NoLeader
                            ELSE [leader |-> leader, claim |-> claim[leader]])
    /\ pc' = Set(pc, n, "act")
    /\ UNCHANGED <<config, leader, claim, job, source, rewindVars, pgVars, timelines,
                   unchecked, faults>>

\* A plausible bug: a new leader claims to be ready at once.
checkpoint_after_promote_Always(s) == TRUE

checkpoint_after_promote(s) == s = "CHECKPOINT"

(***************************************************************************)
(* The end of a cycle: touch_member.  A primary without the key is         *)
(* published as "promoted", which nobody rewinds from.  Between the end of *)
(* a promotion and reset_state, the state is that of an earlier one.       *)
(***************************************************************************)
EndCycle(n) ==
    /\ LET mine == view'[n].leader = n IN
       claim' = Set(claim, n,
                    [role |-> IF mine /\ role'[n] = "master" THEN "master" ELSE "replica",
                     checkpoint |-> IF mine /\ ~checkpoint_after_promote(state'[n])
                                    THEN "awaited"
                                    ELSE IF job[n] = "on_success" THEN "left over"
                                    ELSE "made"])
    /\ pc' = Set(pc, n, "load")

Idle(n) == pc[n] = "act" /\ job[n] = "idle"

\* has_lock and update_lock
HasLock(n) == view[n].leader = n /\ leader = n

(***************************************************************************)
(* While the executor is busy: without the key a promotion is cancelled if *)
(* that is still possible, and a primary is demoted, but not started.      *)
(***************************************************************************)
handle_long_action_in_progress(n) ==
    /\ pc[n] = "act" /\ job[n] # "idle"
    /\ \/ /\ ~HasLock(n) /\ job[n] = "promote"
          /\ job' = Set(job, n, "idle")
          /\ UNCHANGED <<state, role, pg>>
       \/ /\ ~HasLock(n) /\ role[n] = "master"
          /\ state' = Set(state, n, trigger_check_diverged_lsn(state[n]))
          /\ role' = Set(role, n, "demoted")
          /\ pg' = Set(pg, n, IF pg[n] = "primary" THEN "in production" ELSE pg[n])
          /\ UNCHANGED job
       \/ /\ HasLock(n) \/ role[n] # "master"
          /\ UNCHANGED <<state, role, pg, job>>
    /\ UNCHANGED <<config, leader, view, source, task, crashRecovery, wal, control,
                   timelines, unchecked, faults>>
    /\ EndCycle(n)

\* A plausible bug: a node that cannot rewind is not copied anew.
handle_rewind_or_reinitialize_OnlyRewind(n, s, j) ==
    LET checked == CheckedState(n, s, Len(wal[n])) IN
    /\ UNCHANGED faults
    /\ state' = Set(state, n, checked)
    /\ job' = Set(job, n, IF Needed(n, checked) /\ can_rewind THEN "rewind" ELSE j)
    /\ source' = IF Needed(n, checked) THEN Set(source, n, view[n]) ELSE source

(***************************************************************************)
(* _handle_rewind_or_reinitialize from state s: start the job that is      *)
(* needed, or otherwise job j.                                             *)
(***************************************************************************)
handle_rewind_or_reinitialize(n, s, j) ==
    \E end \in {0, Len(wal[n])} :
       LET checked == CheckedState(n, s, end) IN
       /\ end = 0 => pg[n] = "clean" /\ Fault
       /\ end # 0 => UNCHANGED faults
       /\ state' = Set(state, n, checked)
       /\ job' = Set(job, n, IF ~Needed(n, checked) THEN j
                             ELSE IF can_rewind THEN "rewind" ELSE "clone")
       /\ source' = IF Needed(n, checked) THEN Set(source, n, view[n]) ELSE source

(***************************************************************************)
(* recover, for a server that is down: single user mode first, to get a    *)
(* clean shutdown; then the check; then the start as a replica.  The       *)
(* holder of the key starts without a check.                               *)
(***************************************************************************)
recover(n) ==
    /\ Idle(n) /\ pg[n] \in Stopped \ {"removed"}
    /\ IF /\ pg[n] = "in production" /\ ~crashRecovery[n]
          /\ view[n].leader = None \/ can_rewind
       THEN /\ crashRecovery' = Set(crashRecovery, n, TRUE)
            /\ job' = Set(job, n, "crash_recovery")
            /\ UNCHANGED <<state, source, unchecked, faults>>
       ELSE /\ unchecked' = IF view[n].leader = n THEN unchecked \cup {n}
                            ELSE unchecked \ {n}
            /\ IF view[n].leader = n
               THEN job' = Set(job, n, "start") /\ UNCHANGED <<state, source, faults>>
               ELSE handle_rewind_or_reinitialize(n,
                       IF executed(state[n]) THEN state[n]
                       ELSE trigger_check_diverged_lsn(state[n]), "start")
            /\ UNCHANGED crashRecovery
    /\ UNCHANGED <<config, leader, view, task, pgVars, timelines>>
    /\ EndCycle(n)

\* An empty data directory is filled from the leader.
bootstrap(n) ==
    /\ Idle(n) /\ pg[n] = "removed"
    /\ leader' = IF leader = n THEN None ELSE leader
    /\ IF view[n].leader \notin {n, None}
       THEN job' = Set(job, n, "clone") /\ source' = Set(source, n, view[n])
       ELSE UNCHANGED <<job, source>>
    /\ UNCHANGED <<config, view, rewindVars, pgVars, timelines, unchecked, faults>>
    /\ EndCycle(n)

\* A plausible bug: the result of the task is taken for the state.
ensure_checkpoint_after_promote_Result(n) ==
    IF state[n] = "INITIAL"
    THEN /\ task' = IF task[n] = "none" THEN Set(task, n, "running") ELSE task
         /\ state' = IF task[n] \in {"true", "false"} THEN Set(state, n, task[n]) ELSE state
    ELSE UNCHANGED <<task, state>>

(***************************************************************************)
(* ensure_checkpoint_after_promote: start the thread, or read its result;  *)
(* when it has failed, compare the timelines.                              *)
(***************************************************************************)
ensure_checkpoint_after_promote(n) ==
    LET done == task[n] = "true" \/ (task[n] = "false" /\ control[n] = Timeline(n)) IN
    IF state[n] = "INITIAL"
    THEN /\ task' = IF task[n] = "none" THEN Set(task, n, "running") ELSE task
         /\ state' = IF done THEN Set(state, n, "CHECKPOINT") ELSE state
    ELSE UNCHANGED <<task, state>>

\* process_healthy_cluster on a primary with the key.
lead(n) ==
    /\ Idle(n) /\ pg[n] = "primary" /\ HasLock(n)
    /\ ensure_checkpoint_after_promote(n)
    /\ role' = Set(role, n, "master")
    /\ UNCHANGED <<config, leader, view, job, source, crashRecovery, pg, wal,
                   control, timelines, unchecked, faults>>
    /\ EndCycle(n)

\* process_unhealthy_cluster on a primary whose key has expired: it takes it again.
process_unhealthy_cluster(n) ==
    /\ Idle(n) /\ pg[n] = "primary" /\ view[n].leader = None /\ leader = None
    /\ leader' = n
    /\ view' = Set(view, n, [leader |-> n, claim |-> claim[n]])
    /\ role' = Set(role, n, "master")
    /\ UNCHANGED <<config, job, source, rewindVars, pg, wal, control, timelines, unchecked,
                   faults>>
    /\ EndCycle(n)

(***************************************************************************)
(* demote: the key is not its own any more, or cannot be taken again.      *)
(* Started without a rewind.                                               *)
(***************************************************************************)
demote(n) ==
    /\ Idle(n) /\ pg[n] = "primary" /\ ~HasLock(n)
    /\ IF view[n].leader = None /\ leader = None THEN Fault ELSE UNCHANGED faults
    /\ state' = Set(state, n, trigger_check_diverged_lsn(state[n]))
    /\ role' = Set(role, n, "demoted")
    /\ pg' = Set(pg, n, "in production")
    /\ job' = Set(job, n, "start")
    /\ UNCHANGED <<config, leader, view, source, task, crashRecovery, wal, control,
                   timelines, unchecked>>
    /\ EndCycle(n)

(***************************************************************************)
(* demote('graceful') for a switchover: replicas that have everything may  *)
(* receive the shutdown checkpoint too.                                    *)
(***************************************************************************)
demote_graceful(n) ==
    /\ Idle(n) /\ pg[n] = "primary" /\ HasLock(n)
    /\ Len(wal[n]) < MaxRecords /\ Fault
    /\ \E s \in SUBSET {m \in Nodes : pg[m] = "replica" /\ wal[m] = wal[n]} :
         wal' = [m \in Nodes |-> IF m \in s \cup {n} THEN Append(wal[m], Timeline(n))
                                 ELSE wal[m]]
    /\ control' = Set(control, n, Timeline(n))
    /\ pg' = Set(pg, n, "clean")
    /\ role' = Set(role, n, "demoted")
    /\ state' = Set(state, n, trigger_check_diverged_lsn(state[n]))
    /\ leader' = None
    /\ UNCHANGED <<config, view, job, source, task, crashRecovery, timelines, unchecked>>
    /\ EndCycle(n)

(***************************************************************************)
(* A running replica: take the key and promote (whether it is healthy      *)
(* enough is decided elsewhere), come too late, or follow.  A failover     *)
(* request or the tag nofailover makes it check, and so does a server that *)
(* gs_ctl cannot query (check_db_state), which is restarted.               *)
(***************************************************************************)
follow(n) ==
    /\ Idle(n) /\ pg[n] = "replica"
    /\ \/ /\ view[n].leader \in {n, None} /\ leader = view[n].leader
          /\ leader' = n
          /\ view' = Set(view, n, [leader |-> n, claim |-> claim[n]])
          /\ job' = Set(job, n, "promote")
          /\ UNCHANGED <<state, source, unchecked, faults>>
       \/ /\ view[n].leader \in {n, None} /\ leader # view[n].leader
          /\ UNCHANGED <<leader, view, job, source, state, unchecked, faults>>
       \/ /\ view[n].leader = None /\ Fault
          /\ state' = Set(state, n, trigger_check_diverged_lsn(state[n]))
          /\ unchecked' = unchecked \ {n}
          /\ UNCHANGED <<leader, view, job, source>>
       \/ /\ view[n].leader \notin {n, None}
          /\ handle_rewind_or_reinitialize(n, state[n], "idle")
          /\ UNCHANGED <<leader, view, unchecked>>
       \/ /\ view[n].leader \notin {n, None} /\ Fault
          /\ LET checked == CheckedState(n, state[n], Len(wal[n])) IN
             /\ ~Needed(n, checked)
             /\ state' = Set(state, n, trigger_check_diverged_lsn(checked))
          /\ job' = Set(job, n, "start")
          /\ unchecked' = unchecked \ {n}
          /\ UNCHANGED <<leader, view, source>>
    /\ UNCHANGED <<config, task, crashRecovery, pgVars, timelines>>
    /\ EndCycle(n)

(***************************************************************************)
(* check_db_state: WAL that the replica needs has been removed.  gs_ctl    *)
(* builds it anew from the primary, while the loop waits.                  *)
(***************************************************************************)
rebuild(n) ==
    /\ Idle(n) /\ pg[n] = "replica" /\ view[n].leader \notin {n, None}
    /\ LET l == view[n].leader
           checked == CheckedState(n, state[n], Len(wal[n]))
       IN  /\ ~Needed(n, checked) /\ pg[l] = "primary" /\ Fault
           /\ state' = Set(state, n, checked)
           /\ wal' = Set(wal, n, wal[l]) /\ control' = Set(control, n, control[l])
    /\ UNCHANGED <<config, leader, view, job, source, task, crashRecovery, role, pg,
                   timelines, unchecked>>
    /\ EndCycle(n)

-----------------------------------------------------------------------------
(* The background jobs *)

\* What was published about n belongs to its earlier promotion now.
Outdated(f, n) ==
    [m \in Nodes |-> IF f[m].leader = n /\ f[m].claim.checkpoint = "made"
                     THEN [f[m] EXCEPT !.claim.checkpoint = "left over"] ELSE f[m]]

\* pg_ctl failover, then role := master; at the bounds it fails ...
promote(n) ==
    /\ job[n] = "promote"
    /\ IF pg[n] = "replica" /\ timelines < MaxTimeline /\ Len(wal[n]) < MaxRecords
       THEN /\ timelines' = timelines + 1
            /\ wal' = Set(wal, n, Append(wal[n], timelines'))
            /\ pg' = Set(pg, n, "primary")
            /\ role' = Set(role, n, "master")
            /\ unchecked' = unchecked \ {n}
            /\ job' = Set(job, n, "on_success")
            /\ claim' = IF claim[n].checkpoint = "made"
                        THEN [claim EXCEPT ![n].checkpoint = "left over"] ELSE claim
            /\ view' = Outdated(view, n) /\ source' = Outdated(source, n)
       ELSE /\ job' = Set(job, n, "idle")
            /\ UNCHANGED <<timelines, wal, pg, role, unchecked, claim, view, source>>
    /\ UNCHANGED <<config, leader, pc, rewindVars, control, faults>>

\* ... then reset_state.
on_success(n) ==
    /\ job[n] = "on_success"
    /\ state' = Set(state, n, "INITIAL")
    /\ task' = Set(task, n, "none")
    /\ job' = Set(job, n, "idle")
    /\ UNCHANGED <<config, leader, claim, view, pc, source, crashRecovery, pgVars,
                   timelines, unchecked, faults>>

\* __checkpoint, in a thread of its own; the result counts for its task only.
checkpoint(n) ==
    /\ task[n] = "running"
    /\ \/ /\ pg[n] = "primary"
          /\ control' = Set(control, n, Timeline(n))
          /\ task' = Set(task, n, "true")
          /\ UNCHANGED faults
       \/ /\ IF pg[n] = "primary" THEN Fault ELSE UNCHANGED faults
          /\ task' = Set(task, n, "false")
          /\ UNCHANGED control
    /\ UNCHANGED <<config, leader, claim, view, pc, job, source, state, crashRecovery, role,
                   pg, wal, timelines, unchecked>>

\* The server makes a checkpoint when it thinks fit.
server_checkpoint(n) ==
    /\ pg[n] = "primary" /\ control[n] # Timeline(n)
    /\ control' = Set(control, n, Timeline(n))
    /\ UNCHANGED <<config, leader, claim, view, pc, job, source, rewindVars, role, pg, wal,
                   timelines, unchecked, faults>>

\* Single user mode writes a shutdown checkpoint of its own.
ensure_clean_shutdown(n) ==
    /\ job[n] = "crash_recovery"
    /\ \/ /\ Len(wal[n]) < MaxRecords
          /\ wal' = Set(wal, n, Append(wal[n], Timeline(n)))
          /\ control' = Set(control, n, Timeline(n))
          /\ pg' = Set(pg, n, "clean")
          /\ UNCHANGED faults
       \/ /\ IF Len(wal[n]) < MaxRecords THEN Fault ELSE UNCHANGED faults
          /\ UNCHANGED <<wal, control, pg>>
    /\ job' = Set(job, n, "idle")
    /\ UNCHANGED <<config, leader, claim, view, pc, source, rewindVars, role, timelines,
                   unchecked>>

\* The server starts; post_recover forgets a rewind that has succeeded.
start(n) ==
    /\ job[n] = "start"
    /\ pg' = Set(pg, n, IF pg[n] \in Stopped THEN "replica" ELSE pg[n])
    /\ role' = Set(role, n, "replica")
    /\ job' = Set(job, n, "idle")
    /\ state' = Set(state, n, IF state[n] = "SUCCESS" THEN "INITIAL" ELSE state[n])
    /\ task' = IF state[n] = "SUCCESS" THEN Set(task, n, "none") ELSE task
    /\ crashRecovery' = Set(crashRecovery, n, FALSE)
    /\ UNCHANGED <<config, leader, claim, view, pc, source, wal, control, timelines,
                   unchecked, faults>>

(***************************************************************************)
(* execute: stop the server; wait until the leader (as it was when the job *)
(* was scheduled) has made its checkpoint, and make sure that it is a      *)
(* primary.                                                                *)
(***************************************************************************)
execute(n) ==
    /\ job[n] = "rewind"
    /\ pg' = Set(pg, n, IF pg[n] = "replica" THEN "shut down in recovery" ELSE pg[n])
    /\ LET ready == /\ source[n].claim.role = "master"
                    /\ source[n].claim.checkpoint # "awaited"
                    /\ pg[source[n].leader] = "primary"
       IN  /\ job' = Set(job, n, IF ready THEN "copy" ELSE "idle")
           /\ source' = IF ready THEN source ELSE Set(source, n, NoLeader)
    /\ UNCHANGED <<config, leader, claim, view, pc, rewindVars, role, wal, control,
                   timelines, unchecked, faults>>

(***************************************************************************)
(* pg_rewind: when the two control files are of the same timeline, there   *)
(* is nothing to do for it.  It fails on a server that was not shut down   *)
(* cleanly, or when the leader goes away.                                  *)
(***************************************************************************)
pg_rewind(n) ==
    /\ job[n] = "copy"
    /\ job' = Set(job, n, "idle") /\ source' = Set(source, n, NoLeader)
    /\ LET l == source[n].leader IN
       \/ /\ pg[l] = "primary" /\ ShutDown(n)
          /\ state' = Set(state, n, "SUCCESS")
          /\ IF control[l] = control[n]
             THEN UNCHANGED <<wal, control, pg>>
             ELSE /\ wal' = Set(wal, n, wal[l]) /\ control' = Set(control, n, control[l])
                  /\ pg' = Set(pg, n, "shut down in recovery")
          /\ UNCHANGED faults
       \/ /\ pg[l] # "primary"
          /\ UNCHANGED <<state, wal, control, pg, faults>>
       \/ /\ pg[l] = "primary"
          /\ IF ShutDown(n) THEN Fault ELSE UNCHANGED faults
          /\ LET remove == config = "both" IN
             /\ pg' = IF remove THEN Set(pg, n, "removed") ELSE pg
             /\ state' = Set(state, n, IF remove THEN "INITIAL" ELSE "FAILED")
          /\ UNCHANGED <<wal, control>>
    /\ UNCHANGED <<config, leader, claim, view, pc, task, crashRecovery, role, timelines,
                   unchecked>>

\* _do_reinitialize and clone: reset_state, copy and start, or remove.
clone(n) ==
    /\ job[n] = "clone"
    /\ job' = Set(job, n, "idle") /\ source' = Set(source, n, NoLeader)
    /\ state' = Set(state, n, "INITIAL") /\ task' = Set(task, n, "none")
    /\ role' = Set(role, n, "replica")
    /\ LET l == source[n].leader IN
       \/ /\ Running(l)
          /\ wal' = Set(wal, n, wal[l]) /\ control' = Set(control, n, control[l])
          /\ pg' = Set(pg, n, "replica")
          /\ UNCHANGED faults
       \/ /\ IF Running(l) THEN Fault ELSE UNCHANGED faults
          /\ pg' = Set(pg, n, "removed")
          /\ UNCHANGED <<wal, control>>
    /\ unchecked' = unchecked \ {n}
    /\ UNCHANGED <<config, leader, claim, view, pc, crashRecovery, timelines>>

-----------------------------------------------------------------------------
(* The environment *)

\* A primary writes, whether it has the key or not.
Write(n) ==
    /\ pg[n] = "primary" /\ Len(wal[n]) < MaxRecords
    /\ wal' = Set(wal, n, Append(wal[n], Timeline(n)))
    /\ UNCHANGED <<config, leader, claim, view, pc, job, source, rewindVars, role, pg,
                   control, timelines, unchecked, faults>>

\* A replica can stream from the leader only if it has not diverged.
Stream(n) ==
    /\ pg[n] = "replica" /\ leader \notin {n, None} /\ pg[leader] = "primary"
    /\ IsStrictPrefix(wal[n], wal[leader])
    /\ wal' = Set(wal, n, Append(wal[n], wal[leader][Len(wal[n]) + 1]))
    /\ UNCHANGED <<config, leader, claim, view, pc, job, source, rewindVars, role, pg,
                   control, timelines, unchecked, faults>>

Crash(n) ==
    /\ Running(n) /\ Fault
    /\ pg' = Set(pg, n, IF pg[n] = "primary" THEN "in production" ELSE "in recovery")
    /\ UNCHANGED <<config, leader, claim, view, pc, job, source, rewindVars, role, wal,
                   control, timelines, unchecked>>

LoseKey ==
    /\ leader # None /\ Fault
    /\ leader' = None
    /\ UNCHANGED <<config, claim, view, pc, job, source, rewindVars, pgVars, timelines,
                   unchecked>>

Loop(n) ==
    \/ load_cluster_from_dcs(n) \/ handle_long_action_in_progress(n)
    \/ recover(n) \/ bootstrap(n) \/ lead(n) \/ process_unhealthy_cluster(n)
    \/ demote(n) \/ follow(n) \/ rebuild(n)

Work(n) ==
    \/ promote(n) \/ on_success(n) \/ ensure_clean_shutdown(n) \/ start(n)
    \/ execute(n) \/ pg_rewind(n) \/ clone(n)

Next ==
    \/ \E n \in Nodes :
         \/ Loop(n) \/ Work(n) \/ demote_graceful(n)
         \/ checkpoint(n) \/ server_checkpoint(n) \/ Write(n) \/ Stream(n) \/ Crash(n)
    \/ LoseKey

-----------------------------------------------------------------------------
(* Properties *)

(***************************************************************************)
(* pg_rewind never reports success without having rewound anything: the    *)
(* leader's checkpoint after its promotion is awaited.  Two exceptions: a  *)
(* leader whose claim is left over, and a node with a later timeline than  *)
(* the leader ("not always supported by pg_rewind").                       *)
(***************************************************************************)
SuccessIsRewound ==
    [][\A n \in Nodes :
         LET l == source[n].leader IN
         /\ state[n] # "SUCCESS" /\ state'[n] = "SUCCESS"
         /\ source[n].claim.checkpoint = "made" /\ Timeline(n) <= Timeline(l)
         => IsPrefix(wal'[n], wal[l])]_vars

\* The decision of _check_timeline_and_lsn falls in this step.
Decides(n, s) == state[n] # s /\ state'[n] = s /\ pc[n] = "act"

\* The leader of the check knows the timeline of n.
InHistory(n) ==
    \E i \in 1..Len(wal[view[n].leader]) : wal[view[n].leader][i] = Timeline(n)

(***************************************************************************)
(* A node that is told that it needs no rewind has nothing that the leader *)
(* does not have, if its timeline is in the leader's history.  It may be   *)
(* ahead of a leader that has become a replica since; even then neither    *)
(* has a record that conflicts with the other's.                           *)
(***************************************************************************)
DivergenceIsFound ==
    [][\A n \in Nodes :
         LET l == view[n].leader IN
         Decides(n, "NOT_NEED") /\ InHistory(n)
         => \/ IsPrefix(wal[n], wal[l])
            \/ pg[l] = "replica" /\ IsPrefix(wal[l], wal[n])]_vars

\* A node can stream from the leader, now or later.
Joined(n) == pg[n] = "replica" /\ IsPrefix(wal[n], wal[leader])

(***************************************************************************)
(* When the faults have ended, every replica gets into a state from which  *)
(* it can stream.  Three exceptions: rewind has failed for good; the       *)
(* timeline of the replica is not in the history of the leader; or it was  *)
(* started without a check while it had the key, and has lost it since.    *)
(***************************************************************************)
Rejoins ==
    <>[](can_rewind_or_reinitialize_allowed /\ (\E n \in Nodes : leader = n /\ pg[n] = "primary") =>
          \A n \in Nodes \ {leader} :
             \/ Joined(n)
             \/ state[n] = "FAILED" \/ n \in unchecked
             \/ \A i \in 1..Len(wal[leader]) : wal[leader][i] # Timeline(n))

(***************************************************************************)
(* The verdicts of class Rewind are right: nothing counts as rewound that  *)
(* was not, and nothing as not diverged that was.                          *)
(***************************************************************************)
VerdictsAreRight == SuccessIsRewound /\ DivergenceIsFound

=============================================================================
