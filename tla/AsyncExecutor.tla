---------------------------- MODULE AsyncExecutor ----------------------------
(***************************************************************************)
(* The background executor of the HA loop (patroni/async_executor.py), the *)
(* CriticalTask and the CancellableSubprocess its functions use            *)
(* (patroni/postgresql/cancellable.py), and the three kinds of threads     *)
(* that meet in it:                                                        *)
(*                                                                         *)
(*   - the HA loop, which owns the executor's lock for a whole run_cycle;  *)
(*   - REST API threads, which call Ha.restart and Ha.reinitialize;        *)
(*   - the worker threads that run the scheduled function.                 *)
(*                                                                         *)
(* A "with" block that takes the executor's lock and ends before the       *)
(* thread does anything else is one step; it is enabled when the HA loop   *)
(* is not inside run_cycle.                                                *)
(***************************************************************************)
EXTENDS Naturals, FiniteSets

CONSTANTS
    Workers,      \* the worker threads: one per scheduled function
    ApiThreads,   \* the REST API threads
    Requests,     \* what operators ask the REST API for: "restart",
                  \* "reinitialize", and "force", a reinitialize with force
    None          \* Python's None

(***************************************************************************)
(* The scheduled functions, by what they do to the postmaster:             *)
(*   "start"   Postgresql.follow: starts it, without a critical task;      *)
(*   "restart" Postgresql.restart with the executor's critical task;       *)
(*   "clone"   Ha.clone: runs the replica creation command, then follows;  *)
(*   "reinit"  Ha._do_reinitialize: stops it, then clones.                 *)
(***************************************************************************)
Actions == {"start", "restart", "clone", "reinit"}

ASSUME ExecutorAssumption ==
    /\ Requests \subseteq {"restart", "reinitialize", "force"}
    /\ None \notin Workers
    /\ None \notin Actions

WorkerPCs == {"idle", "new", "reset", "stop", "call", "running", "start",
              "wait", "finally", "done"}
ApiPCs == {"idle", "cancel", "kill", "wait", "unschedule", "schedule"}
MainPCs == {"idle", "cycle", "demote"}

VARIABLES
    action,       \* AsyncExecutor._scheduled_action
    isCancelled,  \* AsyncExecutor._is_cancelled
    finish,       \* AsyncExecutor._finish_event
    task,         \* AsyncExecutor.critical_task: is_cancelled and result
    subprocess,   \* CancellableSubprocess: _is_cancelled, _process, and the
                  \* workers whose process has been terminated
    pg,           \* is there a postmaster?
    worker,       \* the state of each worker thread
    job,          \* the function each worker was created for
    api,          \* the state of each REST API thread
    main,         \* the state of the HA loop; it owns the lock unless "idle"
    interrupted,  \* history: workers whose restart the HA loop interrupted
    forced        \* history: API threads that have asked for a reinitialize
                  \* with force

vars == <<action, isCancelled, finish, task, subprocess, pg, worker, job, api,
          main, interrupted, forced>>

TypeOK ==
    /\ action \in Actions \cup {None}
    /\ isCancelled \in BOOLEAN
    /\ finish \in BOOLEAN
    /\ task \in [cancelled : BOOLEAN, result : Workers \cup {None}]
    /\ subprocess \in [cancelled : BOOLEAN, process : Workers \cup {None},
                       killed : SUBSET Workers]
    /\ pg \in BOOLEAN
    /\ worker \in [Workers -> WorkerPCs]
    /\ job \in [Workers -> Actions \cup {None}]
    /\ api \in [ApiThreads -> ApiPCs]
    /\ main \in MainPCs
    /\ interrupted \subseteq Workers
    /\ forced \subseteq ApiThreads

Init ==
    /\ action = None
    /\ isCancelled = FALSE
    /\ finish = FALSE
    /\ task = [cancelled |-> FALSE, result |-> None]
    /\ subprocess = [cancelled |-> FALSE, process |-> None, killed |-> {}]
    /\ pg \in BOOLEAN
    /\ worker = [w \in Workers |-> "idle"]
    /\ job = [w \in Workers |-> None]
    /\ api = [t \in ApiThreads |-> "idle"]
    /\ main = "idle"
    /\ interrupted = {}
    /\ forced = {}

-----------------------------------------------------------------------------
LockFree == main = "idle"

busy == action /= None

\* A plausible bug: schedule without looking at the action in progress.
schedule_Overwrites(a, w) ==
    /\ worker[w] = "idle"
    /\ action' = a
    /\ isCancelled' = FALSE
    /\ finish' = TRUE
    /\ worker' = [worker EXCEPT ![w] = "new"]
    /\ job' = [job EXCEPT ![w] = a]

(***************************************************************************)
(* schedule followed by run_async (or, for a synchronous restart, by run   *)
(* in the calling thread).  The time a thread takes to get going is part   *)
(* of the time w spends in "new".                                          *)
(***************************************************************************)
schedule(a, w) ==
    /\ worker[w] = "idle"
    /\ ~busy
    /\ action' = a
    /\ isCancelled' = FALSE
    /\ finish' = TRUE
    /\ worker' = [worker EXCEPT ![w] = "new"]
    /\ job' = [job EXCEPT ![w] = a]

-----------------------------------------------------------------------------
(* The worker threads: AsyncExecutor.run *)

\* The first lines of the function: which part of it comes first.
FirstStep(a) == CASE a \in {"restart", "reinit"} -> "stop"
                  [] a = "clone" -> "call"
                  [] a = "start" -> "start"

(***************************************************************************)
(* with self: give up when cancelled, else clear the finish event.         *)
(***************************************************************************)
run_Enter(w) ==
    /\ worker[w] = "new"
    /\ LockFree
    /\ IF isCancelled
       THEN /\ worker' = [worker EXCEPT ![w] = "finally"]
            /\ UNCHANGED finish
       ELSE /\ worker' = [worker EXCEPT ![w] = "reset"]
            /\ finish' = FALSE
    /\ UNCHANGED <<action, isCancelled, task, subprocess, pg, job, api, main,
                   interrupted, forced>>

(***************************************************************************)
(* reset_is_cancelled, outside of the lock.                                *)
(***************************************************************************)
reset_is_cancelled(w) ==
    /\ worker[w] = "reset"
    /\ subprocess' = [subprocess EXCEPT !.cancelled = FALSE]
    /\ worker' = [worker EXCEPT ![w] = FirstStep(job[w])]
    /\ UNCHANGED <<action, isCancelled, finish, task, pg, job, api, main,
                   interrupted, forced>>

(***************************************************************************)
(* Postgresql.stop, called by restart and by _do_reinitialize.  A failed   *)
(* stop ends the function.                                                 *)
(***************************************************************************)
stop(w) ==
    /\ worker[w] = "stop"
    /\ \/ /\ pg' = FALSE
          /\ worker' = [worker EXCEPT ![w] = IF job[w] = "restart"
                                             THEN "start" ELSE "call"]
       \/ /\ job[w] = "restart"
          /\ worker' = [worker EXCEPT ![w] = "finally"]
          /\ UNCHANGED pg
    /\ UNCHANGED <<action, isCancelled, finish, task, subprocess, job, api,
                   main, interrupted, forced>>

(***************************************************************************)
(* CancellableSubprocess.call: raises when cancelled, else starts the      *)
(* process and remembers it (over whatever was remembered).                *)
(***************************************************************************)
call(w) ==
    /\ worker[w] = "call"
    /\ IF subprocess.cancelled
       THEN /\ worker' = [worker EXCEPT ![w] = "finally"]
            /\ UNCHANGED subprocess
       ELSE /\ worker' = [worker EXCEPT ![w] = "running"]
            /\ subprocess' = [subprocess EXCEPT !.process = w]
    /\ UNCHANGED <<action, isCancelled, finish, task, pg, job, api, main,
                   interrupted, forced>>

(***************************************************************************)
(* The process ends and call's finally forgets it.  Success leads to       *)
(* follow; failure, or having been terminated, ends the function.          *)
(***************************************************************************)
call_Returns(w) ==
    /\ worker[w] = "running"
    /\ subprocess' = [subprocess EXCEPT !.process = None]
    /\ \/ /\ w \notin subprocess.killed
          /\ worker' = [worker EXCEPT ![w] = "start"]
       \/ worker' = [worker EXCEPT ![w] = "finally"]
    /\ UNCHANGED <<action, isCancelled, finish, task, pg, job, api, main,
                   interrupted, forced>>

(***************************************************************************)
(* Postgresql.start: nothing to do when a postmaster runs; otherwise, when *)
(* neither the subprocess nor (for a restart) the critical task is         *)
(* cancelled, the postmaster is started and the task completed, under the  *)
(* lock of the task.                                                       *)
(***************************************************************************)
start(w) ==
    /\ worker[w] = "start"
    /\ IF pg \/ subprocess.cancelled \/ (job[w] = "restart" /\ task.cancelled)
       THEN /\ worker' = [worker EXCEPT ![w] = "finally"]
            /\ UNCHANGED <<pg, task>>
       ELSE /\ pg' = TRUE
            /\ task' = IF job[w] = "restart"
                       THEN [task EXCEPT !.result = w] ELSE task
            /\ worker' = [worker EXCEPT ![w] = "wait"]
    /\ UNCHANGED <<action, isCancelled, finish, subprocess, job, api, main,
                   interrupted, forced>>

\* A plausible bug: the wait does not notice that the postmaster is gone.
wait_for_startup_UntilUp(w) ==
    /\ worker[w] = "wait"
    /\ pg
    /\ worker' = [worker EXCEPT ![w] = "finally"]
    /\ UNCHANGED <<action, isCancelled, finish, task, subprocess, pg, job, api,
                   main, interrupted, forced>>

(***************************************************************************)
(* wait_for_port_open and wait_for_startup return: the postmaster is up,   *)
(* is gone, the call was cancelled, or the time is over.                   *)
(***************************************************************************)
wait_for_startup(w) ==
    /\ worker[w] = "wait"
    /\ worker' = [worker EXCEPT ![w] = "finally"]
    /\ UNCHANGED <<action, isCancelled, finish, task, subprocess, pg, job, api,
                   main, interrupted, forced>>

\* A plausible bug: the finish event is not set on the way out.
run_Finally_NoEvent(w) ==
    /\ worker[w] = "finally"
    /\ LockFree
    /\ action' = None
    /\ task' = [cancelled |-> FALSE, result |-> None]
    /\ worker' = [worker EXCEPT ![w] = "done"]
    /\ UNCHANGED <<finish, isCancelled, subprocess, pg, job, api, main,
                   interrupted, forced>>

(***************************************************************************)
(* The finally clause of run, under the executor's lock.                   *)
(***************************************************************************)
run_Finally(w) ==
    /\ worker[w] = "finally"
    /\ LockFree
    /\ action' = None
    /\ finish' = TRUE
    /\ task' = [cancelled |-> FALSE, result |-> None]
    /\ worker' = [worker EXCEPT ![w] = "done"]
    /\ UNCHANGED <<isCancelled, subprocess, pg, job, api, main, interrupted,
                   forced>>

run(w) ==
    \/ run_Enter(w)
    \/ reset_is_cancelled(w)
    \/ stop(w)
    \/ call(w)
    \/ call_Returns(w)
    \/ start(w)
    \/ wait_for_startup(w)
    \/ run_Finally(w)

-----------------------------------------------------------------------------
(* The HA loop *)

(***************************************************************************)
(* run_cycle takes the executor's lock ...                                 *)
(***************************************************************************)
run_cycle_Begin ==
    /\ main = "idle"
    /\ main' = "cycle"
    /\ UNCHANGED <<action, isCancelled, finish, task, subprocess, pg, worker,
                   job, api, interrupted, forced>>

(***************************************************************************)
(* ... and gives it back, here after a cycle that found nothing to do.     *)
(***************************************************************************)
run_cycle_End ==
    /\ main = "cycle"
    /\ main' = "idle"
    /\ UNCHANGED <<action, isCancelled, finish, task, subprocess, pg, worker,
                   job, api, interrupted, forced>>

(***************************************************************************)
(* try_run_async in a cycle that finds no postmaster: recover starts it,   *)
(* bootstrap clones into an empty data directory.                          *)
(***************************************************************************)
run_cycle_TryRunAsync(w) ==
    /\ main = "cycle"
    /\ ~pg
    /\ \E a \in {"start", "clone"} : schedule(a, w)
    /\ main' = "idle"
    /\ UNCHANGED <<task, subprocess, pg, api, interrupted, forced>>

\* A plausible bug: the flag is not raised although the task has not run.
handle_long_action_NoFlag ==
    /\ main = "cycle"
    /\ action = "restart"
    /\ IF task.result = None
       THEN UNCHANGED <<task, pg>>
       ELSE /\ pg' = FALSE
            /\ UNCHANGED task
    /\ main' = "demote"
    /\ UNCHANGED <<action, isCancelled, finish, subprocess, worker, job, api,
                   interrupted, forced>>

(***************************************************************************)
(* handle_long_action_in_progress of a master that lost the leader key     *)
(* while a restart is in progress: CriticalTask.cancel, and the postmaster *)
(* is terminated when the task has already started it.                     *)
(***************************************************************************)
handle_long_action_in_progress ==
    /\ main = "cycle"
    /\ action = "restart"
    /\ IF task.result = None
       THEN /\ task' = [task EXCEPT !.cancelled = TRUE]
            /\ UNCHANGED pg
       ELSE /\ pg' = FALSE
            /\ UNCHANGED task
    /\ main' = "demote"
    /\ UNCHANGED <<action, isCancelled, finish, subprocess, worker, job, api,
                   interrupted, forced>>

(***************************************************************************)
(* demote('immediate-nolock') stops the postmaster; its own try_run_async  *)
(* is refused because the restart is still scheduled.                      *)
(***************************************************************************)
demote ==
    /\ main = "demote"
    /\ pg' = FALSE
    /\ interrupted' = interrupted \cup
           {w \in Workers : job[w] = "restart"
                            /\ worker[w] \notin {"idle", "done"}}
    /\ main' = "idle"
    /\ UNCHANGED <<action, isCancelled, finish, task, subprocess, worker, job,
                   api, forced>>

(***************************************************************************)
(* The postmaster dies (external).                                         *)
(***************************************************************************)
PostmasterDies ==
    /\ pg
    /\ pg' = FALSE
    /\ UNCHANGED <<action, isCancelled, finish, task, subprocess, worker, job,
                   api, main, interrupted, forced>>

-----------------------------------------------------------------------------
(* The REST API threads *)

(***************************************************************************)
(* Ha.restart: schedule under the executor's lock.  When an action is in   *)
(* progress the request is refused, which changes nothing.                 *)
(***************************************************************************)
restart(t, w) ==
    /\ api[t] = "idle"
    /\ "restart" \in Requests
    /\ LockFree
    /\ schedule("restart", w)
    /\ UNCHANGED <<task, subprocess, pg, api, main, interrupted, forced>>

(***************************************************************************)
(* Ha.reinitialize: the checks on the leader key have passed.              *)
(***************************************************************************)
reinitialize(t) ==
    /\ api[t] = "idle"
    /\ LockFree
    /\ \/ /\ "reinitialize" \in Requests
          /\ api' = [api EXCEPT ![t] = "schedule"]
          /\ UNCHANGED forced
       \/ /\ "force" \in Requests
          /\ api' = [api EXCEPT ![t] = "cancel"]
          /\ forced' = forced \cup {t}
    /\ UNCHANGED <<action, isCancelled, finish, task, subprocess, pg, worker,
                   job, main, interrupted>>

(***************************************************************************)
(* cancel, first block: under the lock, raise the flag if an action is     *)
(* scheduled.                                                              *)
(***************************************************************************)
cancel(t) ==
    /\ api[t] = "cancel"
    /\ LockFree
    /\ isCancelled' = IF busy THEN TRUE ELSE isCancelled
    /\ api' = [api EXCEPT ![t] = IF busy THEN "kill" ELSE "schedule"]
    /\ UNCHANGED <<action, finish, task, subprocess, pg, worker, job, main,
                   interrupted, forced>>

(***************************************************************************)
(* CancellableSubprocess.cancel: raise its flag and terminate (in the end  *)
(* kill) the process it knows of.                                          *)
(***************************************************************************)
cancel_Kill(t) ==
    /\ api[t] = "kill"
    /\ subprocess' = [subprocess EXCEPT
                        !.cancelled = TRUE,
                        !.killed = @ \cup ({subprocess.process} \ {None})]
    /\ api' = [api EXCEPT ![t] = "wait"]
    /\ UNCHANGED <<action, isCancelled, finish, task, pg, worker, job, main,
                   interrupted, forced>>

(***************************************************************************)
(* _finish_event.wait() returns.                                           *)
(***************************************************************************)
cancel_Wait(t) ==
    /\ api[t] = "wait"
    /\ finish
    /\ api' = [api EXCEPT ![t] = "unschedule"]
    /\ UNCHANGED <<action, isCancelled, finish, task, subprocess, pg, worker,
                   job, main, interrupted, forced>>

(***************************************************************************)
(* cancel, last block: reset_scheduled_action under the lock.              *)
(***************************************************************************)
cancel_Unschedule(t) ==
    /\ api[t] = "unschedule"
    /\ LockFree
    /\ action' = None
    /\ api' = [api EXCEPT ![t] = "schedule"]
    /\ UNCHANGED <<isCancelled, finish, task, subprocess, pg, worker, job,
                   main, interrupted, forced>>

(***************************************************************************)
(* Ha.reinitialize, last part: schedule, or report the action in progress. *)
(***************************************************************************)
reinitialize_Schedule(t) ==
    /\ api[t] = "schedule"
    /\ LockFree
    /\ api' = [api EXCEPT ![t] = "idle"]
    /\ \/ \E w \in Workers : schedule("reinit", w)
       \/ /\ busy
          /\ UNCHANGED <<action, isCancelled, finish, worker, job>>
    /\ UNCHANGED <<task, subprocess, pg, main, interrupted, forced>>

-----------------------------------------------------------------------------
HaLoop ==
    \/ run_cycle_Begin
    \/ run_cycle_End
    \/ \E w \in Workers : run_cycle_TryRunAsync(w)
    \/ handle_long_action_in_progress
    \/ demote

Api(t) ==
    \/ \E w \in Workers : restart(t, w)
    \/ reinitialize(t)
    \/ cancel(t)
    \/ cancel_Kill(t)
    \/ cancel_Wait(t)
    \/ cancel_Unschedule(t)
    \/ reinitialize_Schedule(t)

Next ==
    \/ \E w \in Workers : run(w)
    \/ HaLoop
    \/ PostmasterDies
    \/ \E t \in ApiThreads : Api(t)

Spec == Init /\ [][Next]_vars

(***************************************************************************)
(* Threads keep running and background functions return.  A thread that    *)
(* waits for the executor's lock gets it in the end (strong fairness): the *)
(* HA loop gives the lock back after every cycle and then sleeps for       *)
(* loop_wait.                                                              *)
(***************************************************************************)
Fairness ==
    /\ \A w \in Workers : SF_vars(run(w))
    /\ WF_vars(run_cycle_End \/ handle_long_action_in_progress \/ demote)
    /\ \A t \in ApiThreads :
          SF_vars(\/ cancel(t) \/ cancel_Kill(t) \/ cancel_Wait(t)
                  \/ cancel_Unschedule(t) \/ reinitialize_Schedule(t))

FairSpec == Spec /\ Fairness

-----------------------------------------------------------------------------
(* Properties *)

Active == {w \in Workers : worker[w] \notin {"idle", "done"}}

(***************************************************************************)
(* Unless an operator forces a reinitialize, at most one background        *)
(* function is pending or running, whatever threads asked for one, and the *)
(* executor reports busy exactly while there is one: the HA loop's busy    *)
(* test (ha.py, _run_cycle) neither misses a running function nor waits    *)
(* for one that is over.                                                   *)
(***************************************************************************)
OneWorker ==
    forced = {} =>
       /\ \A v, w \in Active : v = w
       /\ busy <=> Active /= {}

(***************************************************************************)
(* Unless an operator forces a reinitialize (which starts what it has      *)
(* cloned), a restart that the HA loop interrupted because the leader key  *)
(* was lost never brings the postmaster back: wherever the worker was when *)
(* CriticalTask.cancel was called, after demote there is no postmaster for *)
(* as long as that worker lives.  ("When cancel returns True it is         *)
(* guaranteed that the background task will notice the is_cancelled flag", *)
(* async_executor.py.)                                                     *)
(***************************************************************************)
InterruptedRestartStaysDown ==
    forced = {} /\ Active \cap interrupted /= {} => ~pg

(***************************************************************************)
(* The executor does not stay busy for ever: every scheduled function is   *)
(* over some day, so that the HA loop goes back to its normal processing.  *)
(***************************************************************************)
BusyEnds == \A w \in Workers : worker[w] = "new" ~> ~busy

(***************************************************************************)
(* A forced reinitialize gets past cancel: it does not wait for ever on a  *)
(* finish event that no thread is going to set, although threads that were *)
(* cancelled too early, too late or not at all come and go meanwhile.      *)
(***************************************************************************)
CancelReturns == \A t \in ApiThreads : api[t] = "cancel" ~> api[t] = "schedule"

=============================================================================
