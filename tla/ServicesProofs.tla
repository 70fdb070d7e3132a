--------------------------- MODULE ServicesProofs ---------------------------
(***************************************************************************)
(* What the threads and processes around the HA loop guarantee, for any    *)
(* number of them and bounds of any size: the executor of the background   *)
(* functions, and the services of a node.                                  *)
(***************************************************************************)
EXTENDS AsyncExecutor, MCServices, FiniteSetTheorems, FunctionTheorems,
        SequenceTheorems, TLAPS

-----------------------------------------------------------------------------
(* The background executor *)

\* A worker thread has been given its function.
JobKnown == \A w \in Workers : worker[w] /= "idle" => job[w] \in Actions

\* Nobody has called cancel or is going to.
NotCancelled ==
    /\ isCancelled = FALSE
    /\ \A t \in ApiThreads : api[t] \in {"idle", "schedule"}

\* An active worker runs the scheduled action.
RunsTheAction == \A w \in Active : job[w] = action

\* A completed critical task belongs to a worker past the start.
ResultIsRecent ==
    task.result /= None => \E w \in Active : worker[w] \in {"wait", "finally"}

\* The worker will not start the postmaster any more.
Stopped(w) == task.cancelled \/ worker[w] \in {"wait", "finally"}

\* Between CriticalTask.cancel and the end of demote the worker is Stopped,
\* and from then on it stays so.
Interlocked ==
    /\ main = "demote" =>
          /\ action = "restart"
          /\ \A w \in Active : Stopped(w)
    /\ \A w \in interrupted :
          /\ worker[w] /= "idle"
          /\ w \in Active => Stopped(w) /\ job[w] = "restart"

SInv ==
    forced = {} =>
       /\ NotCancelled
       /\ OneWorker
       /\ RunsTheAction
       /\ ResultIsRecent
       /\ Interlocked
       /\ InterruptedRestartStaysDown

-----------------------------------------------------------------------------
LEMMA InitType == Init => TypeOK /\ JobKnown
<1> SUFFICES ASSUME Init PROVE TypeOK /\ JobKnown
  OBVIOUS
<1> USE DEF Init
<1>1. action \in Actions \cup {None}
  OBVIOUS
<1>2. isCancelled \in BOOLEAN /\ finish \in BOOLEAN /\ pg \in BOOLEAN
  OBVIOUS
<1>3. task \in [cancelled : BOOLEAN, result : Workers \cup {None}]
  OBVIOUS
<1>4. subprocess \in [cancelled : BOOLEAN, process : Workers \cup {None},
                      killed : SUBSET Workers]
  OBVIOUS
<1>5. /\ worker \in [Workers -> WorkerPCs]
      /\ job \in [Workers -> Actions \cup {None}]
  BY DEF WorkerPCs
<1>6. /\ api \in [ApiThreads -> ApiPCs]
      /\ main \in MainPCs
      /\ interrupted \subseteq Workers
      /\ forced \subseteq ApiThreads
  BY DEF ApiPCs, MainPCs
<1>7. JobKnown
  BY DEF JobKnown
<1> QED
  BY ONLY <1>1, <1>2, <1>3, <1>4, <1>5, <1>6, <1>7 DEF TypeOK

LEMMA ScheduleType ==
    ASSUME TypeOK, JobKnown, NEW a \in Actions, NEW w \in Workers, schedule(a, w)
    PROVE  /\ action' \in Actions
           /\ isCancelled' \in BOOLEAN
           /\ finish' \in BOOLEAN
           /\ worker' \in [Workers -> WorkerPCs]
           /\ job' \in [Workers -> Actions \cup {None}]
           /\ JobKnown'
<1>1. /\ worker' \in [Workers -> WorkerPCs]
      /\ job' \in [Workers -> Actions \cup {None}]
    BY DEF TypeOK, schedule, WorkerPCs
<1>2. JobKnown'
    BY DEF TypeOK, schedule, JobKnown
<1> QED
    BY <1>1, <1>2 DEF schedule

LEMMA NextType == TypeOK /\ JobKnown /\ [Next]_vars => TypeOK' /\ JobKnown'
<1> SUFFICES ASSUME TypeOK, JobKnown, [Next]_vars PROVE TypeOK' /\ JobKnown'
  OBVIOUS
<1> USE DEF TypeOK, JobKnown, WorkerPCs, ApiPCs, MainPCs, Actions
<1>1. ASSUME NEW w \in Workers, run_Enter(w) PROVE TypeOK' /\ JobKnown'
  <2>1. /\ worker' \in [Workers -> WorkerPCs]
        /\ finish' \in BOOLEAN
        /\ \A v \in Workers : worker'[v] /= "idle" => worker[v] /= "idle"
    BY <1>1 DEF run_Enter
  <2>2. UNCHANGED <<action, isCancelled, task, subprocess, pg, job, api, main,
                    interrupted, forced>>
    BY <1>1 DEF run_Enter
  <2> QED
    BY <2>1, <2>2
<1>2. ASSUME NEW w \in Workers, reset_is_cancelled(w) PROVE TypeOK' /\ JobKnown'
  <2>1. job[w] \in Actions
    BY <1>2 DEF reset_is_cancelled
  <2>2. FirstStep(job[w]) \in {"stop","call","start"}
    BY <2>1 DEF FirstStep
  <2>3. subprocess' \in [cancelled : BOOLEAN, process : Workers \cup {None},
                           killed : SUBSET Workers]
    BY <1>2 DEF reset_is_cancelled
  <2> QED
    BY <1>2, <2>1, <2>2, <2>3 DEF reset_is_cancelled
<1>3. ASSUME NEW w \in Workers, stop(w) PROVE TypeOK' /\ JobKnown'
  <2>1. /\ worker' \in [Workers -> WorkerPCs]
        /\ \A v \in Workers : worker'[v] /= "idle" => worker[v] /= "idle"
    BY <1>3 DEF stop
  <2>2. pg' \in BOOLEAN
    BY <1>3 DEF stop
  <2>3. UNCHANGED <<action, isCancelled, finish, task, subprocess, job, api,
                    main, interrupted, forced>>
    BY <1>3 DEF stop
  <2> QED
    BY <2>1, <2>2, <2>3
<1>4. ASSUME NEW w \in Workers, call(w) PROVE TypeOK' /\ JobKnown'
  <2>3. subprocess' \in [cancelled : BOOLEAN, process : Workers \cup {None},
                           killed : SUBSET Workers]
    BY <1>4 DEF call
  <2> QED
  BY <1>4, <2>3 DEF call
<1>5. ASSUME NEW w \in Workers, call_Returns(w) PROVE TypeOK' /\ JobKnown'
  <2>3. subprocess' \in [cancelled : BOOLEAN, process : Workers \cup {None},
                           killed : SUBSET Workers]
    BY <1>5 DEF call_Returns
  <2> QED
  BY <1>5, <2>3 DEF call_Returns
<1>6. ASSUME NEW w \in Workers, start(w) PROVE TypeOK' /\ JobKnown'
  <2>3. task' \in [cancelled : BOOLEAN, result : Workers \cup {None}]
    BY <1>6 DEF start
  <2>4. /\ worker' \in [Workers -> WorkerPCs]
        /\ \A v \in Workers : worker'[v] /= "idle" => worker[v] /= "idle"
    BY <1>6 DEF start
  <2>5. /\ pg' \in BOOLEAN
        /\ UNCHANGED job
    BY <1>6 DEF start
  <2>6. JobKnown'
    BY <2>4, <2>5
  <2> QED
    BY <1>6, <2>3, <2>4, <2>5, <2>6 DEF start
<1>7. ASSUME NEW w \in Workers, wait_for_startup(w) PROVE TypeOK' /\ JobKnown'
  BY <1>7 DEF wait_for_startup
<1>8. ASSUME NEW w \in Workers, run_Finally(w) PROVE TypeOK' /\ JobKnown'
  <2>3. task' \in [cancelled : BOOLEAN, result : Workers \cup {None}]
    BY <1>8 DEF run_Finally
  <2> QED
  BY <1>8, <2>3 DEF run_Finally
<1>9. CASE HaLoop
  <2>1. CASE run_cycle_Begin
    BY <2>1 DEF run_cycle_Begin
  <2>2. CASE run_cycle_End
    BY <2>2 DEF run_cycle_End
  <2>3. ASSUME NEW w \in Workers, run_cycle_TryRunAsync(w) PROVE TypeOK' /\ JobKnown'
    <3>1. PICK a \in {"start", "clone"} : schedule(a, w)
      BY <2>3 DEF run_cycle_TryRunAsync
    <3>2. /\ main' = "idle"
          /\ UNCHANGED <<task, subprocess, pg, api, interrupted, forced>>
      BY <2>3 DEF run_cycle_TryRunAsync
    <3>3. a \in Actions
      OBVIOUS
    <3> HIDE DEF JobKnown, Actions, WorkerPCs
    <3>4. /\ action' \in Actions
          /\ isCancelled' \in BOOLEAN
          /\ finish' \in BOOLEAN
          /\ worker' \in [Workers -> WorkerPCs]
          /\ job' \in [Workers -> Actions \cup {None}]
          /\ JobKnown'
      BY <3>1, <3>3, ScheduleType
    <3> QED
      BY <3>2, <3>4
  <2>4. CASE handle_long_action_in_progress
    <3>1. task' \in [cancelled : BOOLEAN, result : Workers \cup {None}]
      BY <2>4 DEF handle_long_action_in_progress
    <3> QED
      BY <2>4, <3>1 DEF handle_long_action_in_progress
  <2>5. CASE demote
    BY <2>5 DEF demote
  <2> QED
    BY <1>9, <2>1, <2>2, <2>3, <2>4, <2>5 DEF HaLoop
<1>10. CASE PostmasterDies
  <2>1. /\ pg' \in BOOLEAN
        /\ UNCHANGED <<action, isCancelled, finish, task, subprocess, worker, job,
                       api, main, interrupted, forced>>
    BY <1>10 DEF PostmasterDies
  <2> QED
    BY <2>1
<1>11. ASSUME NEW t \in ApiThreads, Api(t) PROVE TypeOK' /\ JobKnown'
  <2>1. ASSUME NEW w \in Workers, restart(t, w) PROVE TypeOK' /\ JobKnown'
    BY <2>1 DEF restart, schedule
  <2>2. CASE reinitialize(t)
    BY <2>2 DEF reinitialize
  <2>3. CASE cancel(t)
    <3>1. /\ isCancelled' \in BOOLEAN
          /\ api' \in [ApiThreads -> ApiPCs]
      BY <2>3 DEF cancel
    <3>2. UNCHANGED <<action, finish, task, subprocess, pg, worker, job, main,
                      interrupted, forced>>
      BY <2>3 DEF cancel
    <3> QED
      BY <3>1, <3>2
  <2>4. CASE cancel_Kill(t)
    <3>3. subprocess' \in [cancelled : BOOLEAN, process : Workers \cup {None},
                           killed : SUBSET Workers]
      BY <2>4 DEF cancel_Kill
    <3> QED
     BY <2>4, <3>3 DEF cancel_Kill
  <2>5. CASE cancel_Wait(t)
    BY <2>5 DEF cancel_Wait
  <2>6. CASE cancel_Unschedule(t)
    BY <2>6 DEF cancel_Unschedule
  <2>7. CASE reinitialize_Schedule(t)
    <3>1. /\ api' \in [ApiThreads -> ApiPCs]
          /\ UNCHANGED <<task, subprocess, pg, main, interrupted, forced>>
      BY <2>7 DEF reinitialize_Schedule
    <3>2. CASE busy /\ UNCHANGED <<action, isCancelled, finish, worker, job>>
      BY <3>1, <3>2
    <3>3. ASSUME NEW w \in Workers, schedule("reinit", w)
          PROVE  TypeOK' /\ JobKnown'
      <4>1. "reinit" \in Actions
        OBVIOUS
      <4> HIDE DEF JobKnown, Actions, WorkerPCs
      <4>2. /\ action' \in Actions
            /\ isCancelled' \in BOOLEAN
            /\ finish' \in BOOLEAN
            /\ worker' \in [Workers -> WorkerPCs]
            /\ job' \in [Workers -> Actions \cup {None}]
            /\ JobKnown'
        BY <3>3, <4>1, ScheduleType
      <4> QED
        BY <3>1, <4>2
    <3> QED
      BY <2>7, <3>2, <3>3 DEF reinitialize_Schedule
  <2> QED
    BY <1>11, <2>1, <2>2, <2>3, <2>4, <2>5, <2>6, <2>7 DEF Api
<1>12. CASE UNCHANGED vars
  BY <1>12 DEF vars
<1> QED
 BY <1>1, <1>2, <1>3, <1>4, <1>5, <1>6, <1>7, <1>8, <1>9, <1>10, <1>11, <1>12 DEF Next, run

(***************************************************************************)
(* The type invariant of AsyncExecutor (async_executor.py), with or        *)
(* without force.                                                          *)
(***************************************************************************)
THEOREM TypeCorrect == Spec => []TypeOK
<1>1. Init => TypeOK /\ JobKnown
  BY InitType
<1>2. TypeOK /\ JobKnown /\ [Next]_vars => TypeOK' /\ JobKnown'
  BY NextType
<1> QED
  BY <1>1, <1>2, PTL DEF Spec

-----------------------------------------------------------------------------
LEMMA InitSafe == Init => SInv
BY DEF Init, SInv, NotCancelled, OneWorker, RunsTheAction, ResultIsRecent,
       Interlocked, InterruptedRestartStaysDown, Active, busy

(***************************************************************************)
(* One step keeps the invariant; once forced, it says nothing.  The worker steps share the *)
(* fact that the worker that moves is the only active one.                 *)
(***************************************************************************)
LEMMA NextSafe ==
    ASSUME TypeOK, JobKnown, SInv, [Next]_vars
    PROVE  SInv'
<1> USE ExecutorAssumption
<1> USE DEF SInv, NotCancelled, OneWorker, RunsTheAction, ResultIsRecent,
            Stopped, Interlocked, InterruptedRestartStaysDown, Active, busy,
            TypeOK, WorkerPCs, ApiPCs, MainPCs, Actions, JobKnown
<1> SUFFICES ASSUME forced' = {} PROVE SInv'
  OBVIOUS
<1>a. forced = {}
  <2>1. ASSUME NEW t \in ApiThreads, Api(t) PROVE forced = {}
    BY <2>1 DEF Api, restart, reinitialize, cancel, cancel_Kill, cancel_Wait,
                cancel_Unschedule, reinitialize_Schedule
  <2>2. ASSUME NEW w \in Workers, run(w) PROVE forced = {}
    BY <2>2 DEF run, run_Enter, reset_is_cancelled, stop, call, call_Returns,
                start, wait_for_startup, run_Finally
  <2>3. CASE HaLoop
    BY <2>3 DEF HaLoop, run_cycle_Begin, run_cycle_End, run_cycle_TryRunAsync,
                handle_long_action_in_progress, demote
  <2> QED
    BY <2>1, <2>2, <2>3 DEF Next, PostmasterDies, vars
<1> USE <1>a
<1>0. ASSUME NEW w \in Workers, worker[w] \notin {"idle", "done"}
      PROVE  /\ \A v \in Workers : worker[v] \in {"idle", "done"} \/ v = w
             /\ job[w] = action
             /\ action /= None
  BY <1>0
<1>1. ASSUME NEW w \in Workers, run_Enter(w) PROVE SInv'
  BY <1>0, <1>1 DEF run_Enter
<1>2. ASSUME NEW w \in Workers, reset_is_cancelled(w) PROVE SInv'
  <2>1. FirstStep(job[w]) \in {"stop", "call", "start"}
    BY <1>2 DEF FirstStep, reset_is_cancelled
  <2> QED
    BY <1>0, <1>2, <2>1 DEF reset_is_cancelled
<1>3. ASSUME NEW w \in Workers, stop(w) PROVE SInv'
  BY <1>0, <1>3 DEF stop
<1>4. ASSUME NEW w \in Workers, call(w) PROVE SInv'
  BY <1>0, <1>4 DEF call
<1>5. ASSUME NEW w \in Workers, call_Returns(w) PROVE SInv'
  BY <1>0, <1>5 DEF call_Returns
<1>6. ASSUME NEW w \in Workers, start(w) PROVE SInv'
  <2>1. worker[w] = "start" /\ w \in interrupted => job[w] = "restart" /\ task.cancelled
    OBVIOUS
  <2>2. CASE pg \/ subprocess.cancelled \/ (job[w] = "restart" /\ task.cancelled)
    BY <1>0, <1>6, <2>2 DEF start
  <2>3. CASE ~(pg \/ subprocess.cancelled \/ (job[w] = "restart" /\ task.cancelled))
    <3>1. w \notin interrupted
      BY <1>6, <2>1, <2>3 DEF start
    <3>2. main /= "demote"
      BY <1>0, <1>6, <2>3 DEF start
    <3>3. (task.cancelled)' = task.cancelled
      BY <1>6, <2>3 DEF start
    <3> QED
      BY <1>0, <1>6, <2>3, <3>1, <3>2, <3>3 DEF start
  <2> QED
    BY <2>2, <2>3
<1>7. ASSUME NEW w \in Workers, wait_for_startup(w) PROVE SInv'
  BY <1>0, <1>7 DEF wait_for_startup
<1>8. ASSUME NEW w \in Workers, run_Finally(w) PROVE SInv'
  <2>1. Active' = {}
    BY <1>0, <1>8 DEF run_Finally
  <2>2. task'.result = None /\ action' = None /\ main' /= "demote"
    BY <1>8 DEF run_Finally, LockFree
  <2>3. \A v \in interrupted' : worker'[v] /= "idle"
    BY <1>8 DEF run_Finally
  <2> QED
    BY <1>8, <2>1, <2>2, <2>3 DEF run_Finally
<1>9. CASE HaLoop
  <2>1. CASE run_cycle_Begin
    BY <2>1 DEF run_cycle_Begin
  <2>2. CASE run_cycle_End
    BY <2>2 DEF run_cycle_End
  <2>3. ASSUME NEW w \in Workers, run_cycle_TryRunAsync(w) PROVE SInv'
    BY <2>3 DEF run_cycle_TryRunAsync, schedule
  <2>4. CASE handle_long_action_in_progress
    BY <2>4 DEF handle_long_action_in_progress
  <2>5. CASE demote
    BY <2>5 DEF demote
  <2> QED
    BY <1>9, <2>1, <2>2, <2>3, <2>4, <2>5 DEF HaLoop
<1>10. CASE PostmasterDies
  BY <1>10 DEF PostmasterDies
<1>11. ASSUME NEW t \in ApiThreads, Api(t) PROVE SInv'
  <2>1. ASSUME NEW w \in Workers, restart(t, w) PROVE SInv'
    BY <2>1 DEF restart, schedule
  <2>2. CASE reinitialize(t)
    BY <2>2 DEF reinitialize
  <2>3. ~ (cancel(t) \/ cancel_Kill(t) \/ cancel_Wait(t) \/ cancel_Unschedule(t))
    BY DEF cancel, cancel_Kill, cancel_Wait, cancel_Unschedule
  <2>4. CASE reinitialize_Schedule(t)
    BY <2>4 DEF reinitialize_Schedule, schedule
  <2> QED
    BY <1>11, <2>1, <2>2, <2>3, <2>4 DEF Api
<1>12. CASE UNCHANGED vars
  BY <1>12 DEF vars
<1> QED
  BY <1>1, <1>2, <1>3, <1>4, <1>5, <1>6, <1>7, <1>8, <1>9, <1>10, <1>11,
     <1>12 DEF Next, run

(***************************************************************************)
(* Until a force the executor never has two background functions, and its  *)
(* busy flag is exact (AsyncExecutor.schedule, run), for any number of     *)
(* threads.                                                                *)
(***************************************************************************)
THEOREM OneWorkerHolds == Spec => []OneWorker
<1>1. Init => TypeOK /\ JobKnown /\ SInv
  BY InitType, InitSafe
<1>2. TypeOK /\ JobKnown /\ SInv /\ [Next]_vars => (TypeOK /\ JobKnown /\ SInv)'
  BY NextType, NextSafe
<1>3. SInv => OneWorker
  BY DEF SInv, OneWorker
<1> QED
  BY <1>1, <1>2, <1>3, PTL DEF Spec

(***************************************************************************)
(* Until a force an interrupted restart never brings the postmaster back   *)
(* (CriticalTask.cancel, Postgresql.start), for any number of threads.     *)
(***************************************************************************)
THEOREM InterruptedRestartStaysDownHolds ==
    Spec => []InterruptedRestartStaysDown
<1>1. Init => TypeOK /\ JobKnown /\ SInv
  BY InitType, InitSafe
<1>2. TypeOK /\ JobKnown /\ SInv /\ [Next]_vars => (TypeOK /\ JobKnown /\ SInv)'
  BY NextType, NextSafe
<1>3. SInv => InterruptedRestartStaysDown
  BY DEF SInv, InterruptedRestartStaysDown
<1> QED
  BY <1>1, <1>2, <1>3, PTL DEF Spec

-----------------------------------------------------------------------------
(* The configuration *)

(***************************************************************************)
(* What the node works with builds; what has been read under an index is   *)
(* what the key holds as long as it has that index.                        *)
(***************************************************************************)
ReadInv(e) ==
    editor[e].pc # "idle" =>
       /\ 0 < editor[e].read.index /\ editor[e].read.index <= revision
       /\ editor[e].read.index = key.index => editor[e].read.data = key.data

ConfigInv ==
    /\ Config!TypeOK
    /\ Config!Builds(dynamic) /\ Config!Builds(cache)
    /\ Config!RestartIsAnnounced
    /\ key.index <= revision /\ \A e \in Config!Editors : ReadInv(e)

LEMMA ConfigBounds ==
    /\ MaxWrites \in Nat /\ MaxEdits \in Nat /\ ConfigFaults \in Nat
    /\ Config!Empty \in Config!Datas /\ Config!Builds(Config!Empty)
    /\ Config!NoKey \in Config!Keys
    /\ [ttl |-> 2, pg |-> 2] \in Config!Datas
    /\ Bootstrap \in Config!Datas /\ Config!Builds(Bootstrap)
    /\ NewValues \subseteq Config!Values
<1>1. [ttl |-> 2, pg |-> 2] \in Config!Datas
  BY DEF Config!Datas, Config!Settings, Config!Values, Config!Bad
<1>2. Config!Empty \in Config!Datas /\ Config!Builds(Config!Empty)
  BY DEF Config!Datas, Config!Settings, Config!Values, Config!Bad, Config!Empty, Config!Builds
<1>q. QED
  BY <1>1, <1>2, ServicesAssumption DEF Config!NoKey, Config!Keys

LEMMA Effective ==
    ASSUME NEW d \in Config!Datas, NEW l \in 0..2, Config!Builds(d)
    PROVE  Config!build_effective_configuration(d, l) \in Config!Effectives
BY DEF Config!build_effective_configuration, Config!Effectives, Config!Datas,
   Config!Settings, Config!Values, Config!Bad, Config!Builds

LEMMA Patched ==
    ASSUME NEW d \in Config!Datas, NEW e \in Config!Editors, Config!TypeOK
    PROVE  /\ Config!patch_config(d, e) \in Config!Datas
           /\ \A s \in Config!Settings \ {editor[e].setting} :
                 Config!patch_config(d, e)[s] = d[s]
BY DEF Config!patch_config, Config!Datas, Config!TypeOK

LEMMA Loaded ==
    ASSUME Config!TypeOK PROVE Config!load_config_file \in 0..2
BY ServicesAssumption DEF Config!TypeOK, Config!load_config_file

\* The variables that only the main thread, a signal or a restart change.
NodeVars == <<seen, dynamic, file, local, dirty, cache, sighup, watchdog, handler, dcs,
              server, pending, reloaded>>

\* What concerns the node itself, and what concerns the editors.
NodeInv ==
    /\ Config!Builds(dynamic) /\ Config!Builds(cache) /\ Config!RestartIsAnnounced

EditInv == key.index <= revision /\ \A e \in Config!Editors : ReadInv(e)

\* A step that leaves the editors and the key alone.
LEMMA ConfigSame ==
    ASSUME ConfigInv, UNCHANGED <<key, revision, editor>>
    PROVE  EditInv'
BY DEF ConfigInv, EditInv, ReadInv, Config!Editors

\* The DCS gives every change an index of its own.
LEMMA PutKeeps ==
    ASSUME ConfigInv, NEW d \in Config!Datas, Config!Put(d), 
           \A e \in Config!Editors :
              editor'[e].pc # "idle" => /\ editor[e].pc # "idle"
                                        /\ editor'[e].read = editor[e].read
    PROVE  /\ EditInv' /\ revision' \in Nat /\ key' \in Config!Keys
           /\ key' # key
<1>1. revision \in Nat /\ key.index \in Nat /\ key.index <= revision
  BY DEF ConfigInv, Config!TypeOK, Config!Keys
<1>2. revision' = revision + 1 /\ key' = [index |-> revision + 1, data |-> d]
  BY DEF Config!Put
<1>3. revision' \in Nat /\ key' \in Config!Keys /\ key'.index = revision + 1
  BY <1>1, <1>2 DEF Config!Keys
<1>4. ASSUME NEW e \in Config!Editors, editor'[e].pc # "idle"
      PROVE  ReadInv(e)'
  <2>1. editor'[e].read = editor[e].read /\ editor[e].read.index \in Nat
        /\ editor[e].read.index <= revision /\ 0 < editor[e].read.index
    BY <1>4 DEF ConfigInv, ReadInv, Config!TypeOK, Config!Keys
  <2>2. editor'[e].read.index # key'.index /\ editor'[e].read.index <= revision'
    BY <1>1, <1>2, <1>3, <2>1
  <2>q. QED
    BY <2>1, <2>2 DEF ReadInv
<1>5. EditInv'
  BY <1>1, <1>2, <1>3, <1>4 DEF EditInv, ReadInv
<1>q. QED
  BY <1>1, <1>3, <1>5

LEMMA ConfigLoad ==
    ASSUME ConfigInv, NEW e \in Config!Editors, NEW s \in Config!Settings,
           NEW v \in NewValues, Config!edit_Load(e, s, v)
    PROVE  ConfigInv'
<1> DEFINE new == [pc |-> IF e = "api" THEN "publish" ELSE "write",
                   setting |-> s, value |-> v, read |-> key]
<1>1. /\ key.index > 0 /\ editor' = [editor EXCEPT ![e] = new]
      /\ writes < MaxWrites /\ writes' = writes + 1
      /\ UNCHANGED <<key, revision, leader, view, shared, NodeVars, pc, edits, faults>>
  BY DEF Config!edit_Load, Config!applied, NodeVars
<1>2. /\ editor'[e] = new /\ key \in Config!Keys /\ writes' \in 0..MaxWrites
      /\ \A o \in Config!Editors \ {e} : editor'[o] = editor[o]
      /\ editor' \in [Config!Editors ->
            [pc : {"idle", "publish", "merge", "write"}, setting : Config!Settings,
             value : Config!Values, read : Config!Keys]]
  BY <1>1, ConfigBounds DEF ConfigInv, Config!TypeOK
<1>3. Config!TypeOK' /\ NodeInv'
  BY <1>1, <1>2 DEF ConfigInv, Config!TypeOK, NodeVars, NodeInv, Config!RestartIsAnnounced
<1>4. EditInv'
  BY <1>1, <1>2 DEF ConfigInv, ReadInv, EditInv
<1>q. QED
  BY <1>3, <1>4 DEF ConfigInv, NodeInv, EditInv

LEMMA ConfigPublish == ConfigInv /\ Config!get_cluster => ConfigInv'
<1> SUFFICES ASSUME ConfigInv, Config!get_cluster PROVE ConfigInv'
  OBVIOUS
<1>1. /\ editor["api"].pc = "publish" /\ view' = editor["api"].read
      /\ shared' = {"view"} /\ editor' = [editor EXCEPT !["api"].pc = "merge"]
      /\ UNCHANGED <<key, revision, leader, NodeVars, pc, writes, edits, faults>>
  BY DEF Config!get_cluster, Config!applied, NodeVars
<1>2. /\ view' \in Config!Keys
      /\ editor' \in [Config!Editors ->
            [pc : {"idle", "publish", "merge", "write"}, setting : Config!Settings,
             value : Config!Values, read : Config!Keys]]
      /\ \A e \in Config!Editors : /\ editor'[e].read = editor[e].read
                                   /\ editor'[e].pc # "idle" => editor[e].pc # "idle"
  BY <1>1 DEF ConfigInv, Config!TypeOK, Config!Editors
<1>3. Config!TypeOK' /\ NodeInv'
  BY <1>1, <1>2 DEF ConfigInv, Config!TypeOK, NodeVars, NodeInv, Config!RestartIsAnnounced
<1>4. EditInv'
  BY <1>1, <1>2 DEF ConfigInv, ReadInv, EditInv
<1>q. QED
  BY <1>3, <1>4 DEF ConfigInv, NodeInv, EditInv

LEMMA ConfigPatch == ConfigInv /\ Config!do_PATCH_config => ConfigInv'
<1> SUFFICES ASSUME ConfigInv, Config!do_PATCH_config PROVE ConfigInv'
  OBVIOUS
<1> DEFINE nested == editor["api"].setting = "pg"
           next == IF Config!patch_config(editor["api"].read.data, "api")
                        = editor["api"].read.data THEN "idle" ELSE "write"
<1>1. /\ editor["api"].pc = "merge" /\ shared' = {}
      /\ view' = IF nested /\ "view" \in shared
                 THEN [view EXCEPT !.data = Config!patch_config(@, "api")] ELSE view
      /\ dynamic' = IF nested /\ "dynamic" \in shared
                    THEN Config!patch_config(dynamic, "api") ELSE dynamic
      /\ editor' = [editor EXCEPT !["api"].pc = next]
      /\ UNCHANGED <<key, revision, leader, seen, file, local, dirty, cache, sighup,
                     watchdog, handler, dcs, server, pending, reloaded, pc, writes,
                     edits, faults>>
  BY DEF Config!do_PATCH_config, Config!applied
<1>2. /\ dynamic' \in Config!Datas
      /\ view' \in Config!Keys
  <2>1. "api" \in Config!Editors /\ dynamic \in Config!Datas /\ view \in Config!Keys
        /\ Config!TypeOK /\ view.data \in Config!Datas
    BY DEF ConfigInv, Config!TypeOK, Config!Editors, Config!Keys
  <2>2. /\ Config!patch_config(dynamic, "api") \in Config!Datas
        /\ Config!patch_config(view.data, "api") \in Config!Datas
    BY <2>1, Patched
  <2>q. QED
    BY <1>1, <2>1, <2>2 DEF Config!Keys
<1>3. Config!Builds(dynamic')
  <2>1. CASE nested
    <3>1. /\ "api" \in Config!Editors /\ dynamic \in Config!Datas /\ Config!TypeOK
          /\ "ttl" \in Config!Settings \ {editor["api"].setting}
      BY <2>1 DEF ConfigInv, Config!TypeOK, Config!Editors, Config!Settings
    <3>2. Config!patch_config(dynamic, "api")["ttl"] = dynamic["ttl"]
      BY <3>1, Patched
    <3>q. QED
      BY <1>1, <3>2 DEF ConfigInv, Config!Builds
  <2>2. CASE ~nested
    BY <1>1, <2>2 DEF ConfigInv
  <2>q. QED
    BY <2>1, <2>2
<1>4. /\ editor' \in [Config!Editors ->
            [pc : {"idle", "publish", "merge", "write"}, setting : Config!Settings,
             value : Config!Values, read : Config!Keys]]
      /\ \A e \in Config!Editors : /\ editor'[e].read = editor[e].read
                                   /\ editor'[e].pc # "idle" => editor[e].pc # "idle"
  <2>1. next \in {"idle", "write"}
    OBVIOUS
  <2> HIDE DEF next
  <2>q. QED
    BY <1>1, <2>1 DEF ConfigInv, Config!TypeOK, Config!Editors
<1>5. Config!TypeOK' /\ NodeInv'
  BY <1>1, <1>2, <1>3, <1>4
     DEF ConfigInv, Config!TypeOK, NodeInv, Config!RestartIsAnnounced
<1>6. EditInv'
  BY <1>1, <1>4 DEF ConfigInv, ReadInv, EditInv
<1>q. QED
  BY <1>5, <1>6 DEF ConfigInv, NodeInv, EditInv

LEMMA ConfigFault == ConfigInv /\ Config!Fault => faults' \in 0..ConfigFaults
BY ConfigBounds DEF ConfigInv, Config!TypeOK, Config!Fault

LEMMA ConfigWrite ==
    ASSUME ConfigInv, NEW e \in Config!Editors, Config!edit_Write(e)
    PROVE  ConfigInv'
<1>1. /\ editor[e].pc = "write" /\ editor' = [editor EXCEPT ![e] = Config!Idle]
      /\ UNCHANGED <<leader, view, shared, NodeVars, pc, writes, edits>>
  BY DEF Config!edit_Write, Config!applied, NodeVars
<1>2. faults' \in 0..ConfigFaults
  BY ConfigFault DEF Config!edit_Write, ConfigInv, Config!TypeOK
<1>3. /\ editor' \in [Config!Editors ->
            [pc : {"idle", "publish", "merge", "write"}, setting : Config!Settings,
             value : Config!Values, read : Config!Keys]]
      /\ \A o \in Config!Editors : 
            editor'[o].pc # "idle" => /\ editor[o].pc # "idle"
                                      /\ editor'[o].read = editor[o].read
  <2>1. Config!Idle \in [pc : {"idle", "publish", "merge", "write"},
           setting : Config!Settings, value : Config!Values, read : Config!Keys]
        /\ Config!Idle.pc = "idle"
    BY ConfigBounds DEF Config!Idle, Config!Settings, Config!Values, Config!Bad
  <2>q. QED
    BY <1>1, <2>1 DEF ConfigInv, Config!TypeOK
<1>4. EditInv' /\ revision' \in Nat /\ key' \in Config!Keys
  <2>1. CASE UNCHANGED <<key, revision>>
    BY <1>3, <2>1 DEF ConfigInv, Config!TypeOK, EditInv, ReadInv
  <2>2. CASE Config!Put(Config!patch_config(editor[e].read.data, e))
    <3>1. editor[e].read.data \in Config!Datas /\ Config!TypeOK
      BY DEF ConfigInv, Config!TypeOK, Config!Keys
    <3>2. Config!patch_config(editor[e].read.data, e) \in Config!Datas
      BY <3>1, Patched
    <3>q. QED
      BY <1>3, <2>2, <3>2, PutKeeps
  <2>q. QED
    BY <2>1, <2>2 DEF Config!edit_Write, Config!set_config_value
<1>5. Config!TypeOK' /\ NodeInv'
  BY <1>1, <1>2, <1>3, <1>4
     DEF ConfigInv, Config!TypeOK, NodeVars, NodeInv, Config!RestartIsAnnounced
<1>q. QED
  BY <1>4, <1>5 DEF ConfigInv, NodeInv, EditInv

LEMMA ConfigReplace ==
    ConfigInv /\ Config!do_PUT_config([ttl |-> 2, pg |-> 2]) => ConfigInv'
<1> DEFINE d == [ttl |-> 2, pg |-> 2]
<1> SUFFICES ASSUME ConfigInv, Config!do_PUT_config(d) PROVE ConfigInv'
  OBVIOUS
<1>1. /\ d \in Config!Datas
  BY ConfigBounds
<1> HIDE DEF d
<1>2. /\ view' = key /\ shared' = shared \ {"view"} /\ Config!Put(d)
      /\ writes < MaxWrites /\ writes' = writes + 1
      /\ UNCHANGED <<editor, leader, NodeVars, pc, edits, faults>>
  BY DEF Config!do_PUT_config, Config!applied, NodeVars
<1>3. EditInv' /\ revision' \in Nat /\ key' \in Config!Keys
  BY <1>1, <1>2, PutKeeps
<1>4. writes' \in 0..MaxWrites
  BY <1>2, ConfigBounds DEF ConfigInv, Config!TypeOK
<1>5. Config!TypeOK' /\ NodeInv'
  BY <1>2, <1>3, <1>4
     DEF ConfigInv, Config!TypeOK, NodeVars, NodeInv, Config!RestartIsAnnounced
<1>q. QED
  BY <1>3, <1>5 DEF ConfigInv, NodeInv, EditInv

LEMMA ConfigWipe == ConfigInv /\ Config!Wipe => ConfigInv'
<1> SUFFICES ASSUME ConfigInv, Config!Wipe PROVE ConfigInv'
  OBVIOUS
<1>1. /\ key' = Config!NoKey /\ faults' \in 0..ConfigFaults
      /\ UNCHANGED <<revision, editor, leader, view, shared, NodeVars, pc, writes, edits>>
  BY ConfigFault DEF Config!Wipe, Config!applied, NodeVars
<1>2. Config!TypeOK' /\ NodeInv'
  BY <1>1, ConfigBounds
     DEF ConfigInv, Config!TypeOK, NodeVars, NodeInv, Config!RestartIsAnnounced
<1>3. key'.index = 0 /\ revision' \in Nat
  BY <1>1 DEF Config!NoKey, ConfigInv, Config!TypeOK
<1>4. ASSUME NEW e \in Config!Editors PROVE ReadInv(e)'
  <2>1. ReadInv(e) /\ editor'[e] = editor[e] /\ editor[e].read.index \in Nat
    BY <1>1 DEF ConfigInv, Config!TypeOK, Config!Keys
  <2>q. QED
    BY <1>1, <1>3, <2>1 DEF ReadInv
<1>5. EditInv'
  BY <1>3, <1>4 DEF EditInv
<1>q. QED
  BY <1>2, <1>5 DEF ConfigInv, NodeInv, EditInv

\* A reload, for a configuration that builds.
LEMMA ReloadKeeps ==
    ASSUME ConfigInv, NEW new \in Config!Effectives, Config!reload_config(new),
           server' = server
    PROVE  /\ watchdog' \in Config!Effectives /\ handler' \in Config!Effectives
           /\ dcs' \in Config!Effectives /\ pending' \in BOOLEAN
           /\ reloaded' \in {"ok", "failed", "joined"} /\ faults' \in 0..ConfigFaults
           /\ Config!RestartIsAnnounced'
<1>1. CASE /\ handler' = new /\ dcs' = new
           /\ pending' = (server # new.pg)
           /\ reloaded' = "ok"
           /\ UNCHANGED faults
  <2>1. watchdog' = new
    BY DEF Config!reload_config
  <2>q. QED
    BY <1>1, <2>1 DEF ConfigInv, Config!TypeOK, Config!RestartIsAnnounced
<1>2. CASE /\ Config!Fault
           /\ reloaded' = "failed"
           /\ UNCHANGED <<handler, dcs, pending>>
  <2>1. watchdog' = new /\ faults' \in 0..ConfigFaults
    BY <1>2, ConfigFault DEF Config!reload_config
  <2>q. QED
    BY <1>2, <2>1 DEF ConfigInv, Config!TypeOK, Config!RestartIsAnnounced
<1>q. QED
  BY <1>1, <1>2 DEF Config!reload_config

LEMMA ConfigRun == ConfigInv /\ Config!run => ConfigInv'
<1> SUFFICES ASSUME ConfigInv, Config!run PROVE ConfigInv'
  OBVIOUS
<1>1. /\ pc' = "load" /\ sighup' = FALSE
      /\ UNCHANGED <<key, revision, editor, view, shared, leader, seen, dynamic, file,
                     dirty, cache, server, writes, edits>>
  BY DEF Config!run, Config!editVars
<1>2. /\ local' \in 0..2 /\ watchdog' \in Config!Effectives
      /\ handler' \in Config!Effectives /\ dcs' \in Config!Effectives
      /\ pending' \in BOOLEAN /\ reloaded' \in {"ok", "failed", "joined"}
      /\ faults' \in 0..ConfigFaults /\ Config!RestartIsAnnounced'
  <2>1. CASE sighup
    <3>1. /\ local' = Config!load_config_file
          /\ Config!reload_config(Config!build_effective_configuration(dynamic, local'))
      BY <2>1 DEF Config!run
    <3>2. local' \in 0..2
      BY <3>1, Loaded DEF ConfigInv
    <3>3. Config!build_effective_configuration(dynamic, local') \in Config!Effectives
      BY <3>2, Effective DEF ConfigInv, Config!TypeOK
    <3>q. QED
      BY <1>1, <3>1, <3>2, <3>3, ReloadKeeps
  <2>2. CASE ~sighup
    <3>1. UNCHANGED <<local, watchdog, handler, dcs, pending, reloaded, faults>>
      BY <2>2 DEF Config!run
    <3>q. QED
      BY <1>1, <3>1 DEF ConfigInv, Config!TypeOK, Config!RestartIsAnnounced
  <2>q. QED
    BY <2>1, <2>2
<1>3. Config!TypeOK' /\ NodeInv'
  BY <1>1, <1>2 DEF ConfigInv, Config!TypeOK, NodeInv
<1>q. QED
  BY <1>1, <1>3, ConfigSame DEF ConfigInv, NodeInv, EditInv

LEMMA ConfigFetch == ConfigInv /\ Config!load_cluster => ConfigInv'
<1> SUFFICES ASSUME ConfigInv, Config!load_cluster PROVE ConfigInv'
  OBVIOUS
<1>1. /\ shared' = shared \ {"view"} /\ pc' = "apply"
      /\ UNCHANGED <<editor, leader, NodeVars, writes, edits>>
  BY DEF Config!load_cluster, Config!applied, NodeVars
<1>2. faults' \in 0..ConfigFaults
  BY ConfigFault DEF Config!load_cluster, ConfigInv, Config!TypeOK
<1>3. \/ Config!Put(dynamic) /\ view' = key'
      \/ view' \in {key, Config!NoKey} /\ UNCHANGED <<key, revision>>
  BY DEF Config!load_cluster
<1>4. EditInv' /\ revision' \in Nat /\ key' \in Config!Keys /\ view' \in Config!Keys
  <2>1. CASE Config!Put(dynamic) /\ view' = key'
    <3>1. dynamic \in Config!Datas
      BY DEF ConfigInv, Config!TypeOK
    <3>q. QED
      BY <1>1, <2>1, <3>1, PutKeeps
  <2>2. CASE view' \in {key, Config!NoKey} /\ UNCHANGED <<key, revision>>
    <3>1. EditInv'
      BY <1>1, <2>2, ConfigSame
    <3>q. QED
      BY <2>2, <3>1, ConfigBounds DEF ConfigInv, Config!TypeOK
  <2>q. QED
    BY <1>3, <2>1, <2>2
<1>5. Config!TypeOK' /\ NodeInv'
  BY <1>1, <1>2, <1>4
     DEF ConfigInv, Config!TypeOK, NodeVars, NodeInv, Config!RestartIsAnnounced
<1>q. QED
  BY <1>4, <1>5 DEF ConfigInv, NodeInv, EditInv

LEMMA ConfigApply == ConfigInv /\ Config!set_dynamic_configuration => ConfigInv'
<1> SUFFICES ASSUME ConfigInv, Config!set_dynamic_configuration PROVE ConfigInv'
  OBVIOUS
<1>1. /\ pc' = "save" /\ seen' \in {view.index, seen}
      /\ UNCHANGED <<key, revision, editor, view, leader, file, local, cache, sighup,
                     server, writes, edits>>
  BY DEF Config!set_dynamic_configuration
<1>2. /\ dynamic' \in Config!Datas /\ Config!Builds(dynamic')
      /\ shared' \subseteq {"view", "dynamic"} /\ dirty' \in BOOLEAN
      /\ watchdog' \in Config!Effectives
      /\ handler' \in Config!Effectives /\ dcs' \in Config!Effectives
      /\ pending' \in BOOLEAN /\ reloaded' \in {"ok", "failed", "joined"}
      /\ faults' \in 0..ConfigFaults /\ Config!RestartIsAnnounced'
  <2>1. CASE /\ Config!Builds(view.data) /\ dynamic' = view.data
             /\ shared' = IF "view" \in shared THEN {"view", "dynamic"} ELSE {}
             /\ dirty' = TRUE
             /\ Config!reload_config(Config!build_effective_configuration(view.data, local))
    <3>1. view.data \in Config!Datas /\ local \in 0..2
      BY DEF ConfigInv, Config!TypeOK, Config!Keys
    <3>2. Config!build_effective_configuration(view.data, local) \in Config!Effectives
      BY <2>1, <3>1, Effective
    <3>q. QED
      BY <1>1, <2>1, <3>1, <3>2, ReloadKeeps
  <2>2. CASE UNCHANGED <<dynamic, shared, dirty, watchdog, handler, dcs, pending,
                         reloaded, faults>>
    BY <1>1, <2>2 DEF ConfigInv, Config!TypeOK, Config!RestartIsAnnounced
  <2>q. QED
    BY <2>1, <2>2 DEF Config!set_dynamic_configuration
<1>3. seen' \in Nat \cup {-1}
  BY <1>1 DEF ConfigInv, Config!TypeOK, Config!Keys
<1>4. Config!TypeOK' /\ NodeInv'
  BY <1>1, <1>2, <1>3 DEF ConfigInv, Config!TypeOK, NodeInv
<1>q. QED
  BY <1>1, <1>4, ConfigSame DEF ConfigInv, NodeInv, EditInv

LEMMA ConfigSave == ConfigInv /\ Config!save_cache => ConfigInv'
<1> SUFFICES ASSUME ConfigInv, Config!save_cache PROVE ConfigInv'
  OBVIOUS
<1>1. /\ pc' = "top" /\ cache' \in {cache, dynamic} /\ dirty' \in {dirty, FALSE}
      /\ UNCHANGED <<key, revision, editor, view, shared, leader, seen, dynamic, file,
                     local, sighup, watchdog, handler, dcs, server, pending, reloaded,
                     writes, edits>>
  BY DEF Config!save_cache, Config!applied, Config!editVars
<1>2. faults' \in 0..ConfigFaults
  BY ConfigFault DEF Config!save_cache, ConfigInv, Config!TypeOK
<1>3. Config!TypeOK' /\ NodeInv'
  BY <1>1, <1>2 DEF ConfigInv, Config!TypeOK, NodeInv, Config!RestartIsAnnounced
<1>q. QED
  BY <1>1, <1>3, ConfigSame DEF ConfigInv, NodeInv, EditInv

LEMMA ConfigRestarted == ConfigInv /\ Config!RestartDatabase => ConfigInv'
<1> SUFFICES ASSUME ConfigInv, Config!RestartDatabase PROVE ConfigInv'
  OBVIOUS
<1>1. /\ server' = handler.pg /\ pending' = FALSE
      /\ UNCHANGED <<key, revision, editor, view, shared, leader, seen, dynamic, file,
                     local, dirty, cache, sighup, watchdog, handler, dcs, reloaded, pc,
                     writes, edits, faults>>
  BY DEF Config!RestartDatabase, Config!editVars
<1>2. server' \in 1..Config!Bad
  BY <1>1 DEF ConfigInv, Config!TypeOK, Config!Effectives
<1>3. Config!TypeOK' /\ NodeInv'
  BY <1>1, <1>2 DEF ConfigInv, Config!TypeOK, NodeInv, Config!RestartIsAnnounced
<1>q. QED
  BY <1>1, <1>3, ConfigSame DEF ConfigInv, NodeInv, EditInv

LEMMA ConfigSignal == ConfigInv /\ Config!sighup_handler => ConfigInv'
<1> SUFFICES ASSUME ConfigInv, Config!sighup_handler PROVE ConfigInv'
  OBVIOUS
<1>1. /\ edits < MaxEdits /\ edits' = edits + 1 /\ sighup' = TRUE
      /\ file' \in NewValues \ {Config!Bad}
      /\ UNCHANGED <<key, revision, editor, view, shared, leader, seen, dynamic, local,
                     dirty, cache, watchdog, handler, dcs, server, pending, reloaded,
                     pc, writes, faults>>
  BY DEF Config!sighup_handler, Config!editVars, Config!applied
<1>2. file' \in 0..2 /\ edits' \in 0..MaxEdits
  BY <1>1, ConfigBounds DEF ConfigInv, Config!TypeOK, Config!Values, Config!Bad
<1>3. Config!TypeOK' /\ NodeInv'
  BY <1>1, <1>2 DEF ConfigInv, Config!TypeOK, NodeInv, Config!RestartIsAnnounced
<1>q. QED
  BY <1>1, <1>3, ConfigSame DEF ConfigInv, NodeInv, EditInv

\* What load_dynamic_configuration does to the dynamic configuration.
LEMMA RestartBuilds ==
    ASSUME ConfigInv, Config!load_dynamic_configuration
    PROVE  /\ dynamic' \in Config!Datas /\ Config!Builds(dynamic')
           /\ local' \in 0..2 /\ dirty' \in BOOLEAN
           /\ watchdog' \in Config!Effectives /\ handler' \in Config!Effectives
           /\ dcs' = handler'
           /\ ~dirty' => dynamic' = cache
<1> DEFINE differs == Config!HasData(key) /\ key.data # cache /\ Config!Builds(key.data)
           starts == ~Config!HasData(key) /\ cache = Config!Empty
<1>1. /\ local' = Config!load_config_file
      /\ dynamic' = IF differs THEN key.data ELSE IF starts THEN Bootstrap ELSE cache
      /\ dirty' = (differs \/ starts)
      /\ watchdog' = Config!build_effective_configuration(
                        IF starts THEN Config!Empty ELSE dynamic', local')
      /\ handler' = Config!build_effective_configuration(dynamic', local')
      /\ dcs' = handler'
  BY DEF Config!load_dynamic_configuration
<1>2. local' \in 0..2
  BY <1>1, Loaded DEF ConfigInv
<1>3. dynamic' \in Config!Datas /\ Config!Builds(dynamic')
  <2>1. /\ key.data \in Config!Datas /\ cache \in Config!Datas
        /\ Config!Builds(cache)
    BY DEF ConfigInv, Config!TypeOK, Config!Keys
  <2>q. QED
    BY <1>1, <2>1, ConfigBounds
<1>4. watchdog' \in Config!Effectives
  <2>1. CASE starts
    BY <1>1, <1>2, <2>1, Effective, ConfigBounds
  <2>2. CASE ~starts
    BY <1>1, <1>2, <1>3, <2>2, Effective
  <2>q. QED
    BY <2>1, <2>2
<1>5. handler' \in Config!Effectives
  BY <1>1, <1>2, <1>3, Effective
<1>q. QED
  BY <1>1, <1>2, <1>3, <1>4, <1>5

LEMMA ConfigRestart == ConfigInv /\ Config!load_dynamic_configuration => ConfigInv'
<1> SUFFICES ASSUME ConfigInv, Config!load_dynamic_configuration PROVE ConfigInv'
  OBVIOUS
<1>1. /\ seen' \in {key.index, -1} /\ pending' = FALSE /\ reloaded' = "joined"
      /\ editor' = [editor EXCEPT !["api"] = Config!Idle]
      /\ view' = key /\ shared' = {} /\ sighup' = FALSE /\ pc' = "top"
      /\ UNCHANGED <<key, revision, leader, file, cache, server, writes, edits>>
  BY DEF Config!load_dynamic_configuration
<1>2. faults' \in 0..ConfigFaults
  BY ConfigFault DEF Config!load_dynamic_configuration
<1>3. /\ editor' \in [Config!Editors ->
            [pc : {"idle", "publish", "merge", "write"}, setting : Config!Settings,
             value : Config!Values, read : Config!Keys]]
      /\ \A e \in Config!Editors : editor'[e].pc = "idle" \/ editor'[e] = editor[e]
  <2>1. Config!Idle \in [pc : {"idle", "publish", "merge", "write"},
           setting : Config!Settings, value : Config!Values, read : Config!Keys]
        /\ Config!Idle.pc = "idle"
    BY ConfigBounds DEF Config!Idle, Config!Settings, Config!Values, Config!Bad
  <2>q. QED
    BY <1>1, <2>1 DEF ConfigInv, Config!TypeOK
<1>4. seen' \in Nat \cup {-1} /\ view' \in Config!Keys
  BY <1>1 DEF ConfigInv, Config!TypeOK, Config!Keys
<1>5. Config!TypeOK'
  BY <1>1, <1>2, <1>3, <1>4, RestartBuilds DEF ConfigInv, Config!TypeOK
<1>6. NodeInv'
  BY <1>1, RestartBuilds DEF ConfigInv, NodeInv, Config!RestartIsAnnounced, Config!Builds
<1>7. EditInv'
  BY <1>1, <1>3 DEF ConfigInv, EditInv, ReadInv
<1>q. QED
  BY <1>5, <1>6, <1>7 DEF ConfigInv, NodeInv, EditInv

LEMMA ConfigStep == ConfigInv /\ [Config!Next]_configVars => ConfigInv'
<1> SUFFICES ASSUME ConfigInv, [Config!Next]_configVars PROVE ConfigInv'
  OBVIOUS
<1>1. CASE UNCHANGED configVars
  BY <1>1 DEF ConfigInv, Config!TypeOK, Config!Builds, Config!RestartIsAnnounced, ReadInv,
     configVars
<1>q. QED
  BY <1>1, ConfigLoad, ConfigPublish, ConfigPatch, ConfigWrite, ConfigReplace, ConfigWipe,
     ConfigRun, ConfigFetch, ConfigApply, ConfigSave, ConfigSignal, ConfigRestarted,
     ConfigRestart DEF Config!Next, Config!Main

LEMMA ConfigInit == Config!Init => ConfigInv
<1> SUFFICES ASSUME Config!Init PROVE ConfigInv
  OBVIOUS
<1>1. /\ key = [index |-> 1, data |-> Bootstrap] /\ revision = 1 /\ leader \in BOOLEAN
      /\ editor = [e \in Config!Editors |-> Config!Idle]
      /\ view = key /\ shared = {} /\ seen = 1 /\ dynamic = Bootstrap
      /\ file = 0 /\ local = Config!load_config_file /\ dirty = TRUE
      /\ cache = Config!Empty /\ sighup = FALSE
      /\ pending = FALSE /\ reloaded = "joined"
      /\ pc = "top" /\ writes = 0 /\ edits = 0 /\ faults = 0
  BY DEF Config!Init
<1>2. /\ watchdog = Config!effective /\ handler = Config!effective
      /\ dcs = Config!effective /\ server = Config!effective.pg
  BY DEF Config!Init
<1>3. local \in 0..2
  BY <1>1, ServicesAssumption DEF Config!load_config_file
<1>4. Config!effective \in Config!Effectives /\ server \in 1..Config!Bad
  <2>1. Config!effective \in Config!Effectives
    BY <1>1, <1>3, ConfigBounds, Effective DEF Config!effective
  <2>q. QED
    BY <1>2, <2>1 DEF Config!Effectives
<1>5. key \in Config!Keys /\ key.index = 1
  BY <1>1, ConfigBounds DEF Config!Keys
<1>6. Config!Idle \in [pc : {"idle", "publish", "merge", "write"},
           setting : Config!Settings, value : Config!Values, read : Config!Keys]
        /\ Config!Idle.pc = "idle"
  BY ConfigBounds DEF Config!Idle, Config!Settings, Config!Values, Config!Bad
<1>7. Config!TypeOK
  <2>1. editor \in [Config!Editors ->
            [pc : {"idle", "publish", "merge", "write"}, setting : Config!Settings,
             value : Config!Values, read : Config!Keys]]
    BY <1>1, <1>6
  <2>2. writes \in 0..MaxWrites /\ edits \in 0..MaxEdits /\ faults \in 0..ConfigFaults
    BY <1>1, ConfigBounds
  <2>q. QED
    <3>1. dynamic \in Config!Datas /\ cache \in Config!Datas
      BY <1>1, ConfigBounds
    <3>2. /\ {leader, dirty, sighup, pending} \subseteq BOOLEAN
          /\ {watchdog, handler, dcs} \subseteq Config!Effectives
          /\ shared \subseteq {"view", "dynamic"}
      BY <1>1, <1>2, <1>4
    <3>3. /\ revision \in Nat /\ seen \in Nat \cup {-1} /\ file \in 0..2
          /\ reloaded \in {"ok", "failed", "joined"}
          /\ pc \in {"top", "load", "apply", "save"}
      BY <1>1
    <3>4. view \in Config!Keys
      BY <1>1, <1>5
    <3>q. QED
      BY <1>3, <1>4, <1>5, <2>1, <2>2, <3>1, <3>2, <3>3, <3>4, Zenon DEF Config!TypeOK
<1>q. QED
  BY <1>1, <1>5, <1>6, <1>7, ConfigBounds
     DEF ConfigInv, ReadInv, Config!RestartIsAnnounced

(***************************************************************************)
(* The cache file, if the settings that are patched by way of the REST API *)
(* are at the top level: a nested one is changed in place.                 *)
(***************************************************************************)
CacheInv ==
    /\ editor["api"].setting # "pg"
    /\ Config!CacheFollows

LEMMA CacheStep ==
    ASSUME "pg" \notin ApiSettings, ConfigInv, CacheInv, [Config!Next]_configVars
    PROVE  CacheInv'
<1>1. ASSUME UNCHANGED <<editor, dynamic, dirty, cache>> PROVE CacheInv'
  BY <1>1 DEF CacheInv, Config!CacheFollows
<1>2. ASSUME NEW e \in Config!Editors, NEW s \in Config!Settings, NEW v \in NewValues,
             Config!edit_Load(e, s, v)
      PROVE  CacheInv'
  BY <1>2 DEF CacheInv, Config!CacheFollows, Config!edit_Load, ConfigInv, Config!TypeOK,
     Config!Editors
<1>3. CASE Config!get_cluster
  BY <1>3 DEF CacheInv, Config!CacheFollows, Config!get_cluster, ConfigInv, Config!TypeOK,
     Config!Editors
<1>4. CASE Config!do_PATCH_config
  <2>1. dynamic' = dynamic /\ UNCHANGED <<cache, dirty>>
    BY <1>4 DEF CacheInv, Config!do_PATCH_config
  <2>2. editor'["api"].setting = editor["api"].setting
    BY <1>4 DEF Config!do_PATCH_config, ConfigInv, Config!TypeOK, Config!Editors
  <2>q. QED
    BY <2>1, <2>2 DEF CacheInv, Config!CacheFollows
<1>5. ASSUME NEW e \in Config!Editors, Config!edit_Write(e) PROVE CacheInv'
  BY <1>5 DEF CacheInv, Config!CacheFollows, Config!edit_Write, ConfigInv, Config!TypeOK,
     Config!Editors, Config!Idle
<1>6. CASE Config!set_dynamic_configuration
  BY <1>6 DEF CacheInv, Config!CacheFollows, Config!set_dynamic_configuration
<1>7. CASE Config!save_cache
  BY <1>7 DEF CacheInv, Config!CacheFollows, Config!save_cache, Config!editVars
<1>8. CASE Config!load_dynamic_configuration
  <2>1. ~dirty' => dynamic' = cache
    BY <1>8, RestartBuilds
  <2>2. cache' = cache /\ editor'["api"].setting = "ttl"
    BY <1>8 DEF Config!load_dynamic_configuration, ConfigInv, Config!TypeOK,
       Config!Editors, Config!Idle
  <2>q. QED
    BY <2>1, <2>2 DEF CacheInv, Config!CacheFollows
<1>9. CASE \/ Config!do_PUT_config([ttl |-> 2, pg |-> 2]) \/ Config!Wipe \/ Config!run
           \/ Config!load_cluster \/ Config!sighup_handler \/ Config!RestartDatabase
           \/ UNCHANGED configVars
  BY <1>1, <1>9 DEF Config!do_PUT_config, Config!Wipe, Config!run, Config!load_cluster,
     Config!sighup_handler, Config!RestartDatabase, configVars, Config!editVars
<1>q. QED
  BY <1>2, <1>3, <1>4, <1>5, <1>6, <1>7, <1>8, <1>9 DEF Config!Next, Config!Main

LEMMA CacheInit == Config!Init => CacheInv
BY DEF Config!Init, CacheInv, Config!CacheFollows, Config!Idle, Config!Editors

\* A change that is written leaves the other settings alone.
LEMMA UpdateStep ==
    ASSUME ConfigInv, [Config!Next]_configVars, NEW e \in Config!Editors,
           editor[e].pc = "write", editor'[e].pc = "idle", key' # key,
           NEW s \in Config!Settings \ {editor[e].setting}
    PROVE  key'.data[s] = key.data[s]
<1>1. \E o \in Config!Editors : Config!edit_Write(o)
  <2>1. editor' # editor /\ key' # key
    OBVIOUS
  <2>2. ~Config!do_PATCH_config /\ ~Config!get_cluster
    BY <2>1 DEF Config!do_PATCH_config, Config!get_cluster
  <2>3. ~UNCHANGED configVars
    BY <2>1 DEF configVars
  <2>4. \A o \in Config!Editors, x \in Config!Settings, v \in NewValues :
           ~Config!edit_Load(o, x, v)
    BY <2>1 DEF Config!edit_Load
  <2>5. ~Config!do_PUT_config([ttl |-> 2, pg |-> 2]) /\ ~Config!Wipe /\ ~Config!sighup_handler
    BY <2>1 DEF Config!do_PUT_config, Config!Wipe, Config!sighup_handler, Config!editVars
  <2>6. /\ ~Config!run /\ ~Config!load_cluster /\ ~Config!set_dynamic_configuration
        /\ ~Config!save_cache /\ ~Config!RestartDatabase
        /\ ~Config!load_dynamic_configuration
    BY <2>1 DEF Config!run, Config!load_cluster, Config!set_dynamic_configuration,
       Config!save_cache, Config!RestartDatabase, Config!load_dynamic_configuration,
       Config!editVars
  <2>q. QED
    BY <2>2, <2>3, <2>4, <2>5, <2>6 DEF Config!Next, Config!Main
<1>2. PICK o \in Config!Editors : Config!edit_Write(o)
  BY <1>1
<1>3. o = e
  BY <1>2 DEF Config!edit_Write, ConfigInv, Config!TypeOK
<1>4. /\ editor[e].read.index = key.index
      /\ Config!Put(Config!patch_config(editor[e].read.data, e))
  BY <1>2, <1>3 DEF Config!edit_Write, Config!set_config_value
<1>5. editor[e].read.data = key.data /\ key.data \in Config!Datas /\ Config!TypeOK
  BY <1>4 DEF ConfigInv, ReadInv, Config!TypeOK, Config!Keys
<1>6. Config!patch_config(key.data, e)[s] = key.data[s]
  BY <1>5, Patched
<1>q. QED
  BY <1>4, <1>5, <1>6 DEF Config!Put

-----------------------------------------------------------------------------
(* Logging *)

\* What may be in the queue: nothing stands for more records than there are.
Items == {x \in Log!End..MaxRecords : Log!Records(x) <= MaxRecords}

\* The number of records that the first n elements of q stand for.
Backlog(q, n) == Cardinality(Log!Waiting(q, n))

\* What the logger thread has taken from the queue and is going to write.
Taken == IF thread = "handle" THEN Log!Records(record) ELSE 0

(***************************************************************************)
(* The handler in use is neither closed nor going to be; handlers have     *)
(* numbers that are not used again.                                        *)
(***************************************************************************)
HandlerInv ==
    /\ logHandler \notin old \cup closed
    /\ \A h \in old \cup closed \cup {logHandler} : h <= reloads

(***************************************************************************)
(* Only shutdown asks the thread to stop, once; what is due is in front of *)
(* the request then, and has been written when the thread has seen it.     *)
(***************************************************************************)
StopRequested(i) ==
    /\ \A j \in 1..Len(queue) : queue[j] = Log!End <=> j = i
    /\ due <= written + Taken + Backlog(queue, i)

NobodyAsks == \A j \in 1..Len(queue) : queue[j] # Log!End

DrainInv ==
    /\ thread = "new" => logMain = "runs"
    /\ thread = "stopped" => logMain \in {"joins", "ended"} /\ written >= due
    /\ logMain = "ended" => thread = "stopped"
    /\ logMain = "joins" /\ thread # "stopped" =>
          \E i \in 1..Len(queue) : StopRequested(i)
    /\ logMain # "joins" \/ thread = "stopped" => NobodyAsks

\* Every record counts, before the thread runs as well as later.
CountInv ==
    /\ emitted = written + Backlog(queue, Len(queue)) + lost + Taken
    /\ due <= emitted

LogInv ==
    /\ Log!TypeOK
    /\ queue \in Seq(Items) /\ (thread = "handle" => record \in Items)
    /\ CountInv /\ HandlerInv /\ DrainInv

LEMMA LogBounds ==
    /\ MaxRecords \in Nat /\ MaxReloads \in Nat /\ Sizes \subseteq Nat
    /\ Log!End = -1 /\ -1 \in Items /\ (MaxRecords > 0 => 0 \in Items)
    /\ \A x \in Items : x \in Log!End..MaxRecords /\ Log!Records(x) \in 0..MaxRecords
    /\ \A x \in 1..MaxRecords : x \in Items /\ Log!Records(x) = x
    /\ Log!Records(Log!End) = 0 /\ Log!Records(0) = 1
BY ServicesAssumption DEF Log!End, Log!Records, Items

\* The set theory of the instance is the one of the library.
LEMMA LogCardinality == \A S : Log!Cardinality(S) = Cardinality(S)
BY DEF Log!Cardinality, Cardinality

\* The records of the first n elements are finitely many.
LEMMA WaitingIsFinite ==
    ASSUME NEW q, NEW n \in Nat
    PROVE  /\ IsFiniteSet(Log!Waiting(q, n))
           /\ Backlog(q, n) \in Nat
<1>0. 1 \in Int /\ n \in Int /\ MaxRecords \in Int
  BY LogBounds
<1>r. IsFiniteSet(1..n) /\ IsFiniteSet(1..MaxRecords)
  BY <1>0, FS_Interval, Zenon
<1>1. IsFiniteSet((1..n) \X (1..MaxRecords))
  BY <1>r, FS_Product
<1>2. Log!Waiting(q, n) \subseteq (1..n) \X (1..MaxRecords)
  BY DEF Log!Waiting
<1>3. IsFiniteSet(Log!Waiting(q, n))
  BY <1>1, <1>2, FS_Subset
<1>q. QED
  BY <1>3, FS_CardinalityType DEF Backlog

\* They depend on the first n elements only.
LEMMA WaitingIsLocal ==
    ASSUME NEW q, NEW r, NEW n \in Nat, \A i \in 1..n : q[i] = r[i]
    PROVE  Backlog(q, n) = Backlog(r, n)
<1>1. Log!Waiting(q, n) = Log!Waiting(r, n)
  BY DEF Log!Waiting
<1>q. QED
  BY <1>1, Zenon DEF Backlog

\* The pairs <<n, 1>> ... <<n, k>>.
LEMMA RowCount ==
    ASSUME NEW n, NEW k \in Nat
    PROVE  IsFiniteSet({n} \X (1..k)) /\ Cardinality({n} \X (1..k)) = k
<1>1. IsFiniteSet({n}) /\ Cardinality({n}) = 1
  BY FS_Singleton
<1>2. IsFiniteSet(1..k) /\ Cardinality(1..k) = k
  BY FS_Interval
<1>3. /\ IsFiniteSet({n} \X (1..k))
      /\ Cardinality({n} \X (1..k)) = Cardinality({n}) * Cardinality(1..k)
  BY <1>1, <1>2, FS_Product
<1>q. QED
  BY <1>1, <1>2, <1>3

\* One element more: its records are added.
LEMMA WaitingAdds ==
    ASSUME NEW q, NEW n \in Nat, Log!Records(q[n + 1]) \in 0..MaxRecords
    PROVE  Backlog(q, n + 1) = Backlog(q, n) + Log!Records(q[n + 1])
<1> DEFINE k == Log!Records(q[n + 1])
           row == {n + 1} \X (1..k)
           before == Log!Waiting(q, n)
<1>0. k \in Nat /\ k <= MaxRecords /\ MaxRecords \in Nat
  BY LogBounds
<1>1. Log!Waiting(q, n + 1) = before \cup row
  <2>1. ASSUME NEW p \in Log!Waiting(q, n + 1) PROVE p \in before \cup row
    BY <1>0, <2>1 DEF Log!Waiting
  <2>2. ASSUME NEW p \in before PROVE p \in Log!Waiting(q, n + 1)
    BY <2>2 DEF Log!Waiting
  <2>3. ASSUME NEW p \in row PROVE p \in Log!Waiting(q, n + 1)
    BY <1>0, <2>3 DEF Log!Waiting
  <2>q. QED
    BY <2>1, <2>2, <2>3
<1>2. before \cap row = {}
  BY DEF Log!Waiting
<1>3. IsFiniteSet(row) /\ Cardinality(row) = k
  BY <1>0, RowCount
<1>4. IsFiniteSet(before) /\ Cardinality(before) \in Nat
  BY WaitingIsFinite DEF Backlog
<1>5. Cardinality(before \cup row)
        = Cardinality(before) + Cardinality(row) - Cardinality(before \cap row)
  BY <1>3, <1>4, FS_Union
<1>6. Cardinality(before \cap row) = 0
  BY <1>2, FS_EmptySet
<1>7. /\ Backlog(q, n + 1) = Cardinality(before \cup row)
      /\ Backlog(q, n) = Cardinality(before)
  BY <1>1, Zenon DEF Backlog
<1> HIDE DEF row, before
<1>q. QED
  BY <1>0, <1>3, <1>4, <1>5, <1>6, <1>7, SMT

\* The element at the head and those behind it.
LEMMA WaitingSplits ==
    ASSUME NEW q, NEW r, NEW n \in Nat, \A i \in 1..n : r[i] = q[i + 1],
           Log!Records(q[1]) \in 0..MaxRecords
    PROVE  Backlog(q, n + 1) = Log!Records(q[1]) + Backlog(r, n)
<1> DEFINE k == Log!Records(q[1])
           row == {1} \X (1..k)
           rest == Log!Waiting(r, n)
           behind == {p \in Log!Waiting(q, n + 1) : p[1] # 1}
           f == [p \in rest |-> <<p[1] + 1, p[2]>>]
<1>0. k \in Nat /\ k <= MaxRecords /\ MaxRecords \in Nat
  BY LogBounds
<1>1. Log!Waiting(q, n + 1) = row \cup behind
  <2>1. ASSUME NEW p \in Log!Waiting(q, n + 1), p[1] = 1 PROVE p \in row
    BY <1>0, <2>1 DEF Log!Waiting
  <2>2. ASSUME NEW p \in row PROVE p \in Log!Waiting(q, n + 1)
    BY <1>0, <2>2 DEF Log!Waiting
  <2>q. QED
    BY <2>1, <2>2
<1>2. row \cap behind = {}
  OBVIOUS
<1>3. f \in [rest -> behind]
  <2>1. ASSUME NEW p \in rest PROVE <<p[1] + 1, p[2]>> \in behind
    BY <2>1 DEF Log!Waiting
  <2>q. QED
    BY <2>1
<1>4. \A p, o \in rest : f[p] = f[o] => p = o
  BY DEF Log!Waiting
<1>5. \A o \in behind : \E p \in rest : f[p] = o
  <2>1. ASSUME NEW o \in behind PROVE <<o[1] - 1, o[2]>> \in rest
    BY <2>1 DEF Log!Waiting
  <2>2. ASSUME NEW o \in behind PROVE f[<<o[1] - 1, o[2]>>] = o
    BY <2>1, <2>2 DEF Log!Waiting
  <2>q. QED
    BY <2>1, <2>2
<1>6. f \in Bijection(rest, behind)
  <2> HIDE DEF f, rest, behind
  <2>q. QED
    BY <1>3, <1>4, <1>5 DEF Bijection, Injection, Surjection, IsInjective
<1>7. IsFiniteSet(rest) /\ Cardinality(rest) \in Nat
  BY WaitingIsFinite DEF Backlog
<1>8. IsFiniteSet(behind) /\ Cardinality(behind) = Cardinality(rest)
  <2>1. ExistsBijection(rest, behind)
    BY <1>6 DEF ExistsBijection
  <2>q. QED
    BY <1>7, <2>1, FS_Bijection
<1>9. IsFiniteSet(row) /\ Cardinality(row) = k
  BY <1>0, RowCount
<1>10. Cardinality(row \cup behind)
         = Cardinality(row) + Cardinality(behind) - Cardinality(row \cap behind)
  BY <1>8, <1>9, FS_Union
<1>11. Cardinality(row \cap behind) = 0
  BY <1>2, FS_EmptySet
<1>12. /\ Backlog(q, n + 1) = Cardinality(row \cup behind)
       /\ Backlog(r, n) = Cardinality(rest)
  BY <1>1, Zenon DEF Backlog
<1> HIDE DEF row, behind, rest
<1>q. QED
  BY <1>0, <1>7, <1>8, <1>9, <1>10, <1>11, <1>12, SMT

\* A queue that grows by one element.
LEMMA AppendCounts ==
    ASSUME NEW q \in Seq(Items), NEW x \in Items, NEW r, r = Append(q, x)
    PROVE  /\ \A i \in 1..Len(q) : Backlog(r, i) = Backlog(q, i)
           /\ Backlog(r, Len(r)) = Backlog(q, Len(q)) + Log!Records(x)
<1>1. /\ r \in Seq(Items) /\ Len(r) = Len(q) + 1 /\ Len(q) \in Nat
      /\ \A i \in 1..Len(q) : r[i] = q[i]
      /\ r[Len(q) + 1] = x
  OBVIOUS
<1>2. ASSUME NEW i \in 0..Len(q) PROVE Backlog(r, i) = Backlog(q, i)
  <2>1. i \in Nat /\ \A j \in 1..i : r[j] = q[j]
    BY <1>1
  <2>q. QED
    BY <2>1, WaitingIsLocal
<1>3. Log!Records(r[Len(q) + 1]) \in 0..MaxRecords
  BY <1>1, LogBounds
<1>4. Backlog(r, Len(q) + 1) = Backlog(r, Len(q)) + Log!Records(r[Len(q) + 1])
  BY <1>1, <1>3, WaitingAdds
<1>5. Backlog(r, Len(q)) = Backlog(q, Len(q))
  BY <1>1, <1>2
<1>q. QED
  BY <1>1, <1>2, <1>4, <1>5

\* The sequence that it becomes.
LEMMA AppendElements ==
    ASSUME NEW q \in Seq(Items), NEW x \in Items, NEW r, r = Append(q, x)
    PROVE  /\ r \in Seq(Items) /\ Len(r) = Len(q) + 1 /\ Len(q) \in Nat
           /\ \A i \in 1..Len(q) : r[i] = q[i]
           /\ r[Len(q) + 1] = x
OBVIOUS

\* A queue whose head is taken.
LEMMA TailCounts ==
    ASSUME NEW q \in Seq(Items), q # <<>>, NEW r, r = Tail(q)
    PROVE  /\ r \in Seq(Items) /\ Len(r) = Len(q) - 1 /\ Len(q) \in Nat \ {0}
           /\ Head(q) = q[1] /\ q[1] \in Items
           /\ \A i \in 1..Len(r) : r[i] = q[i + 1]
           /\ \A i \in 0..Len(r) :
                 /\ Backlog(r, i) \in Nat
                 /\ Backlog(q, i + 1) = Log!Records(q[1]) + Backlog(r, i)
<1>1. /\ r \in Seq(Items) /\ Len(r) = Len(q) - 1 /\ Len(q) \in Nat \ {0}
      /\ Head(q) = q[1] /\ q[1] \in Items
      /\ \A i \in 1..Len(r) : r[i] = q[i + 1]
  OBVIOUS
<1>2. Log!Records(q[1]) \in 0..MaxRecords
  BY <1>1, LogBounds
<1>3. ASSUME NEW i \in 0..Len(r)
      PROVE  Backlog(q, i + 1) = Log!Records(q[1]) + Backlog(r, i)
  <2>1. i \in Nat /\ \A j \in 1..i : r[j] = q[j + 1]
    BY <1>1
  <2>q. QED
    BY <1>2, <2>1, WaitingSplits
<1>4. \A i \in 0..Len(r) : Backlog(r, i) \in Nat
  BY <1>1, WaitingIsFinite
<1>q. QED
  BY <1>1, <1>3, <1>4

\* What the steps need to know of a state.
LEMMA LogFacts ==
    ASSUME LogInv
    PROVE  /\ Len(queue) \in Nat
           /\ \A i \in 0..Len(queue) : Backlog(queue, i) \in Nat
           /\ Backlog(queue, 0) = 0
           /\ Taken \in 0..MaxRecords
<1>1. Len(queue) \in Nat
  BY DEF LogInv
<1>2. \A i \in 0..Len(queue) : Backlog(queue, i) \in Nat
  BY <1>1, WaitingIsFinite
<1>3. Log!Waiting(queue, 0) = {}
  BY DEF Log!Waiting
<1>4. Backlog(queue, 0) = 0
  BY <1>3, FS_EmptySet DEF Backlog
<1>6. Taken \in 0..MaxRecords
  BY LogBounds DEF LogInv, Taken
<1>q. QED
  BY <1>1, <1>2, <1>4, <1>6

\* A step that neither touches the queue nor the counts.
LogCounts == <<queue, lost, emitted, written, due, logMain>>

LEMMA LogQuiet ==
    ASSUME LogInv, UNCHANGED LogCounts, UNCHANGED Taken,
           \/ UNCHANGED <<thread, record>>
           \/ thread' \in {"close", "get"} /\ thread # "stopped",
           Log!TypeOK', HandlerInv'
    PROVE  LogInv'
<1>1. queue' \in Seq(Items) /\ CountInv' /\ (thread' = "handle" => record' \in Items)
  BY DEF LogInv, CountInv, LogCounts
<1>2. DrainInv'
  BY DEF LogInv, DrainInv, StopRequested, NobodyAsks, LogCounts
<1>q. QED
  BY <1>1, <1>2 DEF LogInv

LEMMA LogStart == LogInv /\ Log!start => LogInv'
<1> SUFFICES ASSUME LogInv, Log!start PROVE LogInv'
  OBVIOUS
<1>1. /\ thread = "new" /\ thread' = "close" /\ logMain = "runs" /\ UNCHANGED LogCounts
      /\ UNCHANGED <<size, record, logHandler, old, closed, reloads>>
  BY DEF Log!start, LogCounts
<1>2. Taken' = Taken
  BY <1>1 DEF Taken
<1>3. Log!TypeOK' /\ HandlerInv'
  BY <1>1 DEF LogInv, Log!TypeOK, HandlerInv, LogCounts
<1>q. QED
  BY <1>1, <1>2, <1>3, LogQuiet

LEMMA LogReload == LogInv /\ Log!reload_config => LogInv'
<1> SUFFICES ASSUME LogInv, Log!reload_config PROVE LogInv'
  OBVIOUS
<1>1. /\ UNCHANGED LogCounts /\ UNCHANGED <<thread, record, closed>>
      /\ reloads < MaxReloads /\ reloads' = reloads + 1 /\ size' \in Sizes
      /\ \/ logHandler' = reloads' /\ old' = old \cup {logHandler}
         \/ UNCHANGED <<logHandler, old>>
  BY DEF Log!reload_config, LogCounts
<1>2. Taken' = Taken
  BY <1>1 DEF Taken
<1>t. /\ reloads \in 0..MaxReloads /\ logHandler \in 0..MaxReloads
      /\ old \subseteq 0..MaxReloads /\ closed \subseteq 0..MaxReloads /\ MaxReloads \in Nat
  BY LogBounds DEF LogInv, Log!TypeOK
<1>n. reloads' \in 0..MaxReloads /\ reloads \in 0..MaxReloads
  BY <1>1, <1>t
<1>3. Log!TypeOK'
  <2>1. logHandler' \in 0..MaxReloads /\ old' \subseteq 0..MaxReloads
    BY <1>1, <1>t, <1>n, Zenon
  <2>q. QED
    BY <1>1, <1>n, <2>1 DEF LogInv, Log!TypeOK, LogCounts
<1>4. HandlerInv'
  <2>1. CASE UNCHANGED <<logHandler, old>>
    <3>1. \A h \in old \cup closed \cup {logHandler} : h \in Int /\ h <= reloads
      BY <1>t DEF LogInv, HandlerInv
    <3>2. \A h \in old \cup closed \cup {logHandler} : h <= reloads'
      BY <1>1, <1>t, <3>1
    <3>q. QED
      BY <1>1, <2>1, <3>2 DEF LogInv, HandlerInv
  <2>2. CASE logHandler' = reloads' /\ old' = old \cup {logHandler}
    <3>1. \A h \in old \cup closed \cup {logHandler} : h \in Int /\ h <= reloads
      BY <1>t DEF LogInv, HandlerInv
    <3>2. \A h \in old \cup closed \cup {logHandler} : h <= reloads' /\ h # reloads'
      BY <1>1, <1>t, <3>1
    <3>3. reloads' <= reloads'
      BY <1>n
    <3>q. QED
      BY <1>1, <2>2, <3>2, <3>3, Zenon DEF HandlerInv
  <2>q. QED
    BY <1>1, <2>1, <2>2
<1>q. QED
  BY <1>1, <1>2, <1>3, <1>4, LogQuiet

LEMMA LogClose == LogInv /\ Log!close_old_handlers => LogInv'
<1> SUFFICES ASSUME LogInv, Log!close_old_handlers PROVE LogInv'
  OBVIOUS
<1>1. /\ thread = "close" /\ thread' \in {"close", "get"} /\ UNCHANGED LogCounts
      /\ UNCHANGED <<size, record, logHandler, reloads>>
      /\ \/ \E h \in old : old' = old \ {h} /\ closed' = closed \cup {h}
         \/ UNCHANGED <<old, closed>>
  BY DEF Log!close_old_handlers, LogCounts
<1>2. Taken' = Taken
  BY <1>1 DEF Taken
<1>3. Log!TypeOK'
  BY <1>1 DEF LogInv, Log!TypeOK, LogCounts
<1>4. HandlerInv'
  BY <1>1 DEF LogInv, HandlerInv
<1>q. QED
  BY <1>1, <1>2, <1>3, <1>4, LogQuiet

LEMMA LogJoin == LogInv /\ Log!join => LogInv'
<1> SUFFICES ASSUME LogInv, Log!join PROVE LogInv'
  OBVIOUS
<1>1. /\ logMain = "joins" /\ thread = "stopped" /\ logMain' = "ended"
      /\ UNCHANGED <<queue, size, lost, thread, record, logHandler, old, closed,
                     emitted, written, due, reloads>>
  BY DEF Log!join
<1>2. Log!TypeOK' /\ HandlerInv'
  BY <1>1 DEF LogInv, Log!TypeOK, HandlerInv
<1>3. queue' \in Seq(Items) /\ CountInv' /\ (thread' = "handle" => record' \in Items)
  BY <1>1 DEF LogInv, CountInv, Taken
<1>4. DrainInv'
  BY <1>1 DEF LogInv, DrainInv, NobodyAsks
<1>q. QED
  BY <1>2, <1>3, <1>4 DEF LogInv

LEMMA LogHandle == LogInv /\ Log!handle => LogInv'
<1> SUFFICES ASSUME LogInv, Log!handle PROVE LogInv'
  OBVIOUS
<1>1. /\ thread = "handle" /\ thread' = "close"
      /\ written' = written + Log!Records(record)
      /\ UNCHANGED <<queue, size, lost, record, logHandler, old, closed, emitted,
                     due, logMain, reloads>>
  BY DEF Log!handle
<1>2. /\ written \in Nat /\ due \in Nat /\ lost \in Nat /\ emitted \in 0..MaxRecords
      /\ MaxRecords \in Nat
  BY LogBounds DEF LogInv, Log!TypeOK
<1>3. /\ Len(queue) \in Nat /\ Backlog(queue, Len(queue)) \in Nat /\ Taken \in Nat
      /\ \A i \in 1..Len(queue) : Backlog(queue, i) \in Nat
  BY LogFacts
<1>4. Taken = Log!Records(record) /\ Taken' = 0
  BY <1>1 DEF Taken
<1>5. CountInv'
  BY <1>1, <1>2, <1>3, <1>4 DEF LogInv, CountInv
<1>6. written' \in 0..MaxRecords
  BY <1>1, <1>2, <1>3, <1>4 DEF LogInv, CountInv
<1>7. Log!TypeOK' /\ HandlerInv' /\ queue' \in Seq(Items) /\ thread' # "handle"
  BY <1>1, <1>6 DEF LogInv, Log!TypeOK, HandlerInv
<1>8. DrainInv'
  <2>1. ASSUME NEW i \in 1..Len(queue), StopRequested(i) PROVE StopRequested(i)'
    BY <1>1, <1>2, <1>3, <1>4, <2>1 DEF StopRequested
  <2>2. NobodyAsks => NobodyAsks'
    BY <1>1 DEF NobodyAsks
  <2>q. QED
    BY <1>1, <2>1, <2>2 DEF LogInv, DrainInv
<1>q. QED
  BY <1>5, <1>7, <1>8 DEF LogInv

LEMMA LogGet == LogInv /\ Log!get => LogInv'
<1> SUFFICES ASSUME LogInv, Log!get PROVE LogInv'
  OBVIOUS
<1>1. /\ thread = "get" /\ queue # <<>>
      /\ record' = Head(queue) /\ queue' = Tail(queue)
      /\ thread' = IF Head(queue) = Log!End THEN "stopped" ELSE "handle"
      /\ UNCHANGED <<size, lost, logHandler, old, closed, emitted, written, due,
                     logMain, reloads>>
  BY DEF Log!get
<1>2. /\ written \in 0..MaxRecords /\ due \in Nat /\ lost \in Nat
      /\ emitted \in 0..MaxRecords /\ MaxRecords \in Nat
  BY LogBounds DEF LogInv, Log!TypeOK
<1>3. /\ queue' \in Seq(Items) /\ Len(queue') = Len(queue) - 1
      /\ Len(queue) \in Nat \ {0} /\ Head(queue) = queue[1] /\ queue[1] \in Items
      /\ \A i \in 1..Len(queue') : queue'[i] = queue[i + 1]
      /\ \A i \in 0..Len(queue') :
            /\ Backlog(queue', i) \in Nat
            /\ Backlog(queue, i + 1) = Log!Records(queue[1]) + Backlog(queue', i)
  BY <1>1, TailCounts DEF LogInv
<1>4. /\ Log!Records(queue[1]) \in 0..MaxRecords /\ Log!End = -1
      /\ Log!Records(Log!End) = 0
  BY <1>3, LogBounds
<1>5. Taken = 0 /\ Taken' = Log!Records(queue[1])
  BY <1>1, <1>3, <1>4 DEF Taken
<1>6. CountInv'
  <2>1. Backlog(queue, Len(queue)) = Log!Records(queue[1]) + Backlog(queue', Len(queue'))
    BY <1>3
  <2>2. Backlog(queue', Len(queue')) \in Nat
    BY <1>3
  <2>q. QED
    BY <1>1, <1>2, <1>4, <1>5, <2>1, <2>2 DEF LogInv, CountInv
<1>7. Log!TypeOK' /\ HandlerInv' /\ (thread' = "handle" => record' \in Items)
  <2>1. record' \in Log!End..MaxRecords
    BY <1>1, <1>3, LogBounds
  <2>2. \A i \in DOMAIN queue' : queue'[i] \in Log!End..MaxRecords
    BY <1>3, LogBounds
  <2>q. QED
    BY <1>1, <1>3, <2>1, <2>2 DEF LogInv, Log!TypeOK, HandlerInv
<1>8. DrainInv'
  <2>1. CASE logMain # "joins"
    <3>1. NobodyAsks /\ logMain # "ended"
      BY <1>1, <2>1 DEF LogInv, DrainInv
    <3>2. queue[1] # Log!End
      BY <1>3, <3>1 DEF NobodyAsks
    <3>3. NobodyAsks'
      BY <1>3, <3>1 DEF NobodyAsks
    <3>q. QED
      BY <1>1, <1>3, <2>1, <3>1, <3>2, <3>3 DEF DrainInv
  <2>2. CASE logMain = "joins"
    <3>1. PICK i \in 1..Len(queue) : StopRequested(i)
      BY <1>1, <2>2 DEF LogInv, DrainInv
    <3>2. /\ \A j \in 1..Len(queue) : queue[j] = Log!End <=> j = i
          /\ due <= written + Taken + Backlog(queue, i)
      BY <3>1 DEF StopRequested
    <3>3. CASE i = 1
      <4>1. queue[1] = Log!End /\ thread' = "stopped"
        BY <1>1, <1>3, <3>2, <3>3
      <4>2. NobodyAsks'
        BY <1>3, <3>2, <3>3 DEF NobodyAsks
      <4>3. Backlog(queue, 1) = Log!Records(queue[1]) + Backlog(queue', 0)
        BY <1>3
      <4>4. Backlog(queue', 0) = 0
        <5>1. Log!Waiting(queue', 0) = {}
          BY DEF Log!Waiting
        <5>q. QED
          BY <5>1, FS_EmptySet DEF Backlog
      <4>5. written' >= due'
        BY <1>1, <1>2, <1>4, <1>5, <3>2, <3>3, <4>1, <4>3, <4>4
      <4>q. QED
        BY <1>1, <2>2, <4>1, <4>2, <4>5 DEF DrainInv
    <3>4. CASE i # 1
      <4>1. i - 1 \in 1..Len(queue') /\ queue[1] # Log!End
        BY <1>3, <3>2, <3>4
      <4>2. \A j \in 1..Len(queue') : queue'[j] = Log!End <=> j = i - 1
        BY <1>3, <3>2
      <4>3. /\ Backlog(queue, i) = Log!Records(queue[1]) + Backlog(queue', i - 1)
            /\ Backlog(queue', i - 1) \in Nat
        <5>1. i - 1 \in 0..Len(queue') /\ (i - 1) + 1 = i
          BY <4>1
        <5>q. QED
          BY <1>3, <5>1
      <4>4. due' <= written' + Taken' + Backlog(queue', i - 1)
        BY <1>1, <1>2, <1>4, <1>5, <3>2, <4>3
      <4>5. StopRequested(i - 1)'
        BY <4>2, <4>4 DEF StopRequested
      <4>q. QED
        BY <1>1, <1>3, <2>2, <4>1, <4>5 DEF DrainInv
    <3>q. QED
      BY <3>3, <3>4
  <2>q. QED
    BY <2>1, <2>2
<1>q. QED
  BY <1>3, <1>6, <1>7, <1>8 DEF LogInv

LEMMA LogShutdown == LogInv /\ Log!shutdown => LogInv'
<1> SUFFICES ASSUME LogInv, Log!shutdown PROVE LogInv'
  OBVIOUS
<1>1. /\ logMain = "runs" /\ thread # "new" /\ due' = emitted - lost
      /\ \/ queue' = Append(queue, Log!End) /\ logMain' = "joins"
         \/ queue' = queue /\ logMain' = "broken"
      /\ UNCHANGED <<size, lost, thread, record, logHandler, old, closed, emitted,
                     written, reloads>>
  BY DEF Log!shutdown
<1>2. /\ written \in 0..MaxRecords /\ due \in Nat /\ lost \in Nat
      /\ emitted \in 0..MaxRecords /\ MaxRecords \in Nat
  BY LogBounds DEF LogInv, Log!TypeOK
<1>3. /\ Len(queue) \in Nat /\ Backlog(queue, Len(queue)) \in Nat /\ Taken \in 0..MaxRecords
  BY LogFacts
<1>4. Taken' = Taken /\ thread # "stopped" /\ NobodyAsks
  BY <1>1 DEF LogInv, DrainInv, Taken
<1>5. due' \in 0..MaxRecords /\ due' <= emitted
      /\ due' = written + Backlog(queue, Len(queue)) + Taken
  BY <1>1, <1>2, <1>3 DEF LogInv, CountInv
<1>6. CASE queue' = queue /\ logMain' = "broken"
  <2>1. /\ Log!TypeOK' /\ HandlerInv' /\ queue' \in Seq(Items)
        /\ (thread' = "handle" => record' \in Items)
    BY <1>1, <1>5, <1>6 DEF LogInv, Log!TypeOK, HandlerInv
  <2>2. CountInv'
    BY <1>1, <1>4, <1>5, <1>6 DEF LogInv, CountInv
  <2>3. DrainInv'
    BY <1>1, <1>4, <1>6 DEF DrainInv, NobodyAsks
  <2>q. QED
    BY <2>1, <2>2, <2>3 DEF LogInv
<1>7. CASE queue' = Append(queue, Log!End) /\ logMain' = "joins"
  <2>1. Log!End \in Items /\ Log!Records(Log!End) = 0
    BY LogBounds
  <2>2. /\ queue' \in Seq(Items) /\ Len(queue') = Len(queue) + 1
        /\ \A i \in 1..Len(queue) : queue'[i] = queue[i]
        /\ queue'[Len(queue) + 1] = Log!End
        /\ Backlog(queue', Len(queue'))
              = Backlog(queue, Len(queue)) + Log!Records(Log!End)
    <3>1. queue \in Seq(Items)
      BY DEF LogInv
    <3>2. /\ queue' \in Seq(Items) /\ Len(queue') = Len(queue) + 1
          /\ \A i \in 1..Len(queue) : queue'[i] = queue[i]
          /\ queue'[Len(queue) + 1] = Log!End
      BY <1>7, <2>1, <3>1, AppendElements
    <3>3. Backlog(queue', Len(queue'))
            = Backlog(queue, Len(queue)) + Log!Records(Log!End)
      BY <1>7, <2>1, <3>1, AppendCounts, Zenon
    <3>q. QED
      BY <3>2, <3>3
  <2>3. \A i \in DOMAIN queue' : queue'[i] \in Log!End..MaxRecords
    BY <2>2, LogBounds
  <2>4. /\ Log!TypeOK' /\ HandlerInv' /\ (thread' = "handle" => record' \in Items)
    BY <1>1, <1>5, <1>7, <2>3 DEF LogInv, Log!TypeOK, HandlerInv
  <2>5. CountInv'
    BY <1>1, <1>2, <1>3, <1>4, <1>5, <2>1, <2>2 DEF LogInv, CountInv
  <2>6. PICK i \in 1..Len(queue') : i = Len(queue')
    BY <1>3, <2>2
  <2>7. StopRequested(i)'
    <3>1. \A j \in 1..Len(queue') : queue'[j] = Log!End <=> j = i
      BY <1>3, <1>4, <2>2, <2>6 DEF NobodyAsks
    <3>2. due' <= written' + Taken' + Backlog(queue', i)
      BY <1>1, <1>2, <1>3, <1>4, <1>5, <2>1, <2>2, <2>6
    <3>q. QED
      BY <3>1, <3>2 DEF StopRequested
  <2>8. DrainInv'
    BY <1>1, <1>4, <1>7, <2>7 DEF DrainInv
  <2>q. QED
    BY <2>2, <2>4, <2>5, <2>8 DEF LogInv
<1>q. QED
  BY <1>1, <1>6, <1>7

\* What emit does to the queue and to the counts.
LEMMA EmitFacts ==
    ASSUME LogInv, Log!emit
    PROVE  /\ emitted < MaxRecords /\ emitted' = emitted + 1
           /\ queue' \in Seq(Items) /\ Len(queue') \in Nat /\ Len(queue) <= Len(queue')
           /\ \A i \in 1..Len(queue) :
                 queue'[i] = queue[i] /\ Backlog(queue', i) = Backlog(queue, i)
           /\ \A i \in (Len(queue) + 1)..Len(queue') : queue'[i] # Log!End
           /\ lost' \in Nat /\ written' \in Nat /\ Backlog(queue', Len(queue')) \in Nat
           /\ written' + Backlog(queue', Len(queue')) + lost'
                 = written + Backlog(queue, Len(queue)) + lost + 1
           /\ written <= written'
<1>1. /\ queue \in Seq(Items) /\ lost \in 0..MaxRecords /\ written \in Nat
      /\ Len(queue) \in Nat /\ Backlog(queue, Len(queue)) \in Nat
      /\ emitted \in 0..MaxRecords /\ MaxRecords \in Nat
  BY LogFacts, LogBounds DEF LogInv, Log!TypeOK
<1>2. emitted < MaxRecords /\ emitted' = emitted + 1
  BY DEF Log!emit
<1>3. /\ 0 \in Items /\ Log!Records(0) = 1 /\ Log!End = -1
  BY <1>1, <1>2, LogBounds
<1>4. CASE queue' = queue /\ \/ written' = written + 1 /\ lost' = lost
                             \/ written' = written /\ lost' = lost + 1
  BY <1>1, <1>2, <1>4
<1>5. CASE written' = written /\ Log!try_to_report_lost_records(Append(queue, 0))
  <2> DEFINE q == Append(queue, 0)
  <2>1. /\ q \in Seq(Items) /\ Len(q) = Len(queue) + 1
        /\ \A i \in 1..Len(queue) : q[i] = queue[i]
        /\ q[Len(queue) + 1] = 0
        /\ \A i \in 1..Len(queue) : Backlog(q, i) = Backlog(queue, i)
        /\ Backlog(q, Len(q)) = Backlog(queue, Len(queue)) + Log!Records(0)
    <3>1. q \in Seq(Items) /\ Len(q) = Len(queue) + 1
      BY <1>1, <1>3, AppendElements
    <3>2. /\ \A i \in 1..Len(queue) : q[i] = queue[i]
          /\ q[Len(queue) + 1] = 0
      BY <1>1, <1>3, AppendElements
    <3>3. \A i \in 1..Len(queue) : Backlog(q, i) = Backlog(queue, i)
      BY <1>1, <1>3, AppendCounts, Zenon
    <3>4. Backlog(q, Len(q)) = Backlog(queue, Len(queue)) + Log!Records(0)
      BY <1>1, <1>3, AppendCounts, Zenon
    <3>q. QED
      BY <3>1, <3>2, <3>3, <3>4
  <2>2. \/ queue' = q /\ lost' = lost
        \/ lost > 0 /\ queue' = Append(q, lost) /\ lost' = 0
    BY <1>5 DEF Log!try_to_report_lost_records
  <2> HIDE DEF q
  <2>3. CASE queue' = q /\ lost' = lost
    <3>1. \A i \in (Len(queue) + 1)..Len(queue') : queue'[i] # Log!End
      BY <1>1, <1>3, <2>1, <2>3
    <3>2. /\ \A i \in 1..Len(queue) :
                queue'[i] = queue[i] /\ Backlog(queue', i) = Backlog(queue, i)
          /\ Backlog(queue', Len(queue')) = Backlog(queue, Len(queue)) + 1
      BY <1>3, <2>1, <2>3
    <3>q. QED
      <4>1. /\ Len(queue') \in Nat /\ Len(queue) <= Len(queue')
            /\ Backlog(queue', Len(queue')) \in Nat
            /\ written' + Backlog(queue', Len(queue')) + lost'
                  = written + Backlog(queue, Len(queue)) + lost + 1
        <5>1. /\ Len(queue) \in Nat /\ Backlog(queue, Len(queue)) \in Nat
              /\ lost \in Nat /\ written \in Nat
          BY <1>1
        <5>2. /\ Len(queue') = Len(queue) + 1 /\ lost' = lost /\ written' = written
              /\ Backlog(queue', Len(queue')) = Backlog(queue, Len(queue)) + 1
          BY <1>5, <2>1, <2>3, <3>2
        <5>q. QED
          BY <5>1, <5>2
      <4>q. QED
        BY <1>1, <1>2, <1>5, <2>1, <2>3, <3>1, <3>2, <4>1
  <2>4. CASE lost > 0 /\ queue' = Append(q, lost) /\ lost' = 0
    <3>1. lost \in Items /\ Log!Records(lost) = lost
      BY <1>1, <2>4, LogBounds
    <3>2. /\ queue' \in Seq(Items) /\ Len(queue') = Len(q) + 1
          /\ \A i \in 1..Len(q) : queue'[i] = q[i]
          /\ queue'[Len(q) + 1] = lost
          /\ \A i \in 1..Len(q) : Backlog(queue', i) = Backlog(q, i)
          /\ Backlog(queue', Len(queue')) = Backlog(q, Len(q)) + Log!Records(lost)
      <4>1. queue' \in Seq(Items) /\ Len(queue') = Len(q) + 1
        BY <2>1, <2>4, <3>1, AppendElements
      <4>2. /\ \A i \in 1..Len(q) : queue'[i] = q[i]
            /\ queue'[Len(q) + 1] = lost
        BY <2>1, <2>4, <3>1, AppendElements
      <4>3. \A i \in 1..Len(q) : Backlog(queue', i) = Backlog(q, i)
        BY <2>1, <2>4, <3>1, AppendCounts, Zenon
      <4>4. Backlog(queue', Len(queue')) = Backlog(q, Len(q)) + Log!Records(lost)
        BY <2>1, <2>4, <3>1, AppendCounts, Zenon
      <4>q. QED
        BY <4>1, <4>2, <4>3, <4>4
    <3>3. \A i \in (Len(queue) + 1)..Len(queue') : queue'[i] # Log!End
      BY <1>1, <1>3, <2>1, <2>4, <3>2
    <3>4. /\ \A i \in 1..Len(queue) :
                queue'[i] = queue[i] /\ Backlog(queue', i) = Backlog(queue, i)
          /\ Backlog(queue', Len(queue')) = Backlog(queue, Len(queue)) + 1 + lost
      BY <1>1, <1>3, <2>1, <3>1, <3>2
    <3>q. QED
      BY <1>1, <1>2, <1>5, <2>1, <2>4, <3>2, <3>3, <3>4
  <2>q. QED
    BY <2>2, <2>3, <2>4
<1>q. QED
  BY <1>4, <1>5 DEF Log!emit

LEMMA LogEmit == LogInv /\ Log!emit => LogInv'
<1> SUFFICES ASSUME LogInv, Log!emit PROVE LogInv'
  OBVIOUS
<1>1. /\ emitted < MaxRecords /\ emitted' = emitted + 1
      /\ queue' \in Seq(Items) /\ Len(queue') \in Nat /\ Len(queue) <= Len(queue')
      /\ \A i \in 1..Len(queue) :
            queue'[i] = queue[i] /\ Backlog(queue', i) = Backlog(queue, i)
      /\ \A i \in (Len(queue) + 1)..Len(queue') : queue'[i] # Log!End
      /\ lost' \in Nat /\ written' \in Nat /\ Backlog(queue', Len(queue')) \in Nat
      /\ written' + Backlog(queue', Len(queue')) + lost'
            = written + Backlog(queue, Len(queue)) + lost + 1
      /\ written <= written'
  BY EmitFacts
<1>2. /\ logMain # "ended"
      /\ UNCHANGED <<size, thread, record, logHandler, old, closed, due, logMain, reloads>>
  BY DEF Log!emit
<1>3. /\ written \in Nat /\ due \in Nat /\ lost \in Nat /\ due <= emitted
      /\ emitted \in 0..MaxRecords /\ MaxRecords \in Nat /\ Len(queue) \in Nat
      /\ Taken \in 0..MaxRecords /\ Backlog(queue, Len(queue)) \in Nat
      /\ emitted = written + Backlog(queue, Len(queue)) + lost + Taken
      /\ \A i \in 0..Len(queue) : Backlog(queue, i) \in Nat
  BY LogFacts, LogBounds DEF LogInv, Log!TypeOK, CountInv
<1>4. Taken' = Taken
  BY <1>2 DEF Taken
<1>m. Len(queue) \in Nat /\ Len(queue') \in Nat /\ Len(queue) <= Len(queue')
  BY <1>1, <1>3, Zenon
<1>n. /\ written \in Nat /\ due \in Nat /\ lost \in Nat /\ emitted \in Nat
      /\ Taken \in Nat /\ written' \in Nat /\ lost' \in Nat
      /\ emitted' = emitted + 1 /\ emitted < MaxRecords /\ MaxRecords \in Nat
      /\ due <= emitted /\ due' = due /\ written <= written'
  BY <1>1, <1>2, <1>3
<1>b. /\ Backlog(queue, Len(queue)) \in Nat /\ Backlog(queue', Len(queue')) \in Nat
      /\ emitted = written + Backlog(queue, Len(queue)) + lost + Taken
      /\ written' + Backlog(queue', Len(queue')) + lost'
            = written + Backlog(queue, Len(queue)) + lost + 1
  BY <1>1, <1>3
<1>s. /\ emitted' = written' + Backlog(queue', Len(queue')) + lost' + Taken'
      /\ lost' <= emitted' /\ written' <= emitted'
  <2>1. PICK w \in Nat, b \in Nat, l \in Nat, t \in Nat :
             w = written /\ b = Backlog(queue, Len(queue)) /\ l = lost /\ t = Taken
    BY <1>n, <1>b
  <2>2. PICK ww \in Nat, bb \in Nat, ll \in Nat :
             ww = written' /\ bb = Backlog(queue', Len(queue')) /\ ll = lost'
    BY <1>n, <1>b
  <2>3. emitted = w + b + l + t /\ ww + bb + ll = w + b + l + 1
    BY <1>b, <2>1, <2>2, Zenon
  <2>4. emitted + 1 = ww + bb + ll + t /\ ll <= emitted + 1 /\ ww <= emitted + 1
    BY <2>3
  <2>q. QED
    BY <1>4, <1>n, <2>1, <2>2, <2>4, Zenon
<1>5. CountInv' /\ lost' \in 0..MaxRecords /\ written' \in 0..MaxRecords
      /\ emitted' \in 0..MaxRecords
  <2>1. lost' \in 0..MaxRecords /\ written' \in 0..MaxRecords
    BY <1>n, <1>s
  <2>2. emitted' \in 0..MaxRecords /\ due' <= emitted'
    BY <1>n
  <2>q. QED
    BY <1>s, <2>1, <2>2 DEF CountInv
<1>6. \A i \in DOMAIN queue' : queue'[i] \in Log!End..MaxRecords
  BY <1>1, LogBounds
<1>7. Log!TypeOK' /\ HandlerInv' /\ (thread' = "handle" => record' \in Items)
  BY <1>2, <1>5, <1>6 DEF LogInv, Log!TypeOK, HandlerInv
<1>8. DrainInv'
  <2>1. ASSUME NEW i \in 1..Len(queue), StopRequested(i)
        PROVE  i \in 1..Len(queue') /\ StopRequested(i)'
    <3>1. \A j \in 1..Len(queue') : queue'[j] = Log!End <=> j = i
      <4>1. ASSUME NEW j \in 1..Len(queue'), j > Len(queue)
            PROVE  queue'[j] # Log!End /\ j # i
        <5>1. j \in (Len(queue) + 1)..Len(queue') /\ j # i
          BY <1>m, <4>1
        <5>q. QED
          BY <1>1, <5>1, Zenon
      <4>2. ASSUME NEW j \in 1..Len(queue'), ~(j > Len(queue))
            PROVE  queue'[j] = Log!End <=> j = i
        <5>1. j \in 1..Len(queue)
          BY <1>3, <4>2
        <5>q. QED
          BY <1>1, <2>1, <5>1, Zenon DEF StopRequested
      <4>q. QED
        BY <4>1, <4>2
    <3>2. due' <= written' + Taken' + Backlog(queue', i)
      <4>1. Backlog(queue', i) = Backlog(queue, i) /\ Backlog(queue, i) \in Nat
        BY <1>1, <1>3
      <4>2. due <= written + Taken + Backlog(queue, i)
        BY <2>1 DEF StopRequested
      <4>q. QED
        BY <1>n, <1>4, <4>1, <4>2
    <3>q. QED
      BY <1>1, <1>3, <3>1, <3>2 DEF StopRequested
  <2>2. NobodyAsks => NobodyAsks'
    <3>1. ASSUME NobodyAsks, NEW j \in 1..Len(queue') PROVE queue'[j] # Log!End
      <4>1. j \in 1..Len(queue) \/ j \in (Len(queue) + 1)..Len(queue')
        BY <1>1, <1>3
      <4>q. QED
        BY <1>1, <3>1, <4>1, Zenon DEF NobodyAsks
    <3>q. QED
      BY <3>1 DEF NobodyAsks
  <2>3. thread = "stopped" => written' >= due'
    BY <1>1, <1>2, <1>3 DEF LogInv, DrainInv
  <2>q. QED
    BY <1>2, <2>1, <2>2, <2>3 DEF LogInv, DrainInv
<1>q. QED
  BY <1>1, <1>5, <1>7, <1>8 DEF LogInv

LEMMA LogInit == Log!Init => LogInv
<1> SUFFICES ASSUME Log!Init PROVE LogInv
  OBVIOUS
<1>1. /\ queue = <<>> /\ size \in Sizes /\ lost = 0 /\ thread = "new" /\ record = 0
      /\ logHandler = 0 /\ old = {} /\ closed = {} /\ emitted = 0 /\ written = 0
      /\ due = 0 /\ logMain = "runs" /\ reloads = 0
  BY DEF Log!Init
<1>2. Log!TypeOK /\ HandlerInv /\ queue \in Seq(Items) /\ thread # "handle"
  BY <1>1, LogBounds DEF Log!TypeOK, HandlerInv
<1>3. Log!Waiting(queue, Len(queue)) = {}
  BY <1>1 DEF Log!Waiting
<1>4. Backlog(queue, Len(queue)) = 0
  BY <1>3, FS_EmptySet DEF Backlog
<1>5. CountInv
  BY <1>1, <1>4 DEF CountInv, Taken
<1>6. DrainInv
  BY <1>1 DEF DrainInv, NobodyAsks
<1>q. QED
  BY <1>2, <1>5, <1>6 DEF LogInv

LEMMA LogStep == LogInv /\ [Log!Next]_logVars => LogInv'
<1>1. LogInv /\ UNCHANGED logVars => LogInv'
  <2> SUFFICES ASSUME LogInv, UNCHANGED logVars PROVE LogInv'
    OBVIOUS
  <2>1. Log!TypeOK' /\ HandlerInv' /\ UNCHANGED Taken
    BY DEF LogInv, Log!TypeOK, HandlerInv, logVars, Taken
  <2>2. UNCHANGED LogCounts /\ UNCHANGED <<thread, record>>
    BY DEF logVars, LogCounts
  <2>q. QED
    BY <2>1, <2>2, LogQuiet
<1>q. QED
  BY <1>1, LogEmit, LogReload, LogStart, LogClose, LogGet, LogHandle, LogShutdown, LogJoin
     DEF Log!Next

LEMMA LogSafe ==
    LogInv => Log!EveryRecordCounts /\ Log!HandlerIsOpen /\ Log!ShutdownDrains
<1>1. Log!Queued = Backlog(queue, Len(queue))
  BY LogCardinality DEF Log!Queued, Backlog
<1>q. QED
  BY <1>1 DEF LogInv, CountInv, HandlerInv, DrainInv, Log!EveryRecordCounts,
     Log!HandlerIsOpen, Log!ShutdownDrains, Taken

-----------------------------------------------------------------------------
(* Callbacks *)

\* Those that have killed the running callback, and will hand over a new one.
Killers == {c \in Callers : caller[c] # "idle"}

(***************************************************************************)
(* A command is the last one that was handed over, or it has been taken;   *)
(* what was taken has been started, unless it is just going to be; and     *)
(* child processes belong to the process that runs, or will be killed.     *)
(***************************************************************************)
CommandInv ==
    /\ taken <= calls
    /\ IF cmd # 0 THEN cmd = calls /\ taken < cmd ELSE taken = calls
    /\ IF callbackWorker = "start" THEN started < taken ELSE started = taken

ChildrenInv ==
    /\ children # "orphans"
    /\ children = "live" => process = "runs"
    /\ process = "runs" => callbackWorker = "process"
    /\ children = "noted" => callbackWorker \in {"process", "children"}

CallbackInv ==
    /\ Callback!TypeOK
    /\ calls + Cardinality(Killers) <= MaxCalls
    /\ CommandInv /\ ChildrenInv

LEMMA CallbackCardinality == \A S : Callback!Cardinality(S) = Cardinality(S)
BY DEF Callback!Cardinality, Cardinality

LEMMA KillersAreFinite ==
    /\ IsFiniteSet(Killers) /\ Cardinality(Killers) \in Nat
    /\ MaxCalls \in Nat
<1>1. Killers \subseteq Callers
  BY DEF Killers
<1>q. QED
  BY <1>1, ServicesAssumption, FS_Subset, FS_CardinalityType

LEMMA CallbackKill ==
    ASSUME CallbackInv, NEW c \in Callers, Callback!kill_process(c)
    PROVE  CallbackInv'
<1>1. /\ caller[c] = "idle" /\ caller' = [caller EXCEPT ![c] = "killed"]
      /\ calls + Cardinality(Killers) < MaxCalls
      /\ process' = IF process = "runs" THEN "ended" ELSE process
      /\ children' = IF process = "runs" /\ children = "live" THEN "noted" ELSE children
      /\ UNCHANGED <<cmd, taken, callbackWorker, calls, started>>
  BY CallbackCardinality, Zenon DEF Callback!kill_process, Callback!Noted, Killers
<1>2. Killers' = Killers \cup {c} /\ c \notin Killers
  BY <1>1 DEF CallbackInv, Callback!TypeOK, Killers
<1>3. Cardinality(Killers \cup {c}) = Cardinality(Killers) + 1
  BY <1>2, KillersAreFinite, FS_AddElement
<1>4. Cardinality(Killers') = Cardinality(Killers \cup {c})
  BY <1>2, Zenon
<1>5. calls' + Cardinality(Killers') <= MaxCalls
  <2>1. PICK k \in Nat : k = Cardinality(Killers)
    BY KillersAreFinite
  <2>2. calls + (k + 1) <= MaxCalls
    BY <1>1, <2>1, KillersAreFinite DEF CallbackInv, Callback!TypeOK
  <2>q. QED
    BY <1>1, <1>3, <1>4, <2>1, <2>2
<1>6. Callback!TypeOK' /\ CommandInv' /\ ChildrenInv'
  BY <1>1 DEF CallbackInv, Callback!TypeOK, CommandInv, ChildrenInv
<1>q. QED
  BY <1>5, <1>6 DEF CallbackInv

LEMMA CallbackCall ==
    ASSUME CallbackInv, NEW c \in Callers, Callback!call(c)
    PROVE  CallbackInv'
<1>1. /\ caller[c] = "killed" /\ caller' = [caller EXCEPT ![c] = "idle"]
      /\ calls' = calls + 1 /\ cmd' = calls'
      /\ UNCHANGED <<taken, callbackWorker, process, children, started>>
  BY DEF Callback!call
<1>2. Killers' = Killers \ {c} /\ c \in Killers
  BY <1>1 DEF CallbackInv, Callback!TypeOK, Killers
<1>3. Cardinality(Killers \ {c}) = Cardinality(Killers) - 1
  BY <1>2, KillersAreFinite, FS_RemoveElement
<1>4. Cardinality(Killers') = Cardinality(Killers \ {c})
  BY <1>2, Zenon
<1>5. calls' + Cardinality(Killers') <= MaxCalls /\ calls' \in 0..MaxCalls
  <2>1. PICK k \in Nat : k = Cardinality(Killers)
    BY KillersAreFinite
  <2>2. IsFiniteSet(Killers \ {c}) /\ Cardinality(Killers \ {c}) \in Nat
    BY KillersAreFinite, FS_Subset, FS_CardinalityType
  <2>3. k - 1 \in Nat
    BY <1>3, <2>1, <2>2
  <2>4. calls \in Nat /\ calls + k <= MaxCalls /\ MaxCalls \in Nat
    BY <2>1, KillersAreFinite DEF CallbackInv, Callback!TypeOK
  <2>5. (calls + 1) + (k - 1) <= MaxCalls /\ calls + 1 \in 0..MaxCalls
    BY <2>3, <2>4
  <2>q. QED
    BY <1>1, <1>3, <1>4, <2>1, <2>5, Zenon
<1>6. CommandInv' /\ ChildrenInv'
  BY <1>1, KillersAreFinite DEF CallbackInv, Callback!TypeOK, CommandInv, ChildrenInv
<1>7. Callback!TypeOK'
  BY <1>1, <1>5 DEF CallbackInv, Callback!TypeOK
<1>q. QED
  BY <1>5, <1>6, <1>7 DEF CallbackInv

LEMMA CallbackRest ==
    ASSUME CallbackInv, UNCHANGED <<caller, calls>>,
           Callback!TypeOK', CommandInv', ChildrenInv'
    PROVE  CallbackInv'
<1>1. Killers' = Killers
  BY DEF Killers
<1>q. QED
  BY <1>1 DEF CallbackInv

LEMMA CallbackStep == CallbackInv /\ [Callback!Next]_callbackVars => CallbackInv'
<1> SUFFICES ASSUME CallbackInv, [Callback!Next]_callbackVars PROVE CallbackInv'
  OBVIOUS
<1> USE KillersAreFinite DEF CallbackInv, Callback!TypeOK, CommandInv, ChildrenInv
<1>1. ASSUME NEW c \in Callers, Callback!kill_process(c) \/ Callback!call(c)
      PROVE  CallbackInv'
  <2> HIDE DEF CallbackInv
  <2>q. QED
    BY <1>1, CallbackKill, CallbackCall
<1>2. CASE Callback!run
  <2>1. /\ Callback!TypeOK' /\ CommandInv' /\ ChildrenInv' /\ UNCHANGED <<caller, calls>>
    BY <1>2 DEF Callback!run
  <2>q. QED
    BY <2>1, CallbackRest
<1>3. CASE Callback!start_process
  <2>1. /\ Callback!TypeOK' /\ CommandInv' /\ ChildrenInv' /\ UNCHANGED <<caller, calls>>
    BY <1>3 DEF Callback!start_process
  <2>q. QED
    BY <2>1, CallbackRest
<1>4. CASE Callback!Exit
  <2>1. /\ Callback!TypeOK' /\ CommandInv' /\ ChildrenInv' /\ UNCHANGED <<caller, calls>>
    BY <1>4 DEF Callback!Exit
  <2>q. QED
    BY <2>1, CallbackRest
<1>5. CASE Callback!wait_process
  <2>1. /\ Callback!TypeOK' /\ CommandInv' /\ ChildrenInv' /\ UNCHANGED <<caller, calls>>
    BY <1>5 DEF Callback!wait_process
  <2>q. QED
    BY <2>1, CallbackRest
<1>6. CASE Callback!kill_children
  <2>1. /\ Callback!TypeOK' /\ CommandInv' /\ ChildrenInv' /\ UNCHANGED <<caller, calls>>
    BY <1>6 DEF Callback!kill_children
  <2>q. QED
    BY <2>1, CallbackRest
<1>7. CASE UNCHANGED callbackVars
  <2>1. /\ Callback!TypeOK' /\ CommandInv' /\ ChildrenInv' /\ UNCHANGED <<caller, calls>>
    BY <1>7 DEF callbackVars
  <2>q. QED
    BY <2>1, CallbackRest
<1>q. QED
  BY <1>1, <1>2, <1>3, <1>4, <1>5, <1>6, <1>7 DEF Callback!Next

LEMMA CallbackInit == Callback!Init => CallbackInv
<1> SUFFICES ASSUME Callback!Init PROVE CallbackInv
  OBVIOUS
<1>1. Callback!TypeOK /\ CommandInv /\ ChildrenInv /\ calls = 0
  BY KillersAreFinite DEF Callback!Init, Callback!TypeOK, CommandInv, ChildrenInv
<1>2. Killers = {}
  BY DEF Callback!Init, Killers
<1>3. Cardinality(Killers) = 0
  BY <1>2, FS_EmptySet, Zenon
<1>q. QED
  BY <1>1, <1>3, KillersAreFinite DEF CallbackInv

LEMMA CallbackSafe == CallbackInv => Callback!LastCallIsMade /\ Callback!KilledIsGone
BY DEF CallbackInv, CommandInv, ChildrenInv, Callback!LastCallIsMade, Callback!KilledIsGone

-----------------------------------------------------------------------------
(* Replication slots *)

(***************************************************************************)
(* SlotsHandler knows the slots of the server, except for the ignored      *)
(* ones, unless it is going to ask or the server has been restarted; it    *)
(* does not synchronize before it has asked.                               *)
(***************************************************************************)
SlotsInv ==
    /\ Slots!TypeOK
    /\ ~moved /\ ~loadSlots =>
          \A x \in Names : slots[x] = known[x] \/ (x \in Ignored /\ known[x] = "none")
    /\ slotPc = "sync" => ~loadSlots

LEMMA SlotsLoad == SlotsInv /\ Slots!load_replication_slots => SlotsInv'
<1> SUFFICES ASSUME SlotsInv, Slots!load_replication_slots PROVE SlotsInv'
  OBVIOUS
<1>1. /\ UNCHANGED <<role, slotLeader, from, permanent, slots, active, moved>>
      /\ known' = known \/ (loadSlots /\ known' = slots)
      /\ loadSlots' \in BOOLEAN /\ slotPc' \in {"idle", "sync"}
      /\ slotPc' = "sync" => ~loadSlots'
      /\ ~loadSlots' => known' = IF loadSlots THEN slots ELSE known
  BY DEF Slots!load_replication_slots, Slots!Raises, Slots!clusterVars
<1>2. events' \in 0..MaxEvents
  BY ServicesAssumption
     DEF SlotsInv, Slots!TypeOK, Slots!load_replication_slots, Slots!Event
<1>q. QED
  BY <1>1, <1>2 DEF SlotsInv, Slots!TypeOK

LEMMA SlotsAreWanted ==
    ASSUME Slots!TypeOK
    PROVE  /\ Slots!desired \in [Names -> Slots!Types]
           /\ known \in [Names -> Slots!Types] /\ slots \in [Names -> Slots!Types]
BY DEF Slots!TypeOK, Slots!desired, Slots!Types

LEMMA SlotsSync == SlotsInv /\ Slots!sync_replication_slots => SlotsInv'
<1> SUFFICES ASSUME SlotsInv, Slots!sync_replication_slots PROVE SlotsInv'
  OBVIOUS
<1>1. PICK failed \in SUBSET Slots!Missing :
        LET dropped == {x \in Slots!Unwanted \cup Slots!Changing : Slots!Droppable(x)}
            refused == {x \in Slots!Missing : Slots!Clash(x)}
        IN  /\ IF failed = {} THEN UNCHANGED events ELSE Slots!Event
            /\ slots' = [x \in Names |->
                 IF x \in Slots!Missing \ (failed \cup refused) THEN Slots!desired[x]
                 ELSE IF x \in dropped THEN "none" ELSE slots[x]]
            /\ loadSlots' = (Slots!Refused \cup failed \cup refused # {})
  BY DEF Slots!sync_replication_slots
<1> DEFINE dropped == {x \in Slots!Unwanted \cup Slots!Changing : Slots!Droppable(x)}
           refused == {x \in Slots!Missing : Slots!Clash(x)}
<1>2. /\ slotPc = "sync" /\ slotPc' = "idle" /\ known' = Slots!desired
      /\ active' = {x \in active : slots'[x] # "none"}
      /\ UNCHANGED <<role, slotLeader, from, permanent, moved>>
  BY DEF Slots!sync_replication_slots, Slots!clusterVars
<1>3. Slots!TypeOK'
  <2>1. slots' \in [Names -> Slots!Types]
    BY <1>1, SlotsAreWanted DEF SlotsInv, Slots!Types
  <2>2. events' \in 0..MaxEvents
    BY <1>1, ServicesAssumption DEF SlotsInv, Slots!TypeOK, Slots!Event
  <2>3. known' \in [Names -> Slots!Types] /\ loadSlots' \in BOOLEAN
    BY <1>1, <1>2, SlotsAreWanted DEF SlotsInv
  <2>q. QED
    BY <1>2, <2>1, <2>2, <2>3 DEF SlotsInv, Slots!TypeOK
<1>4. ASSUME ~moved, ~loadSlots', NEW x \in Names
      PROVE  slots'[x] = known'[x] \/ (x \in Ignored /\ known'[x] = "none")
  <2>1. /\ Slots!Refused = {} /\ failed = {} /\ refused = {}
    BY <1>1, <1>4
  <2>2. /\ slots'[x] = IF x \in Slots!Missing THEN Slots!desired[x]
                       ELSE IF x \in dropped THEN "none" ELSE slots[x]
        /\ known'[x] = Slots!desired[x]
    BY <1>1, <1>2, <2>1
  <2>3. slots[x] = known[x] \/ (x \in Ignored /\ known[x] = "none")
    BY <1>2, <1>4 DEF SlotsInv
  <2>4. CASE x \in Slots!Missing
    BY <2>2, <2>4
  <2>5. CASE x \notin Slots!Missing /\ Slots!desired[x] # "none"
    <3>1. known[x] # "none" /\ (x \in Slots!Changing => x \in Slots!Refused)
      BY <2>5 DEF Slots!Missing
    <3>2. known[x] = Slots!desired[x]
      BY <2>1, <2>5, <3>1 DEF Slots!Changing
    <3>3. x \notin Slots!Unwanted /\ x \notin Slots!Changing
      BY <2>5, <3>2 DEF Slots!Unwanted, Slots!Changing
    <3>q. QED
      BY <2>2, <2>3, <2>5, <3>1, <3>2, <3>3
  <2>6. CASE Slots!desired[x] = "none"
    <3>1. x \notin Slots!Missing
      BY <2>6 DEF Slots!Missing
    <3>2. CASE x \in Slots!Unwanted
      <4>1. Slots!Droppable(x)
        BY <2>1, <3>2 DEF Slots!Refused
      <4>q. QED
        BY <2>2, <2>6, <3>1, <3>2, <4>1
    <3>3. CASE x \notin Slots!Unwanted
      <4>1. known[x] = "none" \/ x \in Ignored
        BY <2>6, <3>3 DEF Slots!Unwanted
      <4>q. QED
        BY <2>2, <2>3, <2>6, <3>1, <4>1
    <3>q. QED
      BY <3>2, <3>3
  <2>q. QED
    BY <2>4, <2>5, <2>6
<1>q. QED
  BY <1>2, <1>3, <1>4 DEF SlotsInv

LEMMA SlotsChange == SlotsInv /\ Slots!Change => SlotsInv'
<1> SUFFICES ASSUME SlotsInv, Slots!Change PROVE SlotsInv'
  OBVIOUS
<1>1. /\ events' \in 0..MaxEvents
      /\ UNCHANGED <<slots, active, known, loadSlots, moved, slotPc>>
  BY ServicesAssumption DEF Slots!Change, Slots!Event, SlotsInv, Slots!TypeOK
<1>2. \/ role' \in {"master", "replica"} /\ slotLeader' \in Names \cup {"none"}
         /\ UNCHANGED <<from, permanent>>
      \/ \E x \in Names :
           /\ \/ /\ from' \in {[from EXCEPT ![x] = f] : f \in {"absent", "default", "me", "other"}}
                 /\ UNCHANGED permanent
              \/ /\ permanent' \in {[permanent EXCEPT ![x] = t] : t \in Slots!Types}
                 /\ UNCHANGED from
           /\ UNCHANGED <<role, slotLeader>>
  BY DEF Slots!Change
<1>3. Slots!TypeOK'
  <2>1. CASE /\ role' \in {"master", "replica"} /\ slotLeader' \in Names \cup {"none"}
             /\ UNCHANGED <<from, permanent>>
    BY <1>1, <2>1 DEF SlotsInv, Slots!TypeOK
  <2>2. ASSUME NEW x \in Names, NEW f \in {"absent", "default", "me", "other"},
               from' = [from EXCEPT ![x] = f], UNCHANGED <<permanent, role, slotLeader>>
        PROVE  Slots!TypeOK'
    <3>1. from' \in [Names -> {"absent", "default", "me", "other"}]
      BY <2>2 DEF SlotsInv, Slots!TypeOK
    <3>q. QED
      BY <1>1, <2>2, <3>1 DEF SlotsInv, Slots!TypeOK
  <2>3. ASSUME NEW x \in Names, NEW t \in Slots!Types,
               permanent' = [permanent EXCEPT ![x] = t],
               UNCHANGED <<from, role, slotLeader>>
        PROVE  Slots!TypeOK'
    <3>1. permanent' \in [Names -> Slots!Types]
      BY <2>3 DEF SlotsInv, Slots!TypeOK
    <3>q. QED
      BY <1>1, <2>3, <3>1 DEF SlotsInv, Slots!TypeOK
  <2>q. QED
    BY <1>2, <2>1, <2>2, <2>3
<1>q. QED
  BY <1>1, <1>3 DEF SlotsInv

LEMMA SlotsStep == SlotsInv /\ [Slots!Next]_slotVars => SlotsInv'
<1> SUFFICES ASSUME SlotsInv, [Slots!Next]_slotVars PROVE SlotsInv'
  OBVIOUS
<1>1. CASE Slots!is_running
  BY <1>1 DEF SlotsInv, Slots!TypeOK, Slots!is_running, Slots!clusterVars
<1>2. CASE Slots!Restart
  <2>1. slots' \in [Names -> Slots!Types] /\ events' \in 0..MaxEvents
    BY <1>2, ServicesAssumption
       DEF SlotsInv, Slots!TypeOK, Slots!Restart, Slots!Event, Slots!NoSlots, Slots!Types
  <2>q. QED
    BY <1>2, <2>1 DEF SlotsInv, Slots!TypeOK, Slots!Restart, Slots!clusterVars
<1>3. ASSUME NEW x \in Names, Slots!Connect(x) PROVE SlotsInv'
  <2>1. active' \subseteq Names /\ events' \in 0..MaxEvents
    BY <1>3, ServicesAssumption DEF SlotsInv, Slots!TypeOK, Slots!Connect, Slots!Event
  <2>q. QED
    BY <1>3, <2>1 DEF SlotsInv, Slots!TypeOK, Slots!Connect, Slots!clusterVars
<1>4. CASE UNCHANGED slotVars
  BY <1>4 DEF SlotsInv, Slots!TypeOK, slotVars
<1>q. QED
  BY <1>1, <1>2, <1>3, <1>4, SlotsLoad, SlotsSync, SlotsChange DEF Slots!Next

LEMMA SlotsInit == Slots!Init => SlotsInv
<1> SUFFICES ASSUME Slots!Init PROVE SlotsInv
  OBVIOUS
<1>1. /\ role = "replica" /\ slotLeader \in Names /\ active = {}
      /\ loadSlots = TRUE /\ moved = FALSE /\ slotPc = "idle" /\ events = 0
  BY DEF Slots!Init
<1>2. /\ from \in [Names -> {"absent", "default", "me", "other"}]
      /\ permanent \in [Names -> Slots!Types] /\ known \in [Names -> Slots!Types]
  BY DEF Slots!Init, Slots!NoSlots, Slots!Types
<1>3. slots \in [Names -> Slots!Types]
  BY DEF Slots!Init, Slots!Types
<1>4. events \in 0..MaxEvents
  BY <1>1, ServicesAssumption
<1>5. Slots!TypeOK
  BY <1>1, <1>2, <1>3, <1>4 DEF Slots!TypeOK
<1>q. QED
  BY <1>1, <1>5 DEF SlotsInv

LEMMA SlotsSafe == SlotsInv => Slots!KnownIsTrue
BY DEF SlotsInv, Slots!KnownIsTrue

-----------------------------------------------------------------------------
(* The answers of the REST API *)

\* The DCS has granted the lock, and the HA loop does not know yet.
Granted(n) == dcsCall[n] \in {"acquire", "update"} /\ answer[n] = "yes"

(***************************************************************************)
(* A lease outlasts the key for which it was granted by no more than the   *)
(* time of a request, and nobody else has the key before it has expired.   *)
(***************************************************************************)
LeaseOf(n) ==
    /\ dcsCall[n] # "none" => sent[n] <= now /\ now <= sent[n] + Delay
    /\ held[n] <= now + Ttl
    /\ owner = n => held[n] = expires
    /\ lease[n] > 0 => lease[n] <= held[n] + Delay
    /\ Granted(n) => held[n] >= sent[n] + Ttl
    /\ dcsCall[n] = "delete" => lease[n] = 0
    /\ dcsCall[n] = "get_cluster" => answer[n] \in Nodes \cup {Lease!None, Lease!NoAnswer}
    /\ (lease[n] > now \/ Granted(n)) /\ held[n] > now => owner = n

LeaseInv == Lease!TypeOK /\ \A n \in Nodes : LeaseOf(n)

LEMMA LeaseFacts ==
    /\ Ttl \in Nat /\ Delay \in Nat /\ MaxTime \in Nat /\ Lease!None \notin Nodes
    /\ Lease!TypeOK =>
         /\ now \in 0..MaxTime /\ expires \in 0..(MaxTime + Ttl)
         /\ \A n \in Nodes : /\ lease[n] \in 0..(MaxTime + Ttl)
                             /\ held[n] \in 0..(MaxTime + Ttl)
                             /\ sent[n] \in 0..MaxTime
         /\ now + Ttl \in 0..(MaxTime + Ttl)
BY ServicesAssumption DEF Lease!TypeOK

\* A step of n that leaves the key, and what the others know, alone.
LEMMA LeaseLocal ==
    ASSUME LeaseInv, NEW n \in Nodes, Lease!TypeOK', LeaseOf(n)',
           UNCHANGED <<now, owner, expires, held>>,
           \A m \in Nodes \ {n} :
              /\ dcsCall'[m] = dcsCall[m] /\ answer'[m] = answer[m]
              /\ sent'[m] = sent[m] /\ lease'[m] = lease[m]
    PROVE  LeaseInv'
<1>1. ASSUME NEW m \in Nodes \ {n} PROVE LeaseOf(m)'
  BY <1>1 DEF LeaseInv, LeaseOf, Granted
<1>q. QED
  BY <1>1 DEF LeaseInv

\* A call begins: it has no answer yet.
LEMMA LeaseSend ==
    ASSUME Lease!TypeOK, NEW n \in Nodes, Lease!Send(n, dcsCall'[n]),
           dcsCall'[n] \in {"get_cluster", "acquire", "update", "delete"}
    PROVE  /\ dcsCall' \in [Nodes -> {"none", "get_cluster", "acquire", "update", "delete"}]
           /\ answer' \in [Nodes -> {Lease!NoAnswer, "yes", "no", Lease!None} \cup Nodes]
           /\ sent' \in [Nodes -> 0..MaxTime]
           /\ answer'[n] = Lease!NoAnswer /\ sent'[n] = now
           /\ \A m \in Nodes \ {n} :
                 dcsCall'[m] = dcsCall[m] /\ answer'[m] = answer[m] /\ sent'[m] = sent[m]
BY DEF Lease!TypeOK, Lease!Send, Lease!Set

LEMMA LeaseReturn ==
    ASSUME Lease!TypeOK, NEW n \in Nodes, Lease!Return(n)
    PROVE  /\ dcsCall' \in [Nodes -> {"none", "get_cluster", "acquire", "update", "delete"}]
           /\ answer' \in [Nodes -> {Lease!NoAnswer, "yes", "no", Lease!None} \cup Nodes]
           /\ sent' \in [Nodes -> 0..MaxTime]
           /\ dcsCall'[n] = "none"
           /\ \A m \in Nodes \ {n} :
                 dcsCall'[m] = dcsCall[m] /\ answer'[m] = answer[m] /\ sent'[m] = sent[m]
BY LeaseFacts DEF Lease!TypeOK, Lease!Return, Lease!Set

LEMMA LeaseAsks ==
    ASSUME Lease!TypeOK, NEW n \in Nodes, LeaseOf(n),
           UNCHANGED <<now, owner, expires, held>>,
           answer'[n] = Lease!NoAnswer, sent'[n] = now,
           dcsCall'[n] \in {"get_cluster", "acquire", "update"},
           lease'[n] \in {lease[n], 0}
    PROVE  LeaseOf(n)'
<1>1. ~Granted(n)' /\ answer'[n] \in Nodes \cup {Lease!None, Lease!NoAnswer}
  BY DEF Granted, Lease!NoAnswer
<1>2. /\ now \in Nat /\ Delay \in Nat /\ Ttl \in Nat /\ lease[n] \in Nat /\ held[n] \in Nat
  BY LeaseFacts
<1>3. sent'[n] <= now' /\ now' <= sent'[n] + Delay
  BY <1>2
<1>4. /\ lease'[n] > 0 => lease'[n] <= held'[n] + Delay
      /\ lease'[n] > now' /\ held'[n] > now' => owner' = n
  BY <1>2 DEF LeaseOf
<1>q. QED
  BY <1>1, <1>3, <1>4 DEF LeaseOf

LEMMA LeaseGetCluster ==
    ASSUME LeaseInv, NEW n \in Nodes, Lease!get_cluster(n)
    PROVE  LeaseInv'
<1>1. /\ Lease!Send(n, "get_cluster") /\ Lease!TypeOK
      /\ UNCHANGED <<now, owner, expires, leaderView, lease, held>>
  BY DEF LeaseInv, Lease!get_cluster
<1>2. dcsCall'[n] = "get_cluster"
  BY <1>1 DEF Lease!TypeOK, Lease!Send, Lease!Set
<1>3. /\ dcsCall' \in [Nodes -> {"none", "get_cluster", "acquire", "update", "delete"}]
      /\ answer' \in [Nodes -> {Lease!NoAnswer, "yes", "no", Lease!None} \cup Nodes]
      /\ sent' \in [Nodes -> 0..MaxTime]
      /\ answer'[n] = Lease!NoAnswer /\ sent'[n] = now
      /\ \A m \in Nodes \ {n} :
            dcsCall'[m] = dcsCall[m] /\ answer'[m] = answer[m] /\ sent'[m] = sent[m]
  BY <1>1, <1>2, LeaseSend
<1>4. Lease!TypeOK'
  BY <1>1, <1>3 DEF Lease!TypeOK
<1>5. LeaseOf(n)'
  BY <1>1, <1>2, <1>3, LeaseAsks DEF LeaseInv
<1>q. QED
  BY <1>1, <1>3, <1>4, <1>5, LeaseLocal

LEMMA LeaseLoad ==
    ASSUME LeaseInv, NEW n \in Nodes, Lease!load_cluster_from_dcs(n)
    PROVE  LeaseInv'
<1>1. /\ dcsCall[n] = "get_cluster" /\ answer[n] # Lease!NoAnswer /\ Lease!TypeOK
      /\ leaderView' = [leaderView EXCEPT ![n] = answer[n]]
      /\ lease' = IF answer[n] # n THEN [lease EXCEPT ![n] = 0] ELSE lease
      /\ UNCHANGED <<now, owner, expires, held>>
  BY DEF LeaseInv, Lease!load_cluster_from_dcs, Lease!Loaded, Lease!Set
<1>2. answer[n] \in Nodes \cup {Lease!None} /\ LeaseOf(n)
  BY <1>1 DEF LeaseInv, LeaseOf
<1>3. /\ leaderView' \in [Nodes -> Nodes \cup {Lease!None}]
      /\ lease' \in [Nodes -> 0..(MaxTime + Ttl)]
      /\ lease'[n] = 0 \/ lease'[n] = lease[n]
      /\ \A m \in Nodes \ {n} : lease'[m] = lease[m]
  BY <1>1, <1>2, LeaseFacts DEF Lease!TypeOK
<1>4. CASE answer[n] \in {n, Lease!None}
  <2>1. /\ dcsCall'[n] \in {"update", "acquire"} /\ Lease!Send(n, dcsCall'[n])
    BY <1>1, <1>4 DEF Lease!load_cluster_from_dcs, Lease!Send, Lease!Set, Lease!TypeOK
  <2>2. /\ dcsCall' \in [Nodes -> {"none", "get_cluster", "acquire", "update", "delete"}]
        /\ answer' \in [Nodes -> {Lease!NoAnswer, "yes", "no", Lease!None} \cup Nodes]
        /\ sent' \in [Nodes -> 0..MaxTime]
        /\ answer'[n] = Lease!NoAnswer /\ sent'[n] = now
        /\ \A m \in Nodes \ {n} :
              dcsCall'[m] = dcsCall[m] /\ answer'[m] = answer[m] /\ sent'[m] = sent[m]
    BY <1>1, <2>1, LeaseSend
  <2>3. Lease!TypeOK'
    BY <1>1, <1>3, <2>2 DEF Lease!TypeOK
  <2>4. LeaseOf(n)'
    BY <1>1, <1>2, <1>3, <2>1, <2>2, LeaseAsks
  <2>q. QED
    BY <1>1, <1>3, <2>2, <2>3, <2>4, LeaseLocal
<1>5. CASE answer[n] \notin {n, Lease!None}
  <2>1. Lease!Return(n)
    BY <1>5 DEF Lease!load_cluster_from_dcs
  <2>2. /\ dcsCall' \in [Nodes -> {"none", "get_cluster", "acquire", "update", "delete"}]
        /\ answer' \in [Nodes -> {Lease!NoAnswer, "yes", "no", Lease!None} \cup Nodes]
        /\ sent' \in [Nodes -> 0..MaxTime]
        /\ dcsCall'[n] = "none"
        /\ \A m \in Nodes \ {n} :
              dcsCall'[m] = dcsCall[m] /\ answer'[m] = answer[m] /\ sent'[m] = sent[m]
    BY <1>1, <2>1, LeaseReturn
  <2>3. Lease!TypeOK'
    BY <1>1, <1>3, <2>2 DEF Lease!TypeOK
  <2>4. LeaseOf(n)'
    BY <1>1, <1>2, <1>3, <2>2, LeaseFacts DEF LeaseOf, Granted
  <2>q. QED
    BY <1>1, <1>3, <2>2, <2>3, <2>4, LeaseLocal
<1>q. QED
  BY <1>4, <1>5

\* The end of a call that does not touch the lease, or that sets it.
LEMMA LeaseEnds ==
    ASSUME LeaseInv, NEW n \in Nodes, Lease!Return(n), dcsCall[n] # "none",
           UNCHANGED <<now, owner, expires, leaderView, held>>,
           \/ lease' = lease
           \/ lease' = [lease EXCEPT ![n] = 0]
           \/ Granted(n) /\ lease' = [lease EXCEPT ![n] = now + Ttl]
    PROVE  LeaseInv'
<1>1. Lease!TypeOK /\ LeaseOf(n)
  BY DEF LeaseInv
<1>2. /\ dcsCall' \in [Nodes -> {"none", "get_cluster", "acquire", "update", "delete"}]
      /\ answer' \in [Nodes -> {Lease!NoAnswer, "yes", "no", Lease!None} \cup Nodes]
      /\ sent' \in [Nodes -> 0..MaxTime]
      /\ dcsCall'[n] = "none"
      /\ \A m \in Nodes \ {n} :
            dcsCall'[m] = dcsCall[m] /\ answer'[m] = answer[m] /\ sent'[m] = sent[m]
  BY <1>1, LeaseReturn
<1>3. /\ lease' \in [Nodes -> 0..(MaxTime + Ttl)]
      /\ \A m \in Nodes \ {n} : lease'[m] = lease[m]
      /\ \/ lease'[n] \in {lease[n], 0}
         \/ Granted(n) /\ lease'[n] = now + Ttl
  <2>1. lease \in [Nodes -> 0..(MaxTime + Ttl)] /\ 0 \in 0..(MaxTime + Ttl)
        /\ now + Ttl \in 0..(MaxTime + Ttl)
    BY <1>1, LeaseFacts DEF Lease!TypeOK
  <2>q. QED
    BY <2>1
<1>4. Lease!TypeOK'
  BY <1>1, <1>2, <1>3 DEF Lease!TypeOK
<1>5. LeaseOf(n)'
  <2>1. ~Granted(n)'
    BY <1>2 DEF Granted
  <2>2. /\ now \in Int /\ Ttl \in Nat /\ Delay \in Nat
        /\ lease[n] \in Nat /\ held[n] \in Nat /\ sent[n] \in Nat
    BY <1>1, LeaseFacts
  <2>3. CASE lease'[n] \in {lease[n], 0}
    BY <1>1, <1>2, <2>1, <2>2, <2>3 DEF LeaseOf
  <2>4. CASE Granted(n) /\ lease'[n] = now + Ttl
    <3>1. now + Ttl <= held[n] + Delay
      BY <1>1, <2>2, <2>4 DEF LeaseOf, Granted
    <3>2. held[n] > now => owner = n
      BY <1>1, <2>4 DEF LeaseOf
    <3>q. QED
      BY <1>1, <1>2, <2>1, <2>4, <3>1, <3>2 DEF LeaseOf
  <2>q. QED
    BY <1>3, <2>3, <2>4
<1>q. QED
  BY <1>2, <1>3, <1>4, <1>5, LeaseLocal

LEMMA LeaseDelete ==
    ASSUME LeaseInv, NEW n \in Nodes, Lease!delete_leader(n)
    PROVE  LeaseInv'
<1>1. /\ Lease!TypeOK /\ LeaseOf(n) /\ lease' = [lease EXCEPT ![n] = 0]
      /\ Lease!Send(n, "delete")
      /\ UNCHANGED <<now, owner, expires, leaderView, held>>
  BY DEF LeaseInv, Lease!delete_leader, Lease!Set
<1>2. dcsCall'[n] = "delete"
  BY <1>1 DEF Lease!TypeOK, Lease!Send, Lease!Set
<1>3. /\ dcsCall' \in [Nodes -> {"none", "get_cluster", "acquire", "update", "delete"}]
      /\ answer' \in [Nodes -> {Lease!NoAnswer, "yes", "no", Lease!None} \cup Nodes]
      /\ sent' \in [Nodes -> 0..MaxTime]
      /\ answer'[n] = Lease!NoAnswer /\ sent'[n] = now
      /\ \A m \in Nodes \ {n} :
            dcsCall'[m] = dcsCall[m] /\ answer'[m] = answer[m] /\ sent'[m] = sent[m]
  BY <1>1, <1>2, LeaseSend
<1>4. /\ lease' \in [Nodes -> 0..(MaxTime + Ttl)] /\ lease'[n] = 0
      /\ \A m \in Nodes \ {n} : lease'[m] = lease[m]
  BY <1>1, LeaseFacts DEF Lease!TypeOK
<1>5. Lease!TypeOK'
  BY <1>1, <1>3, <1>4 DEF Lease!TypeOK
<1>6. LeaseOf(n)'
  BY <1>1, <1>2, <1>3, <1>4, LeaseFacts DEF LeaseOf, Granted
<1>q. QED
  BY <1>1, <1>3, <1>4, <1>5, <1>6, LeaseLocal

LEMMA LeaseExecute ==
    ASSUME LeaseInv, NEW n \in Nodes, Lease!Execute(n)
    PROVE  LeaseInv'
<1> DEFINE granted == \/ dcsCall[n] = "acquire" /\ Lease!Holder = Lease!None
                      \/ dcsCall[n] = "update" /\ Lease!Holder = n
<1>1. /\ Lease!TypeOK /\ LeaseOf(n) /\ dcsCall[n] # "none"
      /\ answer' = [answer EXCEPT ![n] =
                      IF dcsCall[n] = "get_cluster" THEN Lease!Holder
                      ELSE IF granted THEN "yes" ELSE "no"]
      /\ IF granted
         THEN owner' = n /\ expires' = now + Ttl /\ held' = [held EXCEPT ![n] = expires']
         ELSE /\ owner' = IF dcsCall[n] = "delete" /\ owner = n THEN Lease!None ELSE owner
              /\ UNCHANGED <<expires, held>>
      /\ UNCHANGED <<now, dcsCall, sent, leaderView, lease>>
  BY DEF LeaseInv, Lease!Execute, Lease!Set
<1>2. Lease!Holder \in Nodes \cup {Lease!None}
  BY <1>1 DEF Lease!Holder, Lease!TypeOK
<1>3. /\ answer' \in [Nodes -> {Lease!NoAnswer, "yes", "no", Lease!None} \cup Nodes]
      /\ \A m \in Nodes \ {n} : answer'[m] = answer[m]
      /\ answer'[n] = IF dcsCall[n] = "get_cluster" THEN Lease!Holder
                      ELSE IF granted THEN "yes" ELSE "no"
  BY <1>1, <1>2 DEF Lease!TypeOK
<1>4. CASE granted
  <2>1. /\ owner' = n /\ expires' = now + Ttl /\ dcsCall[n] \in {"acquire", "update"}
        /\ Lease!Holder \in {n, Lease!None}
        /\ held' \in [Nodes -> 0..(MaxTime + Ttl)] /\ held'[n] = now + Ttl
        /\ \A m \in Nodes \ {n} : held'[m] = held[m]
    BY <1>1, <1>4, LeaseFacts DEF Lease!TypeOK
  <2>2. Lease!TypeOK'
    BY <1>1, <1>3, <2>1, LeaseFacts DEF Lease!TypeOK
  <2>3. LeaseOf(n)'
    <3>1. /\ now \in Nat /\ Ttl \in Nat /\ Delay \in Nat
          /\ lease[n] \in Nat /\ held[n] \in Nat /\ sent[n] \in Nat
      BY <1>1, LeaseFacts
    <3>2. sent[n] <= now /\ now <= sent[n] + Delay /\ held[n] <= now + Ttl
      BY <1>1 DEF LeaseOf
    <3>3. lease[n] > 0 => lease[n] <= (now + Ttl) + Delay
      BY <1>1, <3>1, <3>2 DEF LeaseOf
    <3>q. QED
      BY <1>1, <2>1, <3>1, <3>2, <3>3 DEF LeaseOf
  <2>4. ASSUME NEW m \in Nodes \ {n} PROVE LeaseOf(m)'
    <3>1. LeaseOf(m) /\ m # n
      BY DEF LeaseInv
    <3>2. ~((lease[m] > now \/ Granted(m)) /\ held[m] > now)
      <4>1. SUFFICES ASSUME lease[m] > now \/ Granted(m), held[m] > now PROVE FALSE
        OBVIOUS
      <4>2. owner = m /\ held[m] = expires
        BY <3>1, <4>1 DEF LeaseOf
      <4>3. Lease!Holder = m
        BY <4>1, <4>2, LeaseFacts, <1>1 DEF Lease!Holder
      <4>q. QED
        BY <2>1, <3>1, <4>3, LeaseFacts
    <3>q. QED
      BY <1>1, <1>3, <2>1, <3>1, <3>2 DEF LeaseOf, Granted
  <2>q. QED
    BY <2>2, <2>3, <2>4 DEF LeaseInv
<1>5. CASE ~granted
  <2>1. /\ owner' \in Nodes \cup {Lease!None} /\ UNCHANGED <<expires, held>>
        /\ \A m \in Nodes : owner' = m => owner = m
        /\ \A m \in Nodes : owner = m /\ owner' # m => m = n /\ dcsCall[n] = "delete"
    BY <1>1, <1>5, LeaseFacts DEF Lease!TypeOK
  <2>2. Lease!TypeOK'
    BY <1>1, <1>3, <2>1 DEF Lease!TypeOK
  <2>3. ~Granted(n)'
    BY <1>1, <1>3, <1>5 DEF Granted
  <2>4. LeaseOf(n)'
    <3>1. lease[n] > now => dcsCall[n] # "delete"
      BY <1>1, LeaseFacts DEF LeaseOf
    <3>q. QED
      BY <1>1, <1>2, <1>3, <2>1, <2>3, <3>1 DEF LeaseOf
  <2>5. ASSUME NEW m \in Nodes \ {n} PROVE LeaseOf(m)'
    <3>1. LeaseOf(m)
      BY DEF LeaseInv
    <3>q. QED
      BY <1>1, <1>3, <2>1, <3>1 DEF LeaseOf, Granted
  <2>q. QED
    BY <2>2, <2>4, <2>5 DEF LeaseInv
<1>q. QED
  BY <1>4, <1>5

LEMMA LeaseTick == LeaseInv /\ Lease!Tick => LeaseInv'
<1> SUFFICES ASSUME LeaseInv, Lease!Tick PROVE LeaseInv'
  OBVIOUS
<1>1. /\ Lease!TypeOK /\ now < MaxTime /\ now' = now + 1
      /\ \A n \in Nodes : dcsCall[n] # "none" => now < sent[n] + Delay
      /\ UNCHANGED <<owner, expires, dcsCall, answer, sent, leaderView, lease, held>>
  BY DEF LeaseInv, Lease!Tick
<1>2. Lease!TypeOK'
  BY <1>1, LeaseFacts DEF Lease!TypeOK
<1>3. ASSUME NEW n \in Nodes PROVE LeaseOf(n)'
  <2>1. /\ now \in Nat /\ Ttl \in Nat /\ Delay \in Nat
        /\ lease[n] \in Nat /\ held[n] \in Nat /\ sent[n] \in Nat
    BY <1>1, LeaseFacts
  <2>2. LeaseOf(n) /\ (Granted(n)' <=> Granted(n))
    BY <1>1 DEF LeaseInv, Granted
  <2>3. dcsCall[n] # "none" => sent[n] <= now + 1 /\ now + 1 <= sent[n] + Delay
    BY <1>1, <2>1, <2>2 DEF LeaseOf
  <2>4. /\ held[n] <= (now + 1) + Ttl
        /\ lease[n] > now + 1 => lease[n] > now
        /\ held[n] > now + 1 => held[n] > now
    BY <2>1, <2>2 DEF LeaseOf
  <2>q. QED
    BY <1>1, <2>2, <2>3, <2>4 DEF LeaseOf
<1>q. QED
  BY <1>2, <1>3 DEF LeaseInv

LEMMA LeaseStep == LeaseInv /\ [Lease!Next]_leaseVars => LeaseInv'
<1> SUFFICES ASSUME LeaseInv, [Lease!Next]_leaseVars PROVE LeaseInv'
  OBVIOUS
<1>1. ASSUME NEW n \in Nodes, Lease!set_is_leader(n) PROVE LeaseInv'
  BY <1>1, LeaseEnds DEF Lease!set_is_leader, Lease!Lease, Lease!Set, Granted
<1>2. ASSUME NEW n \in Nodes, Lease!deleted(n) PROVE LeaseInv'
  BY <1>2, LeaseEnds DEF Lease!deleted
<1>3. ASSUME NEW n \in Nodes, Lease!Fail(n) PROVE LeaseInv'
  BY <1>3, LeaseEnds DEF Lease!Fail, Lease!Set
<1>4. CASE UNCHANGED leaseVars
  BY <1>4 DEF LeaseInv, LeaseOf, Granted, Lease!TypeOK, leaseVars
<1>q. QED
  BY <1>1, <1>2, <1>3, <1>4, LeaseGetCluster, LeaseLoad, LeaseDelete, LeaseExecute,
     LeaseTick DEF Lease!Next

LEMMA LeaseInit == Lease!Init => LeaseInv
<1> SUFFICES ASSUME Lease!Init PROVE LeaseInv
  OBVIOUS
<1>1. Lease!TypeOK
  BY LeaseFacts DEF Lease!Init, Lease!TypeOK
<1>2. ASSUME NEW n \in Nodes PROVE LeaseOf(n)
  BY LeaseFacts DEF Lease!Init, LeaseOf, Granted
<1>q. QED
  BY <1>1, <1>2 DEF LeaseInv

LEMMA LeaseSafe == LeaseInv => Lease!StaleMasterIsBrief
<1> SUFFICES ASSUME LeaseInv, NEW n \in Nodes, lease[n] > now, Lease!Holder # n
             PROVE  held[n] <= now /\ now < held[n] + Delay
  BY DEF Lease!StaleMasterIsBrief, Lease!primary_status_code, Lease!is_leader
<1>1. /\ now \in Nat /\ expires \in Nat /\ Delay \in Nat /\ lease[n] \in Nat
      /\ held[n] \in Nat /\ LeaseOf(n)
  BY LeaseFacts DEF LeaseInv
<1>2. held[n] <= now
  <2>1. SUFFICES ASSUME held[n] > now PROVE FALSE
    BY <1>1
  <2>2. owner = n /\ held[n] = expires
    BY <1>1, <2>1 DEF LeaseOf
  <2>q. QED
    BY <1>1, <2>1, <2>2 DEF Lease!Holder
<1>3. lease[n] <= held[n] + Delay
  BY <1>1 DEF LeaseOf
<1>q. QED
  BY <1>1, <1>2, <1>3

-----------------------------------------------------------------------------
(* The services of a node together *)

ServicesInv == ConfigInv /\ LogInv /\ SlotsInv /\ CallbackInv /\ LeaseInv

\* A step is one of a service, and leaves what belongs to the others alone.
LEMMA ServicesStep ==
    ASSUME [ServicesNext]_serviceVars
    PROVE  /\ [Config!Next]_configVars /\ [Log!Next]_logVars /\ [Slots!Next]_slotVars
           /\ [Callback!Next]_callbackVars /\ [Lease!Next]_leaseVars
<1>1. CASE InConfig /\ Config!Next
  BY <1>1 DEF InConfig
<1>2. CASE InLog /\ Log!Next
  BY <1>2 DEF InLog
<1>3. CASE InSlots /\ Slots!Next
  BY <1>3 DEF InSlots
<1>4. CASE InCallback /\ Callback!Next
  BY <1>4 DEF InCallback
<1>5. CASE InLease /\ Lease!Next
  BY <1>5 DEF InLease
<1>6. CASE UNCHANGED serviceVars
  BY <1>6 DEF serviceVars
<1>q. QED
  BY <1>1, <1>2, <1>3, <1>4, <1>5, <1>6 DEF ServicesNext

LEMMA ServicesInvariance == ServicesSpec => []ServicesInv
<1>1. ServicesInit => ServicesInv
  BY ConfigInit, LogInit, SlotsInit, CallbackInit, LeaseInit DEF ServicesInit, ServicesInv
<1>2. ServicesInv /\ [ServicesNext]_serviceVars => ServicesInv'
  BY ServicesStep, ConfigStep, LogStep, SlotsStep, CallbackStep, LeaseStep
     DEF ServicesInv
<1>q. QED
  BY <1>1, <1>2, PTL DEF ServicesSpec

(***************************************************************************)
(* The configuration, the logger, SlotsHandler, CallbackExecutor and the   *)
(* lease of the REST API keep their variables within their types.          *)
(***************************************************************************)
THEOREM ServiceTypesHold == ServicesSpec => []ServiceTypes
<1>1. ServicesInv => ServiceTypes
  BY DEF ServicesInv, ServiceTypes, ConfigInv, LogInv, SlotsInv, CallbackInv, LeaseInv
<1>q. QED
  BY <1>1, ServicesInvariance, PTL

(***************************************************************************)
(* PatroniLogger and CallbackExecutor: every record is written, queued or  *)
(* counted as lost exactly once, shutdown drains the queue, the callback   *)
(* that was called last is started, once, and not next to a killed one.    *)
(***************************************************************************)
THEOREM NothingIsDroppedHolds == ServicesSpec => []NothingIsDropped
<1>1. ServicesInv => NothingIsDropped
  BY LogSafe, CallbackSafe DEF ServicesInv, NothingIsDropped
<1>q. QED
  BY <1>1, ServicesInvariance, PTL

(***************************************************************************)
(* pending_restart, the known replication slots and the answer 200 at      *)
(* /master are true in any case, and so is the cache file if no nested     *)
(* setting is patched by way of the REST API (it is changed in place).     *)
(***************************************************************************)
THEOREM ReportsAreTrueHolds ==
    ASSUME "pg" \notin ApiSettings
    PROVE  ServicesSpec => []ReportsAreTrue
<1>1. ServicesInit => CacheInv
  BY CacheInit DEF ServicesInit
<1>2. ServicesInv /\ CacheInv /\ [ServicesNext]_serviceVars => CacheInv'
  BY ServicesStep, CacheStep DEF ServicesInv
<1>3. ServicesSpec => []CacheInv
  BY <1>1, <1>2, ServicesInvariance, PTL DEF ServicesSpec
<1>4. ServicesInv /\ CacheInv => ReportsAreTrue
  BY SlotsSafe, LeaseSafe DEF ServicesInv, ConfigInv, CacheInv, ReportsAreTrue
<1>q. QED
  BY <1>3, <1>4, ServicesInvariance, PTL

(***************************************************************************)
(* do_PATCH_config and edit_config: a change of the configuration that is  *)
(* written changes nothing but the setting it is about, however old the    *)
(* configuration is that it was made from.                                 *)
(***************************************************************************)
THEOREM NoUpdateIsLost == ServicesSpec => Config!NoLostUpdate
<1>1. ServicesInv /\ [ServicesNext]_serviceVars =>
         [\A e \in Config!Editors :
            editor[e].pc = "write" /\ editor'[e].pc = "idle" /\ key' # key
            => \A s \in Config!Settings \ {editor[e].setting} :
                  key'.data[s] = key.data[s]]_(Config!vars)
  BY ServicesStep, UpdateStep DEF ServicesInv
<1>2. ServicesSpec => [][ServicesNext]_serviceVars
  BY PTL DEF ServicesSpec
<1>q. QED
  BY <1>1, <1>2, ServicesInvariance, PTL DEF Config!NoLostUpdate

=============================================================================
