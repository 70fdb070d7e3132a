-------------------------- MODULE CallbackExecutor --------------------------
(***************************************************************************)
(* Callback scripts are run one at a time, in a thread of their own.  A    *)
(* new call kills the script that is running and replaces a call that has  *)
(* not been started yet.  Callers are the main thread and the thread of    *)
(* AsyncExecutor; calls are numbered in the order in which they are handed *)
(* over, 0 is None.                                                        *)
(***************************************************************************)
EXTENDS Integers, FiniteSets

CONSTANTS Callers, MaxCalls

VARIABLES
    caller,       \* whether a caller is idle, or has killed and will hand over
    cmd,          \* _cmd
    taken,        \* the command that the thread has taken
    worker,       \* the thread
    process,      \* the state of _process
    children,     \* its child processes: "none", "live", "noted", "orphans"
    calls,        \* number of calls handed over
    started       \* the last call that was started

vars == <<caller, cmd, taken, worker, process, children, calls, started>>

TypeOK ==
    /\ caller \in [Callers -> {"idle", "killed"}]
    /\ {cmd, taken, calls, started} \subseteq 0..MaxCalls
    /\ worker \in {"wait", "start", "process", "children"}
    /\ process \in {"none", "runs", "ended"}
    /\ children \in {"none", "live", "noted", "orphans"}

Init ==
    /\ caller = [c \in Callers |-> "idle"]
    /\ cmd = 0 /\ taken = 0 /\ worker = "wait"
    /\ process = "none" /\ children = "none"
    /\ calls = 0 /\ started = 0

\* A plausible bug: the children are not looked up before the kill.
Noted_Never(running) == IF running /\ children = "live" THEN "orphans" ELSE children

\* _process_children, when the process is suspended and killed.
Noted(running) == IF running /\ children = "live" THEN "noted" ELSE children

\* call: _kill_process, under the lock, ...
kill_process(c) ==
    /\ caller[c] = "idle"
    /\ calls + Cardinality({d \in Callers : caller[d] # "idle"}) < MaxCalls
    /\ caller' = [caller EXCEPT ![c] = "killed"]
    /\ process' = IF process = "runs" THEN "ended" ELSE process
    /\ children' = Noted(process = "runs")
    /\ UNCHANGED <<cmd, taken, worker, calls, started>>

\* ... then the command is handed over.
call(c) ==
    /\ caller[c] = "killed"
    /\ caller' = [caller EXCEPT ![c] = "idle"]
    /\ calls' = calls + 1
    /\ cmd' = calls'
    /\ UNCHANGED <<taken, worker, process, children, started>>

\* A plausible bug: the command is cleared when it has been executed.
run_ClearsLate ==
    /\ worker = "wait" /\ cmd # 0
    /\ taken' = cmd
    /\ worker' = "start"
    /\ UNCHANGED <<caller, cmd, process, children, calls, started>>

\* run: wait for a command and take it.
run ==
    /\ worker = "wait" /\ cmd # 0
    /\ taken' = cmd /\ cmd' = 0
    /\ worker' = "start"
    /\ UNCHANGED <<caller, process, children, calls, started>>

\* _start_process, under the lock; it may fail.
start_process ==
    /\ worker = "start"
    /\ started' = taken
    /\ \/ /\ process' = "runs"
          /\ children' \in {"none", "live"}
          /\ worker' = "process"
       \/ worker' = "wait" /\ process' = "none" /\ children' = "none"
    /\ UNCHANGED <<caller, cmd, taken, calls>>

\* The script ends by itself; what it has left in the background lives on.
Exit ==
    /\ process = "runs"
    /\ process' = "ended" /\ children' = "none"
    /\ UNCHANGED <<caller, cmd, taken, worker, calls, started>>

\* _process.wait
wait_process ==
    /\ worker = "process" /\ process = "ended"
    /\ worker' = "children"
    /\ UNCHANGED <<caller, cmd, taken, process, children, calls, started>>

kill_children ==
    /\ worker = "children"
    /\ children' = IF children = "noted" THEN "none" ELSE children
    /\ worker' = "wait"
    /\ UNCHANGED <<caller, cmd, taken, process, calls, started>>

Next ==
    \/ \E c \in Callers : kill_process(c) \/ call(c)
    \/ run \/ start_process \/ Exit \/ wait_process \/ kill_children

-----------------------------------------------------------------------------
(* Properties *)

(***************************************************************************)
(* No notification is forgotten: when the thread is idle, it has started   *)
(* the callback that was called last, and every call is started only once. *)
(***************************************************************************)
LastCallIsMade ==
    /\ worker = "wait" /\ cmd = 0 => started = calls
    /\ worker = "start" => started < taken

(***************************************************************************)
(* A killed callback never goes on next to its successor: its child        *)
(* processes are dead before the next one starts.                          *)
(***************************************************************************)
KilledIsGone == worker \in {"wait", "start"} => children \notin {"noted", "orphans"}

=============================================================================
