--------------------------- MODULE ServerStartup ---------------------------
(***************************************************************************)
(* Starting and stopping the server: what Postgresql believes (its state)  *)
(* against what the postmaster does, on the leader.  start, restart and    *)
(* the start after a demotion run in the background; the HA loop polls a   *)
(* server that is still starting, and gives the key up when that takes too *)
(* long.  What the loop does with a lost key meanwhile is the subject of   *)
(* AsyncExecutor and HaFailover.                                           *)
(***************************************************************************)
EXTENDS Integers

CONSTANT MaxFaults     \* bound on crashes, refused signals and restarts

VARIABLES
    proc,        \* the postmaster: does not answer, rejects, runs
    signal,      \* the signal that it has been sent
    state,       \* Postgresql._state
    late,        \* time_in_state exceeds the timeout
    op, step,    \* what is being done to the server, and how far it is
    recovering,  \* Ha.recovering
    key,         \* the node has the leader key
    possible,    \* is_failover_possible
    limited,     \* master_stop_timeout is set
    refused,     \* a signal was refused
    faults

vars == <<proc, signal, state, late, op, step, recovering, key, possible, limited,
          refused, faults>>

TypeOK ==
    /\ proc \in {"none", "spawned", "rejects", "running"}
    /\ signal \in {"none", "fast", "immediate"}
    /\ state \in {"running", "starting", "stopping", "stopped", "restarting", "crashed",
                  "stop failed", "start failed", "restart failed"}
    /\ op \in {"none", "start", "restart", "graceful", "immediate"}
    /\ step \in {"idle", "stop", "wait", "terminate", "killed", "stopped",
                 "refused", "start", "port", "startup"}
    /\ {late, recovering, key, possible, limited, refused} \subseteq BOOLEAN
    /\ faults \in 0..MaxFaults

Init ==
    /\ proc = "running" /\ signal = "none" /\ state = "running" /\ late = FALSE
    /\ op = "none" /\ step = "idle" /\ recovering = FALSE
    /\ key = TRUE /\ possible \in BOOLEAN /\ limited \in BOOLEAN
    /\ refused = FALSE /\ faults = 0

Fault == faults < MaxFaults /\ faults' = faults + 1

is_running == proc # "none"

\* set_state notes the time.
set_state(s) == state' = s /\ late' = FALSE

Do(o, s) == op' = o /\ step' = s

-----------------------------------------------------------------------------
(* The background: PostmasterProcess and Postgresql.start *)

\* A server that has ended on its own is started again.
start ==
    /\ step = "start"
    /\ set_state("starting")
    /\ IF is_running THEN Do("none", "idle") /\ UNCHANGED <<proc, faults>>
       ELSE \/ proc' = "spawned" /\ step' = "port" /\ UNCHANGED <<op, faults>>
            \/ Do("none", "idle") /\ Fault /\ UNCHANGED proc
    /\ UNCHANGED <<signal, recovering, key, possible, limited, refused>>

\* A plausible bug: a state that nobody knows.
Failed_Unknown == "failed"

\* The restart adds its own state when it fails.
Failed == IF op = "restart" THEN "restart failed" ELSE "start failed"

wait_for_port_open ==
    /\ step = "port"
    /\ \/ /\ ~is_running
          /\ set_state(Failed)
          /\ Do("none", "idle")
       \/ /\ proc \in {"rejects", "running"}
          /\ step' = "startup" /\ UNCHANGED <<op, state, late>>
       \/ /\ late /\ Do("none", "idle") /\ UNCHANGED <<state, late>>
    /\ UNCHANGED <<proc, signal, recovering, key, possible, limited, refused, faults>>

\* A plausible bug: only a failure is noticed.
Changed_Failed == proc = "none"

\* pg_isready has an answer, or the postmaster is gone.
Changed == proc \in {"running", "none"}

check_startup_state_changed ==
    set_state(IF proc = "running" THEN "running" ELSE Failed)

wait_for_startup ==
    /\ step = "startup"
    /\ Changed \/ late
    /\ IF Changed THEN check_startup_state_changed ELSE UNCHANGED <<state, late>>
    /\ Do("none", "idle")
    /\ UNCHANGED <<proc, signal, recovering, key, possible, limited, refused, faults>>

-----------------------------------------------------------------------------
(* Postgresql.stop *)

Mode == IF op = "immediate" THEN "immediate" ELSE "fast"

\* A plausible bug: the key is given up before the server is down.
signal_stop_Releases ==
    /\ step = "stop"
    /\ \/ ~is_running /\ step' = "stopped" /\ UNCHANGED <<signal, state, late, key>>
       \/ /\ is_running
          /\ signal' = Mode /\ step' = "wait"
          /\ IF op = "restart" THEN UNCHANGED <<state, late>> ELSE set_state("stopping")
          /\ key' = (key /\ op = "restart")
    /\ UNCHANGED <<proc, op, recovering, possible, limited, refused, faults>>

\* _do_stop: nothing to stop, the signal, or a signal that is not permitted.
signal_stop ==
    /\ step = "stop"
    /\ \/ /\ ~is_running /\ step' = "stopped"
          /\ UNCHANGED <<signal, state, late, refused, faults>>
       \/ /\ is_running
          /\ signal' = Mode /\ step' = "wait"
          /\ IF op = "restart" THEN UNCHANGED <<state, late>> ELSE set_state("stopping")
          /\ UNCHANGED <<refused, faults>>
       \/ /\ is_running /\ Fault
          /\ refused' = TRUE /\ step' = "refused"
          /\ UNCHANGED <<signal, state, late>>
    /\ UNCHANGED <<proc, op, recovering, key, possible, limited>>

\* A plausible bug: after the timeout the server is taken for stopped.
wait_NoTerminate ==
    /\ step = "wait"
    /\ ~is_running \/ (late /\ limited /\ op # "restart")
    /\ step' = "stopped"
    /\ UNCHANGED <<proc, signal, state, late, op, recovering, key, possible, limited,
                   refused, faults>>

\* postmaster.wait; only demotions may have a timeout.
wait ==
    /\ step = "wait"
    /\ \/ ~is_running /\ step' = "stopped"
       \/ is_running /\ late /\ limited /\ op # "restart" /\ step' = "terminate"
    /\ UNCHANGED <<proc, signal, state, late, op, recovering, key, possible, limited,
                   refused, faults>>

(***************************************************************************)
(* terminate_postmaster: SIGQUIT unless that was the signal, and SIGKILL   *)
(* after another timeout; when it cannot be sent, the caller waits.        *)
(***************************************************************************)
terminate_postmaster ==
    /\ step = "terminate"
    /\ \/ /\ ~is_running /\ step' = "stopped"
          /\ UNCHANGED <<proc, signal, refused, faults>>
       \/ /\ is_running /\ signal = "fast"
          /\ signal' = "immediate"
          /\ UNCHANGED <<proc, step, refused, faults>>
       \/ /\ is_running /\ signal = "immediate"
          /\ proc' = "none" /\ signal' = "none" /\ step' = "stopped"
          /\ UNCHANGED <<refused, faults>>
       \/ /\ is_running /\ signal = "immediate" /\ Fault
          /\ refused' = TRUE /\ step' = "killed"
          /\ UNCHANGED <<proc, signal>>
    /\ UNCHANGED <<state, late, op, recovering, key, possible, limited>>

\* signal_kill has failed: wait for as long as it takes.
killed ==
    /\ step = "killed" /\ ~is_running
    /\ step' = "stopped"
    /\ UNCHANGED <<proc, signal, state, late, op, recovering, key, possible, limited,
                   refused, faults>>

(***************************************************************************)
(* stop returns.  A restart goes on if it was successful; a demotion gives *)
(* the key up in any case, and follow starts or restarts the server.       *)
(***************************************************************************)
stopped ==
    /\ step \in {"stopped", "refused"}
    /\ LET success == step = "stopped" IN
       IF op = "restart"
       THEN /\ IF success THEN UNCHANGED <<state, late>> /\ Do("restart", "start")
               ELSE set_state("restart failed") /\ Do("none", "idle")
            /\ UNCHANGED key
       ELSE /\ set_state(IF success THEN "stopped" ELSE "stop failed")
            /\ key' = FALSE
            /\ IF is_running THEN Do("restart", "stop") ELSE Do("start", "start")
    /\ UNCHANGED <<proc, signal, recovering, possible, limited, refused, faults>>

-----------------------------------------------------------------------------
(* The HA loop *)

\* The loop has nothing to wait for.
Free == op = "none"

\* A plausible bug: a server that answers is not taken for slow.
TooLong_NoAnswer == late /\ possible /\ proc = "spawned"

\* master_start_timeout has passed.
TooLong == late /\ possible

\* A server that is starting: it has changed, it takes too long, or it is polled again.
handle_starting_instance ==
    /\ Free /\ state = "starting"
    /\ \/ Changed /\ check_startup_state_changed /\ UNCHANGED <<op, step>>
       \/ ~Changed /\ key /\ TooLong /\ Do("immediate", "stop") /\ UNCHANGED <<state, late>>
    /\ UNCHANGED <<proc, signal, recovering, key, possible, limited, refused, faults>>

\* After a restart or recover: a server that is not there costs the key.
post_recover ==
    /\ Free /\ recovering
    /\ state = "starting" => ~key /\ ~Changed      \* a replica goes on
    /\ recovering' = FALSE
    /\ key' = (key /\ is_running)
    /\ UNCHANGED <<proc, signal, state, late, op, step, possible, limited, refused,
                   faults>>

\* _run_cycle finds that the server is gone.
recover ==
    /\ Free /\ state # "starting" /\ ~recovering /\ ~is_running
    /\ IF state = "running" THEN set_state("crashed") ELSE UNCHANGED <<state, late>>
    /\ recovering' = TRUE
    /\ Do("start", "start")
    /\ UNCHANGED <<proc, signal, key, possible, limited, refused, faults>>

\* A restart by the API, or a demotion for a switchover.
Request(o) ==
    /\ Free /\ state = "running" /\ Fault
    /\ o = "graceful" => key
    /\ Do(o, "stop")
    /\ IF o = "restart" THEN set_state("restarting") ELSE UNCHANGED <<state, late>>
    /\ recovering' = (recovering \/ o = "restart")
    /\ UNCHANGED <<proc, signal, key, possible, limited, refused>>

AcquireKey ==
    /\ Free /\ ~key /\ state = "running" /\ proc = "running" /\ Fault
    /\ key' = TRUE
    /\ UNCHANGED <<proc, signal, state, late, op, step, recovering, possible, limited,
                   refused>>

-----------------------------------------------------------------------------
(* The postmaster and time *)

\* Starts up at its own pace, or never.
Startup ==
    /\ \/ proc = "spawned" /\ proc' \in {"rejects", "running"}
       \/ proc = "rejects" /\ proc' = "running"
    /\ UNCHANGED <<signal, state, late, op, step, recovering, key, possible, limited,
                   refused, faults>>

\* Follows a signal, or fails.
Exit ==
    /\ is_running
    /\ IF signal = "none" THEN Fault ELSE UNCHANGED faults
    /\ proc' = "none" /\ signal' = "none"
    /\ UNCHANGED <<state, late, op, step, recovering, key, possible, limited, refused>>

Timeout ==
    /\ ~late /\ state \in {"starting", "stopping"}
    /\ late' = TRUE
    /\ UNCHANGED <<proc, signal, state, op, step, recovering, key, possible, limited,
                   refused, faults>>

Background ==
    \/ start \/ wait_for_port_open \/ wait_for_startup
    \/ signal_stop \/ wait \/ terminate_postmaster \/ killed \/ stopped

Main == handle_starting_instance \/ post_recover \/ recover

Next ==
    \/ Background \/ Main
    \/ \E o \in {"restart", "graceful"} : Request(o)
    \/ AcquireKey \/ Startup \/ Exit \/ Timeout

-----------------------------------------------------------------------------
(* Properties *)

(***************************************************************************)
(* A server that Patroni takes for stopped does not run, however many      *)
(* signals it has ignored: it is never started next to itself.             *)
(***************************************************************************)
StoppedIsGone == state = "stopped" \/ step = "start" => ~is_running

(***************************************************************************)
(* The node gives its key up only when its server is down, unless a signal *)
(* was refused: demote ignores what stop returns.                          *)
(***************************************************************************)
KeyGoesAfterServer == [][key /\ ~key' => ~is_running \/ refused]_vars

(***************************************************************************)
(* The state catches up with the server: one that is up is not taken for   *)
(* starting or failed for ever; unless a signal was refused to a restart.  *)
(***************************************************************************)
StateCatchesUp ==
    <>[](proc = "running" /\ op = "none" => state = "running" \/ refused)

(***************************************************************************)
(* A leader whose server never comes up does not keep the key for ever, if *)
(* another node could take it and the time for a stop is limited.          *)
(***************************************************************************)
SlowLeaderGivesUp ==
    []<>(\/ ~key \/ ~possible \/ ~limited \/ refused
         \/ proc \in {"running", "none"}
         \/ op = "restart" /\ step = "wait")

=============================================================================
