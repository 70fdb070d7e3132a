------------------------------- MODULE Daemon -------------------------------
(***************************************************************************)
(* The life of the Patroni process: the loop of the main thread, signals,  *)
(* which Python delivers between any two steps of that thread, and the     *)
(* shutdown, while the thread of AsyncExecutor may be restarting the       *)
(* server.  SIGTERM raises SystemExit, SIGINT raises KeyboardInterrupt.    *)
(***************************************************************************)
EXTENDS Integers

CONSTANTS
    MaxSignals,    \* bound on signals
    MaxFaults      \* bound on restarts, refused signals and DCS errors

VARIABLES
    main,        \* the main thread
    received,    \* _received_sigterm
    worker,      \* a restart in the background: about to stop, or to start
    server,      \* the postmaster runs
    watchdog,    \* it is active
    key, lease,  \* the node has the leader key, and believes that it has
    paused,
    joinAborted, \* _join_aborted
    aborted,     \* a signal has ended the shutdown before its time
    raced,       \* the shutdown began while the background was busy
    refused,     \* the server could not be signalled
    signals, faults

vars == <<main, received, worker, server, watchdog, key, lease, paused, joinAborted,
          aborted, raced, refused, signals, faults>>

\* Steps at which the main thread has _sigterm_lock, which is not reentrant.
Locked == {"check", "flag"}
Shutdown == {"api", "stop", "wait", "look", "delete", "logger"}

TypeOK ==
    /\ main \in Locked \cup Shutdown \cup {"cycle", "finally", "ended", "stuck"}
    /\ worker \in {"idle", "stop", "start"}
    /\ {received, server, watchdog, key, lease, paused, joinAborted, aborted, raced,
        refused} \subseteq BOOLEAN
    /\ signals \in 0..MaxSignals /\ faults \in 0..MaxFaults

\* A leader or a replica, somewhere in its life.
Init ==
    /\ main = "check" /\ received = FALSE /\ worker = "idle"
    /\ server = TRUE /\ key \in BOOLEAN /\ lease = key /\ watchdog = key
    /\ paused \in BOOLEAN
    /\ joinAborted = FALSE /\ aborted = FALSE /\ raced = FALSE /\ refused = FALSE
    /\ signals = 0 /\ faults = 0

Fault == faults < MaxFaults /\ faults' = faults + 1

procVars == <<worker, server, watchdog, key, lease, paused, joinAborted>>

-----------------------------------------------------------------------------
(* Signals *)

Signal ==
    /\ signals < MaxSignals /\ signals' = signals + 1
    /\ main \notin {"ended", "stuck"}

\* A plausible bug: the signal only sets a flag that nobody reads.
sigterm_handler_Flag ==
    /\ Signal
    /\ UNCHANGED <<main, received, procVars, aborted, raced, refused, faults>>

\* The handler runs in the main thread: if that has the lock, it waits for itself.
sigterm_handler ==
    /\ Signal
    /\ received' = (received \/ main \notin Locked)
    /\ main' = IF main \in Locked THEN "stuck"
               ELSE IF received THEN main
               ELSE IF main = "cycle" THEN "finally" ELSE "ended"
    /\ aborted' = (aborted \/ main' = "ended")
    /\ UNCHANGED <<procVars, raced, refused, faults>>

\* SIGINT ends what it finds, the shutdown as well.
KeyboardInterrupt ==
    /\ Signal
    /\ main' = IF main \in {"check", "cycle"} THEN "finally" ELSE "ended"
    /\ aborted' = (aborted \/ main' = "ended")
    /\ UNCHANGED <<received, procVars, raced, refused, faults>>

-----------------------------------------------------------------------------
(* The main thread *)

\* received_sigterm, under the lock.
received_sigterm ==
    /\ main = "check"
    /\ main' = IF received THEN "finally" ELSE "cycle"
    /\ UNCHANGED <<received, procVars, aborted, raced, refused, signals, faults>>

(***************************************************************************)
(* _run_cycle, and schedule_next_run, which waits for something to happen. *)
(* The loop exits when the data is of another cluster; a replica exits and *)
(* is left alone when the cluster has no initialize key.                   *)
(***************************************************************************)
run_cycle ==
    /\ main = "cycle"
    /\ \/ main' = "check" /\ UNCHANGED <<worker, joinAborted, faults>>
       \/ /\ worker = "idle" /\ server /\ Fault
          /\ worker' = "stop" /\ main' = "check"
          /\ UNCHANGED joinAborted
       \/ /\ worker = "idle" /\ ~paused /\ Fault
          /\ main' = "finally"
          /\ joinAborted' \in {FALSE, ~key}
          /\ UNCHANGED worker
    /\ UNCHANGED <<received, server, watchdog, key, lease, paused, aborted, raced,
                   refused, signals>>

\* shutdown: the lock, ...
shutdown ==
    /\ main = "finally"
    /\ main' = "flag"
    /\ UNCHANGED <<received, procVars, aborted, raced, refused, signals, faults>>

shutdown_Flag ==
    /\ main = "flag"
    /\ received' = TRUE /\ main' = "api"
    /\ UNCHANGED <<procVars, aborted, raced, refused, signals, faults>>

\* A plausible bug: a node that is not the leader leaves its server alone.
shutdown_Api_LeaderOnly ==
    /\ main = "api"
    /\ main' = IF paused \/ joinAborted \/ ~lease THEN "logger" ELSE "stop"
    /\ watchdog' = (watchdog /\ ~paused)
    /\ raced' = (worker # "idle")
    /\ UNCHANGED <<received, worker, server, key, lease, paused, joinAborted, aborted,
                   refused, signals, faults>>

\* ... the REST API, whether or not it can be shut down, and Ha.shutdown.
shutdown_Api ==
    /\ main = "api"
    /\ main' = IF paused \/ joinAborted THEN "logger" ELSE "stop"
    /\ watchdog' = (watchdog /\ ~paused)
    /\ raced' = (worker # "idle")
    /\ UNCHANGED <<received, worker, server, key, lease, paused, joinAborted, aborted,
                   refused, signals, faults>>

\* A plausible bug: the safepoint is not reported when there is nothing to stop.
ha_shutdown_NoSafepoint ==
    /\ main = "stop"
    /\ \/ ~server /\ main' = "look" /\ UNCHANGED <<watchdog, refused, faults>>
       \/ server /\ main' = "wait" /\ watchdog' = FALSE /\ UNCHANGED <<refused, faults>>
    /\ UNCHANGED <<received, worker, server, key, lease, paused, joinAborted, aborted, raced,
                   signals>>

\* Stop the server; the watchdog is disabled at the safepoint.
ha_shutdown ==
    /\ main = "stop"
    /\ \/ ~server /\ main' = "look" /\ watchdog' = FALSE /\ UNCHANGED <<refused, faults>>
       \/ server /\ main' = "wait" /\ watchdog' = FALSE /\ UNCHANGED <<refused, faults>>
       \/ /\ server /\ Fault
          /\ refused' = TRUE /\ main' = "look" /\ UNCHANGED watchdog
    /\ UNCHANGED <<received, worker, server, key, lease, paused, joinAborted, aborted, raced,
                   signals>>

\* The postmaster exits, or is terminated.
ha_shutdown_Wait ==
    /\ main = "wait"
    /\ server' \in {FALSE, server /\ raced}     \* by then perhaps another one
    /\ main' = "look"
    /\ UNCHANGED <<received, worker, watchdog, key, lease, paused, joinAborted, aborted,
                   raced, refused, signals, faults>>

\* A plausible bug: the key is removed although the server runs.
ha_shutdown_Look_Always ==
    /\ main = "look"
    /\ main' = IF lease THEN "delete" ELSE "logger"
    /\ UNCHANGED <<received, procVars, aborted, raced, refused, signals, faults>>

\* Only then the leader key; latest_checkpoint_location takes its time.
ha_shutdown_Look ==
    /\ main = "look"
    /\ main' = IF ~server /\ lease THEN "delete" ELSE "logger"
    /\ UNCHANGED <<received, procVars, aborted, raced, refused, signals, faults>>

delete_leader ==
    /\ main = "delete"
    /\ \/ key' = FALSE /\ UNCHANGED faults
       \/ Fault /\ UNCHANGED key
    /\ main' = "logger"
    /\ UNCHANGED <<received, worker, server, watchdog, lease, paused, joinAborted, aborted,
                   raced, refused, signals>>

\* The queue of records is drained.
shutdown_Logger ==
    /\ main = "logger"
    /\ main' = "ended"
    /\ UNCHANGED <<received, procVars, aborted, raced, refused, signals, faults>>

-----------------------------------------------------------------------------
(* The background, which no shutdown cancels, and time *)

restart ==
    /\ \/ worker = "stop" /\ server' = FALSE /\ worker' = "start"
       \/ worker = "start" /\ server' = TRUE /\ worker' = "idle"
    /\ UNCHANGED <<main, received, watchdog, key, lease, paused, joinAborted, aborted, raced,
                   refused, signals, faults>>

PostmasterDies ==
    /\ main \in {"check", "cycle"} /\ server /\ Fault
    /\ server' = FALSE
    /\ UNCHANGED <<main, received, worker, watchdog, key, lease, paused, joinAborted,
                   aborted, raced, refused, signals>>

\* Nobody renews the key any more; the local lease ends as well.
Expire ==
    /\ main \in Shutdown \cup {"ended", "stuck"} /\ (key \/ lease)
    /\ key' = FALSE /\ lease' \in {lease, FALSE}
    /\ UNCHANGED <<main, received, worker, server, watchdog, paused, joinAborted, aborted,
                   raced, refused, signals, faults>>

Main ==
    \/ received_sigterm \/ run_cycle
    \/ shutdown \/ shutdown_Flag \/ shutdown_Api
    \/ ha_shutdown \/ ha_shutdown_Wait \/ ha_shutdown_Look \/ delete_leader
    \/ shutdown_Logger

Next == sigterm_handler \/ KeyboardInterrupt \/ Main \/ restart \/ PostmasterDies \/ Expire

-----------------------------------------------------------------------------
(* Properties *)

(***************************************************************************)
(* A shutdown that ends by itself leaves no server behind: one that runs   *)
(* on was left on purpose, could not be signalled, or was started by the   *)
(* background, which the shutdown neither cancels nor waits for.           *)
(***************************************************************************)
ServerGoesToo ==
    main = "ended" /\ server => paused \/ joinAborted \/ refused \/ aborted \/ raced

(***************************************************************************)
(* The watchdog does not outlive what it guards: if it is left on, to      *)
(* reset the host, then because the server still runs.                     *)
(***************************************************************************)
WatchdogGuardsServer ==
    main = "ended" /\ watchdog => (server /\ refused) \/ aborted \/ raced

(***************************************************************************)
(* The shutdown removes the leader key only when the server is down, if    *)
(* the background has not started it again.                                *)
(***************************************************************************)
KeyGoesLast == [][main = "delete" /\ key /\ ~key' => ~server \/ raced]_vars

(***************************************************************************)
(* However many signals come, the process ends after the first, unless it  *)
(* came while the main thread had the lock that the handler takes.         *)
(***************************************************************************)
ShutdownEnds == [](signals > 0 => <>(main \in {"ended", "stuck"}))

=============================================================================
