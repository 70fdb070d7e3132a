---------------------------- MODULE MCLifecycle ----------------------------
(***************************************************************************)
(* How things begin and end, in one run: a cluster (the base of this       *)
(* module), and, without any state in common, the server of a node, the    *)
(* Patroni process, and scheduled restarts.  part names the one that this  *)
(* behaviour is about.                                                     *)
(***************************************************************************)
EXTENDS Bootstrap

CONSTANTS
    MaxSignals, DaemonFaults,                                      \* Daemon
    ServerFaults,                                                  \* ServerStartup
    Clients, LoopWait, Times, MaxTime, MaxRequests, MaxEvents      \* ScheduledRestart

ASSUME LifecycleAssumption ==
    /\ MaxSignals \in Nat /\ DaemonFaults \in Nat /\ ServerFaults \in Nat
    /\ LoopWait \in Nat /\ MaxTime \in Nat /\ Times \subseteq 0..MaxTime
    /\ MaxRequests \in Nat /\ MaxEvents \in Nat

VARIABLES
    part,
    main, received, worker, server, watchdog, key, lease, pause, joinAborted, aborted,
    raced, unsignalled, signals, daemonFaults,
    proc, signal, state, late, op, step, recovering, serverKey, possible, limited,
    refused, serverFaults,
    now, scheduled, client, loop, request, blind, busy, starts, startedAt, pending,
    paused, executed, deleted, requests, events

Process == INSTANCE Daemon WITH
    paused <- pause, refused <- unsignalled, faults <- daemonFaults,
    MaxFaults <- DaemonFaults
Startup == INSTANCE ServerStartup WITH
    key <- serverKey, faults <- serverFaults, MaxFaults <- ServerFaults
Schedule == INSTANCE ScheduledRestart WITH main <- loop, data <- request

daemonVars == <<main, received, worker, server, watchdog, key, lease, pause,
                joinAborted, aborted, raced, unsignalled, signals, daemonFaults>>
serverVars == <<proc, signal, state, late, op, step, recovering, serverKey, possible,
                limited, refused, serverFaults>>
scheduleVars == <<now, scheduled, client, loop, request, blind, busy, starts,
                  startedAt, pending, paused, executed, deleted, requests, events>>
allVars == <<part, vars, daemonVars, serverVars, scheduleVars>>

MCInit ==
    /\ part \in {"bootstrap", "daemon", "server", "schedule"}
    /\ Init /\ Process!Init /\ Startup!Init /\ Schedule!Init
    /\ part # "bootstrap" => ~standby
    /\ part # "daemon" => key /\ ~pause
    /\ part # "server" => possible /\ limited

InBootstrap == part = "bootstrap" /\ UNCHANGED <<part, daemonVars, serverVars, scheduleVars>>
InDaemon == part = "daemon" /\ UNCHANGED <<part, vars, serverVars, scheduleVars>>
InServer == part = "server" /\ UNCHANGED <<part, vars, daemonVars, scheduleVars>>
InSchedule == part = "schedule" /\ UNCHANGED <<part, vars, daemonVars, serverVars>>

MCNext ==
    \/ InBootstrap /\ Next
    \/ InDaemon /\ Process!Next
    \/ InServer /\ Startup!Next
    \/ InSchedule /\ Schedule!Next

(***************************************************************************)
(* Fairness.  HA loops and the functions in the background go on, timeouts *)
(* pass and leases end.  A server need not come up, nor follow any signal  *)
(* but SIGKILL, and nobody need restart a node that is down.               *)
(***************************************************************************)
MCSpec ==
    /\ MCInit /\ [][MCNext]_allVars
    /\ WF_allVars(InBootstrap /\ Expire)
    /\ \A n \in Nodes :
         WF_allVars(InBootstrap /\ Loop(n)) /\ WF_allVars(InBootstrap /\ Worker(n))
    /\ WF_allVars(InDaemon /\ Process!Main)
    /\ WF_allVars(InServer /\ Startup!Main)
    /\ WF_allVars(InServer /\ Startup!Background)
    /\ WF_allVars(InServer /\ Startup!Timeout)
    /\ WF_allVars(InSchedule /\ Schedule!Main)
    /\ WF_allVars(InSchedule /\ Schedule!Tick)
    /\ WF_allVars(InSchedule /\ busy /\ Schedule!Start)

-----------------------------------------------------------------------------

\* Every part keeps its variables within their types.
PartTypes == TypeOK /\ Process!TypeOK /\ Startup!TypeOK /\ Schedule!TypeOK

(***************************************************************************)
(* Nodes that start empty never end up with two systems, an empty          *)
(* initialize key has a bootstrap behind it that is going to fill or       *)
(* remove it, and no cluster gets a leader before post_bootstrap has       *)
(* succeeded; with the exceptions for crashes that Bootstrap states.       *)
(***************************************************************************)
BootstrapIsSafe == OneSystem /\ FailureFreesKey /\ LeaderIsPrepared

(***************************************************************************)
(* The server goes first.  One that Postgresql takes for stopped does not  *)
(* run; demote and Ha.shutdown remove the leader key only when the server  *)
(* is down, or could not be signalled; a shutdown leaves no server behind, *)
(* unless on purpose, against a refused signal, or because the background  *)
(* has started it; and a watchdog that it leaves on has a server to guard. *)
(***************************************************************************)
ServerGoesFirst ==
    /\ []Startup!StoppedIsGone
    /\ Startup!KeyGoesAfterServer
    /\ Process!KeyGoesLast
    /\ []Process!ServerGoesToo
    /\ []Process!WatchdogGuardsServer

(***************************************************************************)
(* A scheduled restart comes at its time and does not repeat an earlier    *)
(* one; one that was taken back is never carried out.                      *)
(***************************************************************************)
ScheduleIsKept ==
    /\ []Schedule!DeletedNeverRuns
    /\ Schedule!RestartIsApt

(***************************************************************************)
(* What has begun comes to an end: a cluster forms, with a leader and      *)
(* every node that is up; a server that is up is not taken for starting or *)
(* failed for ever, and a leader whose server never comes up does not keep *)
(* the key; every scheduled restart is settled, if pause mode ends; the    *)
(* process ends after the first signal, unless the handler waits for       *)
(* itself.                                                                 *)
(***************************************************************************)
BeginningsEnd ==
    /\ part = "bootstrap" => ClusterForms
    /\ part = "server" => Startup!StateCatchesUp /\ Startup!SlowLeaderGivesUp
    /\ part = "schedule" => Schedule!RequestsEnd
    /\ part = "daemon" => Process!ShutdownEnds

=============================================================================
