-------------------------- MODULE ScheduledRestart --------------------------
(***************************************************************************)
(* Restarts that are scheduled for a later time.  Requests come in at the  *)
(* REST API, from patronictl (which with --force removes an older one      *)
(* first); the HA loop looks at the request in every cycle.  Threads of    *)
(* the API and the HA loop exclude each other by the lock of AsyncExecutor,*)
(* which the HA loop also keeps while it sleeps until the restart is due.  *)
(***************************************************************************)
EXTENDS Integers

CONSTANTS
    Clients,
    LoopWait,
    Times,         \* the times that are asked for
    MaxTime,       \* bound on the clock
    MaxRequests,   \* bound on requests
    MaxEvents      \* bound on other events

\* start is postmaster_start_time, 0 if it could not be read.
NoRequest == [id |-> 0, at |-> 0, pending |-> FALSE, start |-> 0]

VARIABLES
    now,
    scheduled,    \* patroni.scheduled_restart
    client,       \* the steps and requests of the clients
    main, data,   \* the HA loop in evaluate_scheduled_restart, its request
    blind,        \* it could not read the start time of the server
    busy,         \* the AsyncExecutor runs something
    starts,       \* number of starts of the server
    startedAt,    \* the time of the last one
    pending,      \* pending_restart of the server
    paused,
    executed, deleted,    \* requests that were carried out, or taken back
    requests, events

vars == <<now, scheduled, client, main, data, blind, busy, starts, startedAt, pending,
          paused, executed, deleted, requests, events>>

Ids == 0..MaxRequests
Requests == [id : Ids, at : 0..MaxTime, pending : BOOLEAN,
             start : 0..(1 + MaxRequests + MaxEvents)]

TypeOK ==
    /\ now \in 0..MaxTime /\ startedAt \in 0..MaxTime
    /\ scheduled \in Requests /\ data \in Requests
    /\ client \in [Clients -> [step : {"idle", "delete", "post", "schedule", "match",
                                       "restart"}, request : Requests]]
    /\ main \in {"idle", "evaluate", "sleep"}
    /\ {busy, blind, pending, paused} \subseteq BOOLEAN
    /\ starts \in 1..(1 + MaxRequests + MaxEvents)
    /\ executed \subseteq Ids /\ deleted \subseteq Ids
    /\ requests \in Ids /\ events \in 0..MaxEvents

Init ==
    /\ now = 0 /\ scheduled = NoRequest
    /\ client = [c \in Clients |-> [step |-> "idle", request |-> NoRequest]]
    /\ main = "idle" /\ data = NoRequest /\ busy = FALSE /\ blind = FALSE
    /\ starts = 1 /\ startedAt = 0 /\ pending = FALSE /\ paused = FALSE
    /\ executed = {} /\ deleted = {} /\ requests = 0 /\ events = 0

Event == events < MaxEvents /\ events' = events + 1

At(c, step) == client[c].step = step
Goto(c, step) == client' = [client EXCEPT ![c].step = step]
Done(c) == client' = [client EXCEPT ![c] = [step |-> "idle", request |-> NoRequest]]

\* A plausible bug: the API does not wait for the HA loop.
LockFree_Always == TRUE

\* The lock of AsyncExecutor, as far as the HA loop has it.
LockFree == main = "idle"

-----------------------------------------------------------------------------
(* patronictl and the REST API *)

\* patronictl restart: with --force a scheduled one removes an older one first.
ctl_restart(c, at, filter, force) ==
    /\ At(c, "idle") /\ requests < MaxRequests
    /\ requests' = requests + 1
    /\ client' = [client EXCEPT ![c] =
                    [step |-> IF force /\ at # 0 /\ scheduled # NoRequest
                              THEN "delete" ELSE "post",
                     request |-> [id |-> requests', at |-> at, pending |-> filter,
                                  start |-> 0]]]
    /\ UNCHANGED <<now, scheduled, main, data, blind, busy, starts, startedAt, pending, paused,
                   executed, deleted, events>>

do_DELETE_restart(c) ==
    /\ At(c, "delete") /\ LockFree
    /\ deleted' = deleted \cup {scheduled.id}
    /\ scheduled' = NoRequest
    /\ Goto(c, "post")
    /\ UNCHANGED <<now, main, data, blind, busy, starts, startedAt, pending, paused, executed,
                   requests, events>>

\* parse_schedule, and the filters; at = 0 stands for a restart at once.
do_POST_restart(c) ==
    /\ At(c, "post")
    /\ LET at == client[c].request.at IN
       IF at = 0 THEN Goto(c, "match")
       ELSE IF paused \/ at < now THEN Done(c) ELSE Goto(c, "schedule")
    /\ UNCHANGED <<now, scheduled, main, data, blind, busy, starts, startedAt, pending, paused,
                   executed, deleted, requests, events>>

\* The first request wins; it remembers which server it is about.
schedule_future_restart(c) ==
    /\ At(c, "schedule") /\ LockFree
    /\ \/ /\ scheduled' = IF scheduled = NoRequest
                          THEN [client[c].request EXCEPT !.start = starts] ELSE scheduled
          /\ UNCHANGED events
       \/ /\ scheduled = NoRequest /\ Event
          /\ scheduled' = client[c].request
    /\ Done(c)
    /\ UNCHANGED <<now, main, data, blind, busy, starts, startedAt, pending, paused, executed,
                   deleted, requests>>

restart_matches(r) == r.pending => pending

\* Ha.restart: the filters are checked before the lock is taken.
restart_Match(c) ==
    /\ At(c, "match")
    /\ IF restart_matches(client[c].request) THEN Goto(c, "restart") ELSE Done(c)
    /\ UNCHANGED <<now, scheduled, main, data, blind, busy, starts, startedAt, pending, paused,
                   executed, deleted, requests, events>>

restart(c) ==
    /\ At(c, "restart") /\ LockFree
    /\ busy' = TRUE      \* it may be already
    /\ Done(c)
    /\ UNCHANGED <<now, scheduled, main, data, blind, starts, startedAt, pending, paused,
                   executed, deleted, requests, events>>

-----------------------------------------------------------------------------
(* The HA loop *)

\* A cycle in which the cluster has a leader and the server runs.
evaluate_scheduled_restart ==
    /\ main = "idle" /\ ~busy /\ scheduled # NoRequest
    /\ main' = "evaluate"
    /\ data' = scheduled
    /\ UNCHANGED <<now, scheduled, client, blind, busy, starts, startedAt, pending, paused,
                   executed, deleted, requests, events>>

\* A plausible bug: the start times are not compared.
AlreadyHappened_Never(recent) == FALSE

\* The server has been restarted since the request, if both times are known.
AlreadyHappened(recent) == recent # 0 /\ data.start # 0 /\ recent # data.start

Due(recent) == ~AlreadyHappened(recent) /\ ~paused /\ data.at - now <= LoopWait
Stale == data.at - now < -((LoopWait * 3) \div 2)

\* A plausible bug: a request that has become stale stays.
Removed_NotStale(recent) == AlreadyHappened(recent)

\* delete_future_restart without a restart
Removed(recent) == AlreadyHappened(recent) \/ (Due(recent) /\ Stale)

(***************************************************************************)
(* should_run_scheduled_action: far ahead nothing, too late the request is *)
(* removed, and otherwise the loop sleeps until it is time.                *)
(***************************************************************************)
should_run_scheduled_action ==
    /\ main = "evaluate"
    /\ \E recent \in {0, starts} :
         /\ IF recent = 0 THEN Event ELSE UNCHANGED events
         /\ blind' = (recent = 0)
         /\ scheduled' = IF Removed(recent) THEN NoRequest ELSE scheduled
         /\ IF Due(recent) /\ ~Stale THEN main' = "sleep" /\ UNCHANGED data
            ELSE main' = "idle" /\ data' = NoRequest
    /\ UNCHANGED <<now, client, busy, starts, startedAt, pending, paused, executed,
                   deleted, requests>>

\* The restart, in the background, and delete_future_restart in any case.
run_scheduled_restart ==
    /\ main = "sleep" /\ now >= data.at
    /\ IF restart_matches(data) /\ ~busy
       THEN busy' = TRUE /\ executed' = executed \cup {data.id}
       ELSE UNCHANGED <<busy, executed>>
    /\ scheduled' = NoRequest
    /\ main' = "idle" /\ data' = NoRequest
    /\ UNCHANGED <<now, client, blind, starts, startedAt, pending, paused, deleted, requests,
                   events>>

-----------------------------------------------------------------------------
(* The environment *)

\* The server starts: by the restart in the background, or by itself.
Start ==
    /\ IF busy THEN UNCHANGED events ELSE Event
    /\ starts' = starts + 1 /\ startedAt' = now
    /\ busy' = FALSE /\ pending' = FALSE
    /\ UNCHANGED <<now, scheduled, client, main, data, blind, paused, executed, deleted,
                   requests>>

Reconfigure ==
    /\ Event
    /\ \/ pending' = TRUE /\ UNCHANGED paused
       \/ paused' = ~paused /\ UNCHANGED pending
    /\ UNCHANGED <<now, scheduled, client, main, data, blind, busy, starts, startedAt,
                   executed, deleted, requests>>

\* When the HA loop wakes up it is fast.
Tick ==
    /\ now < MaxTime
    /\ main = "sleep" => now < data.at
    /\ now' = now + 1
    /\ UNCHANGED <<scheduled, client, main, data, blind, busy, starts, startedAt, pending,
                   paused, executed, deleted, requests, events>>

Api(c) ==
    \/ do_DELETE_restart(c) \/ do_POST_restart(c) \/ schedule_future_restart(c)
    \/ restart_Match(c) \/ restart(c)

Main == evaluate_scheduled_restart \/ should_run_scheduled_action \/ run_scheduled_restart

Next ==
    \/ \E c \in Clients :
         \/ \E at \in Times, filter, force \in BOOLEAN : ctl_restart(c, at, filter, force)
         \/ Api(c)
    \/ Main
    \/ Start \/ Reconfigure \/ Tick

-----------------------------------------------------------------------------
(* Properties *)

(***************************************************************************)
(* A request that was taken back is never carried out, although the HA     *)
(* loop works with a copy of it while it sleeps.                           *)
(***************************************************************************)
DeletedNeverRuns == executed \cap deleted \subseteq {0}

(***************************************************************************)
(* A scheduled restart begins at its time or at most one and a half        *)
(* loop_wait later, and does not repeat a restart since the request, other *)
(* than one that happened while the loop was waiting for the time to come; *)
(* if the start times could be read.                                       *)
(***************************************************************************)
RestartIsApt ==
    [][executed' # executed
       => /\ data.at <= now /\ 2 * (now - data.at) <= 3 * LoopWait
          /\ data.start \notin {0, starts} /\ ~blind
             => now - startedAt <= LoopWait]_vars

(***************************************************************************)
(* Every request is settled, if pause mode ends: carried out, removed or   *)
(* found to be stale.                                                      *)
(***************************************************************************)
RequestsEnd == <>[](scheduled = NoRequest \/ paused)

=============================================================================
