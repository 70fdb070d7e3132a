------------------------------ MODULE LoopWatch ------------------------------
(***************************************************************************)
(* How the HA loop sleeps between two cycles.  AbstractDCS.event is set by *)
(* Ha.wakeup, from REST API threads and workers, and with etcd3 and        *)
(* Kubernetes by the thread that sees the leader key change; it is cleared *)
(* when a wait is over.  With etcd and Consul a replica waits for a change *)
(* of the leader key instead, from the index of the key it has loaded, and *)
(* does not hear the event.  Raft, whose callback sees only the deletion   *)
(* of the leader key, and ZooKeeper (see ZooKeeperCache) are left out.     *)
(***************************************************************************)
EXTENDS Integers

CONSTANTS
    Stores,         \* "etcd", "consul", "event" (etcd3, Kubernetes)
    MaxLeaderRev    \* bound on the changes of the leader key

VARIABLES
    store,
    leaderRev,      \* the index of the leader key
    viewRev,        \* the index in the cluster that was loaded
    flag,           \* AbstractDCS.event
    doNotWatch,     \* __do_not_watch
    asked,          \* history: wakeup was called after the last load
    early,          \* history: and before this sleep began
    since,          \* the index that the watch of the leader key starts from
    npc             \* where the loop is

vars == <<store, leaderRev, viewRev, flag, doNotWatch, asked, early, since, npc>>

TypeOK ==
    /\ store \in Stores
    /\ {leaderRev, viewRev, since} \subseteq 0..MaxLeaderRev
    /\ {flag, doNotWatch, asked, early} \subseteq BOOLEAN
    /\ npc \in {"load", "cycle", "leader", "event", "clear"}

Init ==
    /\ store \in Stores
    /\ leaderRev = 0 /\ viewRev = 0 /\ since = 0
    /\ flag = FALSE /\ doNotWatch = FALSE /\ asked = FALSE /\ early = FALSE
    /\ npc = "load"

ChangeLeader ==
    /\ leaderRev < MaxLeaderRev
    /\ leaderRev' = leaderRev + 1
    /\ flag' = (flag \/ store = "event")
    /\ UNCHANGED <<store, viewRev, doNotWatch, asked, early, since, npc>>

wakeup ==
    /\ flag' = TRUE
    /\ asked' = TRUE
    /\ UNCHANGED <<store, leaderRev, viewRev, doNotWatch, early, since, npc>>

load_cluster ==
    /\ npc = "load"
    /\ viewRev' = leaderRev
    /\ asked' = FALSE
    /\ npc' = "cycle"
    /\ UNCHANGED <<store, leaderRev, flag, doNotWatch, early, since>>

\* A new ttl needs a new session or lease before the next sleep.
set_ttl ==
    /\ npc = "cycle" /\ ~doNotWatch
    /\ doNotWatch' = TRUE
    /\ UNCHANGED <<store, leaderRev, viewRev, flag, asked, early, since, npc>>

\* A plausible bug: the watch starts from what the key is now.
watch_FromNow(alone) ==
    /\ npc = "cycle"
    /\ early' = asked
    /\ since' = IF alone THEN 0 ELSE leaderRev
    /\ npc' = CASE doNotWatch -> "load"
                [] ~doNotWatch /\ ~alone /\ store # "event" -> "leader"
                [] OTHER -> "event"
    /\ doNotWatch' = FALSE
    /\ UNCHANGED <<store, leaderRev, viewRev, flag, asked>>

\* alone: the executor is busy, there is no leader, or this node is it.
watch(alone) ==
    /\ npc = "cycle"
    /\ early' = asked
    /\ since' = IF alone THEN 0 ELSE viewRev
    /\ npc' = CASE doNotWatch -> "load"
                [] ~doNotWatch /\ ~alone /\ store # "event" -> "leader"
                [] OTHER -> "event"
    /\ doNotWatch' = FALSE
    /\ UNCHANGED <<store, leaderRev, viewRev, flag, asked>>

Sleeps == UNCHANGED <<store, leaderRev, viewRev, doNotWatch, asked, early, since>>

\* The watch of the leader key returns, or fails until the time is used up.
watch_Leader ==
    /\ npc = "leader"
    /\ \/ leaderRev > since /\ npc' = "load"
       \/ npc' = "event"
    /\ Sleeps /\ UNCHANGED flag

event_wait ==
    /\ npc = "event" /\ flag
    /\ npc' = "clear"
    /\ Sleeps /\ UNCHANGED flag

TimesOut ==
    /\ \/ npc = "leader" /\ leaderRev = since /\ npc' = "load"
       \/ npc = "event" /\ ~flag /\ npc' = "clear"
    /\ Sleeps /\ UNCHANGED flag

event_clear ==
    /\ npc = "clear"
    /\ flag' = FALSE
    /\ npc' = "load"
    /\ Sleeps

Next ==
    \/ ChangeLeader \/ wakeup \/ load_cluster \/ set_ttl
    \/ \E alone \in BOOLEAN : watch(alone)
    \/ watch_Leader \/ event_wait \/ TimesOut \/ event_clear

Spec == Init /\ [][Next]_vars

-----------------------------------------------------------------------------

(***************************************************************************)
(* The loop does not sleep through what it waits for: its timeout passes   *)
(* only if no thread has called wakeup since the cluster was loaded and    *)
(* before the sleep, and the leader key has not changed since the view;    *)
(* wakeup alone does not end a watch of the leader key.                    *)
(***************************************************************************)
NothingIsMissed ==
    [][TimesOut => IF npc = "leader" THEN leaderRev = viewRev
                   ELSE /\ ~early
                        /\ store = "event" => leaderRev = viewRev]_vars

=============================================================================
