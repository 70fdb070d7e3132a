----------------------------- MODULE LeaderRace -----------------------------
(***************************************************************************)
(* Who gets the leader key when it is free, and what becomes of a request  *)
(* to move it: is_healthiest_node with the status requests between the     *)
(* nodes, the failover key, do_POST_failover and patronictl.               *)
(*                                                                         *)
(* A key expires here only when its owner has died; what a slow owner does *)
(* is in HaFailover and WatchdogLease.  So no live primary is without the  *)
(* key.  The set of members is fixed, the mode is asynchronous (see        *)
(* SyncReplication), check_timeline is off.                                *)
(***************************************************************************)
EXTENDS Integers, FiniteSets

CONSTANTS
    Nodes, None,
    NoFailover,   \* the nodes with the tag nofailover
    MaxLag,       \* maximum_lag_on_failover
    MaxWal,       \* bound on the WAL position
    MaxTenures,   \* bound on the number of times the key is acquired
    MaxRequests,  \* bound on the number of requests
    MaxFaults     \* bound on deaths and lost requests

ASSUME RaceAssumption ==
    /\ None \notin Nodes
    /\ NoFailover \subseteq Nodes
    /\ \E n \in Nodes : n \notin NoFailover
    /\ {MaxLag, MaxWal, MaxTenures, MaxRequests, MaxFaults} \subseteq Nat
    /\ MaxTenures > 0

VARIABLES
    paused,    \* the cluster is in pause mode
    key,       \* the owner of the leader key
    tenure,    \* the number of times it was acquired
    failover,  \* the failover key
    optime,    \* last_leader_operation
    db,        \* the role of each database
    wal,       \* its WAL position
    dead,      \* the nodes that are down
    pc, view,  \* each HA loop: its step and the cluster it has loaded
    answers,   \* the statuses it has got in this cycle
    api,       \* the request of a client: its step, what it has loaded, and
               \* whether another node has taken over on a request since it
               \* was written
    requests, faults

vars == <<paused, key, tenure, failover, optime, db, wal, dead, pc, view,
          answers, api, requests, faults>>
dcsVars == <<key, tenure, failover, optime>>
loopVars == <<pc, view, answers>>
clientVars == <<api, requests>>

(***************************************************************************)
(* scheduled_at, by what should_run_scheduled_action makes of it: no time; *)
(* more than loop_wait ahead; around now; over by 1.5 loop_wait.           *)
(***************************************************************************)
Times == {"none", "far", "near", "stale"}
Failovers == [index : Nat, leader : Nodes \cup {None},
              candidate : Nodes \cup {None}, at : Times]

\* Failover.__len__: neither leader nor candidate.
Requested(f) == f.leader # None \/ f.candidate # None

\* Statuses: the WAL position of a replica, or one of these.
Unknown == -1   \* unknown, or failover_limitation gives a reason
Primary == -2   \* not in recovery
Unasked == -3
Skipped == -4   \* not among the members to be asked
NoAnswers == [m \in Nodes |-> Skipped]
NoView == [optime |-> 0, tenure |-> 0,
           failover |-> [index |-> 0, leader |-> None, candidate |-> None,
                         at |-> "none"]]

PCs == {"idle", "leader", "from_leader", "candidate", "former", "compare",
        "acquire", "clean", "promote", "demote", "release", "restart"}

Views == [optime : 0..MaxWal, tenure : 0..MaxTenures, failover : Failovers]
ApiPCs == {"idle", "write", "poll", "flush", "ok", "failed", "done"}

TypeOK ==
    /\ paused \in BOOLEAN
    /\ key \in Nodes \cup {None}
    /\ tenure \in 0..MaxTenures
    /\ failover \in Failovers
    /\ optime \in 0..MaxWal
    /\ db \in [Nodes -> {"primary", "replica", "stopped"}]
    /\ wal \in [Nodes -> 0..MaxWal]
    /\ dead \subseteq Nodes
    /\ pc \in [Nodes -> PCs]
    /\ view \in [Nodes -> Views]
    /\ answers \in [Nodes -> [Nodes -> -4..MaxWal]]
    /\ api \in [pc : ApiPCs, f : Failovers, leader : Nodes \cup {None},
               moved : BOOLEAN]
    /\ requests \in 0..MaxRequests
    /\ faults \in 0..MaxFaults

Init ==
    /\ paused \in BOOLEAN
    /\ tenure = 1 /\ optime = 0 /\ faults = 0 /\ requests = 0
    /\ key = CHOOSE n \in Nodes : n \notin NoFailover
    /\ db = [n \in Nodes |-> IF n = key THEN "primary" ELSE "replica"]
    /\ failover = NoView.failover
    /\ wal = [n \in Nodes |-> 0]
    /\ dead = {}
    /\ pc = [n \in Nodes |-> "idle"]
    /\ view = [n \in Nodes |-> NoView]
    /\ answers = [n \in Nodes |-> NoAnswers]
    /\ api = [pc |-> "idle", f |-> NoView.failover, leader |-> None, moved |-> FALSE]

-----------------------------------------------------------------------------
(* The databases and the nodes *)

WriteWal(n) ==
    /\ db[n] = "primary" /\ wal[n] < MaxWal
    /\ wal' = [wal EXCEPT ![n] = @ + 1]
    /\ UNCHANGED <<paused, dcsVars, db, dead, loopVars, clientVars, faults>>

Stream(n, m) ==
    /\ db[n] = "primary" /\ db[m] = "replica"
    /\ wal[m] < wal[n]
    /\ wal' = [wal EXCEPT ![m] = wal[n]]
    /\ UNCHANGED <<paused, dcsVars, db, dead, loopVars, clientVars, faults>>

Fault == faults < MaxFaults /\ faults' = faults + 1

Die(n) ==
    /\ n \notin dead
    /\ Fault
    /\ dead' = dead \cup {n}
    /\ db' = [db EXCEPT ![n] = "stopped"]
    /\ pc' = [pc EXCEPT ![n] = "idle"]
    /\ view' = [view EXCEPT ![n] = NoView]
    /\ answers' = [answers EXCEPT ![n] = NoAnswers]
    /\ UNCHANGED <<paused, dcsVars, wal, clientVars>>

\* Patroni comes back and starts its database as a replica (in pause the
\* operator does).
Revive(n) ==
    /\ n \in dead
    /\ key # n
    /\ dead' = dead \ {n}
    /\ db' = [db EXCEPT ![n] = "replica"]
    /\ UNCHANGED <<paused, dcsVars, wal, loopVars, clientVars, faults>>

Expire ==
    /\ key \in dead
    /\ key' = None
    /\ UNCHANGED <<paused, tenure, failover, optime, db, wal, dead, loopVars,
                   clientVars, faults>>

\* The time of a scheduled request comes and goes.
TimePasses ==
    /\ failover.at \in {"far", "near"}
    /\ failover' = [failover EXCEPT !.at = IF @ = "far" THEN "near" ELSE "stale"]
    /\ UNCHANGED <<paused, key, tenure, optime, db, wal, dead, loopVars,
                   clientVars, faults>>

-----------------------------------------------------------------------------
(* The failover key *)

\* manual_failover with an index: compare and set.
manual_failover(f, index) ==
    failover' = IF index = failover.index
                THEN [f EXCEPT !.index = failover.index + 1] ELSE failover

Empty == NoView.failover
Clean(n) == manual_failover(Empty, view[n].failover.index)

-----------------------------------------------------------------------------
(* The HA loop *)

\* The end of a cycle; what it has loaded is dropped.
End(n) ==
    /\ pc' = [pc EXCEPT ![n] = "idle"]
    /\ view' = [view EXCEPT ![n] = NoView]
    /\ answers' = [answers EXCEPT ![n] = NoAnswers]

Goto(n, step) ==
    /\ pc' = [pc EXCEPT ![n] = step]
    /\ UNCHANGED <<view, answers>>

Ask(n, step, members) ==
    /\ pc' = [pc EXCEPT ![n] = step]
    /\ answers' = [answers EXCEPT ![n] =
                     [m \in Nodes |-> IF m \in members \ {n} THEN Unasked ELSE Skipped]]

\* get_cluster.
Loaded(n) ==
    view' = [view EXCEPT ![n] = [optime |-> optime, tenure |-> tenure,
                                 failover |-> failover]]

load_cluster(n) ==
    /\ pc[n] = "idle" /\ n \notin dead
    /\ key = n
    /\ Loaded(n)
    /\ pc' = [pc EXCEPT ![n] = "leader"]
    /\ UNCHANGED <<paused, dcsVars, db, wal, dead, answers, clientVars, faults>>

\* GET /patroni of a member: a stopped replica's answer has no xlog, which
\* fetch_node_status takes for no answer.
Status(m) ==
    CASE m \in dead \cup NoFailover \/ db[m] = "stopped" -> Unknown
      [] db[m] = "primary" -> Primary
      [] OTHER -> wal[m]

fetch_node_status(n, m) ==
    /\ answers[n][m] = Unasked
    /\ \/ answers' = [answers EXCEPT ![n][m] = Status(m)] /\ UNCHANGED faults
       \/ Fault /\ answers' = [answers EXCEPT ![n][m] = Unknown]
    /\ UNCHANGED <<paused, dcsVars, db, wal, dead, pc, view, clientVars>>

Answered(n) == \A m \in Nodes : answers[n][m] # Unasked

is_lagging(n, position) == view[n].optime - position > MaxLag

\* Some member answers, is allowed to be promoted and is not lagging.
is_failover_possible(n) ==
    \E m \in Nodes : answers[n][m] >= 0 /\ ~is_lagging(n, answers[n][m])

\* A plausible bug: the next position is written.
write_leader_optime_Next(n) == optime' = wal[n] + 1

write_leader_optime(n) == optime' = wal[n]

\* A plausible bug: a request whose time is over is left alone.
TooEarly_Stale(f) == f.at # "none" /\ (paused \/ f.at \in {"far", "stale"})

\* should_run_scheduled_action: not yet, and not any more.
TooEarly(f) == f.at # "none" /\ (paused \/ f.at = "far")

TooLate(f) == f.at = "stale" /\ ~paused

\* The leader has nothing to do with it: another is meant, it is the
\* candidate itself, or there is none in pause.
Misplaced(n, f) ==
    \/ f.leader \notin {None, n} \/ f.candidate = n
    \/ f.candidate = None /\ paused

(***************************************************************************)
(* update_lock, then process_manual_failover_from_leader looks at the      *)
(* request: wait for its time, remove it or ask who could take over.       *)
(***************************************************************************)
update_lock(n) ==
    /\ pc[n] = "leader"
    /\ write_leader_optime(n)
    /\ LET f == view[n].failover IN
       \/ /\ ~Requested(f) \/ TooEarly(f)
          /\ End(n) /\ UNCHANGED failover
       \/ /\ Requested(f) /\ ~TooEarly(f)
          /\ TooLate(f) \/ Misplaced(n, f)
          /\ Clean(n) /\ End(n)
       \/ /\ Requested(f) /\ ~TooEarly(f) /\ ~TooLate(f) /\ ~Misplaced(n, f)
          /\ Ask(n, "from_leader", (IF f.candidate = None THEN Nodes
                                    ELSE {f.candidate}) \ NoFailover)
          /\ UNCHANGED <<view, failover>>
    /\ UNCHANGED <<paused, key, tenure, db, wal, dead, clientVars, faults>>

process_manual_failover_from_leader(n) ==
    /\ pc[n] = "from_leader" /\ Answered(n)
    /\ IF is_failover_possible(n) THEN Goto(n, "demote") /\ UNCHANGED failover
                                  ELSE Clean(n) /\ End(n)
    /\ UNCHANGED <<paused, key, tenure, optime, db, wal, dead, clientVars, faults>>

\* demote('graceful'): stop, ...
demote(n) ==
    /\ pc[n] = "demote"
    /\ db' = [db EXCEPT ![n] = "stopped"]
    /\ Goto(n, "release")
    /\ UNCHANGED <<paused, dcsVars, wal, dead, clientVars, faults>>

\* ... release the key, ...
release_leader_key(n) ==
    /\ pc[n] = "release"
    /\ key' = IF key = n THEN None ELSE key
    /\ Goto(n, "restart")
    /\ UNCHANGED <<paused, tenure, failover, optime, db, wal, dead, clientVars,
                   faults>>

\* ... start as a replica.
demote_Start(n) ==
    /\ pc[n] = "restart"
    /\ db' = [db EXCEPT ![n] = "replica"]
    /\ End(n)
    /\ UNCHANGED <<paused, dcsVars, wal, dead, clientVars, faults>>

(***************************************************************************)
(* The cluster is loaded and has no leader: is_healthiest_node, as far as  *)
(* it needs no status.  A node with the tag nofailover, a node in pause    *)
(* that is not the candidate and one that lags behind do not run.  The     *)
(* candidate runs at once, the others ask it first.                        *)
(***************************************************************************)
is_healthiest_node(n) ==
    /\ pc[n] = "idle" /\ n \notin dead
    /\ key = None
    /\ n \notin NoFailover
    /\ Loaded(n)
    /\ LET f == failover IN
       \/ /\ Requested(f) /\ f.candidate = n /\ (paused => f.at = "none")
          /\ Ask(n, "acquire", {})
       \/ /\ Requested(f) /\ ~paused /\ f.candidate \notin {n, None}
          /\ Ask(n, "candidate", {f.candidate})
       \/ /\ Requested(f) /\ ~paused /\ f.candidate = None
          /\ IF f.leader = n THEN Ask(n, "former", Nodes \ NoFailover)
             ELSE Ask(n, "compare", Nodes \ (NoFailover \cup {f.leader}))
       \/ /\ ~Requested(f) /\ ~paused /\ optime - wal[n] <= MaxLag
          /\ Ask(n, "compare", Nodes \ NoFailover)
    /\ UNCHANGED <<paused, dcsVars, db, wal, dead, clientVars, faults>>

\* A plausible bug: a candidate that is not fit is waited for.
manual_failover_process_no_leader_Waits(n) ==
    /\ pc[n] = "candidate" /\ Answered(n)
    /\ End(n)
    /\ UNCHANGED <<paused, dcsVars, db, wal, dead, clientVars, faults>>

\* manual_failover_process_no_leader: is the candidate fine?  If it is not,
\* everybody is one, the former leader only when nobody else is.
manual_failover_process_no_leader(n) ==
    /\ pc[n] = "candidate" /\ Answered(n)
    /\ LET f == view[n].failover IN
       \/ answers[n][f.candidate] # Unknown /\ End(n)
       \/ /\ answers[n][f.candidate] = Unknown
          /\ IF f.leader = n
             THEN Ask(n, "former", Nodes \ (NoFailover \cup {f.candidate}))
             ELSE Ask(n, "compare", Nodes \ (NoFailover \cup {f.leader}))
          /\ UNCHANGED view
    /\ UNCHANGED <<paused, dcsVars, db, wal, dead, clientVars, faults>>

\* "I was the leader and it looks like currently I am the only healthy member"
former_leader(n) ==
    /\ pc[n] = "former" /\ Answered(n)
    /\ IF is_failover_possible(n) THEN End(n) ELSE Goto(n, "acquire")
    /\ UNCHANGED <<paused, dcsVars, db, wal, dead, clientVars, faults>>

\* A plausible bug: the others' WAL positions are not compared.
_is_healthiest_node_Any(n) ==
    /\ pc[n] = "compare" /\ Answered(n)
    /\ Goto(n, "acquire")
    /\ UNCHANGED <<paused, dcsVars, db, wal, dead, clientVars, faults>>

\* _is_healthiest_node: nobody is a primary, nobody is ahead.
_is_healthiest_node(n) ==
    /\ pc[n] = "compare" /\ Answered(n)
    /\ IF \A m \in Nodes : answers[n][m] # Primary /\ answers[n][m] <= wal[n]
       THEN Goto(n, "acquire") ELSE End(n)
    /\ UNCHANGED <<paused, dcsVars, db, wal, dead, clientVars, faults>>

attempt_to_acquire_leader(n) ==
    /\ pc[n] = "acquire"
    /\ \/ /\ key = None /\ tenure < MaxTenures
          /\ key' = n /\ tenure' = tenure + 1
          /\ api' = [api EXCEPT !.moved =
                       @ \/ /\ api.pc = "poll" /\ n # api.leader
                            /\ Requested(view[n].failover)]
          /\ Goto(n, IF Requested(view[n].failover) THEN "clean" ELSE "promote")
       \/ /\ key # None
          /\ End(n) /\ UNCHANGED <<key, tenure, api>>
    /\ UNCHANGED <<paused, failover, optime, db, wal, dead, requests, faults>>

(***************************************************************************)
(* The winner removes the request, whatever request it is by now; in pause *)
(* it stays, without its leader, until the candidate is promoted.          *)
(***************************************************************************)
process_unhealthy_cluster(n) ==
    /\ pc[n] = "clean"
    /\ LET f == view[n].failover IN
       IF paused /\ f.leader # None /\ f.candidate # None
       THEN manual_failover([f EXCEPT !.leader = None], f.index)
       ELSE manual_failover(Empty, failover.index)
    /\ Goto(n, "promote")
    /\ UNCHANGED <<paused, key, tenure, optime, db, wal, dead, clientVars, faults>>

enforce_master_role(n) ==
    /\ pc[n] = "promote"
    /\ db' = [db EXCEPT ![n] = "primary"]
    /\ End(n)
    /\ UNCHANGED <<paused, dcsVars, wal, dead, clientVars, faults>>

-----------------------------------------------------------------------------
(* A client: patronictl or another user of the REST API *)

(***************************************************************************)
(* do_POST_failover and do_POST_switchover up to the write: a failover has *)
(* a candidate, a switchover a leader, a time needs a leader and no pause, *)
(* a request in pause needs a candidate.  Without a time some member that  *)
(* the request allows must be fit (412 otherwise).                         *)
(***************************************************************************)
do_POST_failover(f) ==
    /\ api.pc = "idle" /\ requests < MaxRequests
    /\ Requested(f)
    /\ f.at # "none" => f.leader # None /\ ~paused
    /\ paused => f.candidate # None
    /\ f.at = "none" =>
          /\ f.leader \in {None, key}
          /\ LET members == IF f.candidate # None THEN {f.candidate}
                            ELSE Nodes \ {key}
             IN  \E m \in members : Status(m) # Unknown
    /\ api' = [pc |-> "write", f |-> f, leader |-> key, moved |-> FALSE]
    /\ requests' = requests + 1
    /\ UNCHANGED <<paused, dcsVars, db, wal, dead, loopVars, faults>>

\* The request is written over whatever the key holds.
do_POST_failover_Write ==
    /\ api.pc = "write"
    /\ manual_failover(api.f, failover.index)
    /\ api' = [api EXCEPT !.pc = IF api.f.at = "none" THEN "poll" ELSE "idle",
                          !.moved = FALSE]
    /\ UNCHANGED <<paused, key, tenure, optime, db, wal, dead, loopVars, requests,
                   faults>>

\* A plausible bug: the request is looked at before the leader.
poll_failover_result_RequestFirst ==
    /\ api.pc = "poll"
    /\ \/ ~Requested(failover) /\ api' = [api EXCEPT !.pc = "failed"]
       \/ /\ Requested(failover) /\ key \notin {None, api.leader}
          /\ api' = [api EXCEPT !.pc = "ok"]
    /\ UNCHANGED <<paused, dcsVars, db, wal, dead, loopVars, requests, faults>>

\* Another leader is success, no request is failure.
poll_failover_result ==
    /\ api.pc = "poll"
    /\ \/ key \notin {None, api.leader} /\ api' = [api EXCEPT !.pc = "ok"]
       \/ /\ key \in {None, api.leader} /\ ~Requested(failover)
          /\ api' = [api EXCEPT !.pc = "failed"]
    /\ UNCHANGED <<paused, dcsVars, db, wal, dead, loopVars, requests, faults>>

\* The answer to patronictl is lost: it writes the same request itself.
ctl_failover ==
    /\ api.pc \in {"poll", "ok"}
    /\ Fault
    /\ manual_failover(api.f, failover.index)
    /\ api' = [api EXCEPT !.pc = "done"]
    /\ UNCHANGED <<paused, key, tenure, optime, db, wal, dead, loopVars, requests>>

\* do_DELETE_switchover: read ...
do_DELETE_switchover ==
    /\ api.pc = "idle"
    /\ Requested(failover) /\ failover.at # "none"
    /\ api' = [api EXCEPT !.pc = "flush", !.f = failover]
    /\ UNCHANGED <<paused, dcsVars, db, wal, dead, loopVars, requests, faults>>

\* ... and delete what was read.
do_DELETE_switchover_Write ==
    /\ api.pc = "flush"
    /\ manual_failover(Empty, api.f.index)
    /\ api' = [api EXCEPT !.pc = "done"]
    /\ UNCHANGED <<paused, key, tenure, optime, db, wal, dead, loopVars, requests,
                   faults>>

ClientDone ==
    /\ api.pc \in {"ok", "failed", "done"}
    /\ api' = [pc |-> "idle", f |-> Empty, leader |-> None, moved |-> FALSE]
    /\ UNCHANGED <<paused, dcsVars, db, wal, dead, loopVars, requests, faults>>

-----------------------------------------------------------------------------

Cycle(n) ==
    \/ load_cluster(n)
    \/ \E m \in Nodes : fetch_node_status(n, m)
    \/ update_lock(n) \/ process_manual_failover_from_leader(n)
    \/ demote(n) \/ release_leader_key(n) \/ demote_Start(n)
    \/ is_healthiest_node(n) \/ manual_failover_process_no_leader(n)
    \/ former_leader(n) \/ _is_healthiest_node(n)
    \/ attempt_to_acquire_leader(n) \/ process_unhealthy_cluster(n)
    \/ enforce_master_role(n)

Requests ==
    [index : {0}, leader : {key, None}, candidate : Nodes \cup {None},
     at : {"none", "far"}]

Next ==
    \/ \E n \in Nodes : Cycle(n) \/ WriteWal(n) \/ Die(n) \/ Revive(n)
    \/ \E n, m \in Nodes : Stream(n, m)
    \/ Expire \/ TimePasses
    \/ \E f \in Requests : do_POST_failover(f)
    \/ do_POST_failover_Write \/ poll_failover_result \/ ctl_failover
    \/ do_DELETE_switchover \/ do_DELETE_switchover_Write \/ ClientDone

(***************************************************************************)
(* HA loops go on, dead nodes come back and their keys expire, and time    *)
(* passes.  Clients and databases need not do anything.                    *)
(***************************************************************************)
Spec ==
    /\ Init /\ [][Next]_vars
    /\ \A n \in Nodes : WF_vars(Cycle(n)) /\ WF_vars(Revive(n))
    /\ WF_vars(Expire) /\ WF_vars(TimePasses)

-----------------------------------------------------------------------------
(* Properties *)

(***************************************************************************)
(* The judgement of _is_healthiest_node still holds when the node acquires *)
(* the key, although the statuses come in at different moments and the     *)
(* former primary may be demoting: nobody that has answered is ahead of    *)
(* the winner, except for a lagging one when the winner is the node that   *)
(* the request moves the key away from, the only healthy member.  (Not so  *)
(* when another tenure has passed since the cluster was loaded, for        *)
(* nothing is read again before acquire_lock.)                             *)
(***************************************************************************)
WinnerIsHealthiest ==
    [][\A n \in Nodes :
         /\ key = None /\ key' = n
         /\ view[n].tenure = tenure
         => \A m \in Nodes :
              answers[n][m] >= 0 =>
                \/ wal[m] <= wal[n]
                \/ view[n].failover.leader = n /\ is_lagging(n, answers[n][m])]_vars

(***************************************************************************)
(* "Failed" is the truth: no other node has taken over on a request since  *)
(* this one was written, unless a node has died or a call has failed.  The *)
(* winner takes the key before it removes the request, and so the client   *)
(* that looks at the leader first cannot miss it.                          *)
(***************************************************************************)
FailedMeansUnchanged ==
    api.pc = "failed" => ~api.moved \/ faults > 0

(***************************************************************************)
(* Every request leaves the failover key again: it is executed, refused by *)
(* the leader, cleaned up as stale or removed by the winner of a race that *)
(* it was not meant for.                                                   *)
(***************************************************************************)
RequestIsSettled ==
    []<>(~Requested(failover) \/ tenure = MaxTenures)

(***************************************************************************)
(* A cluster that is not paused does not stay without a leader: not all    *)
(* nodes leave the key to somebody else for ever.                          *)
(***************************************************************************)
LeaderReturns ==
    [](key = None => <>(key # None \/ paused \/ tenure = MaxTenures))

(***************************************************************************)
(* What a race or a request has begun comes to an end: requests are        *)
(* settled, and a leader returns.                                          *)
(***************************************************************************)
RaceEnds == RequestIsSettled /\ LeaderReturns

=============================================================================
