------------------------------ MODULE Bootstrap ------------------------------
(***************************************************************************)
(* How a cluster comes into being: empty nodes race for the initialize key *)
(* of the DCS, the winner creates a new database system in the background, *)
(* writes its identifier into the key and takes the leader key; the others *)
(* clone it.  A bootstrap that fails gives the key back.  Pause mode, and  *)
(* replicas that are created without a leader, are left out.               *)
(***************************************************************************)
EXTENDS Integers, FiniteSets

CONSTANTS
    Nodes,
    NoFailover,    \* the nodes with the tag nofailover, or without "bootstrap"
    MaxSystems,    \* bound on the systems that are created
    MaxFaults      \* bound on crashes, failing commands and DCS errors

Remote == 0                          \* the system of a remote primary
Systems == Remote..MaxSystems        \* identifiers that sysid_valid accepts
NoKey == -1                          \* initialize is None
EmptyKey == -2                       \* initialize is ""
NoData == -1
Partial == -2                        \* an incomplete data directory
None == "none"

ASSUME BootstrapAssumption ==
    /\ None \notin Nodes
    /\ MaxSystems \in Nat
    /\ MaxFaults \in Nat

VARIABLES
    initialize,     \* the initialize key
    leader,         \* the leader key
    standby,        \* a standby cluster is configured
    up,             \* Patroni runs on the node
    view,           \* Ha.cluster
    pc,             \* the HA loop of the node
    task,           \* what its AsyncExecutor does
    source,         \* the member that is cloned
    bootstrapping, result,   \* state_handler.bootstrapping, _async_response
    data, running, primary,  \* the data directory and the server
    created,        \* number of systems created so far
    prepared,       \* systems on which post_bootstrap has succeeded
    cancelled,      \* systems whose bootstrap has been given up
    lost,           \* the owner of an empty key cannot know about it any more
    torn,           \* nodes that a crash has left with an incomplete directory
    faults

dcsVars == <<initialize, leader>>
pgVars == <<data, running, primary>>
history == <<created, prepared, cancelled, lost, torn>>
vars == <<dcsVars, standby, up, view, pc, task, source, bootstrapping, result,
          pgVars, history, faults>>

TypeOK ==
    /\ initialize \in Systems \cup {NoKey, EmptyKey}
    /\ leader \in Nodes \cup {None}
    /\ standby \in BOOLEAN
    /\ view \in [Nodes -> [initialize : Systems \cup {NoKey, EmptyKey},
                           leader : Nodes \cup {None}]]
    /\ pc \in [Nodes -> {"load", "cycle", "dispatch", "race", "cancel", "clean",
                         "announce", "take", "process"}]
    /\ task \in [Nodes -> {"idle", "initdb", "fill", "start", "post_bootstrap",
                           "clone", "again", "copy", "follow"}]
    /\ source \in [Nodes -> Nodes \cup {None}]
    /\ result \in [Nodes -> {"none", "yes", "no"}]
    /\ data \in [Nodes -> Systems \cup {NoData, Partial}]
    /\ {up, bootstrapping, running, primary} \subseteq [Nodes -> BOOLEAN]
    /\ created \in 0..MaxSystems
    /\ prepared \subseteq Systems /\ cancelled \subseteq Systems
    /\ lost \in BOOLEAN /\ torn \subseteq Nodes
    /\ faults \in 0..MaxFaults

sysid_valid(id) == id \in Systems

Init ==
    /\ initialize = NoKey /\ leader = None
    /\ standby \in BOOLEAN
    /\ up = [n \in Nodes |-> TRUE]
    /\ view = [n \in Nodes |-> [initialize |-> NoKey, leader |-> None]]
    /\ pc = [n \in Nodes |-> "load"]
    /\ task = [n \in Nodes |-> "idle"]
    /\ source = [n \in Nodes |-> None]
    /\ bootstrapping = [n \in Nodes |-> FALSE]
    /\ result = [n \in Nodes |-> "none"]
    /\ data = [n \in Nodes |-> NoData]
    /\ running = [n \in Nodes |-> FALSE] /\ primary = [n \in Nodes |-> FALSE]
    /\ created = 0 /\ prepared = {} /\ cancelled = {} /\ lost = FALSE /\ torn = {}
    /\ faults = 0

Fault == faults < MaxFaults /\ faults' = faults + 1

Goto(n, step) == pc' = [pc EXCEPT ![n] = step]

Run(n, t) == task' = [task EXCEPT ![n] = t]

\* The main thread stands at step, in a process that runs.
At(n, step) == up[n] /\ pc[n] = step

\* The worker thread is about to do t.
Working(n, t) == up[n] /\ task[n] = t

\* The node is in charge of the empty key.
Owner(n) == up[n] /\ (bootstrapping[n] \/ pc[n] \in {"announce", "cancel"})

Server(n, runs, writable) ==
    /\ running' = [running EXCEPT ![n] = runs]
    /\ primary' = [primary EXCEPT ![n] = writable]

-----------------------------------------------------------------------------
(* The HA loop *)

(***************************************************************************)
(* dcs.initialize: create_new creates the key.  Otherwise etcd, Raft and   *)
(* ZooKeeper want it to exist, while the others write in any case.         *)
(***************************************************************************)
Initialize(create_new, id) ==
    initialize' \in IF create_new
                    THEN {IF initialize = NoKey THEN id ELSE initialize}
                    ELSE IF initialize = NoKey THEN {NoKey, id} ELSE {id}

load_cluster_from_dcs(n) ==
    /\ At(n, "load")
    /\ view' = [view EXCEPT ![n] = [initialize |-> initialize, leader |-> leader]]
    /\ Goto(n, "cycle")
    /\ UNCHANGED <<dcsVars, standby, up, task, source, bootstrapping, result, pgVars,
                   history, faults>>

\* _run_cycle begins: a leader without a valid initialize key writes its own.
run_cycle(n) ==
    /\ At(n, "cycle")
    /\ Goto(n, "dispatch")
    /\ IF view[n].leader = n /\ ~sysid_valid(view[n].initialize)
       THEN Initialize(view[n].initialize = NoKey, data[n])
       ELSE UNCHANGED initialize
    /\ UNCHANGED <<leader, standby, up, view, task, source, bootstrapping, result,
                   pgVars, history, faults>>

\* While the executor is busy nothing else is done.
handle_long_action_in_progress(n) ==
    /\ At(n, "dispatch") /\ task[n] # "idle"
    /\ Goto(n, "load")
    /\ UNCHANGED <<dcsVars, standby, up, view, task, source, bootstrapping, result,
                   pgVars, history, faults>>

Ready(n) == At(n, "dispatch") /\ task[n] = "idle"

\* A plausible bug: a server that runs is taken for a finished bootstrap.
Finished_Running(n) == running[n]

\* post_bootstrap: all of the background work has succeeded.
Finished(n) == running[n] /\ result[n] = "yes"

(***************************************************************************)
(* Ha.post_bootstrap: give up, start the second half, or announce the new  *)
(* cluster; the last one only if the watchdog can be activated.            *)
(***************************************************************************)
post_bootstrap(n) ==
    /\ Ready(n) /\ bootstrapping[n]
    /\ \/ /\ ~running[n] \/ result[n] = "no"
          /\ Goto(n, "cancel")
          /\ UNCHANGED <<task, bootstrapping, faults, primary>>
       \/ /\ running[n] /\ result[n] = "none" /\ ~Finished(n)
          /\ primary' = [primary EXCEPT ![n] = TRUE]
          /\ Run(n, "post_bootstrap")
          /\ Goto(n, "load")
          /\ UNCHANGED <<bootstrapping, faults>>
       \/ /\ Finished(n)
          /\ bootstrapping' = [bootstrapping EXCEPT ![n] = FALSE]
          /\ \/ Goto(n, "announce") /\ UNCHANGED faults
             \/ Goto(n, "cancel") /\ Fault
          /\ UNCHANGED <<task, primary>>
    /\ UNCHANGED <<dcsVars, standby, up, view, source, result, data, running, history>>

(***************************************************************************)
(* An empty data directory: the server is stopped, a leader gives its key  *)
(* up, and Ha.bootstrap clones the leader, races for the key, or waits.    *)
(* The leader stands for the member that get_clone_member picks.           *)
(***************************************************************************)
bootstrap(n) ==
    /\ Ready(n) /\ ~bootstrapping[n] /\ data[n] = NoData
    /\ Server(n, FALSE, FALSE)
    /\ leader' = IF view[n].leader = n /\ leader = n THEN None ELSE leader
    /\ LET clone == view[n].leader \notin {n, None}
           race == view[n].leader = None /\ view[n].initialize = NoKey
                   /\ n \notin NoFailover
       IN  /\ Goto(n, IF race THEN "race" ELSE "load")
           /\ task' = IF clone THEN [task EXCEPT ![n] = "clone"] ELSE task
           /\ source' = IF clone THEN [source EXCEPT ![n] = view[n].leader] ELSE source
    /\ UNCHANGED <<initialize, standby, up, view, bootstrapping, result, data, history,
                   faults>>

\* A plausible bug: the key is written without a condition.
initialize_race_Put(n) ==
    /\ At(n, "race")
    /\ initialize' = EmptyKey
    /\ bootstrapping' = [bootstrapping EXCEPT ![n] = TRUE]
    /\ result' = [result EXCEPT ![n] = "none"]
    /\ Run(n, IF standby THEN "clone" ELSE "initdb")
    /\ Goto(n, "load")
    /\ UNCHANGED <<leader, standby, up, view, source, pgVars, history, faults>>

(***************************************************************************)
(* The race.  When the answer is lost, the retry finds the key in place:   *)
(* nobody knows that it is its own.                                        *)
(***************************************************************************)
initialize_race(n) ==
    /\ At(n, "race")
    /\ Initialize(TRUE, EmptyKey)
    /\ LET won == initialize = NoKey IN
       \/ /\ bootstrapping' = [bootstrapping EXCEPT ![n] = won]
          /\ result' = [result EXCEPT ![n] = IF won THEN "none" ELSE @]
          /\ task' = IF won
                     THEN [task EXCEPT ![n] = IF standby THEN "clone" ELSE "initdb"]
                     ELSE task
          /\ source' = [source EXCEPT ![n] = None]
          /\ UNCHANGED <<lost, faults>>
       \/ /\ won /\ Fault /\ lost' = TRUE
          /\ UNCHANGED <<bootstrapping, result, task, source>>
    /\ Goto(n, "load")
    /\ UNCHANGED <<leader, standby, up, view, pgVars, created, prepared,
                   cancelled, torn>>

\* A plausible bug: the key stays.
cancel_initialization_Keeps(n) ==
    /\ At(n, "cancel")
    /\ cancelled' = cancelled \cup ({data[n]} \cap Systems)
    /\ Goto(n, "clean")
    /\ UNCHANGED <<dcsVars, standby, up, view, task, source, bootstrapping, result,
                   pgVars, created, prepared, lost, torn, faults>>

\* cancel_initialization: the key is removed, whatever it holds, ...
cancel_initialization(n) ==
    /\ At(n, "cancel")
    /\ \/ initialize' = NoKey /\ UNCHANGED <<lost, faults>>
       \/ lost' = TRUE /\ Fault /\ UNCHANGED initialize
    /\ cancelled' = cancelled \cup ({data[n]} \cap Systems)
    /\ Goto(n, "clean")
    /\ UNCHANGED <<leader, standby, up, view, task, source, bootstrapping, result,
                   pgVars, created, prepared, torn>>

\* ... the server is stopped, its data moved away, and the process ends.
move_data_directory(n) ==
    /\ At(n, "clean")
    /\ Server(n, FALSE, FALSE)
    /\ data' = [data EXCEPT ![n] = NoData]
    /\ up' = [up EXCEPT ![n] = FALSE]
    /\ UNCHANGED <<dcsVars, standby, view, pc, task, source, bootstrapping, result,
                   history, faults>>

\* Ha.post_bootstrap: the identifier is written, ...
announce(n) ==
    /\ At(n, "announce")
    /\ Initialize(view[n].initialize = NoKey, data[n])
    /\ Goto(n, "take")
    /\ UNCHANGED <<leader, standby, up, view, task, source, bootstrapping, result,
                   pgVars, history, faults>>

\* ... and the leader key is taken without a condition.
take_leader(n) ==
    /\ At(n, "take")
    /\ leader' = n
    /\ Goto(n, "load")
    /\ UNCHANGED <<initialize, standby, up, view, task, source, bootstrapping, result,
                   pgVars, history, faults>>

(***************************************************************************)
(* A node with data checks whether it may join.  One of another cluster    *)
(* exits; without a valid key, and without a leader, the node's own        *)
(* identifier is written and the result is ignored.                        *)
(***************************************************************************)
join(n) ==
    /\ Ready(n) /\ ~bootstrapping[n] /\ data[n] # NoData
    /\ IF data[n] = Partial
       THEN Goto(n, "load") /\ UNCHANGED <<dcsVars, up, running, primary>>
       ELSE IF sysid_valid(view[n].initialize) /\ view[n].initialize # data[n]
       THEN /\ up' = [up EXCEPT ![n] = FALSE]
            /\ Server(n, FALSE, FALSE)
            /\ leader' = IF leader = n THEN None ELSE leader
            /\ UNCHANGED <<initialize, pc>>
       ELSE /\ IF ~sysid_valid(view[n].initialize) /\ view[n].leader = None
               THEN Initialize(view[n].initialize = NoKey, data[n])
               ELSE UNCHANGED initialize
            /\ Goto(n, "process")
            /\ UNCHANGED <<leader, up, running, primary>>
    /\ UNCHANGED <<standby, view, task, source, bootstrapping, result, data, history,
                   faults>>

\* recover, or the race for the leader key and its outcome: a summary.
process_cluster(n) ==
    /\ At(n, "process")
    /\ IF ~running[n]
       THEN Server(n, TRUE, FALSE) /\ UNCHANGED leader
       ELSE /\ leader' = IF view[n].leader = None /\ leader = None /\ n \notin NoFailover
                         THEN n ELSE leader
            /\ primary' = [primary EXCEPT ![n] = leader' = n /\ ~standby]
            /\ UNCHANGED running
    /\ Goto(n, "load")
    /\ UNCHANGED <<initialize, standby, up, view, task, source, bootstrapping, result,
                   data, history, faults>>

-----------------------------------------------------------------------------
(* The background work *)

\* _initdb, or the custom bootstrap script: the directory is filled ...
initdb(n) ==
    /\ Working(n, "initdb")
    /\ data' = [data EXCEPT ![n] = Partial]
    /\ Run(n, "fill")
    /\ UNCHANGED <<dcsVars, standby, up, view, pc, source, bootstrapping, result,
                   running, primary, history, faults>>

\* ... and a new system identifier comes last; or the command fails.
fill(n) ==
    /\ Working(n, "fill")
    /\ \/ /\ created < MaxSystems
          /\ created' = created + 1
          /\ data' = [data EXCEPT ![n] = created']
          /\ Run(n, "start")
          /\ UNCHANGED faults
       \/ Fault /\ Run(n, "idle") /\ UNCHANGED <<created, data>>
    /\ UNCHANGED <<dcsVars, standby, up, view, pc, source, bootstrapping, result,
                   running, primary, prepared, cancelled, lost, torn>>

\* Bootstrap.bootstrap ends with the start of the server.
start(n) ==
    /\ Working(n, "start")
    /\ \/ Server(n, TRUE, TRUE) /\ UNCHANGED faults
       \/ Fault /\ UNCHANGED <<running, primary>>
    /\ Run(n, "idle")
    /\ UNCHANGED <<dcsVars, standby, up, view, pc, source, bootstrapping, result, data,
                   history>>

\* Bootstrap.post_bootstrap: the script and the roles.
call_post_bootstrap(n) ==
    /\ Working(n, "post_bootstrap")
    /\ \/ /\ prepared' = prepared \cup {data[n]}
          /\ result' = [result EXCEPT ![n] = "yes"]
          /\ UNCHANGED faults
       \/ Fault /\ result' = [result EXCEPT ![n] = "no"] /\ UNCHANGED prepared
    /\ Run(n, "idle")
    /\ UNCHANGED <<dcsVars, standby, up, view, pc, source, bootstrapping, pgVars,
                   created, cancelled, lost, torn>>

\* basebackup: each of the two attempts begins with an empty directory.
basebackup(n) ==
    /\ \/ Working(n, "clone") /\ Run(n, "copy")
       \/ Working(n, "again") /\ Run(n, "follow")
    /\ data' = [data EXCEPT ![n] = Partial]
    /\ UNCHANGED <<dcsVars, standby, up, view, pc, source, bootstrapping, result,
                   running, primary, history, faults>>

\* A plausible bug: the directory is left as the failed copy has left it.
Abandoned_Partial(n) == Partial

\* Ha.clone removes the directory when the last attempt has failed.
Abandoned(n) == IF task[n] = "copy" THEN Partial ELSE NoData

(***************************************************************************)
(* The end of an attempt, and of Ha.clone: what has been copied is started *)
(* as a replica, or the directory is removed.  The source may have gone,   *)
(* or run another system by now.  Without a source, the remote primary of  *)
(* a standby cluster is copied.                                            *)
(***************************************************************************)
clone(n) ==
    /\ Working(n, "copy") \/ Working(n, "follow")
    /\ LET s == source[n] IN
       \/ /\ s # None => running[s] /\ data[s] \in Systems
          /\ data' = [data EXCEPT ![n] = IF s = None THEN Remote ELSE data[s]]
          /\ Server(n, TRUE, FALSE)
          /\ Run(n, "idle")
          /\ result' = [result EXCEPT ![n] = IF bootstrapping[n] THEN "yes" ELSE @]
          /\ prepared' = IF bootstrapping[n] THEN prepared \cup {Remote} ELSE prepared
          /\ UNCHANGED faults
       \/ /\ IF s # None /\ ~running[s] THEN UNCHANGED faults ELSE Fault
          /\ Run(n, IF task[n] = "copy" THEN "again" ELSE "idle")
          /\ data' = [data EXCEPT ![n] = Abandoned(n)]
          /\ UNCHANGED <<running, primary, result, prepared>>
    /\ UNCHANGED <<dcsVars, standby, up, view, pc, source, bootstrapping, created,
                   cancelled, lost, torn>>

-----------------------------------------------------------------------------
(* The environment *)

(***************************************************************************)
(* Patroni dies, alone or with its server.  The owner of an empty key      *)
(* leaves it behind.                                                       *)
(***************************************************************************)
Crash(n) ==
    /\ up[n] /\ Fault
    /\ up' = [up EXCEPT ![n] = FALSE]
    /\ \/ UNCHANGED <<running, primary>>
       \/ Server(n, FALSE, FALSE)
    /\ lost' = (lost \/ Owner(n))
    /\ torn' = IF data[n] = Partial THEN torn \cup {n} ELSE torn
    /\ UNCHANGED <<dcsVars, standby, view, pc, task, source, bootstrapping, result,
                   data, created, prepared, cancelled>>

Restart(n) ==
    /\ ~up[n]
    /\ up' = [up EXCEPT ![n] = TRUE]
    /\ Goto(n, "load")
    /\ Run(n, "idle")
    /\ bootstrapping' = [bootstrapping EXCEPT ![n] = FALSE]
    /\ result' = [result EXCEPT ![n] = "none"]
    /\ UNCHANGED <<dcsVars, standby, view, source, pgVars, history, faults>>

\* The ttl of the leader key.
Expire ==
    /\ leader # None /\ ~up[leader]
    /\ leader' = None
    /\ UNCHANGED <<initialize, standby, up, view, pc, task, source, bootstrapping,
                   result, pgVars, history, faults>>

Loop(n) ==
    \/ load_cluster_from_dcs(n) \/ run_cycle(n) \/ handle_long_action_in_progress(n)
    \/ post_bootstrap(n) \/ bootstrap(n) \/ initialize_race(n)
    \/ cancel_initialization(n) \/ move_data_directory(n)
    \/ announce(n) \/ take_leader(n) \/ join(n) \/ process_cluster(n)

Worker(n) ==
    \/ initdb(n) \/ fill(n) \/ start(n) \/ call_post_bootstrap(n)
    \/ basebackup(n) \/ clone(n)

Next ==
    \/ \E n \in Nodes : Loop(n) \/ Worker(n) \/ Crash(n) \/ Restart(n)
    \/ Expire

-----------------------------------------------------------------------------
(* Properties *)

Member(n) == running[n] /\ ~bootstrapping[n] /\ pc[n] \notin {"cancel", "clean"}

(***************************************************************************)
(* Nodes that start empty never end up running two systems, whoever        *)
(* crashes, fails or loses answers during the bootstrap; unless one is     *)
(* the remnant of a bootstrap that was given up and whose node crashed     *)
(* before it had moved the data away.                                      *)
(***************************************************************************)
OneSystem ==
    \A n, m \in Nodes :
       Member(n) /\ Member(m) /\ {data[n], data[m]} \cap cancelled = {}
       => data[n] = data[m]

(***************************************************************************)
(* An empty initialize key, which makes every empty node wait, always has  *)
(* a bootstrap behind it: one that fails removes it.                       *)
(***************************************************************************)
FailureFreesKey ==
    initialize = EmptyKey
    => lost \/ \E n \in Nodes : Owner(n)

(***************************************************************************)
(* No cluster gets a leader before post_bootstrap has succeeded on its     *)
(* system, unless a crash during the bootstrap has skipped that.           *)
(***************************************************************************)
LeaderIsPrepared == leader # None => data[leader] \in prepared \/ lost

Settled(n) ==
    \/ ~up[n]
    \/ n \in torn                            \* waits for a reinitialize
    \/ running[n] /\ data[n] = initialize

(***************************************************************************)
(* A cluster forms: there is a leader of the system that the key names,    *)
(* and every node that is up runs it, unless the key has been abandoned,   *)
(* no candidate that is up has the data of that system, or a remnant of a  *)
(* cancelled bootstrap competes with it.                                   *)
(***************************************************************************)
ClusterForms ==
    <>[](\/ lost
         \/ \A n \in Nodes : ~up[n]
         \/ \E n \in Nodes : data[n] \in cancelled
         \/ /\ sysid_valid(initialize)
            /\ \A n \in Nodes : n \notin NoFailover /\ up[n] => data[n] # initialize
         \/ leader # None /\ initialize = data[leader] /\ \A n \in Nodes : Settled(n))

=============================================================================
