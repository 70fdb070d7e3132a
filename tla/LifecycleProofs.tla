-------------------------- MODULE LifecycleProofs --------------------------
(***************************************************************************)
(* Proofs about MCLifecycle, for any number of nodes, systems, signals,    *)
(* clients, requests and faults: what the bootstrap of a cluster, the      *)
(* shutdown of the process, the demotion and the recovery of a server, and *)
(* scheduled restarts keep true. The parts have no state in common, so     *)
(* each has an invariant of its own.                                       *)
(***************************************************************************)
EXTENDS MCLifecycle, FiniteSetTheorems, TLAPS

-----------------------------------------------------------------------------
(* The bootstrap of a cluster *)

(***************************************************************************)
(* The node in charge of the initialize key: it has won the race and has   *)
(* neither announced nor given up its bootstrap yet.                       *)
(***************************************************************************)
InCharge(n) ==
    /\ up[n] /\ pc[n] # "clean"
    /\ bootstrapping[n] \/ pc[n] \in {"announce", "cancel"}

\* The node has the data of a system that nobody has given up.
Kept(n) == data[n] \in Systems \ cancelled

\* The node has the data of a system and will never lose it.
Formed(n) ==
    /\ data[n] \in Systems
    /\ ~bootstrapping[n]
    /\ pc[n] \notin {"race", "announce", "cancel", "clean"}

(***************************************************************************)
(* What the background does goes with what is in the data directory and    *)
(* with how far the HA loop is; a server that runs has the data of a       *)
(* system.                                                                 *)
(***************************************************************************)
WorkInv ==
    \A n \in Nodes :
        /\ task[n] # "idle" => pc[n] \in {"load", "cycle", "dispatch"}
        /\ task[n] \in {"initdb", "fill", "start", "post_bootstrap"} =>
              bootstrapping[n]
        /\ task[n] \in {"initdb", "fill", "start"} => ~standby
        /\ task[n] \in {"initdb", "clone"} => data[n] = NoData
        /\ task[n] \in {"fill", "copy", "again", "follow"} => data[n] = Partial
        /\ task[n] \in {"start", "post_bootstrap"} => data[n] \in Systems
        /\ bootstrapping[n] =>
              pc[n] \in {"load", "cycle", "dispatch", "cancel", "clean"}
        /\ pc[n] = "race" => data[n] = NoData /\ ~running[n]
        /\ pc[n] \in {"announce", "take", "process"} => data[n] \in Systems
        /\ running[n] => data[n] \in Systems
        /\ standby => data[n] \in {NoData, Partial, Remote}

(***************************************************************************)
(* A leader, whoever has read of one, and the source of a clone have the   *)
(* data of a system, for good.                                             *)
(***************************************************************************)
LeaderInv ==
    /\ leader # None => Formed(leader)
    /\ \A n \in Nodes :
          /\ view[n].leader # None => Formed(view[n].leader)
          /\ task[n] \in {"clone", "copy", "again", "follow"} =>
                IF bootstrapping[n] THEN source[n] = None /\ standby
                ELSE source[n] # None /\ Formed(source[n])

(***************************************************************************)
(* At most one node is in charge of the initialize key, which is not free  *)
(* then, and an empty one has such a node, unless a crash has lost it.     *)
(***************************************************************************)
ChargeInv ==
    /\ \A n, m \in Nodes : InCharge(n) /\ InCharge(m) => n = m
    /\ \A n \in Nodes :
          InCharge(n) =>
             /\ initialize # NoKey
             /\ pc[n] # "load" => view[n].initialize # NoKey
    /\ initialize = EmptyKey => lost \/ \E n \in Nodes : InCharge(n)

(***************************************************************************)
(* All data that is kept is of one system; while it is, the key is not     *)
(* free, and nobody else is in charge.                                     *)
(***************************************************************************)
SystemInv ==
    ~standby =>
       /\ \A n, m \in Nodes : Kept(n) /\ Kept(m) => data[n] = data[m]
       /\ \A n \in Nodes : Kept(n) => initialize # NoKey
       /\ \A n, m \in Nodes : InCharge(n) /\ Kept(m) => n = m

(***************************************************************************)
(* Whoever has a system, other than during its own bootstrap, has one that *)
(* is prepared, unless a crash has skipped that.                           *)
(***************************************************************************)
PreparedInv ==
    \A n \in Nodes :
        /\ data[n] \in Systems =>
              lost \/ data[n] \in prepared \/ (up[n] /\ bootstrapping[n])
        /\ up[n] /\ result[n] = "yes" => data[n] \in prepared

BootInv == WorkInv /\ LeaderInv /\ ChargeInv /\ SystemInv /\ PreparedInv

(***************************************************************************)
(* The two bounds are numbers, and the marks that the initialize key and a *)
(* data directory may have are no systems.                                 *)
(***************************************************************************)
LEMMA BootBounds ==
    /\ None \notin Nodes
    /\ MaxSystems \in Nat /\ MaxFaults \in Nat
    /\ NoKey \notin Systems /\ EmptyKey \notin Systems /\ NoKey # EmptyKey
    /\ NoData \notin Systems /\ Partial \notin Systems /\ NoData # Partial
    /\ Remote \in Systems
BY BootstrapAssumption DEF NoKey, EmptyKey, NoData, Partial, Systems, Remote

\* The types of Bootstrap, by part: the DCS, ...
BootKeys ==
    /\ initialize \in Systems \cup {NoKey, EmptyKey}
    /\ leader \in Nodes \cup {None}
    /\ standby \in BOOLEAN
    /\ view \in [Nodes -> [initialize : Systems \cup {NoKey, EmptyKey},
                           leader : Nodes \cup {None}]]

\* ... the steps of the nodes, ...
BootSteps ==
    /\ pc \in [Nodes -> {"load", "cycle", "dispatch", "race", "cancel", "clean",
                         "announce", "take", "process"}]
    /\ task \in [Nodes -> {"idle", "initdb", "fill", "start", "post_bootstrap",
                           "clone", "again", "copy", "follow"}]
    /\ source \in [Nodes -> Nodes \cup {None}]
    /\ result \in [Nodes -> {"none", "yes", "no"}]

\* ... their servers, ...
BootServers ==
    /\ up \in [Nodes -> BOOLEAN] /\ bootstrapping \in [Nodes -> BOOLEAN]
    /\ running \in [Nodes -> BOOLEAN] /\ primary \in [Nodes -> BOOLEAN]

\* ... and their data, and what has happened.
BootData ==
    /\ data \in [Nodes -> Systems \cup {NoData, Partial}]
    /\ created \in 0..MaxSystems
    /\ prepared \subseteq Systems /\ cancelled \subseteq Systems
    /\ lost \in BOOLEAN /\ torn \subseteq Nodes
    /\ faults \in 0..MaxFaults

\* The types, by part.
LEMMA BootParts ==
    /\ TypeOK <=> BootKeys /\ BootSteps /\ BootServers /\ BootData
    /\ TypeOK' <=> BootKeys' /\ BootSteps' /\ BootServers' /\ BootData'
BY DEF TypeOK, BootKeys, BootSteps, BootServers, BootData

\* Faults stay within their bound.
LEMMA FaultType == ASSUME BootData, Fault PROVE faults' \in 0..MaxFaults
BY BootBounds DEF Fault, BootData

(***************************************************************************)
(* The initialize key, the leader key and what a node has read of them     *)
(* stay what they are: only a node that has the data of a system announces *)
(* that system or takes the leader key.                                    *)
(***************************************************************************)
LEMMA KeyStep ==
    TypeOK /\ WorkInv /\ LeaderInv /\ [Next]_vars => BootKeys'
<1> SUFFICES ASSUME TypeOK, WorkInv, LeaderInv, [Next]_vars
             PROVE  BootKeys'
    OBVIOUS
<1> USE BootBounds, BootParts DEF BootKeys, BootSteps, BootServers, BootData,
                                  WorkInv, LeaderInv, Formed
<1>1. ASSUME NEW k \in Nodes, Loop(k) PROVE BootKeys'
  <2>1. CASE load_cluster_from_dcs(k)
    BY <2>1 DEF load_cluster_from_dcs, Goto, At, dcsVars, pgVars, history
  <2>2. CASE run_cycle(k)
    BY <2>2 DEF run_cycle, Initialize, sysid_valid, Goto, At, dcsVars, pgVars,
                history
  <2>3. CASE handle_long_action_in_progress(k)
    BY <2>3 DEF handle_long_action_in_progress, Goto, At, dcsVars, pgVars,
                history
  <2>4. CASE post_bootstrap(k)
    BY <2>4 DEF post_bootstrap, Ready, Finished, Fault, Run, Goto, At,
                dcsVars, pgVars, history
  <2>5. CASE bootstrap(k)
    BY <2>5 DEF bootstrap, Ready, Server, Goto, At, dcsVars, pgVars, history
  <2>6. CASE initialize_race(k)
    BY <2>6 DEF initialize_race, Initialize, Fault, Goto, At, dcsVars, pgVars,
                history
  <2>7. CASE cancel_initialization(k)
    BY <2>7 DEF cancel_initialization, Fault, Goto, At, dcsVars, pgVars,
                history
  <2>8. CASE move_data_directory(k)
    BY <2>8 DEF move_data_directory, Server, Goto, At, dcsVars, pgVars, history
  <2>9. CASE announce(k)
    BY <2>9 DEF announce, Initialize, Goto, At, dcsVars, pgVars, history
  <2>10. CASE take_leader(k)
    BY <2>10 DEF take_leader, Goto, At, dcsVars, pgVars, history
  <2>11. CASE join(k)
    BY <2>11 DEF join, Ready, Initialize, sysid_valid, Server, Goto, At,
                 dcsVars, pgVars, history
  <2>12. CASE process_cluster(k)
    BY <2>12 DEF process_cluster, Server, Goto, At, dcsVars, pgVars, history
  <2>q. QED
    BY <1>1, <2>1, <2>2, <2>3, <2>4, <2>5, <2>6, <2>7, <2>8, <2>9, <2>10,
       <2>11, <2>12 DEF Loop
<1>2. ASSUME NEW k \in Nodes, Worker(k) PROVE BootKeys'
  <2>1. CASE initdb(k)
    BY <2>1 DEF initdb, Working, Run, dcsVars, pgVars, history
  <2>2. CASE fill(k)
    BY <2>2 DEF fill, Working, Run, Fault, dcsVars, pgVars, history
  <2>3. CASE start(k)
    BY <2>3 DEF start, Working, Run, Fault, Server, dcsVars, pgVars, history
  <2>4. CASE call_post_bootstrap(k)
    BY <2>4 DEF call_post_bootstrap, Working, Run, Fault, dcsVars, pgVars,
                history
  <2>5. CASE basebackup(k)
    BY <2>5 DEF basebackup, Working, Run, dcsVars, pgVars, history
  <2>6. CASE clone(k)
    BY <2>6 DEF clone, Working, Run, Fault, Server, Abandoned, dcsVars,
                pgVars, history
  <2>q. QED
    BY <1>2, <2>1, <2>2, <2>3, <2>4, <2>5, <2>6 DEF Worker
<1>3. ASSUME NEW k \in Nodes, Crash(k) PROVE BootKeys'
  BY <1>3 DEF Crash, Fault, Server, Owner, Goto, dcsVars, pgVars, history
<1>4. ASSUME NEW k \in Nodes, Restart(k) PROVE BootKeys'
  BY <1>4 DEF Restart, Run, Goto, dcsVars, pgVars, history
<1>5. CASE Expire
  BY <1>5 DEF Expire, dcsVars, pgVars, history
<1>6. CASE UNCHANGED vars
  BY <1>6 DEF vars, dcsVars, pgVars, history
<1>q. QED
  BY <1>1, <1>2, <1>3, <1>4, <1>5, <1>6 DEF Next

(***************************************************************************)
(* Every step of the HA loop and of the function in the background goes on *)
(* to one that there is.                                                   *)
(***************************************************************************)
LEMMA StepStep ==
    TypeOK /\ [Next]_vars => BootSteps'
<1> SUFFICES ASSUME TypeOK, [Next]_vars
             PROVE  BootSteps'
    OBVIOUS
<1> USE BootBounds, BootParts DEF BootKeys, BootSteps, BootServers, BootData
<1>1. ASSUME NEW k \in Nodes, Loop(k) PROVE BootSteps'
  <2>1. CASE load_cluster_from_dcs(k)
    BY <2>1 DEF load_cluster_from_dcs, Goto, At, dcsVars, pgVars, history
  <2>2. CASE run_cycle(k)
    BY <2>2 DEF run_cycle, Initialize, sysid_valid, Goto, At, dcsVars, pgVars,
                history
  <2>3. CASE handle_long_action_in_progress(k)
    BY <2>3 DEF handle_long_action_in_progress, Goto, At, dcsVars, pgVars,
                history
  <2>4. CASE post_bootstrap(k)
    BY SMTT(60), <2>4 DEF post_bootstrap, Ready, Finished, Fault, Run, Goto, At,
                dcsVars, pgVars, history
  <2>5. CASE bootstrap(k)
    BY <2>5 DEF bootstrap, Ready, Server, Goto, At, dcsVars, pgVars, history
  <2>6. CASE initialize_race(k)
    BY SMTT(90), <2>6 DEF initialize_race, Initialize, Fault, Goto, At, dcsVars, pgVars,
                history
  <2>7. CASE cancel_initialization(k)
    BY <2>7 DEF cancel_initialization, Fault, Goto, At, dcsVars, pgVars,
                history
  <2>8. CASE move_data_directory(k)
    BY <2>8 DEF move_data_directory, Server, Goto, At, dcsVars, pgVars, history
  <2>9. CASE announce(k)
    BY <2>9 DEF announce, Initialize, Goto, At, dcsVars, pgVars, history
  <2>10. CASE take_leader(k)
    BY <2>10 DEF take_leader, Goto, At, dcsVars, pgVars, history
  <2>11. CASE join(k)
    BY <2>11 DEF join, Ready, Initialize, sysid_valid, Server, Goto, At,
                 dcsVars, pgVars, history
  <2>12. CASE process_cluster(k)
    BY <2>12 DEF process_cluster, Server, Goto, At, dcsVars, pgVars, history
  <2>q. QED
    BY <1>1, <2>1, <2>2, <2>3, <2>4, <2>5, <2>6, <2>7, <2>8, <2>9, <2>10,
       <2>11, <2>12 DEF Loop
<1>2. ASSUME NEW k \in Nodes, Worker(k) PROVE BootSteps'
  <2>1. CASE initdb(k)
    BY <2>1 DEF initdb, Working, Run, dcsVars, pgVars, history
  <2>2. CASE fill(k)
    BY <2>2 DEF fill, Working, Run, Fault, dcsVars, pgVars, history
  <2>3. CASE start(k)
    BY <2>3 DEF start, Working, Run, Fault, Server, dcsVars, pgVars, history
  <2>4. CASE call_post_bootstrap(k)
    BY <2>4 DEF call_post_bootstrap, Working, Run, Fault, dcsVars, pgVars,
                history
  <2>5. CASE basebackup(k)
    BY <2>5 DEF basebackup, Working, Run, dcsVars, pgVars, history
  <2>6. CASE clone(k)
    BY SMTT(90), <2>6 DEF clone, Working, Run, Fault, Server, Abandoned, dcsVars,
                pgVars, history
  <2>q. QED
    BY <1>2, <2>1, <2>2, <2>3, <2>4, <2>5, <2>6 DEF Worker
<1>3. ASSUME NEW k \in Nodes, Crash(k) PROVE BootSteps'
  BY <1>3 DEF Crash, Fault, Server, Owner, Goto, dcsVars, pgVars, history
<1>4. ASSUME NEW k \in Nodes, Restart(k) PROVE BootSteps'
  BY <1>4 DEF Restart, Run, Goto, dcsVars, pgVars, history
<1>5. CASE Expire
  BY <1>5 DEF Expire, dcsVars, pgVars, history
<1>6. CASE UNCHANGED vars
  BY <1>6 DEF vars, dcsVars, pgVars, history
<1>q. QED
  BY <1>1, <1>2, <1>3, <1>4, <1>5, <1>6 DEF Next

\* What is known of the servers stays Boolean.
LEMMA ServerStep ==
    TypeOK /\ [Next]_vars => BootServers'
<1> SUFFICES ASSUME TypeOK, [Next]_vars
             PROVE  BootServers'
    OBVIOUS
<1> USE BootBounds, BootParts DEF BootKeys, BootSteps, BootServers, BootData
<1>1. ASSUME NEW k \in Nodes, Loop(k) PROVE BootServers'
  <2>1. CASE load_cluster_from_dcs(k)
    BY <2>1 DEF load_cluster_from_dcs, Goto, At, dcsVars, pgVars, history
  <2>2. CASE run_cycle(k)
    BY <2>2 DEF run_cycle, Initialize, sysid_valid, Goto, At, dcsVars, pgVars,
                history
  <2>3. CASE handle_long_action_in_progress(k)
    BY <2>3 DEF handle_long_action_in_progress, Goto, At, dcsVars, pgVars,
                history
  <2>4. CASE post_bootstrap(k)
    BY <2>4 DEF post_bootstrap, Ready, Finished, Fault, Run, Goto, At,
                dcsVars, pgVars, history
  <2>5. CASE bootstrap(k)
    BY <2>5 DEF bootstrap, Ready, Server, Goto, At, dcsVars, pgVars, history
  <2>6. CASE initialize_race(k)
    BY <2>6 DEF initialize_race, Initialize, Fault, Goto, At, dcsVars, pgVars,
                history
  <2>7. CASE cancel_initialization(k)
    BY <2>7 DEF cancel_initialization, Fault, Goto, At, dcsVars, pgVars,
                history
  <2>8. CASE move_data_directory(k)
    BY <2>8 DEF move_data_directory, Server, Goto, At, dcsVars, pgVars, history
  <2>9. CASE announce(k)
    BY <2>9 DEF announce, Initialize, Goto, At, dcsVars, pgVars, history
  <2>10. CASE take_leader(k)
    BY <2>10 DEF take_leader, Goto, At, dcsVars, pgVars, history
  <2>11. CASE join(k)
    BY <2>11 DEF join, Ready, Initialize, sysid_valid, Server, Goto, At,
                 dcsVars, pgVars, history
  <2>12. CASE process_cluster(k)
    BY <2>12 DEF process_cluster, Server, Goto, At, dcsVars, pgVars, history
  <2>q. QED
    BY <1>1, <2>1, <2>2, <2>3, <2>4, <2>5, <2>6, <2>7, <2>8, <2>9, <2>10,
       <2>11, <2>12 DEF Loop
<1>2. ASSUME NEW k \in Nodes, Worker(k) PROVE BootServers'
  <2>1. CASE initdb(k)
    BY <2>1 DEF initdb, Working, Run, dcsVars, pgVars, history
  <2>2. CASE fill(k)
    BY <2>2 DEF fill, Working, Run, Fault, dcsVars, pgVars, history
  <2>3. CASE start(k)
    BY <2>3 DEF start, Working, Run, Fault, Server, dcsVars, pgVars, history
  <2>4. CASE call_post_bootstrap(k)
    BY <2>4 DEF call_post_bootstrap, Working, Run, Fault, dcsVars, pgVars,
                history
  <2>5. CASE basebackup(k)
    BY <2>5 DEF basebackup, Working, Run, dcsVars, pgVars, history
  <2>6. CASE clone(k)
    BY ZenonT(90), <2>6 DEF clone, Working, Run, Fault, Server, Abandoned, dcsVars,
                pgVars, history
  <2>q. QED
    BY <1>2, <2>1, <2>2, <2>3, <2>4, <2>5, <2>6 DEF Worker
<1>3. ASSUME NEW k \in Nodes, Crash(k) PROVE BootServers'
  BY <1>3 DEF Crash, Fault, Server, Owner, Goto, dcsVars, pgVars, history
<1>4. ASSUME NEW k \in Nodes, Restart(k) PROVE BootServers'
  BY <1>4 DEF Restart, Run, Goto, dcsVars, pgVars, history
<1>5. CASE Expire
  BY <1>5 DEF Expire, dcsVars, pgVars, history
<1>6. CASE UNCHANGED vars
  BY <1>6 DEF vars, dcsVars, pgVars, history
<1>q. QED
  BY <1>1, <1>2, <1>3, <1>4, <1>5, <1>6 DEF Next

(***************************************************************************)
(* A new system gets a number within the bound, and a clone the system of  *)
(* its source.                                                             *)
(***************************************************************************)
LEMMA DataStep ==
    TypeOK /\ WorkInv /\ LeaderInv /\ [Next]_vars => BootData'
<1> SUFFICES ASSUME TypeOK, WorkInv, LeaderInv, [Next]_vars
             PROVE  BootData'
    OBVIOUS
<1> USE BootBounds, BootParts, FaultType DEF BootKeys, BootSteps, BootServers,
        BootData, WorkInv, LeaderInv, Formed
<1>1. ASSUME NEW k \in Nodes, Loop(k) PROVE BootData'
  <2>1. CASE load_cluster_from_dcs(k)
    BY <2>1 DEF load_cluster_from_dcs, Goto, At, dcsVars, pgVars, history
  <2>2. CASE run_cycle(k)
    BY <2>2 DEF run_cycle, Initialize, sysid_valid, Goto, At, dcsVars, pgVars,
                history
  <2>3. CASE handle_long_action_in_progress(k)
    BY <2>3 DEF handle_long_action_in_progress, Goto, At, dcsVars, pgVars,
                history
  <2>4. CASE post_bootstrap(k)
    BY <2>4 DEF post_bootstrap, Ready, Finished, Fault, Run, Goto, At,
                dcsVars, pgVars, history
  <2>5. CASE bootstrap(k)
    BY <2>5 DEF bootstrap, Ready, Server, Goto, At, dcsVars, pgVars, history
  <2>6. CASE initialize_race(k)
    BY ZenonT(90), <2>6 DEF initialize_race, Initialize, Fault, Goto, At, dcsVars, pgVars,
                history
  <2>7. CASE cancel_initialization(k)
    BY <2>7 DEF cancel_initialization, Fault, Goto, At, dcsVars, pgVars,
                history
  <2>8. CASE move_data_directory(k)
    BY <2>8 DEF move_data_directory, Server, Goto, At, dcsVars, pgVars, history
  <2>9. CASE announce(k)
    BY <2>9 DEF announce, Initialize, Goto, At, dcsVars, pgVars, history
  <2>10. CASE take_leader(k)
    BY <2>10 DEF take_leader, Goto, At, dcsVars, pgVars, history
  <2>11. CASE join(k)
    BY <2>11 DEF join, Ready, Initialize, sysid_valid, Server, Goto, At,
                 dcsVars, pgVars, history
  <2>12. CASE process_cluster(k)
    BY <2>12 DEF process_cluster, Server, Goto, At, dcsVars, pgVars, history
  <2>q. QED
    BY <1>1, <2>1, <2>2, <2>3, <2>4, <2>5, <2>6, <2>7, <2>8, <2>9, <2>10,
       <2>11, <2>12 DEF Loop
<1>2. ASSUME NEW k \in Nodes, Worker(k) PROVE BootData'
  <2>1. CASE initdb(k)
    BY <2>1 DEF initdb, Working, Run, dcsVars, pgVars, history
  <2>2. CASE fill(k)
    <3>1. \/ created + 1 \in Systems /\ created + 1 \in 0..MaxSystems
          \/ UNCHANGED <<created, data>>
      BY <2>2 DEF fill, Systems, Remote
    <3>q. QED
      BY <2>2, <3>1 DEF fill, Working, Run, Fault, dcsVars, pgVars, history
  <2>3. CASE start(k)
    BY <2>3 DEF start, Working, Run, Fault, Server, dcsVars, pgVars, history
  <2>4. CASE call_post_bootstrap(k)
    BY <2>4 DEF call_post_bootstrap, Working, Run, Fault, dcsVars, pgVars,
                history
  <2>5. CASE basebackup(k)
    BY <2>5 DEF basebackup, Working, Run, dcsVars, pgVars, history
  <2>6. CASE clone(k)
    <3>1. /\ task[k] \in {"copy", "follow"}
          /\ pc[k] \in {"load", "cycle", "dispatch"}
      BY <2>6 DEF clone, Working
    <3>2. CASE data' = [data EXCEPT ![k] = Abandoned(k)]
      BY <2>6, <3>1, <3>2 DEF clone, Working, Run, Fault, Server, Abandoned,
                              dcsVars, pgVars, history
    <3>3. CASE data' # [data EXCEPT ![k] = Abandoned(k)]
      <4>1. /\ source[k] # None => data[source[k]] \in Systems
            /\ data' = [data EXCEPT ![k] = IF source[k] = None THEN Remote
                                           ELSE data[source[k]]]
            /\ task' = [task EXCEPT ![k] = "idle"]
        BY <2>6, <3>1, <3>3 DEF clone, Run
      <4>q. QED
        BY <2>6, <3>1, <4>1 DEF clone, Working, Run, Fault, Server, Abandoned,
                                dcsVars, pgVars, history
    <3>q. QED
      BY <3>2, <3>3
  <2>q. QED
    BY <1>2, <2>1, <2>2, <2>3, <2>4, <2>5, <2>6 DEF Worker
<1>3. ASSUME NEW k \in Nodes, Crash(k) PROVE BootData'
  BY <1>3 DEF Crash, Fault, Server, Owner, Goto, dcsVars, pgVars, history
<1>4. ASSUME NEW k \in Nodes, Restart(k) PROVE BootData'
  BY <1>4 DEF Restart, Run, Goto, dcsVars, pgVars, history
<1>5. CASE Expire
  BY <1>5 DEF Expire, dcsVars, pgVars, history
<1>6. CASE UNCHANGED vars
  BY <1>6 DEF vars, dcsVars, pgVars, history
<1>q. QED
  BY <1>1, <1>2, <1>3, <1>4, <1>5, <1>6 DEF Next

(***************************************************************************)
(* Every step keeps in order what the background does, what is in the data *)
(* directory, and how far the HA loop is.                                  *)
(***************************************************************************)
LEMMA WorkStep ==
    TypeOK /\ WorkInv /\ LeaderInv /\ [Next]_vars => WorkInv'
<1> SUFFICES ASSUME TypeOK, WorkInv, LeaderInv, [Next]_vars
             PROVE  WorkInv'
    OBVIOUS
<1> USE BootBounds, BootParts DEF BootKeys, BootSteps, BootServers, BootData,
                                  WorkInv, LeaderInv, Formed
<1>1. ASSUME NEW k \in Nodes, Loop(k) PROVE WorkInv'
  <2>1. CASE load_cluster_from_dcs(k)
    BY <2>1 DEF load_cluster_from_dcs, Goto, At, dcsVars, pgVars, history
  <2>2. CASE run_cycle(k)
    BY <2>2 DEF run_cycle, Initialize, sysid_valid, Goto, At, dcsVars, pgVars,
                history
  <2>3. CASE handle_long_action_in_progress(k)
    BY <2>3 DEF handle_long_action_in_progress, Goto, At, dcsVars, pgVars,
                history
  <2>4. CASE post_bootstrap(k)
    BY <2>4 DEF post_bootstrap, Ready, Finished, Fault, Run, Goto, At,
                dcsVars, pgVars, history
  <2>5. CASE bootstrap(k)
    BY <2>5 DEF bootstrap, Ready, Server, Goto, At, dcsVars, pgVars, history
  <2>6. CASE initialize_race(k)
    BY <2>6 DEF initialize_race, Initialize, Fault, Goto, At, dcsVars, pgVars,
                history
  <2>7. CASE cancel_initialization(k)
    BY <2>7 DEF cancel_initialization, Fault, Goto, At, dcsVars, pgVars,
                history
  <2>8. CASE move_data_directory(k)
    BY <2>8 DEF move_data_directory, Server, Goto, At, dcsVars, pgVars, history
  <2>9. CASE announce(k)
    BY <2>9 DEF announce, Initialize, Goto, At, dcsVars, pgVars, history
  <2>10. CASE take_leader(k)
    BY <2>10 DEF take_leader, Goto, At, dcsVars, pgVars, history
  <2>11. CASE join(k)
    BY <2>11 DEF join, Ready, Initialize, sysid_valid, Server, Goto, At,
                 dcsVars, pgVars, history
  <2>12. CASE process_cluster(k)
    BY <2>12 DEF process_cluster, Server, Goto, At, dcsVars, pgVars, history
  <2>q. QED
    BY <1>1, <2>1, <2>2, <2>3, <2>4, <2>5, <2>6, <2>7, <2>8, <2>9, <2>10,
       <2>11, <2>12 DEF Loop
<1>2. ASSUME NEW k \in Nodes, Worker(k) PROVE WorkInv'
  <2>1. CASE initdb(k)
    BY <2>1 DEF initdb, Working, Run, dcsVars, pgVars, history
  <2>2. CASE fill(k)
    <3>1. \/ created + 1 \in Systems /\ created + 1 \in 0..MaxSystems
          \/ UNCHANGED <<created, data>>
      BY <2>2 DEF fill, Systems, Remote
    <3>q. QED
      BY <2>2, <3>1 DEF fill, Working, Run, Fault, dcsVars, pgVars, history
  <2>3. CASE start(k)
    BY <2>3 DEF start, Working, Run, Fault, Server, dcsVars, pgVars, history
  <2>4. CASE call_post_bootstrap(k)
    BY <2>4 DEF call_post_bootstrap, Working, Run, Fault, dcsVars, pgVars,
                history
  <2>5. CASE basebackup(k)
    BY <2>5 DEF basebackup, Working, Run, dcsVars, pgVars, history
  <2>6. CASE clone(k)
    <3>1. /\ task[k] \in {"copy", "follow"}
          /\ pc[k] \in {"load", "cycle", "dispatch"}
      BY <2>6 DEF clone, Working
    <3>2. CASE data' = [data EXCEPT ![k] = Abandoned(k)]
      BY <2>6, <3>1, <3>2 DEF clone, Working, Run, Fault, Server, Abandoned,
                              dcsVars, pgVars, history
    <3>3. CASE data' # [data EXCEPT ![k] = Abandoned(k)]
      <4>1. /\ source[k] # None => data[source[k]] \in Systems
            /\ data' = [data EXCEPT ![k] = IF source[k] = None THEN Remote
                                           ELSE data[source[k]]]
            /\ task' = [task EXCEPT ![k] = "idle"]
        BY <2>6, <3>1, <3>3 DEF clone, Run
      <4>q. QED
        BY <2>6, <3>1, <4>1 DEF clone, Working, Run, Fault, Server, Abandoned,
                                dcsVars, pgVars, history
    <3>q. QED
      BY <3>2, <3>3
  <2>q. QED
    BY <1>2, <2>1, <2>2, <2>3, <2>4, <2>5, <2>6 DEF Worker
<1>3. ASSUME NEW k \in Nodes, Crash(k) PROVE WorkInv'
  BY <1>3 DEF Crash, Fault, Server, Owner, Goto, dcsVars, pgVars, history
<1>4. ASSUME NEW k \in Nodes, Restart(k) PROVE WorkInv'
  BY <1>4 DEF Restart, Run, Goto, dcsVars, pgVars, history
<1>5. CASE Expire
  BY <1>5 DEF Expire, dcsVars, pgVars, history
<1>6. CASE UNCHANGED vars
  BY <1>6 DEF vars, dcsVars, pgVars, history
<1>q. QED
  BY <1>1, <1>2, <1>3, <1>4, <1>5, <1>6 DEF Next

(***************************************************************************)
(* Every step leaves a leader, and a node that others clone from, with the *)
(* data it has; what a node has read of an older leader stays true in      *)
(* this.                                                                   *)
(***************************************************************************)
LEMMA LeaderStep ==
    TypeOK /\ WorkInv /\ LeaderInv /\ [Next]_vars => LeaderInv'
<1> SUFFICES ASSUME TypeOK, WorkInv, LeaderInv, [Next]_vars
             PROVE  LeaderInv'
    OBVIOUS
<1> USE BootBounds, BootParts DEF BootKeys, BootSteps, BootServers, BootData,
                                  WorkInv, LeaderInv, Formed
<1>1. ASSUME NEW k \in Nodes, Loop(k) PROVE LeaderInv'
  <2>1. CASE load_cluster_from_dcs(k)
    BY <2>1 DEF load_cluster_from_dcs, Goto, At, dcsVars, pgVars, history
  <2>2. CASE run_cycle(k)
    BY <2>2 DEF run_cycle, Initialize, sysid_valid, Goto, At, dcsVars, pgVars,
                history
  <2>3. CASE handle_long_action_in_progress(k)
    BY <2>3 DEF handle_long_action_in_progress, Goto, At, dcsVars, pgVars,
                history
  <2>4. CASE post_bootstrap(k)
    BY <2>4 DEF post_bootstrap, Ready, Finished, Fault, Run, Goto, At,
                dcsVars, pgVars, history
  <2>5. CASE bootstrap(k)
    BY <2>5 DEF bootstrap, Ready, Server, Goto, At, dcsVars, pgVars, history
  <2>6. CASE initialize_race(k)
    BY <2>6 DEF initialize_race, Initialize, Fault, Goto, At, dcsVars, pgVars,
                history
  <2>7. CASE cancel_initialization(k)
    BY <2>7 DEF cancel_initialization, Fault, Goto, At, dcsVars, pgVars,
                history
  <2>8. CASE move_data_directory(k)
    BY <2>8 DEF move_data_directory, Server, Goto, At, dcsVars, pgVars, history
  <2>9. CASE announce(k)
    BY <2>9 DEF announce, Initialize, Goto, At, dcsVars, pgVars, history
  <2>10. CASE take_leader(k)
    BY <2>10 DEF take_leader, Goto, At, dcsVars, pgVars, history
  <2>11. CASE join(k)
    BY <2>11 DEF join, Ready, Initialize, sysid_valid, Server, Goto, At,
                 dcsVars, pgVars, history
  <2>12. CASE process_cluster(k)
    BY <2>12 DEF process_cluster, Server, Goto, At, dcsVars, pgVars, history
  <2>q. QED
    BY <1>1, <2>1, <2>2, <2>3, <2>4, <2>5, <2>6, <2>7, <2>8, <2>9, <2>10,
       <2>11, <2>12 DEF Loop
<1>2. ASSUME NEW k \in Nodes, Worker(k) PROVE LeaderInv'
  <2>1. CASE initdb(k)
    BY <2>1 DEF initdb, Working, Run, dcsVars, pgVars, history
  <2>2. CASE fill(k)
    BY <2>2 DEF fill, Working, Run, Fault, dcsVars, pgVars, history
  <2>3. CASE start(k)
    BY <2>3 DEF start, Working, Run, Fault, Server, dcsVars, pgVars, history
  <2>4. CASE call_post_bootstrap(k)
    BY <2>4 DEF call_post_bootstrap, Working, Run, Fault, dcsVars, pgVars,
                history
  <2>5. CASE basebackup(k)
    BY <2>5 DEF basebackup, Working, Run, dcsVars, pgVars, history
  <2>6. CASE clone(k)
    <3>1. /\ task[k] \in {"copy", "follow"}
          /\ pc[k] \in {"load", "cycle", "dispatch"}
      BY <2>6 DEF clone, Working
    <3>2. CASE data' = [data EXCEPT ![k] = Abandoned(k)]
      BY <2>6, <3>1, <3>2 DEF clone, Working, Run, Fault, Server, Abandoned,
                              dcsVars, pgVars, history
    <3>3. CASE data' # [data EXCEPT ![k] = Abandoned(k)]
      <4>1. /\ source[k] # None => data[source[k]] \in Systems
            /\ data' = [data EXCEPT ![k] = IF source[k] = None THEN Remote
                                           ELSE data[source[k]]]
            /\ task' = [task EXCEPT ![k] = "idle"]
        BY <2>6, <3>1, <3>3 DEF clone, Run
      <4>q. QED
        BY <2>6, <3>1, <4>1 DEF clone, Working, Run, Fault, Server, Abandoned,
                                dcsVars, pgVars, history
    <3>q. QED
      BY <3>2, <3>3
  <2>q. QED
    BY <1>2, <2>1, <2>2, <2>3, <2>4, <2>5, <2>6 DEF Worker
<1>3. ASSUME NEW k \in Nodes, Crash(k) PROVE LeaderInv'
  BY <1>3 DEF Crash, Fault, Server, Owner, Goto, dcsVars, pgVars, history
<1>4. ASSUME NEW k \in Nodes, Restart(k) PROVE LeaderInv'
  BY <1>4 DEF Restart, Run, Goto, dcsVars, pgVars, history
<1>5. CASE Expire
  BY <1>5 DEF Expire, dcsVars, pgVars, history
<1>6. CASE UNCHANGED vars
  BY <1>6 DEF vars, dcsVars, pgVars, history
<1>q. QED
  BY <1>1, <1>2, <1>3, <1>4, <1>5, <1>6 DEF Next

(***************************************************************************)
(* The race for the initialize key has one winner, which stays in charge   *)
(* until it has announced its system or removed the key.                   *)
(***************************************************************************)
LEMMA ChargeStep ==
    TypeOK /\ WorkInv /\ LeaderInv /\ ChargeInv /\ [Next]_vars => ChargeInv'
<1> SUFFICES ASSUME TypeOK, WorkInv, LeaderInv, ChargeInv, [Next]_vars
             PROVE  ChargeInv'
    OBVIOUS
<1> USE BootBounds, BootParts DEF BootKeys, BootSteps, BootServers, BootData,
                                  WorkInv, ChargeInv, InCharge
<1>1. ASSUME NEW k \in Nodes, Loop(k) PROVE ChargeInv'
  <2>1. CASE load_cluster_from_dcs(k)
    BY <2>1 DEF load_cluster_from_dcs, Goto, At, dcsVars, pgVars, history
  <2>2. CASE run_cycle(k)
    BY <2>2 DEF LeaderInv, Formed, run_cycle, Initialize, sysid_valid, Goto,
                At, dcsVars, pgVars, history
  <2>3. CASE handle_long_action_in_progress(k)
    BY <2>3 DEF handle_long_action_in_progress, Goto, At, dcsVars, pgVars,
                history
  <2>4. CASE post_bootstrap(k)
    <3>1. /\ up[k] /\ pc[k] = "dispatch" /\ bootstrapping[k]
          /\ UNCHANGED <<initialize, view, lost, up>>
      BY <2>4 DEF post_bootstrap, Ready, Finished, Fault, Run, Goto, At,
                  dcsVars, pgVars, history
    <3>2. \/ /\ pc' \in {[pc EXCEPT ![k] = "cancel"], [pc EXCEPT ![k] = "load"]}
             /\ UNCHANGED bootstrapping
          \/ /\ pc' \in {[pc EXCEPT ![k] = "cancel"],
                         [pc EXCEPT ![k] = "announce"]}
             /\ bootstrapping' = [bootstrapping EXCEPT ![k] = FALSE]
      BY <2>4 DEF post_bootstrap, Ready, Finished, Fault, Run, Goto, At,
                  dcsVars, pgVars, history
    <3>3. \A n \in Nodes : InCharge(n)' <=> InCharge(n)
      BY <3>1, <3>2
    <3>q. QED
      BY <3>1, <3>2, <3>3
  <2>5. CASE bootstrap(k)
    BY <2>5 DEF bootstrap, Ready, Server, Goto, At, dcsVars, pgVars, history
  <2>6. CASE initialize_race(k)
    BY <2>6 DEF initialize_race, Initialize, Fault, Goto, At, dcsVars, pgVars,
                history
  <2>7. CASE cancel_initialization(k)
    BY <2>7 DEF cancel_initialization, Fault, Goto, At, dcsVars, pgVars,
                history
  <2>8. CASE move_data_directory(k)
    BY <2>8 DEF move_data_directory, Server, Goto, At, dcsVars, pgVars, history
  <2>9. CASE announce(k)
    BY <2>9 DEF announce, Initialize, Goto, At, dcsVars, pgVars, history
  <2>10. CASE take_leader(k)
    BY <2>10 DEF take_leader, Goto, At, dcsVars, pgVars, history
  <2>11. CASE join(k)
    <3>1. /\ pc[k] = "dispatch" /\ ~bootstrapping[k]
          /\ UNCHANGED <<bootstrapping, view, lost>>
      BY <2>11 DEF join, Ready, Initialize, sysid_valid, Server, Goto, At,
                   dcsVars, pgVars, history
    <3>2. initialize' = initialize \/ initialize' \in Systems
      BY <2>11 DEF join, Ready, Initialize, sysid_valid, Server, Goto, At,
                   dcsVars, pgVars, history
    <3>3. /\ pc' \in {pc, [pc EXCEPT ![k] = "load"], [pc EXCEPT ![k] = "process"]}
          /\ up' \in {up, [up EXCEPT ![k] = FALSE]}
      BY <2>11 DEF join, Ready, Initialize, sysid_valid, Server, Goto, At,
                   dcsVars, pgVars, history
    <3>4. \A n \in Nodes : InCharge(n)' <=> InCharge(n)
      BY <3>1, <3>3
    <3>q. QED
      BY <3>1, <3>2, <3>3, <3>4
  <2>12. CASE process_cluster(k)
    BY <2>12 DEF process_cluster, Server, Goto, At, dcsVars, pgVars, history
  <2>q. QED
    BY <1>1, <2>1, <2>2, <2>3, <2>4, <2>5, <2>6, <2>7, <2>8, <2>9, <2>10,
       <2>11, <2>12 DEF Loop
<1>2. ASSUME NEW k \in Nodes, Worker(k) PROVE ChargeInv'
  <2>1. CASE initdb(k)
    BY <2>1 DEF initdb, Working, Run, dcsVars, pgVars, history
  <2>2. CASE fill(k)
    BY <2>2 DEF fill, Working, Run, Fault, dcsVars, pgVars, history
  <2>3. CASE start(k)
    BY <2>3 DEF start, Working, Run, Fault, Server, dcsVars, pgVars, history
  <2>4. CASE call_post_bootstrap(k)
    BY <2>4 DEF call_post_bootstrap, Working, Run, Fault, dcsVars, pgVars,
                history
  <2>5. CASE basebackup(k)
    BY <2>5 DEF basebackup, Working, Run, dcsVars, pgVars, history
  <2>6. CASE clone(k)
    BY <2>6 DEF clone, Working, Run, Fault, Server, Abandoned, dcsVars,
                pgVars, history
  <2>q. QED
    BY <1>2, <2>1, <2>2, <2>3, <2>4, <2>5, <2>6 DEF Worker
<1>3. ASSUME NEW k \in Nodes, Crash(k) PROVE ChargeInv'
  BY <1>3 DEF Crash, Fault, Server, Owner, Goto, dcsVars, pgVars, history
<1>4. ASSUME NEW k \in Nodes, Restart(k) PROVE ChargeInv'
  BY <1>4 DEF Restart, Run, Goto, dcsVars, pgVars, history
<1>5. CASE Expire
  BY <1>5 DEF Expire, dcsVars, pgVars, history
<1>6. CASE UNCHANGED vars
  BY <1>6 DEF vars, dcsVars, pgVars, history
<1>q. QED
  BY <1>1, <1>2, <1>3, <1>4, <1>5, <1>6 DEF Next

(***************************************************************************)
(* No node makes a second system while one is kept: the key is only free   *)
(* when nobody keeps one.                                                  *)
(***************************************************************************)
LEMMA SystemStep ==
    TypeOK /\ WorkInv /\ LeaderInv /\ ChargeInv /\ SystemInv /\ [Next]_vars
        => SystemInv'
<1> SUFFICES ASSUME TypeOK, WorkInv, LeaderInv, ChargeInv, SystemInv,
                    [Next]_vars
             PROVE  SystemInv'
    OBVIOUS
<1> USE BootBounds, BootParts DEF BootKeys, BootSteps, BootServers, BootData,
                                  WorkInv, LeaderInv, Formed, ChargeInv,
                                  InCharge, SystemInv, Kept
<1>1. ASSUME NEW k \in Nodes, Loop(k) PROVE SystemInv'
  <2>1. CASE load_cluster_from_dcs(k)
    BY <2>1 DEF load_cluster_from_dcs, Goto, At, dcsVars, pgVars, history
  <2>2. CASE run_cycle(k)
    BY <2>2 DEF run_cycle, Initialize, sysid_valid, Goto, At, dcsVars, pgVars,
                history
  <2>3. CASE handle_long_action_in_progress(k)
    BY <2>3 DEF handle_long_action_in_progress, Goto, At, dcsVars, pgVars,
                history
  <2>4. CASE post_bootstrap(k)
    BY <2>4 DEF post_bootstrap, Ready, Finished, Fault, Run, Goto, At,
                dcsVars, pgVars, history
  <2>5. CASE bootstrap(k)
    BY <2>5 DEF bootstrap, Ready, Server, Goto, At, dcsVars, pgVars, history
  <2>6. CASE initialize_race(k)
    BY <2>6 DEF initialize_race, Initialize, Fault, Goto, At, dcsVars, pgVars,
                history
  <2>7. CASE cancel_initialization(k)
    BY <2>7 DEF cancel_initialization, Fault, Goto, At, dcsVars, pgVars,
                history
  <2>8. CASE move_data_directory(k)
    BY <2>8 DEF move_data_directory, Server, Goto, At, dcsVars, pgVars, history
  <2>9. CASE announce(k)
    BY <2>9 DEF announce, Initialize, Goto, At, dcsVars, pgVars, history
  <2>10. CASE take_leader(k)
    BY <2>10 DEF take_leader, Goto, At, dcsVars, pgVars, history
  <2>11. CASE join(k)
    BY <2>11 DEF join, Ready, Initialize, sysid_valid, Server, Goto, At,
                 dcsVars, pgVars, history
  <2>12. CASE process_cluster(k)
    BY <2>12 DEF process_cluster, Server, Goto, At, dcsVars, pgVars, history
  <2>q. QED
    BY <1>1, <2>1, <2>2, <2>3, <2>4, <2>5, <2>6, <2>7, <2>8, <2>9, <2>10,
       <2>11, <2>12 DEF Loop
<1>2. ASSUME NEW k \in Nodes, Worker(k) PROVE SystemInv'
  <2>1. CASE initdb(k)
    BY <2>1 DEF initdb, Working, Run, dcsVars, pgVars, history
  <2>2. CASE fill(k)
    <3>1. \/ created + 1 \in Systems /\ created + 1 \in 0..MaxSystems
          \/ UNCHANGED <<created, data>>
      BY <2>2 DEF fill, Systems, Remote
    <3>q. QED
      BY SMTT(90), <2>2, <3>1 DEF fill, Working, Run, Fault, dcsVars, pgVars, history
  <2>3. CASE start(k)
    BY <2>3 DEF start, Working, Run, Fault, Server, dcsVars, pgVars, history
  <2>4. CASE call_post_bootstrap(k)
    BY <2>4 DEF call_post_bootstrap, Working, Run, Fault, dcsVars, pgVars,
                history
  <2>5. CASE basebackup(k)
    BY <2>5 DEF basebackup, Working, Run, dcsVars, pgVars, history
  <2>6. CASE clone(k)
    <3>1. /\ task[k] \in {"copy", "follow"}
          /\ pc[k] \in {"load", "cycle", "dispatch"}
      BY <2>6 DEF clone, Working
    <3>2. CASE data' = [data EXCEPT ![k] = Abandoned(k)]
      BY <2>6, <3>1, <3>2 DEF clone, Working, Run, Fault, Server, Abandoned,
                              dcsVars, pgVars, history
    <3>3. CASE data' # [data EXCEPT ![k] = Abandoned(k)]
      <4>1. /\ source[k] # None => data[source[k]] \in Systems
            /\ data' = [data EXCEPT ![k] = IF source[k] = None THEN Remote
                                           ELSE data[source[k]]]
            /\ task' = [task EXCEPT ![k] = "idle"]
        BY <2>6, <3>1, <3>3 DEF clone, Run
      <4>q. QED
        BY <2>6, <3>1, <4>1 DEF clone, Working, Run, Fault, Server, Abandoned,
                                dcsVars, pgVars, history
    <3>q. QED
      BY <3>2, <3>3
  <2>q. QED
    BY <1>2, <2>1, <2>2, <2>3, <2>4, <2>5, <2>6 DEF Worker
<1>3. ASSUME NEW k \in Nodes, Crash(k) PROVE SystemInv'
  BY <1>3 DEF Crash, Fault, Server, Owner, Goto, dcsVars, pgVars, history
<1>4. ASSUME NEW k \in Nodes, Restart(k) PROVE SystemInv'
  BY <1>4 DEF Restart, Run, Goto, dcsVars, pgVars, history
<1>5. CASE Expire
  BY <1>5 DEF Expire, dcsVars, pgVars, history
<1>6. CASE UNCHANGED vars
  BY <1>6 DEF vars, dcsVars, pgVars, history
<1>q. QED
  BY <1>1, <1>2, <1>3, <1>4, <1>5, <1>6 DEF Next

(***************************************************************************)
(* A node that has a system, outside its own bootstrap, has one on which   *)
(* post_bootstrap has succeeded.                                           *)
(***************************************************************************)
LEMMA PreparedStep ==
    TypeOK /\ WorkInv /\ LeaderInv /\ PreparedInv /\ [Next]_vars
        => PreparedInv'
<1> SUFFICES ASSUME TypeOK, WorkInv, LeaderInv, PreparedInv, [Next]_vars
             PROVE  PreparedInv'
    OBVIOUS
<1> USE BootBounds, BootParts DEF BootKeys, BootSteps, BootServers, BootData,
                                  WorkInv, LeaderInv, Formed, PreparedInv
<1>1. ASSUME NEW k \in Nodes, Loop(k) PROVE PreparedInv'
  <2>1. CASE load_cluster_from_dcs(k)
    BY <2>1 DEF load_cluster_from_dcs, Goto, At, dcsVars, pgVars, history
  <2>2. CASE run_cycle(k)
    BY <2>2 DEF run_cycle, Initialize, sysid_valid, Goto, At, dcsVars, pgVars,
                history
  <2>3. CASE handle_long_action_in_progress(k)
    BY <2>3 DEF handle_long_action_in_progress, Goto, At, dcsVars, pgVars,
                history
  <2>4. CASE post_bootstrap(k)
    BY <2>4 DEF post_bootstrap, Ready, Finished, Fault, Run, Goto, At,
                dcsVars, pgVars, history
  <2>5. CASE bootstrap(k)
    BY <2>5 DEF bootstrap, Ready, Server, Goto, At, dcsVars, pgVars, history
  <2>6. CASE initialize_race(k)
    BY <2>6 DEF initialize_race, Initialize, Fault, Goto, At, dcsVars, pgVars,
                history
  <2>7. CASE cancel_initialization(k)
    BY <2>7 DEF cancel_initialization, Fault, Goto, At, dcsVars, pgVars,
                history
  <2>8. CASE move_data_directory(k)
    BY <2>8 DEF move_data_directory, Server, Goto, At, dcsVars, pgVars, history
  <2>9. CASE announce(k)
    BY <2>9 DEF announce, Initialize, Goto, At, dcsVars, pgVars, history
  <2>10. CASE take_leader(k)
    BY <2>10 DEF take_leader, Goto, At, dcsVars, pgVars, history
  <2>11. CASE join(k)
    BY <2>11 DEF join, Ready, Initialize, sysid_valid, Server, Goto, At,
                 dcsVars, pgVars, history
  <2>12. CASE process_cluster(k)
    BY <2>12 DEF process_cluster, Server, Goto, At, dcsVars, pgVars, history
  <2>q. QED
    BY <1>1, <2>1, <2>2, <2>3, <2>4, <2>5, <2>6, <2>7, <2>8, <2>9, <2>10,
       <2>11, <2>12 DEF Loop
<1>2. ASSUME NEW k \in Nodes, Worker(k) PROVE PreparedInv'
  <2>1. CASE initdb(k)
    BY <2>1 DEF initdb, Working, Run, dcsVars, pgVars, history
  <2>2. CASE fill(k)
    <3>1. \/ created + 1 \in Systems /\ created + 1 \in 0..MaxSystems
          \/ UNCHANGED <<created, data>>
      BY <2>2 DEF fill, Systems, Remote
    <3>q. QED
      BY <2>2, <3>1 DEF fill, Working, Run, Fault, dcsVars, pgVars, history
  <2>3. CASE start(k)
    BY <2>3 DEF start, Working, Run, Fault, Server, dcsVars, pgVars, history
  <2>4. CASE call_post_bootstrap(k)
    BY <2>4 DEF call_post_bootstrap, Working, Run, Fault, dcsVars, pgVars,
                history
  <2>5. CASE basebackup(k)
    BY <2>5 DEF basebackup, Working, Run, dcsVars, pgVars, history
  <2>6. CASE clone(k)
    <3>1. /\ task[k] \in {"copy", "follow"}
          /\ pc[k] \in {"load", "cycle", "dispatch"}
      BY <2>6 DEF clone, Working
    <3>2. CASE data' = [data EXCEPT ![k] = Abandoned(k)]
      BY <2>6, <3>1, <3>2 DEF clone, Working, Run, Fault, Server, Abandoned,
                              dcsVars, pgVars, history
    <3>3. CASE data' # [data EXCEPT ![k] = Abandoned(k)]
      <4>1. /\ source[k] # None => data[source[k]] \in Systems
            /\ data' = [data EXCEPT ![k] = IF source[k] = None THEN Remote
                                           ELSE data[source[k]]]
            /\ task' = [task EXCEPT ![k] = "idle"]
        BY <2>6, <3>1, <3>3 DEF clone, Run
      <4>q. QED
        BY <2>6, <3>1, <4>1 DEF clone, Working, Run, Fault, Server, Abandoned,
                                dcsVars, pgVars, history
    <3>q. QED
      BY <3>2, <3>3
  <2>q. QED
    BY <1>2, <2>1, <2>2, <2>3, <2>4, <2>5, <2>6 DEF Worker
<1>3. ASSUME NEW k \in Nodes, Crash(k) PROVE PreparedInv'
  BY <1>3 DEF Crash, Fault, Server, Owner, Goto, dcsVars, pgVars, history
<1>4. ASSUME NEW k \in Nodes, Restart(k) PROVE PreparedInv'
  BY <1>4 DEF Restart, Run, Goto, dcsVars, pgVars, history
<1>5. CASE Expire
  BY <1>5 DEF Expire, dcsVars, pgVars, history
<1>6. CASE UNCHANGED vars
  BY <1>6 DEF vars, dcsVars, pgVars, history
<1>q. QED
  BY <1>1, <1>2, <1>3, <1>4, <1>5, <1>6 DEF Next

\* A cluster begins with empty nodes and no keys.
LEMMA BootStart == Init => TypeOK /\ BootInv
<1> SUFFICES ASSUME Init PROVE TypeOK /\ BootInv
    OBVIOUS
<1> USE BootBounds DEF Init
<1>1. BootKeys
  BY DEF BootKeys
<1>2. BootSteps
  BY DEF BootSteps
<1>3. BootServers
  BY DEF BootServers
<1>4. BootData
  <2>1. data \in [Nodes -> Systems \cup {NoData, Partial}]
    OBVIOUS
  <2>2. created \in 0..MaxSystems /\ faults \in 0..MaxFaults
    OBVIOUS
  <2>3. lost \in BOOLEAN
    OBVIOUS
  <2>q. QED
    BY <2>1, <2>2, <2>3 DEF BootData
<1>5. WorkInv
  BY DEF WorkInv
<1>6. LeaderInv
  BY DEF LeaderInv
<1>7. ChargeInv
  BY DEF ChargeInv, InCharge
<1>8. SystemInv
  BY DEF SystemInv, InCharge, Kept
<1>9. PreparedInv
  BY DEF PreparedInv
<1>q. QED
  BY <1>1, <1>2, <1>3, <1>4, <1>5, <1>6, <1>7, <1>8, <1>9, BootParts
     DEF BootInv

\* The invariant of the cluster is inductive.
LEMMA BootStep == TypeOK /\ BootInv /\ [Next]_vars => TypeOK' /\ BootInv'
BY KeyStep, StepStep, ServerStep, DataStep, WorkStep, LeaderStep, ChargeStep,
   SystemStep, PreparedStep, BootParts DEF BootInv

(***************************************************************************)
(* What BootInv means for the properties: members have the same system,    *)
(* the node in charge stands behind an empty key, and a leader has data    *)
(* that post_bootstrap has prepared.                                       *)
(***************************************************************************)
LEMMA BootSafe == TypeOK /\ BootInv => BootstrapIsSafe
<1> SUFFICES ASSUME TypeOK, BootInv PROVE BootstrapIsSafe
    OBVIOUS
<1> USE BootBounds, BootParts DEF BootInv, BootKeys, BootSteps, BootServers,
                                  BootData
<1>1. OneSystem
  <2>1. \A n \in Nodes : Member(n) => data[n] \in Systems
    BY DEF Member, WorkInv
  <2>2. CASE standby
    <3>1. \A n \in Nodes : Member(n) => data[n] = Remote
      BY <2>1, <2>2 DEF WorkInv
    <3>q. QED
      BY <3>1 DEF OneSystem
  <2>3. CASE ~standby
    BY <2>1, <2>3 DEF OneSystem, SystemInv, Kept
  <2>q. QED
    BY <2>2, <2>3
<1>2. FailureFreesKey
  BY DEF FailureFreesKey, ChargeInv, InCharge, Owner
<1>3. LeaderIsPrepared
  BY DEF LeaderIsPrepared, LeaderInv, PreparedInv, Formed
<1>q. QED
  BY <1>1, <1>2, <1>3 DEF BootstrapIsSafe

-----------------------------------------------------------------------------
(* The Patroni process *)

(***************************************************************************)
(* How far the shutdown is says what is left to do: without a race with    *)
(* the background, the server is down from the wait on, or refused its     *)
(* signal; the watchdog is off from then on, or guards such a server.  A   *)
(* process that was told to leave its server alone never had the key.      *)
(***************************************************************************)
Left == server /\ unsignalled

ShutdownInv ==
    /\ main \in {"check", "cycle"} => (key <=> watchdog)
    /\ joinAborted => ~watchdog
    /\ main \in {"stop", "wait", "look", "delete"} => ~joinAborted /\ ~pause
    /\ main \in {"stop", "wait", "look", "delete", "logger"} =>
          worker = "idle" \/ raced
    /\ main = "wait" => ~watchdog
    /\ main = "look" => ~server \/ unsignalled \/ raced
    /\ main = "delete" => ~server \/ raced
    /\ main = "look" /\ watchdog => Left \/ raced
    /\ main = "delete" => ~watchdog \/ raced
    /\ main = "logger" =>
          /\ server => pause \/ joinAborted \/ unsignalled \/ raced
          /\ watchdog => Left \/ raced
    /\ main = "ended" =>
          /\ worker = "idle" \/ raced \/ aborted
          /\ server => pause \/ joinAborted \/ unsignalled \/ raced \/ aborted
          /\ watchdog => Left \/ raced \/ aborted

\* The types of Daemon, by part: the steps, ...
ProcessSteps ==
    /\ main \in Process!Locked \cup Process!Shutdown
                \cup {"cycle", "finally", "ended", "stuck"}
    /\ worker \in {"idle", "stop", "start"}
    /\ signals \in 0..MaxSignals /\ daemonFaults \in 0..DaemonFaults

\* ... and what the process knows.
ProcessFlags ==
    /\ received \in BOOLEAN /\ server \in BOOLEAN /\ watchdog \in BOOLEAN
    /\ key \in BOOLEAN /\ lease \in BOOLEAN /\ pause \in BOOLEAN
    /\ joinAborted \in BOOLEAN /\ aborted \in BOOLEAN /\ raced \in BOOLEAN
    /\ unsignalled \in BOOLEAN

\* The types, by part.
LEMMA ProcessParts ==
    /\ Process!TypeOK <=> ProcessSteps /\ ProcessFlags
    /\ Process!TypeOK' <=> ProcessSteps' /\ ProcessFlags'
BY DEF Process!TypeOK, ProcessSteps, ProcessFlags

\* The main thread and the background go on to steps there are.
LEMMA ProcessStepStep ==
    Process!TypeOK /\ [Process!Next]_(Process!vars) => ProcessSteps'
<1> SUFFICES ASSUME Process!TypeOK, [Process!Next]_(Process!vars)
             PROVE  ProcessSteps'
    OBVIOUS
<1> USE LifecycleAssumption, ProcessParts DEF ProcessSteps, ProcessFlags,
        Process!Locked, Process!Shutdown
<1>1. CASE Process!sigterm_handler
  BY <1>1 DEF Process!sigterm_handler, Process!Signal, Process!procVars
<1>2. CASE Process!KeyboardInterrupt
  BY <1>2 DEF Process!KeyboardInterrupt, Process!Signal, Process!procVars
<1>3. CASE Process!received_sigterm
  BY <1>3 DEF Process!received_sigterm, Process!procVars
<1>4. CASE Process!run_cycle
  <2>1. CASE UNCHANGED daemonFaults
    BY <1>4, <2>1 DEF Process!run_cycle, Process!procVars
  <2>2. CASE Process!Fault
    <3>1. daemonFaults' \in 0..DaemonFaults
      BY <2>2 DEF Process!Fault
    <3>q. QED
      BY <1>4, <3>1 DEF Process!run_cycle, Process!procVars
  <2>q. QED
    BY <1>4, <2>1, <2>2 DEF Process!run_cycle
<1>5. CASE Process!shutdown
  BY <1>5 DEF Process!shutdown, Process!procVars
<1>6. CASE Process!shutdown_Flag
  BY <1>6 DEF Process!shutdown_Flag, Process!procVars
<1>7. CASE Process!shutdown_Api
  BY <1>7 DEF Process!shutdown_Api, Process!procVars
<1>8. CASE Process!ha_shutdown
  BY <1>8 DEF Process!ha_shutdown, Process!Fault, Process!procVars
<1>9. CASE Process!ha_shutdown_Wait
  BY <1>9 DEF Process!ha_shutdown_Wait, Process!procVars
<1>10. CASE Process!ha_shutdown_Look
  BY <1>10 DEF Process!ha_shutdown_Look, Process!procVars
<1>11. CASE Process!delete_leader
  BY <1>11 DEF Process!delete_leader, Process!Fault, Process!procVars
<1>12. CASE Process!shutdown_Logger
  BY <1>12 DEF Process!shutdown_Logger, Process!procVars
<1>13. CASE Process!restart
  BY <1>13 DEF Process!restart, Process!procVars
<1>14. CASE Process!PostmasterDies
  BY <1>14 DEF Process!PostmasterDies, Process!Fault, Process!procVars
<1>15. CASE Process!Expire
  BY <1>15 DEF Process!Expire, Process!procVars
<1>16. CASE UNCHANGED Process!vars
  BY <1>16 DEF Process!vars, Process!procVars
<1>q. QED
  BY <1>1, <1>2, <1>3, <1>4, <1>5, <1>6, <1>7, <1>8, <1>9, <1>10, <1>11,
     <1>12, <1>13, <1>14, <1>15, <1>16 DEF Process!Next, Process!Main

\* What the process knows stays Boolean.
LEMMA ProcessFlagStep ==
    Process!TypeOK /\ [Process!Next]_(Process!vars) => ProcessFlags'
<1> SUFFICES ASSUME Process!TypeOK, [Process!Next]_(Process!vars)
             PROVE  ProcessFlags'
    OBVIOUS
<1> USE ProcessParts DEF ProcessSteps, ProcessFlags, Process!Locked,
                         Process!Shutdown
<1>1. CASE Process!sigterm_handler
  BY <1>1 DEF Process!sigterm_handler, Process!Signal, Process!procVars
<1>2. CASE Process!KeyboardInterrupt
  BY <1>2 DEF Process!KeyboardInterrupt, Process!Signal, Process!procVars
<1>3. CASE Process!received_sigterm
  BY <1>3 DEF Process!received_sigterm, Process!procVars
<1>4. CASE Process!run_cycle
  BY ZenonT(60), <1>4 DEF Process!run_cycle, Process!Fault, Process!procVars
<1>5. CASE Process!shutdown
  BY <1>5 DEF Process!shutdown, Process!procVars
<1>6. CASE Process!shutdown_Flag
  BY <1>6 DEF Process!shutdown_Flag, Process!procVars
<1>7. CASE Process!shutdown_Api
  BY <1>7 DEF Process!shutdown_Api, Process!procVars
<1>8. CASE Process!ha_shutdown
  BY <1>8 DEF Process!ha_shutdown, Process!Fault, Process!procVars
<1>9. CASE Process!ha_shutdown_Wait
  BY <1>9 DEF Process!ha_shutdown_Wait, Process!procVars
<1>10. CASE Process!ha_shutdown_Look
  BY <1>10 DEF Process!ha_shutdown_Look, Process!procVars
<1>11. CASE Process!delete_leader
  BY <1>11 DEF Process!delete_leader, Process!Fault, Process!procVars
<1>12. CASE Process!shutdown_Logger
  BY <1>12 DEF Process!shutdown_Logger, Process!procVars
<1>13. CASE Process!restart
  BY <1>13 DEF Process!restart, Process!procVars
<1>14. CASE Process!PostmasterDies
  BY <1>14 DEF Process!PostmasterDies, Process!Fault, Process!procVars
<1>15. CASE Process!Expire
  BY <1>15 DEF Process!Expire, Process!procVars
<1>16. CASE UNCHANGED Process!vars
  BY <1>16 DEF Process!vars, Process!procVars
<1>q. QED
  BY <1>1, <1>2, <1>3, <1>4, <1>5, <1>6, <1>7, <1>8, <1>9, <1>10, <1>11,
     <1>12, <1>13, <1>14, <1>15, <1>16 DEF Process!Next, Process!Main

(***************************************************************************)
(* Every step of the main thread, of the background, every signal and      *)
(* every crash of the server keeps ShutdownInv.                            *)
(***************************************************************************)
LEMMA ShutdownStep ==
    Process!TypeOK /\ ShutdownInv /\ [Process!Next]_(Process!vars)
        => ShutdownInv'
<1> SUFFICES ASSUME Process!TypeOK, ShutdownInv, [Process!Next]_(Process!vars)
             PROVE  ShutdownInv'
    OBVIOUS
<1> USE ProcessParts DEF ProcessSteps, ProcessFlags, Process!Locked,
                         Process!Shutdown, ShutdownInv, Left
<1>1. CASE Process!sigterm_handler
  BY <1>1 DEF Process!sigterm_handler, Process!Signal, Process!procVars
<1>2. CASE Process!KeyboardInterrupt
  BY <1>2 DEF Process!KeyboardInterrupt, Process!Signal, Process!procVars
<1>3. CASE Process!received_sigterm
  BY <1>3 DEF Process!received_sigterm, Process!procVars
<1>4. CASE Process!run_cycle
  BY <1>4 DEF Process!run_cycle, Process!Fault, Process!procVars
<1>5. CASE Process!shutdown
  BY <1>5 DEF Process!shutdown, Process!procVars
<1>6. CASE Process!shutdown_Flag
  BY <1>6 DEF Process!shutdown_Flag, Process!procVars
<1>7. CASE Process!shutdown_Api
  BY <1>7 DEF Process!shutdown_Api, Process!procVars
<1>8. CASE Process!ha_shutdown
  BY <1>8 DEF Process!ha_shutdown, Process!Fault, Process!procVars
<1>9. CASE Process!ha_shutdown_Wait
  BY <1>9 DEF Process!ha_shutdown_Wait, Process!procVars
<1>10. CASE Process!ha_shutdown_Look
  BY <1>10 DEF Process!ha_shutdown_Look, Process!procVars
<1>11. CASE Process!delete_leader
  BY <1>11 DEF Process!delete_leader, Process!Fault, Process!procVars
<1>12. CASE Process!shutdown_Logger
  BY <1>12 DEF Process!shutdown_Logger, Process!procVars
<1>13. CASE Process!restart
  BY <1>13 DEF Process!restart, Process!procVars
<1>14. CASE Process!PostmasterDies
  BY <1>14 DEF Process!PostmasterDies, Process!Fault, Process!procVars
<1>15. CASE Process!Expire
  BY <1>15 DEF Process!Expire, Process!procVars
<1>16. CASE UNCHANGED Process!vars
  BY <1>16 DEF Process!vars, Process!procVars
<1>q. QED
  BY <1>1, <1>2, <1>3, <1>4, <1>5, <1>6, <1>7, <1>8, <1>9, <1>10, <1>11,
     <1>12, <1>13, <1>14, <1>15, <1>16 DEF Process!Next, Process!Main

\* The process begins with its server running, and a watchdog if it leads.
LEMMA ProcessStart == Process!Init => Process!TypeOK /\ ShutdownInv
<1> SUFFICES ASSUME Process!Init PROVE Process!TypeOK /\ ShutdownInv
    OBVIOUS
<1> USE LifecycleAssumption DEF Process!Init
<1>1. ProcessSteps
  BY DEF ProcessSteps, Process!Locked
<1>2. ProcessFlags
  BY DEF ProcessFlags
<1>3. ShutdownInv
  BY DEF ShutdownInv
<1>q. QED
  BY <1>1, <1>2, <1>3, ProcessParts

\* The invariant of the process is inductive.
LEMMA ProcessStep ==
    Process!TypeOK /\ ShutdownInv /\ [Process!Next]_(Process!vars)
        => Process!TypeOK' /\ ShutdownInv'
BY ProcessStepStep, ProcessFlagStep, ShutdownStep, ProcessParts

\* When the process has ended, ShutdownInv says what may be left.
LEMMA ProcessSafe ==
    Process!TypeOK /\ ShutdownInv
        => Process!ServerGoesToo /\ Process!WatchdogGuardsServer
BY ProcessParts DEF ProcessFlags, ShutdownInv, Left, Process!ServerGoesToo,
                    Process!WatchdogGuardsServer

\* The leader key is removed after the server has gone.
LEMMA ProcessGoesLast ==
    Process!TypeOK /\ ShutdownInv /\ main = "delete" => ~server \/ raced
BY DEF ShutdownInv

-----------------------------------------------------------------------------
(* The server of a node *)

(***************************************************************************)
(* A stop ends only when there is no server any more, or because it could  *)
(* not be signalled.                                                       *)
(***************************************************************************)
StopInv ==
    /\ Startup!StoppedIsGone
    /\ step = "stopped" => proc = "none"
    /\ step = "refused" => refused
    /\ op = "none" <=> step = "idle"

\* The types of ServerStartup, by part: the steps, ...
ServerSteps ==
    /\ proc \in {"none", "spawned", "rejects", "running"}
    /\ signal \in {"none", "fast", "immediate"}
    /\ state \in {"running", "starting", "stopping", "stopped", "restarting",
                  "crashed", "stop failed", "start failed", "restart failed"}
    /\ op \in {"none", "start", "restart", "graceful", "immediate"}
    /\ step \in {"idle", "stop", "wait", "terminate", "killed", "stopped",
                 "refused", "start", "port", "startup"}

\* ... what the node knows, ...
ServerFlags ==
    /\ late \in BOOLEAN /\ recovering \in BOOLEAN /\ serverKey \in BOOLEAN
    /\ possible \in BOOLEAN /\ limited \in BOOLEAN /\ refused \in BOOLEAN

\* ... and the faults.
ServerCount == serverFaults \in 0..ServerFaults

\* The types, by part.
LEMMA StartupParts ==
    /\ Startup!TypeOK <=> ServerSteps /\ ServerFlags /\ ServerCount
    /\ Startup!TypeOK' <=> ServerSteps' /\ ServerFlags' /\ ServerCount'
BY DEF Startup!TypeOK, ServerSteps, ServerFlags, ServerCount

\* Server, state and step stay what they may be.
LEMMA ServerStepStep ==
    Startup!TypeOK /\ [Startup!Next]_(Startup!vars) => ServerSteps'
<1> SUFFICES ASSUME Startup!TypeOK, [Startup!Next]_(Startup!vars)
             PROVE  ServerSteps'
    OBVIOUS
<1> USE StartupParts DEF ServerSteps
<1>1. CASE Startup!start
  BY <1>1 DEF Startup!start, Startup!Fault, Startup!set_state, Startup!Do,
              Startup!is_running
<1>2. CASE Startup!wait_for_port_open
  BY <1>2 DEF Startup!wait_for_port_open, Startup!set_state, Startup!Failed,
              Startup!Do, Startup!is_running
<1>3. CASE Startup!wait_for_startup
  BY <1>3 DEF Startup!wait_for_startup, Startup!Changed,
              Startup!check_startup_state_changed, Startup!set_state,
              Startup!Failed, Startup!Do
<1>4. CASE Startup!signal_stop
  BY <1>4 DEF Startup!signal_stop, Startup!is_running, Startup!Mode,
              Startup!set_state, Startup!Fault
<1>5. CASE Startup!wait
  BY <1>5 DEF Startup!wait, Startup!is_running
<1>6. CASE Startup!terminate_postmaster
  BY <1>6 DEF Startup!terminate_postmaster, Startup!is_running, Startup!Fault
<1>7. CASE Startup!killed
  BY <1>7 DEF Startup!killed, Startup!is_running
<1>8. CASE Startup!stopped
  BY <1>8 DEF Startup!stopped, Startup!Do, Startup!set_state,
              Startup!is_running
<1>9. CASE Startup!handle_starting_instance
  BY <1>9 DEF Startup!handle_starting_instance, Startup!Free, Startup!Changed,
              Startup!check_startup_state_changed, Startup!set_state,
              Startup!Failed, Startup!TooLong, Startup!Do
<1>10. CASE Startup!post_recover
  BY <1>10 DEF Startup!post_recover, Startup!Free, Startup!Changed,
               Startup!is_running
<1>11. CASE Startup!recover
  BY <1>11 DEF Startup!recover, Startup!Free, Startup!is_running,
               Startup!set_state, Startup!Do
<1>12. ASSUME NEW o \in {"restart", "graceful"}, Startup!Request(o)
       PROVE  ServerSteps'
  BY <1>12 DEF Startup!Request, Startup!Free, Startup!Fault, Startup!Do,
               Startup!set_state
<1>13. CASE Startup!AcquireKey
  BY <1>13 DEF Startup!AcquireKey, Startup!Free, Startup!Fault
<1>14. CASE Startup!Startup
  BY <1>14 DEF Startup!Startup
<1>15. CASE Startup!Exit
  BY <1>15 DEF Startup!Exit, Startup!is_running, Startup!Fault
<1>16. CASE Startup!Timeout
  BY <1>16 DEF Startup!Timeout
<1>17. CASE UNCHANGED Startup!vars
  BY ZenonT(90), <1>17 DEF Startup!vars
<1>q. QED
  BY <1>1, <1>2, <1>3, <1>4, <1>5, <1>6, <1>7, <1>8, <1>9, <1>10, <1>11,
     <1>12, <1>13, <1>14, <1>15, <1>16, <1>17 DEF Startup!Next,
     Startup!Background, Startup!Main

\* What the node knows of its server stays Boolean.
LEMMA ServerFlagStep ==
    Startup!TypeOK /\ [Startup!Next]_(Startup!vars) => ServerFlags'
<1> SUFFICES ASSUME Startup!TypeOK, [Startup!Next]_(Startup!vars)
             PROVE  ServerFlags'
    OBVIOUS
<1> USE StartupParts DEF ServerFlags
<1>1. CASE Startup!start
  BY <1>1 DEF Startup!start, Startup!Fault, Startup!set_state, Startup!Do,
              Startup!is_running
<1>2. CASE Startup!wait_for_port_open
  BY <1>2 DEF Startup!wait_for_port_open, Startup!set_state, Startup!Failed,
              Startup!Do, Startup!is_running
<1>3. CASE Startup!wait_for_startup
  BY <1>3 DEF Startup!wait_for_startup, Startup!Changed,
              Startup!check_startup_state_changed, Startup!set_state,
              Startup!Failed, Startup!Do
<1>4. CASE Startup!signal_stop
  BY <1>4 DEF Startup!signal_stop, Startup!is_running, Startup!Mode,
              Startup!set_state, Startup!Fault
<1>5. CASE Startup!wait
  BY <1>5 DEF Startup!wait, Startup!is_running
<1>6. CASE Startup!terminate_postmaster
  BY <1>6 DEF Startup!terminate_postmaster, Startup!is_running, Startup!Fault
<1>7. CASE Startup!killed
  BY <1>7 DEF Startup!killed, Startup!is_running
<1>8. CASE Startup!stopped
  BY <1>8 DEF Startup!stopped, Startup!Do, Startup!set_state,
              Startup!is_running
<1>9. CASE Startup!handle_starting_instance
  BY <1>9 DEF Startup!handle_starting_instance, Startup!Free, Startup!Changed,
              Startup!check_startup_state_changed, Startup!set_state,
              Startup!Failed, Startup!TooLong, Startup!Do
<1>10. CASE Startup!post_recover
  BY <1>10 DEF Startup!post_recover, Startup!Free, Startup!Changed,
               Startup!is_running
<1>11. CASE Startup!recover
  BY <1>11 DEF Startup!recover, Startup!Free, Startup!is_running,
               Startup!set_state, Startup!Do
<1>12. ASSUME NEW o \in {"restart", "graceful"}, Startup!Request(o)
       PROVE  ServerFlags'
  BY <1>12 DEF Startup!Request, Startup!Free, Startup!Fault, Startup!Do,
               Startup!set_state
<1>13. CASE Startup!AcquireKey
  BY <1>13 DEF Startup!AcquireKey, Startup!Free, Startup!Fault
<1>14. CASE Startup!Startup
  BY <1>14 DEF Startup!Startup
<1>15. CASE Startup!Exit
  BY <1>15 DEF Startup!Exit, Startup!is_running, Startup!Fault
<1>16. CASE Startup!Timeout
  BY <1>16 DEF Startup!Timeout
<1>17. CASE UNCHANGED Startup!vars
  BY <1>17 DEF Startup!vars
<1>q. QED
  BY <1>1, <1>2, <1>3, <1>4, <1>5, <1>6, <1>7, <1>8, <1>9, <1>10, <1>11,
     <1>12, <1>13, <1>14, <1>15, <1>16, <1>17 DEF Startup!Next,
     Startup!Background, Startup!Main

\* Faults stay within their bound.
LEMMA ServerCountStep ==
    Startup!TypeOK /\ [Startup!Next]_(Startup!vars) => ServerCount'
<1> SUFFICES ASSUME Startup!TypeOK, [Startup!Next]_(Startup!vars)
             PROVE  ServerCount'
    OBVIOUS
<1> USE LifecycleAssumption, StartupParts DEF ServerCount
<1>1. CASE Startup!start
  BY <1>1 DEF Startup!start, Startup!Fault, Startup!set_state, Startup!Do,
              Startup!is_running
<1>2. CASE Startup!wait_for_port_open
  BY <1>2 DEF Startup!wait_for_port_open, Startup!set_state, Startup!Failed,
              Startup!Do, Startup!is_running
<1>3. CASE Startup!wait_for_startup
  BY <1>3 DEF Startup!wait_for_startup, Startup!Changed,
              Startup!check_startup_state_changed, Startup!set_state,
              Startup!Failed, Startup!Do
<1>4. CASE Startup!signal_stop
  BY <1>4 DEF Startup!signal_stop, Startup!is_running, Startup!Mode,
              Startup!set_state, Startup!Fault
<1>5. CASE Startup!wait
  BY <1>5 DEF Startup!wait, Startup!is_running
<1>6. CASE Startup!terminate_postmaster
  BY <1>6 DEF Startup!terminate_postmaster, Startup!is_running, Startup!Fault
<1>7. CASE Startup!killed
  BY <1>7 DEF Startup!killed, Startup!is_running
<1>8. CASE Startup!stopped
  BY <1>8 DEF Startup!stopped, Startup!Do, Startup!set_state,
              Startup!is_running
<1>9. CASE Startup!handle_starting_instance
  BY <1>9 DEF Startup!handle_starting_instance, Startup!Free, Startup!Changed,
              Startup!check_startup_state_changed, Startup!set_state,
              Startup!Failed, Startup!TooLong, Startup!Do
<1>10. CASE Startup!post_recover
  BY <1>10 DEF Startup!post_recover, Startup!Free, Startup!Changed,
               Startup!is_running
<1>11. CASE Startup!recover
  BY <1>11 DEF Startup!recover, Startup!Free, Startup!is_running,
               Startup!set_state, Startup!Do
<1>12. ASSUME NEW o \in {"restart", "graceful"}, Startup!Request(o)
       PROVE  ServerCount'
  BY <1>12 DEF Startup!Request, Startup!Free, Startup!Fault, Startup!Do,
               Startup!set_state
<1>13. CASE Startup!AcquireKey
  BY <1>13 DEF Startup!AcquireKey, Startup!Free, Startup!Fault
<1>14. CASE Startup!Startup
  BY <1>14 DEF Startup!Startup
<1>15. CASE Startup!Exit
  BY <1>15 DEF Startup!Exit, Startup!is_running, Startup!Fault
<1>16. CASE Startup!Timeout
  BY <1>16 DEF Startup!Timeout
<1>17. CASE UNCHANGED Startup!vars
  BY <1>17 DEF Startup!vars
<1>q. QED
  BY <1>1, <1>2, <1>3, <1>4, <1>5, <1>6, <1>7, <1>8, <1>9, <1>10, <1>11,
     <1>12, <1>13, <1>14, <1>15, <1>16, <1>17 DEF Startup!Next,
     Startup!Background, Startup!Main

(***************************************************************************)
(* Every step keeps StopInv: a stop is over only when the server has been  *)
(* seen to be gone, and nothing but start makes another one.               *)
(***************************************************************************)
LEMMA StopStep ==
    Startup!TypeOK /\ StopInv /\ [Startup!Next]_(Startup!vars) => StopInv'
<1> SUFFICES ASSUME Startup!TypeOK, StopInv, [Startup!Next]_(Startup!vars)
             PROVE  StopInv'
    OBVIOUS
<1> USE DEF Startup!TypeOK, StopInv, Startup!StoppedIsGone, Startup!is_running
<1>1. CASE Startup!start
  BY <1>1 DEF Startup!start, Startup!Fault, Startup!set_state, Startup!Do,
              Startup!is_running
<1>2. CASE Startup!wait_for_port_open
  BY <1>2 DEF Startup!wait_for_port_open, Startup!set_state, Startup!Failed,
              Startup!Do, Startup!is_running
<1>3. CASE Startup!wait_for_startup
  BY <1>3 DEF Startup!wait_for_startup, Startup!Changed,
              Startup!check_startup_state_changed, Startup!set_state,
              Startup!Failed, Startup!Do
<1>4. CASE Startup!signal_stop
  BY <1>4 DEF Startup!signal_stop, Startup!is_running, Startup!Mode,
              Startup!set_state, Startup!Fault
<1>5. CASE Startup!wait
  BY <1>5 DEF Startup!wait, Startup!is_running
<1>6. CASE Startup!terminate_postmaster
  BY <1>6 DEF Startup!terminate_postmaster, Startup!is_running, Startup!Fault
<1>7. CASE Startup!killed
  BY <1>7 DEF Startup!killed, Startup!is_running
<1>8. CASE Startup!stopped
  BY <1>8 DEF Startup!stopped, Startup!Do, Startup!set_state,
              Startup!is_running
<1>9. CASE Startup!handle_starting_instance
  BY <1>9 DEF Startup!handle_starting_instance, Startup!Free, Startup!Changed,
              Startup!check_startup_state_changed, Startup!set_state,
              Startup!Failed, Startup!TooLong, Startup!Do
<1>10. CASE Startup!post_recover
  BY <1>10 DEF Startup!post_recover, Startup!Free, Startup!Changed,
               Startup!is_running
<1>11. CASE Startup!recover
  BY <1>11 DEF Startup!recover, Startup!Free, Startup!is_running,
               Startup!set_state, Startup!Do
<1>12. ASSUME NEW o \in {"restart", "graceful"}, Startup!Request(o)
       PROVE  StopInv'
  BY <1>12 DEF Startup!Request, Startup!Free, Startup!Fault, Startup!Do,
               Startup!set_state
<1>13. CASE Startup!AcquireKey
  BY <1>13 DEF Startup!AcquireKey, Startup!Free, Startup!Fault
<1>14. CASE Startup!Startup
  BY <1>14 DEF Startup!Startup
<1>15. CASE Startup!Exit
  BY <1>15 DEF Startup!Exit, Startup!is_running, Startup!Fault
<1>16. CASE Startup!Timeout
  BY <1>16 DEF Startup!Timeout
<1>17. CASE UNCHANGED Startup!vars
  BY <1>17 DEF Startup!vars
<1>q. QED
  BY <1>1, <1>2, <1>3, <1>4, <1>5, <1>6, <1>7, <1>8, <1>9, <1>10, <1>11,
     <1>12, <1>13, <1>14, <1>15, <1>16, <1>17 DEF Startup!Next,
     Startup!Background, Startup!Main

\* It begins with a leader whose server runs.
LEMMA ServerStart == Startup!Init => Startup!TypeOK /\ StopInv
<1> SUFFICES ASSUME Startup!Init PROVE Startup!TypeOK /\ StopInv
    OBVIOUS
<1> USE LifecycleAssumption DEF Startup!Init
<1>1. ServerSteps
  BY DEF ServerSteps
<1>2. ServerFlags
  BY DEF ServerFlags
<1>3. ServerCount
  BY DEF ServerCount
<1>4. StopInv
  BY DEF StopInv, Startup!StoppedIsGone, Startup!is_running
<1>q. QED
  BY <1>1, <1>2, <1>3, <1>4, StartupParts

\* The invariant of the server is inductive.
LEMMA ServerIsKept ==
    Startup!TypeOK /\ StopInv /\ [Startup!Next]_(Startup!vars)
        => Startup!TypeOK' /\ StopInv'
BY ServerStepStep, ServerFlagStep, ServerCountStep, StopStep, StartupParts

(***************************************************************************)
(* A step that gives up the leader key is the end of a demotion, after a   *)
(* stop that was successful or could not signal, or post_recover, which    *)
(* does so only without a server.                                          *)
(***************************************************************************)
LEMMA KeyGoesStep ==
    Startup!TypeOK /\ StopInv /\ [Startup!Next]_(Startup!vars)
        => (serverKey /\ ~serverKey' => ~Startup!is_running \/ refused)
<1> SUFFICES ASSUME Startup!TypeOK, StopInv, [Startup!Next]_(Startup!vars),
                    serverKey, ~serverKey'
             PROVE  ~Startup!is_running \/ refused
    OBVIOUS
<1>1. Startup!stopped \/ Startup!post_recover
  BY DEF Startup!Next, Startup!Background, Startup!Main, Startup!vars,
         Startup!start, Startup!wait_for_port_open, Startup!wait_for_startup,
         Startup!signal_stop, Startup!wait, Startup!terminate_postmaster,
         Startup!killed, Startup!handle_starting_instance, Startup!recover,
         Startup!Request, Startup!AcquireKey, Startup!Startup, Startup!Exit,
         Startup!Timeout
<1>2. CASE Startup!stopped
  <2>1. step \in {"stopped", "refused"}
    BY <1>2 DEF Startup!stopped
  <2>q. QED
    BY <2>1 DEF StopInv, Startup!is_running
<1>3. CASE Startup!post_recover
  BY <1>3, StartupParts DEF Startup!post_recover, ServerFlags
<1>q. QED
  BY <1>1, <1>2, <1>3

-----------------------------------------------------------------------------
(* Scheduled restarts *)

(***************************************************************************)
(* While the HA loop has the lock its copy is the request itself; and a    *)
(* request is at one place: with a client, scheduled, carried out, or      *)
(* taken back.                                                             *)
(***************************************************************************)
Id(c) == client[c].request.id

RequestInv ==
    /\ scheduled = Schedule!NoRequest \/ scheduled.id > 0
    /\ scheduled.id <= requests
    /\ loop # "idle" => request = scheduled /\ scheduled.id > 0
    /\ executed \subseteq 0..requests /\ deleted \subseteq 0..requests
    /\ executed \cap deleted \subseteq {0}
    /\ scheduled.id \in executed \cup deleted => scheduled.id = 0
    /\ \A c \in Clients :
          IF client[c].step = "idle" THEN client[c].request = Schedule!NoRequest
          ELSE /\ Id(c) > 0 /\ Id(c) <= requests
               /\ Id(c) \notin executed \cup deleted \cup {scheduled.id}
    /\ \A c, d \in Clients : Id(c) = Id(d) /\ Id(c) # 0 => c = d

(***************************************************************************)
(* Every start of the server has had a request or an event of its own.     *)
(***************************************************************************)
Open == {i \in 1..requests : scheduled.id = i \/ \E c \in Clients : Id(c) = i}

\* The background has a start left to do.
Busy == IF busy THEN 1 ELSE 0

\* What it is for.
StartsBound == starts <= 1 + requests + events

StartsInv == starts + Busy + Cardinality(Open) <= 1 + requests + events

(***************************************************************************)
(* The loop sleeps for loop_wait at most, and it was not too late then; a  *)
(* server that has been started since was started during this sleep.       *)
(***************************************************************************)
SleepInv ==
    loop = "sleep" =>
       /\ 2 * (now - request.at) <= 3 * LoopWait
       /\ request.at - now <= LoopWait
       /\ ~blind /\ request.start \notin {0, starts} =>
             \/ startedAt = now
             \/ /\ startedAt <= now /\ now <= request.at
                /\ request.at - startedAt <= LoopWait

\* The types of ScheduledRestart, by part: the HA loop, ...
RequestTypes ==
    /\ now \in 0..MaxTime /\ startedAt \in 0..MaxTime
    /\ scheduled \in Schedule!Requests /\ request \in Schedule!Requests
    /\ loop \in {"idle", "evaluate", "sleep"}

\* The steps of a client.
Steps == {"idle", "delete", "post", "schedule", "match", "restart"}

\* ... the clients, ...
ClientTypes ==
    client \in [Clients -> [step : Steps, request : Schedule!Requests]]

\* ... what is Boolean, ...
ScheduleFlags ==
    /\ busy \in BOOLEAN /\ blind \in BOOLEAN
    /\ pending \in BOOLEAN /\ paused \in BOOLEAN

\* ... and what is counted.
ScheduleCounts ==
    /\ starts \in 1..(1 + MaxRequests + MaxEvents)
    /\ executed \subseteq Schedule!Ids /\ deleted \subseteq Schedule!Ids
    /\ requests \in Schedule!Ids /\ events \in 0..MaxEvents

\* The types, by part.
LEMMA ScheduleParts ==
    /\ Schedule!TypeOK <=>
          RequestTypes /\ ClientTypes /\ ScheduleFlags /\ ScheduleCounts
    /\ Schedule!TypeOK' <=>
          RequestTypes' /\ ClientTypes' /\ ScheduleFlags' /\ ScheduleCounts'
BY DEF Schedule!TypeOK, RequestTypes, ClientTypes, ScheduleFlags,
       ScheduleCounts, Steps

\* No request is a request, with the number 0.
LEMMA NoRequestType ==
    /\ Schedule!NoRequest \in Schedule!Requests
    /\ Schedule!NoRequest.id = 0 /\ Schedule!NoRequest.at = 0
    /\ Schedule!NoRequest.start = 0
BY LifecycleAssumption DEF Schedule!NoRequest, Schedule!Requests, Schedule!Ids

\* What a client does next, and what it asks for.
\* A client that goes on keeps what it asks for.
LEMMA GotoType ==
    ASSUME ClientTypes, NEW c \in Clients, NEW s \in Steps, Schedule!Goto(c, s)
    PROVE  /\ ClientTypes'
           /\ \A d \in Clients :
                 /\ client'[d].request = client[d].request
                 /\ client'[d].step = IF d = c THEN s ELSE client[d].step
BY DEF ClientTypes, Schedule!Goto

\* A client that is done asks for nothing.
LEMMA DoneType ==
    ASSUME ClientTypes, NEW c \in Clients, Schedule!Done(c)
    PROVE  /\ ClientTypes'
           /\ \A d \in Clients :
                 client'[d] = IF d = c
                              THEN [step |-> "idle",
                                    request |-> Schedule!NoRequest]
                              ELSE client[d]
BY NoRequestType DEF ClientTypes, Schedule!Done, Steps

\* Requests, times and the step of the HA loop keep their types.
LEMMA RequestTypeStep ==
    Schedule!TypeOK /\ [Schedule!Next]_(Schedule!vars) => RequestTypes'
<1> SUFFICES ASSUME Schedule!TypeOK, [Schedule!Next]_(Schedule!vars)
             PROVE  RequestTypes'
    OBVIOUS
<1> USE LifecycleAssumption, NoRequestType, ScheduleParts DEF RequestTypes,
        ScheduleFlags, ScheduleCounts, Schedule!Requests, Schedule!Ids,
        ClientTypes
<1>1. ASSUME NEW c \in Clients, NEW at \in Times, NEW filter \in BOOLEAN,
            NEW force \in BOOLEAN, Schedule!ctl_restart(c, at, filter, force)
       PROVE  RequestTypes'
  BY <1>1 DEF Schedule!ctl_restart, Schedule!At
<1>2. ASSUME NEW c \in Clients, Schedule!do_DELETE_restart(c)
      PROVE  RequestTypes'
  BY <1>2 DEF Schedule!do_DELETE_restart, Schedule!At, Schedule!LockFree,
              Schedule!Goto
<1>3. ASSUME NEW c \in Clients, Schedule!do_POST_restart(c) PROVE RequestTypes'
  BY <1>3 DEF Schedule!do_POST_restart, Schedule!At, Schedule!Goto,
              Schedule!Done
<1>4. ASSUME NEW c \in Clients, Schedule!schedule_future_restart(c)
      PROVE  RequestTypes'
  BY <1>4 DEF Schedule!schedule_future_restart, Schedule!At,
              Schedule!LockFree, Schedule!Done, Schedule!Event
<1>5. ASSUME NEW c \in Clients, Schedule!restart_Match(c) PROVE RequestTypes'
  BY <1>5 DEF Schedule!restart_Match, Schedule!At, Schedule!Goto, Schedule!Done
<1>6. ASSUME NEW c \in Clients, Schedule!restart(c) PROVE RequestTypes'
  BY <1>6 DEF Schedule!restart, Schedule!At, Schedule!LockFree, Schedule!Done
<1>7. CASE Schedule!evaluate_scheduled_restart
  BY <1>7 DEF Schedule!evaluate_scheduled_restart
<1>8. CASE Schedule!should_run_scheduled_action
  BY <1>8 DEF Schedule!should_run_scheduled_action, Schedule!Event,
              Schedule!Removed, Schedule!AlreadyHappened, Schedule!Due,
              Schedule!Stale
<1>9. CASE Schedule!run_scheduled_restart
  BY <1>9 DEF Schedule!run_scheduled_restart, Schedule!restart_matches
<1>10. CASE Schedule!Start
  BY <1>10 DEF Schedule!Start, Schedule!Event
<1>11. CASE Schedule!Reconfigure
  BY <1>11 DEF Schedule!Reconfigure, Schedule!Event
<1>12. CASE Schedule!Tick
  BY <1>12 DEF Schedule!Tick
<1>13. CASE UNCHANGED Schedule!vars
  BY <1>13 DEF Schedule!vars
<1>q. QED
  BY <1>1, <1>2, <1>3, <1>4, <1>5, <1>6, <1>7, <1>8, <1>9, <1>10, <1>11,
     <1>12, <1>13 DEF Schedule!Next, Schedule!Api, Schedule!Main

\* The clients keep theirs.
LEMMA ClientTypeStep ==
    Schedule!TypeOK /\ [Schedule!Next]_(Schedule!vars) => ClientTypes'
<1> SUFFICES ASSUME Schedule!TypeOK, [Schedule!Next]_(Schedule!vars)
             PROVE  ClientTypes'
    OBVIOUS
<1> USE LifecycleAssumption, NoRequestType, ScheduleParts DEF ClientTypes,
        Steps, ScheduleCounts, Schedule!Ids, Schedule!Requests
<1>1. ASSUME NEW c \in Clients, NEW at \in Times, NEW filter \in BOOLEAN,
            NEW force \in BOOLEAN, Schedule!ctl_restart(c, at, filter, force)
       PROVE  ClientTypes'
  BY <1>1 DEF Schedule!ctl_restart, Schedule!At
<1>2. ASSUME NEW c \in Clients, Schedule!do_DELETE_restart(c)
      PROVE  ClientTypes'
  <2>1. ClientTypes
    BY ScheduleParts
  <2>2. CASE Schedule!Done(c)
    BY <2>1, <2>2, DoneType
  <2>3. CASE \E s \in Steps : Schedule!Goto(c, s)
    BY <2>1, <2>3, GotoType
  <2>q. QED
    BY <1>2, <2>2, <2>3 DEF Schedule!do_DELETE_restart, Steps
<1>3. ASSUME NEW c \in Clients, Schedule!do_POST_restart(c) PROVE ClientTypes'
  <2>1. ClientTypes
    BY ScheduleParts
  <2>2. CASE Schedule!Done(c)
    BY <2>1, <2>2, DoneType
  <2>3. CASE \E s \in Steps : Schedule!Goto(c, s)
    BY <2>1, <2>3, GotoType
  <2>q. QED
    BY <1>3, <2>2, <2>3 DEF Schedule!do_POST_restart, Steps
<1>4. ASSUME NEW c \in Clients, Schedule!schedule_future_restart(c)
      PROVE  ClientTypes'
  <2>1. ClientTypes
    BY ScheduleParts
  <2>2. CASE Schedule!Done(c)
    BY <2>1, <2>2, DoneType
  <2>3. CASE \E s \in Steps : Schedule!Goto(c, s)
    BY <2>1, <2>3, GotoType
  <2>q. QED
    BY <1>4, <2>2, <2>3 DEF Schedule!schedule_future_restart, Steps
<1>5. ASSUME NEW c \in Clients, Schedule!restart_Match(c) PROVE ClientTypes'
  <2>1. ClientTypes
    BY ScheduleParts
  <2>2. CASE Schedule!Done(c)
    BY <2>1, <2>2, DoneType
  <2>3. CASE \E s \in Steps : Schedule!Goto(c, s)
    BY <2>1, <2>3, GotoType
  <2>q. QED
    BY <1>5, <2>2, <2>3 DEF Schedule!restart_Match, Steps
<1>6. ASSUME NEW c \in Clients, Schedule!restart(c) PROVE ClientTypes'
  <2>1. ClientTypes
    BY ScheduleParts
  <2>2. CASE Schedule!Done(c)
    BY <2>1, <2>2, DoneType
  <2>3. CASE \E s \in Steps : Schedule!Goto(c, s)
    BY <2>1, <2>3, GotoType
  <2>q. QED
    BY <1>6, <2>2, <2>3 DEF Schedule!restart, Steps
<1>7. CASE Schedule!evaluate_scheduled_restart
  BY <1>7 DEF Schedule!evaluate_scheduled_restart
<1>8. CASE Schedule!should_run_scheduled_action
  BY <1>8 DEF Schedule!should_run_scheduled_action, Schedule!Event,
              Schedule!Removed, Schedule!AlreadyHappened, Schedule!Due,
              Schedule!Stale
<1>9. CASE Schedule!run_scheduled_restart
  BY <1>9 DEF Schedule!run_scheduled_restart, Schedule!restart_matches
<1>10. CASE Schedule!Start
  BY <1>10 DEF Schedule!Start, Schedule!Event
<1>11. CASE Schedule!Reconfigure
  BY <1>11 DEF Schedule!Reconfigure, Schedule!Event
<1>12. CASE Schedule!Tick
  BY <1>12 DEF Schedule!Tick
<1>13. CASE UNCHANGED Schedule!vars
  BY <1>13 DEF Schedule!vars
<1>q. QED
  BY <1>1, <1>2, <1>3, <1>4, <1>5, <1>6, <1>7, <1>8, <1>9, <1>10, <1>11,
     <1>12, <1>13 DEF Schedule!Next, Schedule!Api, Schedule!Main

\* What is Boolean stays Boolean.
LEMMA FlagStep ==
    Schedule!TypeOK /\ [Schedule!Next]_(Schedule!vars) => ScheduleFlags'
<1> SUFFICES ASSUME Schedule!TypeOK, [Schedule!Next]_(Schedule!vars)
             PROVE  ScheduleFlags'
    OBVIOUS
<1> USE ScheduleParts DEF ScheduleFlags
<1>1. ASSUME NEW c \in Clients, NEW at \in Times, NEW filter \in BOOLEAN,
            NEW force \in BOOLEAN, Schedule!ctl_restart(c, at, filter, force)
       PROVE  ScheduleFlags'
  BY <1>1 DEF Schedule!ctl_restart, Schedule!At
<1>2. ASSUME NEW c \in Clients, Schedule!do_DELETE_restart(c)
      PROVE  ScheduleFlags'
  BY <1>2 DEF Schedule!do_DELETE_restart, Schedule!At, Schedule!LockFree,
              Schedule!Goto
<1>3. ASSUME NEW c \in Clients, Schedule!do_POST_restart(c)
      PROVE  ScheduleFlags'
  BY <1>3 DEF Schedule!do_POST_restart, Schedule!At, Schedule!Goto,
              Schedule!Done
<1>4. ASSUME NEW c \in Clients, Schedule!schedule_future_restart(c)
      PROVE  ScheduleFlags'
  BY <1>4 DEF Schedule!schedule_future_restart, Schedule!At,
              Schedule!LockFree, Schedule!Done, Schedule!Event
<1>5. ASSUME NEW c \in Clients, Schedule!restart_Match(c) PROVE ScheduleFlags'
  BY <1>5 DEF Schedule!restart_Match, Schedule!At, Schedule!Goto, Schedule!Done
<1>6. ASSUME NEW c \in Clients, Schedule!restart(c) PROVE ScheduleFlags'
  BY <1>6 DEF Schedule!restart, Schedule!At, Schedule!LockFree, Schedule!Done
<1>7. CASE Schedule!evaluate_scheduled_restart
  BY <1>7 DEF Schedule!evaluate_scheduled_restart
<1>8. CASE Schedule!should_run_scheduled_action
  BY <1>8 DEF Schedule!should_run_scheduled_action, Schedule!Event,
              Schedule!Removed, Schedule!AlreadyHappened, Schedule!Due,
              Schedule!Stale
<1>9. CASE Schedule!run_scheduled_restart
  BY <1>9 DEF Schedule!run_scheduled_restart, Schedule!restart_matches
<1>10. CASE Schedule!Start
  BY <1>10 DEF Schedule!Start, Schedule!Event
<1>11. CASE Schedule!Reconfigure
  BY <1>11 DEF Schedule!Reconfigure, Schedule!Event
<1>12. CASE Schedule!Tick
  BY <1>12 DEF Schedule!Tick
<1>13. CASE UNCHANGED Schedule!vars
  BY <1>13 DEF Schedule!vars
<1>q. QED
  BY <1>1, <1>2, <1>3, <1>4, <1>5, <1>6, <1>7, <1>8, <1>9, <1>10, <1>11,
     <1>12, <1>13 DEF Schedule!Next, Schedule!Api, Schedule!Main

(***************************************************************************)
(* The counts stay within their bounds, the number of starts by way of     *)
(* what is left to be done.                                                *)
(***************************************************************************)
LEMMA CountStep ==
    Schedule!TypeOK /\ RequestInv /\ StartsBound' /\ [Schedule!Next]_(Schedule!vars)
        => ScheduleCounts'
<1> SUFFICES ASSUME Schedule!TypeOK, RequestInv, StartsBound',
                    [Schedule!Next]_(Schedule!vars)
             PROVE  ScheduleCounts'
    OBVIOUS
<1> USE LifecycleAssumption, NoRequestType, ScheduleParts DEF RequestTypes,
        ScheduleFlags, ScheduleCounts, Schedule!Requests, Schedule!Ids,
        StartsBound, RequestInv
<1>1. ASSUME NEW c \in Clients, NEW at \in Times, NEW filter \in BOOLEAN,
            NEW force \in BOOLEAN, Schedule!ctl_restart(c, at, filter, force)
       PROVE  ScheduleCounts'
  BY <1>1 DEF Schedule!ctl_restart, Schedule!At
<1>2. ASSUME NEW c \in Clients, Schedule!do_DELETE_restart(c)
      PROVE  ScheduleCounts'
  BY <1>2 DEF Schedule!do_DELETE_restart, Schedule!At, Schedule!LockFree,
              Schedule!Goto
<1>3. ASSUME NEW c \in Clients, Schedule!do_POST_restart(c)
      PROVE  ScheduleCounts'
  BY <1>3 DEF Schedule!do_POST_restart, Schedule!At, Schedule!Goto,
              Schedule!Done
<1>4. ASSUME NEW c \in Clients, Schedule!schedule_future_restart(c)
      PROVE  ScheduleCounts'
  BY <1>4 DEF Schedule!schedule_future_restart, Schedule!At,
              Schedule!LockFree, Schedule!Done, Schedule!Event
<1>5. ASSUME NEW c \in Clients, Schedule!restart_Match(c) PROVE ScheduleCounts'
  BY <1>5 DEF Schedule!restart_Match, Schedule!At, Schedule!Goto, Schedule!Done
<1>6. ASSUME NEW c \in Clients, Schedule!restart(c) PROVE ScheduleCounts'
  BY <1>6 DEF Schedule!restart, Schedule!At, Schedule!LockFree, Schedule!Done
<1>7. CASE Schedule!evaluate_scheduled_restart
  BY <1>7 DEF Schedule!evaluate_scheduled_restart
<1>8. CASE Schedule!should_run_scheduled_action
  BY <1>8 DEF Schedule!should_run_scheduled_action, Schedule!Event,
              Schedule!Removed, Schedule!AlreadyHappened, Schedule!Due,
              Schedule!Stale
<1>9. CASE Schedule!run_scheduled_restart
  BY ZenonT(90), <1>9 DEF Schedule!run_scheduled_restart, Schedule!restart_matches
<1>10. CASE Schedule!Start
  BY <1>10 DEF Schedule!Start, Schedule!Event
<1>11. CASE Schedule!Reconfigure
  BY <1>11 DEF Schedule!Reconfigure, Schedule!Event
<1>12. CASE Schedule!Tick
  BY <1>12 DEF Schedule!Tick
<1>13. CASE UNCHANGED Schedule!vars
  BY <1>13 DEF Schedule!vars
<1>q. QED
  BY <1>1, <1>2, <1>3, <1>4, <1>5, <1>6, <1>7, <1>8, <1>9, <1>10, <1>11,
     <1>12, <1>13 DEF Schedule!Next, Schedule!Api, Schedule!Main

(***************************************************************************)
(* Every step of a client and of the HA loop leaves each request at one    *)
(* place, while API and loop exclude each other only by the lock.          *)
(***************************************************************************)
LEMMA RequestStep ==
    Schedule!TypeOK /\ RequestInv /\ [Schedule!Next]_(Schedule!vars)
        => RequestInv'
<1> SUFFICES ASSUME Schedule!TypeOK, RequestInv,
                    [Schedule!Next]_(Schedule!vars)
             PROVE  RequestInv'
    OBVIOUS
<1> USE LifecycleAssumption, NoRequestType, ScheduleParts DEF RequestTypes,
        ScheduleFlags, ScheduleCounts, Schedule!Requests, Schedule!Ids,
        ClientTypes, RequestInv, Id
<1>1. ASSUME NEW c \in Clients, NEW at \in Times, NEW filter \in BOOLEAN,
            NEW force \in BOOLEAN, Schedule!ctl_restart(c, at, filter, force)
       PROVE  RequestInv'
  BY <1>1 DEF Schedule!ctl_restart, Schedule!At
<1>2. ASSUME NEW c \in Clients, Schedule!do_DELETE_restart(c) PROVE RequestInv'
  BY <1>2 DEF Schedule!do_DELETE_restart, Schedule!At, Schedule!LockFree,
              Schedule!Goto
<1>3. ASSUME NEW c \in Clients, Schedule!do_POST_restart(c) PROVE RequestInv'
  <2>1. ClientTypes
    BY ScheduleParts
  <2>2. CASE Schedule!Done(c)
    BY <1>3, <2>1, <2>2, DoneType DEF Schedule!do_POST_restart
  <2>3. CASE \E s \in Steps \ {"idle"} : Schedule!Goto(c, s)
    <3>1. \A d \in Clients :
             /\ client'[d].request = client[d].request
             /\ client'[d].step = "idle" <=> client[d].step = "idle"
      BY <1>3, <2>1, <2>3, GotoType DEF Schedule!do_POST_restart, Schedule!At
    <3>q. QED
      BY <1>3, <3>1 DEF Schedule!do_POST_restart
  <2>q. QED
    BY <1>3, <2>2, <2>3 DEF Schedule!do_POST_restart, Steps
<1>4. ASSUME NEW c \in Clients, Schedule!schedule_future_restart(c)
      PROVE  RequestInv'
  BY <1>4 DEF Schedule!schedule_future_restart, Schedule!At,
              Schedule!LockFree, Schedule!Done, Schedule!Event
<1>5. ASSUME NEW c \in Clients, Schedule!restart_Match(c) PROVE RequestInv'
  <2>1. ClientTypes
    BY ScheduleParts
  <2>2. CASE Schedule!Done(c)
    BY <1>5, <2>1, <2>2, DoneType DEF Schedule!restart_Match
  <2>3. CASE \E s \in Steps \ {"idle"} : Schedule!Goto(c, s)
    <3>1. \A d \in Clients :
             /\ client'[d].request = client[d].request
             /\ client'[d].step = "idle" <=> client[d].step = "idle"
      BY <1>5, <2>1, <2>3, GotoType DEF Schedule!restart_Match, Schedule!At
    <3>q. QED
      BY <1>5, <3>1 DEF Schedule!restart_Match
  <2>q. QED
    BY <1>5, <2>2, <2>3 DEF Schedule!restart_Match, Steps
<1>6. ASSUME NEW c \in Clients, Schedule!restart(c) PROVE RequestInv'
  BY <1>6 DEF Schedule!restart, Schedule!At, Schedule!LockFree, Schedule!Done
<1>7. CASE Schedule!evaluate_scheduled_restart
  BY <1>7 DEF Schedule!evaluate_scheduled_restart
<1>8. CASE Schedule!should_run_scheduled_action
  BY <1>8 DEF Schedule!should_run_scheduled_action, Schedule!Event,
              Schedule!Removed, Schedule!AlreadyHappened, Schedule!Due,
              Schedule!Stale
<1>9. CASE Schedule!run_scheduled_restart
  <2>1. /\ request = scheduled
        /\ scheduled.id \in 1..requests
        /\ scheduled.id \notin executed \cup deleted
    BY <1>9 DEF Schedule!run_scheduled_restart
  <2>2. /\ executed' = executed \/ executed' = executed \cup {scheduled.id}
        /\ scheduled' = Schedule!NoRequest /\ loop' = "idle"
        /\ UNCHANGED <<client, deleted, requests>>
    BY <1>9, <2>1 DEF Schedule!run_scheduled_restart
  <2>3. /\ scheduled'.id = 0 /\ executed' \subseteq 0..requests'
        /\ deleted' \subseteq 0..requests'
    <3>1. scheduled'.id = 0
      BY <2>2
    <3>2. requests' = requests /\ deleted' = deleted
      BY <2>2
    <3>3. deleted \subseteq 0..requests
      OBVIOUS
    <3>4. scheduled.id \in 0..requests
      BY <2>1
    <3>5. executed' \subseteq 0..requests
      BY ZenonT(90), <2>2, <3>4
    <3>q. QED
      BY <3>1, <3>2, <3>3, <3>5
  <2>4. executed' \cap deleted' \subseteq {0}
    BY <2>1, <2>2
  <2>5. \A c \in Clients :
           /\ client'[c].step # "idle" => Id(c)' \notin executed' \cup deleted'
           /\ Id(c)' = Id(c) /\ client'[c] = client[c]
    BY <2>1, <2>2
  <2>6. \A c \in Clients :
           IF client'[c].step = "idle" THEN client'[c].request = Schedule!NoRequest
           ELSE /\ Id(c)' > 0 /\ Id(c)' <= requests'
                /\ Id(c)' \notin executed' \cup deleted' \cup {scheduled'.id}
    BY <2>2, <2>3, <2>5
  <2>7. \A c, d \in Clients : Id(c)' = Id(d)' /\ Id(c)' # 0 => c = d
    BY <2>2
  <2>q. QED
    BY <2>2, <2>3, <2>4, <2>6, <2>7
<1>10. CASE Schedule!Start
  BY <1>10 DEF Schedule!Start, Schedule!Event
<1>11. CASE Schedule!Reconfigure
  BY <1>11 DEF Schedule!Reconfigure, Schedule!Event
<1>12. CASE Schedule!Tick
  BY <1>12 DEF Schedule!Tick
<1>13. CASE UNCHANGED Schedule!vars
  BY <1>13 DEF Schedule!vars
<1>q. QED
  BY SMTT(60), <1>1, <1>2, <1>3, <1>4, <1>5, <1>6, <1>7, <1>8, <1>9, <1>10, <1>11,
     <1>12, <1>13 DEF Schedule!Next, Schedule!Api, Schedule!Main

\* A sum that loses no less than it gains.
LEMMA Balance ==
    ASSUME NEW s \in Int, NEW b \in Int, NEW n \in Int, NEW r \in Int,
           NEW e \in Int, NEW s1 \in Int, NEW b1 \in Int, NEW n1 \in Int,
           NEW e1 \in Int,
           s + b + n <= 1 + r + e, n1 <= n, s1 + b1 + e <= s + b + e1
    PROVE  s1 + b1 + n1 <= 1 + r + e1
OBVIOUS

\* What leaves out an element has one element less.
LEMMA OneLess ==
    ASSUME NEW S, IsFiniteSet(S), NEW i \in S, NEW T, T \subseteq S \ {i}
    PROVE  Cardinality(T) + 1 <= Cardinality(S)
<1>1. IsFiniteSet(S \ {i}) /\ Cardinality(S \ {i}) = Cardinality(S) - 1
  BY FS_RemoveElement
<1>2. Cardinality(T) <= Cardinality(S \ {i}) /\ IsFiniteSet(T)
  BY <1>1, FS_Subset
<1>3. Cardinality(T) \in Nat /\ Cardinality(S) \in Nat
  BY <1>2, FS_CardinalityType
<1>q. QED
  BY <1>1, <1>2, <1>3

\* The requests that are still open can be counted.
LEMMA OpenIsFinite ==
    Schedule!TypeOK => IsFiniteSet(Open) /\ Cardinality(Open) \in Nat
<1> SUFFICES ASSUME Schedule!TypeOK
             PROVE  IsFiniteSet(Open) /\ Cardinality(Open) \in Nat
    OBVIOUS
<1>1. requests \in Int
  BY LifecycleAssumption, ScheduleParts DEF ScheduleCounts, Schedule!Ids
<1>2. IsFiniteSet(1..requests)
  BY <1>1, FS_Interval
<1>3. Open \subseteq 1..requests
  BY DEF Open
<1>q. QED
  BY <1>2, <1>3, FS_Subset, FS_CardinalityType

\* A start takes what a request or an event has brought.
LEMMA StartsStep ==
    Schedule!TypeOK /\ RequestInv /\ StartsInv /\ [Schedule!Next]_(Schedule!vars)
        => StartsInv'
<1> SUFFICES ASSUME Schedule!TypeOK, RequestInv, StartsInv,
                    [Schedule!Next]_(Schedule!vars)
             PROVE  StartsInv'
    OBVIOUS
<1>1. /\ starts \in Int /\ events \in Int /\ requests \in Nat /\ Busy \in {0, 1}
      /\ ClientTypes /\ scheduled.id \in Int
  BY LifecycleAssumption, ScheduleParts DEF ScheduleCounts, Schedule!Ids,
     RequestTypes, Schedule!Requests, Busy
<1>2. IsFiniteSet(Open) /\ Cardinality(Open) \in Nat
  BY OpenIsFinite
<1>3. starts + Busy + Cardinality(Open) <= 1 + requests + events
  BY DEF StartsInv
<1>4. \A c \in Clients :
         /\ client[c].request \in Schedule!Requests
         /\ Id(c) \in Int
         /\ client[c].step # "idle" => Id(c) \in Open /\ Id(c) # scheduled.id
  BY <1>1, LifecycleAssumption DEF ClientTypes, RequestInv, Id, Open,
                                   Schedule!Requests, Schedule!Ids
<1>5. ASSUME Open' \subseteq Open, requests' = requests, events' \in Int,
             starts' \in Int, starts' + Busy' + events <= starts + Busy + events'
      PROVE  StartsInv'
  <2>1. Cardinality(Open') <= Cardinality(Open) /\ Cardinality(Open') \in Nat
    BY <1>2, <1>5, FS_Subset, FS_CardinalityType
  <2>2. Busy' \in {0, 1}
    BY DEF Busy
  <2>3. starts' + Busy' + Cardinality(Open') <= 1 + requests' + events'
    <3>1. /\ Busy \in Int /\ Busy' \in Int /\ Cardinality(Open) \in Int
          /\ Cardinality(Open') \in Int /\ requests \in Int
      BY <1>1, <1>2, <2>1, <2>2
    <3>2. starts' + Busy' + events <= starts + Busy + events'
      BY <1>5
    <3>3. events \in Int /\ events' \in Int /\ starts \in Int /\ starts' \in Int
      BY <1>1, <1>5
    <3>4. requests' = requests
      BY <1>5
    <3>5. Cardinality(Open') <= Cardinality(Open)
      BY <2>1
    <3>6. starts + Busy + Cardinality(Open) <= 1 + requests + events
      BY <1>3
    <3>7. PICK s1, b1, n1, e1 : /\ s1 = starts' /\ b1 = Busy'
                                /\ n1 = Cardinality(Open') /\ e1 = events'
      OBVIOUS
    <3>8. /\ s1 \in Int /\ b1 \in Int /\ n1 \in Int /\ e1 \in Int
          /\ n1 <= Cardinality(Open) /\ s1 + b1 + events <= starts + Busy + e1
      BY <3>1, <3>2, <3>3, <3>5, <3>7
    <3>9. s1 + b1 + n1 <= 1 + requests + e1
      BY <3>1, <3>3, <3>6, <3>8, Balance
    <3>q. QED
      BY <3>4, <3>7, <3>9
  <2>q. QED
    BY <2>3 DEF StartsInv, Open, Id
<1>6. ASSUME NEW i \in Open, Open' \subseteq Open \ {i},
             UNCHANGED <<starts, requests, events>>
      PROVE  StartsInv'
  <2>1. Cardinality(Open') + 1 <= Cardinality(Open)
    BY <1>2, <1>6, OneLess
  <2>2. Cardinality(Open') \in Nat
    BY <1>2, <1>6, FS_Subset, FS_CardinalityType
  <2>3. Busy' \in {0, 1}
    BY DEF Busy
  <2>4. starts' + Busy' + Cardinality(Open') <= 1 + requests' + events'
    BY <1>1, <1>2, <1>3, <1>6, <2>1, <2>2, <2>3
  <2>q. QED
    BY <2>4 DEF StartsInv, Open, Id
<1>7. ASSUME UNCHANGED <<scheduled, client, requests>>
      PROVE  Open' = Open
  BY <1>7 DEF Open, Id
<1>8. ASSUME NEW c \in Clients, Schedule!Done(c),
             \/ scheduled' = scheduled
             \/ scheduled'.id = Id(c) \/ scheduled'.id = 0,
             requests' = requests, client[c].step # "idle"
      PROVE  Open' \subseteq Open
  <2>1. \A d \in Clients : Id(d)' = IF d = c THEN 0 ELSE Id(d)
    BY <1>1, <1>8, DoneType, NoRequestType DEF Id
  <2>q. QED
    BY <1>1, <1>4, <1>8, <2>1 DEF Open
<1>9. ASSUME NEW c \in Clients, NEW s \in Steps, Schedule!Goto(c, s),
             scheduled' = scheduled \/ scheduled'.id = 0, requests' = requests
      PROVE  Open' \subseteq Open
  <2>1. \A d \in Clients : Id(d)' = Id(d)
    BY <1>1, <1>9, GotoType DEF Id
  <2>q. QED
    BY <1>1, <1>9, <2>1 DEF Open
<1>10. ASSUME UNCHANGED <<starts, busy, requests>>, Open' \subseteq Open,
              events' = events \/ events' = events + 1
       PROVE  StartsInv'
  BY <1>1, <1>5, <1>10 DEF Busy
<1>11. ASSUME NEW c \in Clients, NEW at \in Times, NEW filter \in BOOLEAN,
              NEW force \in BOOLEAN, Schedule!ctl_restart(c, at, filter, force)
       PROVE  StartsInv'
  <2>1. /\ requests' = requests + 1
        /\ UNCHANGED <<starts, busy, events, scheduled>>
        /\ \A d \in Clients : Id(d)' = IF d = c THEN requests' ELSE Id(d)
    BY <1>1, <1>11 DEF Schedule!ctl_restart, ClientTypes, Id
  <2>2. Open' \subseteq Open \cup {requests'}
    BY <1>1, <1>4, <2>1 DEF Open
  <2>3. /\ Cardinality(Open \cup {requests'}) <= Cardinality(Open) + 1
        /\ IsFiniteSet(Open \cup {requests'})
    <3>1. /\ IsFiniteSet(Open \cup {requests'})
          /\ \/ Cardinality(Open \cup {requests'}) = Cardinality(Open)
             \/ Cardinality(Open \cup {requests'}) = Cardinality(Open) + 1
      BY <1>2, FS_AddElement
    <3>q. QED
      BY <1>2, <3>1
  <2>4. Cardinality(Open') <= Cardinality(Open) + 1 /\ Cardinality(Open') \in Nat
    <3>1. /\ IsFiniteSet(Open')
          /\ Cardinality(Open') <= Cardinality(Open \cup {requests'})
      BY <2>2, <2>3, FS_Subset
    <3>q. QED
      BY <1>2, <2>3, <3>1, FS_CardinalityType
  <2>5. Busy' = Busy
    BY <2>1 DEF Busy
  <2>6. starts' + Busy' + Cardinality(Open') <= 1 + requests' + events'
    BY <1>1, <1>2, <1>3, <2>1, <2>4, <2>5
  <2>q. QED
    BY <2>6 DEF StartsInv, Open, Id
<1>12. ASSUME NEW c \in Clients, Schedule!do_DELETE_restart(c)
       PROVE  StartsInv'
  BY <1>9, <1>10, <1>12, NoRequestType DEF Schedule!do_DELETE_restart, Steps
<1>13. ASSUME NEW c \in Clients, Schedule!do_POST_restart(c)
       PROVE  StartsInv'
  <2>1. UNCHANGED <<starts, busy, requests, events, scheduled>>
    BY <1>13 DEF Schedule!do_POST_restart
  <2>2. \/ Schedule!Done(c) /\ client[c].step # "idle"
        \/ \E s \in Steps : Schedule!Goto(c, s)
    BY <1>13 DEF Schedule!do_POST_restart, Schedule!At, Steps
  <2>3. Open' \subseteq Open
    BY <1>8, <1>9, <2>1, <2>2
  <2>q. QED
    BY <1>10, <2>1, <2>3
<1>14. ASSUME NEW c \in Clients, Schedule!schedule_future_restart(c)
       PROVE  StartsInv'
  <2>1. /\ UNCHANGED <<starts, busy, requests>>
        /\ events' = events \/ events' = events + 1
        /\ Schedule!Done(c) /\ client[c].step # "idle"
    BY <1>14 DEF Schedule!schedule_future_restart, Schedule!At, Schedule!Event
  <2>2. scheduled' = scheduled \/ scheduled'.id = Id(c)
    BY <1>1, <1>4, <1>14 DEF Schedule!schedule_future_restart,
                             Schedule!Requests, Id
  <2>3. Open' \subseteq Open
    BY <1>8, <2>1, <2>2
  <2>q. QED
    BY <1>10, <2>1, <2>3
<1>15. ASSUME NEW c \in Clients, Schedule!restart_Match(c)
       PROVE  StartsInv'
  <2>1. UNCHANGED <<starts, busy, requests, events, scheduled>>
    BY <1>15 DEF Schedule!restart_Match
  <2>2. \/ Schedule!Done(c) /\ client[c].step # "idle"
        \/ \E s \in Steps : Schedule!Goto(c, s)
    BY <1>15 DEF Schedule!restart_Match, Schedule!At, Steps
  <2>3. Open' \subseteq Open
    BY <1>8, <1>9, <2>1, <2>2
  <2>q. QED
    BY <1>10, <2>1, <2>3
<1>16. ASSUME NEW c \in Clients, Schedule!restart(c)
       PROVE  StartsInv'
  <2>1. /\ UNCHANGED <<starts, requests, events, scheduled>>
        /\ Schedule!Done(c) /\ client[c].step # "idle"
    BY <1>16 DEF Schedule!restart, Schedule!At
  <2>2. Id(c) \in Open /\ Id(c) # scheduled.id
    BY <1>4, <2>1
  <2>3. Open' \subseteq Open
    BY <1>8, <2>1
  <2>4. \A d \in Clients : Id(d)' = IF d = c THEN 0 ELSE Id(d)
    BY <1>1, <2>1, DoneType, NoRequestType DEF Id
  <2>5. \A d \in Clients : d # c => Id(d) # Id(c)
    BY <1>1, <1>4, <2>2 DEF RequestInv, Open
  <2>6. Id(c) \notin Open'
    BY <2>1, <2>2, <2>4, <2>5 DEF Open
  <2>q. QED
    BY <1>6, <2>1, <2>2, <2>3, <2>6
<1>17. CASE Schedule!evaluate_scheduled_restart
  BY <1>7, <1>10, <1>17 DEF Schedule!evaluate_scheduled_restart
<1>18. CASE Schedule!should_run_scheduled_action
  <2>1. /\ UNCHANGED <<starts, busy, requests, client>>
        /\ events' = events \/ events' = events + 1
        /\ scheduled' = scheduled \/ scheduled' = Schedule!NoRequest
    BY <1>18 DEF Schedule!should_run_scheduled_action, Schedule!Event
  <2>2. Open' \subseteq Open
    BY <2>1, NoRequestType DEF Open, Id
  <2>q. QED
    BY <1>10, <2>1, <2>2
<1>19. CASE Schedule!run_scheduled_restart
  <2>1. /\ UNCHANGED <<starts, requests, events, client>>
        /\ scheduled' = Schedule!NoRequest
        /\ scheduled.id \in 1..requests
    BY <1>1, <1>19 DEF Schedule!run_scheduled_restart, RequestInv
  <2>2. scheduled.id \in Open
    BY <2>1 DEF Open
  <2>3. \A d \in Clients : Id(d) # scheduled.id
    BY <1>4, <2>1, NoRequestType DEF RequestInv, Id
  <2>4. Open' \subseteq Open \ {scheduled.id}
    BY <2>1, <2>3, NoRequestType DEF Open, Id
  <2>q. QED
    BY <1>6, <2>1, <2>2, <2>4
<1>20. CASE Schedule!Start
  <2>1. /\ starts' = starts + 1 /\ busy' = FALSE
        /\ IF busy THEN events' = events ELSE events' = events + 1
        /\ UNCHANGED <<scheduled, client, requests>>
    BY <1>20 DEF Schedule!Start, Schedule!Event
  <2>2. Open' \subseteq Open
    BY <1>7, <2>1
  <2>3. starts' + Busy' + events <= starts + Busy + events'
    BY <1>1, <2>1 DEF Busy
  <2>q. QED
    BY <1>1, <1>5, <2>1, <2>2, <2>3
<1>21. CASE Schedule!Reconfigure
  BY <1>7, <1>10, <1>21 DEF Schedule!Reconfigure, Schedule!Event
<1>22. CASE Schedule!Tick
  BY <1>7, <1>10, <1>22 DEF Schedule!Tick
<1>23. CASE UNCHANGED Schedule!vars
  BY <1>7, <1>10, <1>23 DEF Schedule!vars
<1>q. QED
  BY <1>11, <1>12, <1>13, <1>14, <1>15, <1>16, <1>17, <1>18, <1>19, <1>20,
     <1>21, <1>22, <1>23 DEF Schedule!Next, Schedule!Api, Schedule!Main

\* So there are not more starts than requests and events.
LEMMA StartsBoundStep ==
    Schedule!TypeOK /\ StartsInv' /\ [Schedule!Next]_(Schedule!vars)
        => StartsBound'
<1> SUFFICES ASSUME Schedule!TypeOK, StartsInv',
                    [Schedule!Next]_(Schedule!vars)
             PROVE  StartsBound'
    OBVIOUS
<1>1. /\ requests' = requests \/ requests' = requests + 1
      /\ starts' = starts \/ starts' = starts + 1
      /\ events' = events \/ events' = events + 1
  BY DEF Schedule!Next, Schedule!Api, Schedule!Main, Schedule!vars,
         Schedule!Event, Schedule!ctl_restart, Schedule!do_DELETE_restart,
         Schedule!do_POST_restart, Schedule!schedule_future_restart,
         Schedule!restart_Match, Schedule!restart,
         Schedule!evaluate_scheduled_restart,
         Schedule!should_run_scheduled_action, Schedule!run_scheduled_restart,
         Schedule!Start, Schedule!Reconfigure, Schedule!Tick
<1>2. starts \in Int /\ events \in Int /\ requests \in Int
  BY LifecycleAssumption, ScheduleParts DEF ScheduleCounts, Schedule!Ids
<1>3. starts' \in Int /\ events' \in Int /\ requests' \in Int
  BY <1>1, <1>2
<1>4. IsFiniteSet(Open') /\ Cardinality(Open') \in Nat
  <2>1. IsFiniteSet(1..requests')
    BY <1>3, FS_Interval
  <2>2. Open' \subseteq 1..requests'
    BY DEF Open
  <2>q. QED
    BY <2>1, <2>2, FS_Subset, FS_CardinalityType
<1>5. PICK s, b, n, r, e : /\ s = starts' /\ b = Busy' /\ n = Cardinality(Open')
                           /\ r = requests' /\ e = events'
  OBVIOUS
<1>6. s + b + n <= 1 + r + e
  BY <1>5 DEF StartsInv
<1>7. s \in Int /\ r \in Int /\ e \in Int /\ n \in Nat /\ b \in {0, 1}
  BY <1>3, <1>4, <1>5 DEF Busy
<1>8. s <= 1 + r + e
  BY <1>6, <1>7
<1>q. QED
  BY <1>5, <1>8 DEF StartsBound

(***************************************************************************)
(* The loop goes to sleep only with a request that is due and not stale,   *)
(* wakes up in time, and a server that starts meanwhile does so during     *)
(* this sleep.                                                             *)
(***************************************************************************)
LEMMA SleepStep ==
    Schedule!TypeOK /\ RequestInv /\ SleepInv /\ [Schedule!Next]_(Schedule!vars)
        => SleepInv'
<1> SUFFICES ASSUME Schedule!TypeOK, RequestInv, SleepInv,
                    [Schedule!Next]_(Schedule!vars)
             PROVE  SleepInv'
    OBVIOUS
<1> USE LifecycleAssumption, NoRequestType, ScheduleParts DEF RequestTypes,
        ScheduleFlags, ScheduleCounts, Schedule!Requests, Schedule!Ids,
        ClientTypes, RequestInv, SleepInv
<1>1. ASSUME NEW c \in Clients, NEW at \in Times, NEW filter \in BOOLEAN,
            NEW force \in BOOLEAN, Schedule!ctl_restart(c, at, filter, force)
       PROVE  SleepInv'
  BY <1>1 DEF Schedule!ctl_restart, Schedule!At
<1>2. ASSUME NEW c \in Clients, Schedule!do_DELETE_restart(c) PROVE SleepInv'
  BY <1>2 DEF Schedule!do_DELETE_restart, Schedule!At, Schedule!LockFree,
              Schedule!Goto
<1>3. ASSUME NEW c \in Clients, Schedule!do_POST_restart(c) PROVE SleepInv'
  BY <1>3 DEF Schedule!do_POST_restart, Schedule!At, Schedule!Goto,
              Schedule!Done
<1>4. ASSUME NEW c \in Clients, Schedule!schedule_future_restart(c)
      PROVE  SleepInv'
  BY <1>4 DEF Schedule!schedule_future_restart, Schedule!At,
              Schedule!LockFree, Schedule!Done, Schedule!Event
<1>5. ASSUME NEW c \in Clients, Schedule!restart_Match(c) PROVE SleepInv'
  BY <1>5 DEF Schedule!restart_Match, Schedule!At, Schedule!Goto, Schedule!Done
<1>6. ASSUME NEW c \in Clients, Schedule!restart(c) PROVE SleepInv'
  BY <1>6 DEF Schedule!restart, Schedule!At, Schedule!LockFree, Schedule!Done
<1>7. CASE Schedule!evaluate_scheduled_restart
  BY <1>7 DEF Schedule!evaluate_scheduled_restart
<1>8. CASE Schedule!should_run_scheduled_action
  <2>1. CASE loop' # "sleep"
    BY <2>1
  <2>2. CASE loop' = "sleep"
    <3>1. /\ Schedule!Due(starts) \/ Schedule!Due(0)
          /\ ~Schedule!Stale
          /\ ~blind' => Schedule!Due(starts)
          /\ UNCHANGED <<now, request, startedAt, starts>>
      BY <1>8, <2>2 DEF Schedule!should_run_scheduled_action
    <3>2. request.at - now <= LoopWait
      BY <3>1 DEF Schedule!Due
    <3>3. 2 * ((LoopWait * 3) \div 2) <= LoopWait * 3
      OBVIOUS
    <3>4. 2 * (now - request.at) <= 3 * LoopWait
      BY <3>1, <3>3 DEF Schedule!Stale
    <3>5. ~blind' => request.start \in {0, starts}
      BY <3>1 DEF Schedule!Due, Schedule!AlreadyHappened
    <3>q. QED
      BY <3>1, <3>2, <3>4, <3>5
  <2>q. QED
    BY <2>1, <2>2
<1>9. CASE Schedule!run_scheduled_restart
  BY <1>9 DEF Schedule!run_scheduled_restart, Schedule!restart_matches
<1>10. CASE Schedule!Start
  BY <1>10 DEF Schedule!Start, Schedule!Event
<1>11. CASE Schedule!Reconfigure
  BY <1>11 DEF Schedule!Reconfigure, Schedule!Event
<1>12. CASE Schedule!Tick
  BY <1>12 DEF Schedule!Tick
<1>13. CASE UNCHANGED Schedule!vars
  BY <1>13 DEF Schedule!vars
<1>q. QED
  BY <1>1, <1>2, <1>3, <1>4, <1>5, <1>6, <1>7, <1>8, <1>9, <1>10, <1>11,
     <1>12, <1>13 DEF Schedule!Next, Schedule!Api, Schedule!Main

\* It begins without requests.
LEMMA ScheduleStart ==
    Schedule!Init
        => Schedule!TypeOK /\ RequestInv /\ StartsInv /\ SleepInv
<1> SUFFICES ASSUME Schedule!Init
             PROVE  Schedule!TypeOK /\ RequestInv /\ StartsInv /\ SleepInv
    OBVIOUS
<1> USE LifecycleAssumption, NoRequestType DEF Schedule!Init
<1>1. RequestTypes
  BY DEF RequestTypes
<1>2. ClientTypes
  BY DEF ClientTypes, Steps
<1>3. ScheduleFlags
  BY DEF ScheduleFlags
<1>4. ScheduleCounts
  BY DEF ScheduleCounts, Schedule!Ids
<1>5. RequestInv
  BY DEF RequestInv, Id
<1>6. StartsInv
  <2>1. Open = {}
    BY DEF Open
  <2>2. Cardinality(Open) = 0
    BY <2>1, FS_EmptySet
  <2>q. QED
    BY <2>2 DEF StartsInv, Busy
<1>7. SleepInv
  BY DEF SleepInv
<1>q. QED
  BY <1>1, <1>2, <1>3, <1>4, <1>5, <1>6, <1>7, ScheduleParts

\* The invariant of the scheduled restarts is inductive.
LEMMA ScheduleStep ==
    /\ Schedule!TypeOK /\ RequestInv /\ StartsInv /\ SleepInv
    /\ [Schedule!Next]_(Schedule!vars)
    => Schedule!TypeOK' /\ RequestInv' /\ StartsInv' /\ SleepInv'
BY RequestTypeStep, ClientTypeStep, FlagStep, StartsStep, StartsBoundStep,
   CountStep, RequestStep, SleepStep, ScheduleParts

\* Only run_scheduled_restart carries out a request, when the loop wakes up.
LEMMA AptStep ==
    /\ Schedule!TypeOK /\ RequestInv /\ SleepInv
    /\ [Schedule!Next]_(Schedule!vars) /\ executed' # executed
    => /\ request.at <= now /\ 2 * (now - request.at) <= 3 * LoopWait
       /\ request.start \notin {0, starts} /\ ~blind
          => now - startedAt <= LoopWait
<1> SUFFICES ASSUME Schedule!TypeOK, RequestInv, SleepInv,
                    [Schedule!Next]_(Schedule!vars), executed' # executed
             PROVE  /\ request.at <= now
                    /\ 2 * (now - request.at) <= 3 * LoopWait
                    /\ request.start \notin {0, starts} /\ ~blind
                       => now - startedAt <= LoopWait
    OBVIOUS
<1>1. Schedule!run_scheduled_restart
  BY DEF Schedule!Next, Schedule!Api, Schedule!Main, Schedule!vars,
         Schedule!ctl_restart, Schedule!do_DELETE_restart,
         Schedule!do_POST_restart, Schedule!schedule_future_restart,
         Schedule!restart_Match, Schedule!restart,
         Schedule!evaluate_scheduled_restart,
         Schedule!should_run_scheduled_action, Schedule!Start,
         Schedule!Reconfigure, Schedule!Tick
<1>2. loop = "sleep" /\ now >= request.at
  BY <1>1 DEF Schedule!run_scheduled_restart
<1>3. /\ now \in Int /\ startedAt \in Int /\ request.at \in Int
      /\ LoopWait \in Nat
  BY LifecycleAssumption, ScheduleParts DEF RequestTypes, Schedule!Requests
<1>4. 2 * (now - request.at) <= 3 * LoopWait
  BY <1>2 DEF SleepInv
<1>5. ASSUME request.start \notin {0, starts}, ~blind
      PROVE  now - startedAt <= LoopWait
  <2>1. \/ startedAt = now
        \/ now <= request.at /\ request.at - startedAt <= LoopWait
    BY <1>2, <1>5 DEF SleepInv
  <2>q. QED
    BY <1>2, <1>3, <2>1
<1>q. QED
  BY <1>2, <1>3, <1>4, <1>5
-----------------------------------------------------------------------------
(* The behaviours of the run *)

(***************************************************************************)
(* What every state of the run satisfies: the types and the invariants of  *)
(* all parts.                                                              *)
(***************************************************************************)
LifecycleInv ==
    /\ TypeOK /\ BootInv
    /\ Process!TypeOK /\ ShutdownInv
    /\ Startup!TypeOK /\ StopInv
    /\ Schedule!TypeOK /\ RequestInv /\ StartsInv /\ SleepInv

\* A step of the run is a step or a stutter of every part.
LEMMA PartsStep ==
    [MCNext]_allVars =>
        /\ [Next]_vars /\ [Process!Next]_(Process!vars)
        /\ [Startup!Next]_(Startup!vars) /\ [Schedule!Next]_(Schedule!vars)
<1> SUFFICES ASSUME [MCNext]_allVars
             PROVE  /\ [Next]_vars /\ [Process!Next]_(Process!vars)
                    /\ [Startup!Next]_(Startup!vars)
                    /\ [Schedule!Next]_(Schedule!vars)
    OBVIOUS
<1>1. UNCHANGED daemonVars => UNCHANGED Process!vars
  BY DEF daemonVars, Process!vars
<1>2. UNCHANGED serverVars => UNCHANGED Startup!vars
  BY DEF serverVars, Startup!vars
<1>3. UNCHANGED scheduleVars => UNCHANGED Schedule!vars
  BY DEF scheduleVars, Schedule!vars
<1>4. CASE InBootstrap /\ Next
  BY <1>1, <1>2, <1>3, <1>4 DEF InBootstrap
<1>5. CASE InDaemon /\ Process!Next
  BY <1>2, <1>3, <1>5 DEF InDaemon
<1>6. CASE InServer /\ Startup!Next
  BY <1>1, <1>3, <1>6 DEF InServer
<1>7. CASE InSchedule /\ Schedule!Next
  BY <1>1, <1>2, <1>7 DEF InSchedule
<1>8. CASE UNCHANGED allVars
  BY <1>1, <1>2, <1>3, <1>8 DEF allVars
<1>q. QED
  BY <1>4, <1>5, <1>6, <1>7, <1>8 DEF MCNext

\* The inductive invariant of the run.
LEMMA Invariance == MCSpec => []LifecycleInv
<1>1. MCInit => LifecycleInv
  BY BootStart, ProcessStart, ServerStart, ScheduleStart DEF MCInit,
     LifecycleInv
<1>2. LifecycleInv /\ [MCNext]_allVars => LifecycleInv'
  BY PartsStep, BootStep, ProcessStep, ServerIsKept, ScheduleStep
     DEF LifecycleInv
<1>3. MCSpec => MCInit /\ [][MCNext]_allVars
  BY PTL DEF MCSpec
<1>q. QED
  BY <1>1, <1>2, <1>3, PTL

(***************************************************************************)
(* Every part keeps its variables within their types, for any number of    *)
(* nodes, systems, signals, clients, requests, events and faults.          *)
(***************************************************************************)
THEOREM TypesCorrect == MCSpec => []PartTypes
<1>1. LifecycleInv => PartTypes
  BY DEF LifecycleInv, PartTypes
<1>q. QED
  BY <1>1, Invariance, PTL

(***************************************************************************)
(* Bootstrap: nodes that start empty never end up with two systems, an     *)
(* empty initialize key has a bootstrap behind it, and no cluster gets a   *)
(* leader before post_bootstrap has succeeded.                             *)
(***************************************************************************)
THEOREM BootstrapIsSafeHolds == MCSpec => []BootstrapIsSafe
<1>1. LifecycleInv => BootstrapIsSafe
  BY BootSafe DEF LifecycleInv
<1>q. QED
  BY <1>1, Invariance, PTL

(***************************************************************************)
(* demote, post_recover and Ha.shutdown: the leader key goes only after    *)
(* the server, a shutdown leaves no server behind that was not to be left, *)
(* and the watchdog guards one if it is left on.                           *)
(***************************************************************************)
THEOREM ServerGoesFirstHolds == MCSpec => ServerGoesFirst
<1>1. LifecycleInv =>
         /\ Startup!StoppedIsGone
         /\ Process!ServerGoesToo /\ Process!WatchdogGuardsServer
  BY ProcessSafe DEF LifecycleInv, StopInv
<1>2. LifecycleInv /\ [MCNext]_allVars =>
         [serverKey /\ ~serverKey' => ~Startup!is_running \/ refused]_(Startup!vars)
  BY PartsStep, KeyGoesStep DEF LifecycleInv
<1>3. LifecycleInv /\ [MCNext]_allVars =>
         [main = "delete" /\ key /\ ~key' => ~server \/ raced]_(Process!vars)
  BY ProcessGoesLast DEF LifecycleInv
<1>4. MCSpec => [][MCNext]_allVars
  BY PTL DEF MCSpec
<1>q. QED
  BY <1>1, <1>2, <1>3, <1>4, Invariance, PTL DEF ServerGoesFirst,
     Startup!KeyGoesAfterServer, Process!KeyGoesLast

(***************************************************************************)
(* evaluate_scheduled_restart: a scheduled restart comes at its time and   *)
(* repeats no earlier one, and a request that was taken back is never      *)
(* carried out.                                                            *)
(***************************************************************************)
THEOREM ScheduleIsKeptHolds == MCSpec => ScheduleIsKept
<1>1. LifecycleInv => Schedule!DeletedNeverRuns
  BY DEF LifecycleInv, RequestInv, Schedule!DeletedNeverRuns
<1>2. LifecycleInv /\ [MCNext]_allVars =>
         [executed' # executed
          => /\ request.at <= now /\ 2 * (now - request.at) <= 3 * LoopWait
             /\ request.start \notin {0, starts} /\ ~blind
                => now - startedAt <= LoopWait]_(Schedule!vars)
  BY PartsStep, AptStep DEF LifecycleInv
<1>3. MCSpec => [][MCNext]_allVars
  BY PTL DEF MCSpec
<1>q. QED
  BY <1>1, <1>2, <1>3, Invariance, PTL DEF ScheduleIsKept,
     Schedule!RestartIsApt

=============================================================================
