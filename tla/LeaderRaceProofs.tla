--------------------------- MODULE LeaderRaceProofs ---------------------------
(***************************************************************************)
(* Proofs about LeaderRace, for any number of nodes, tenures, requests and *)
(* faults: who wins the race for a free leader key, and what it means that *)
(* a request to move the key is reported as failed.                        *)
(***************************************************************************)
EXTENDS LeaderRace, TLAPS

\* The steps of the owner of the leader key.
OwnerSteps ==
    {"leader", "from_leader", "demote", "release", "clean", "promote"}

\* The steps of a node that runs for it.
RaceSteps == {"candidate", "former", "compare", "acquire"}

(***************************************************************************)
(* Only the owner of the leader key leads, and only its database is a      *)
(* primary; dead nodes do nothing, and a node that has got the key is not  *)
(* in the race any more.                                                   *)
(***************************************************************************)
OwnerInv ==
    \A n \in Nodes :
        /\ pc[n] \in OwnerSteps => key = n
        /\ pc[n] \in RaceSteps \cup {"restart"} => key # n
        /\ pc[n] \in {"release", "restart"} => db[n] = "stopped"
        /\ db[n] = "primary" => key = n
        /\ n \in dead => pc[n] = "idle" /\ db[n] = "stopped"

(***************************************************************************)
(* While the key stays free nobody writes WAL, so a status is still true,  *)
(* and who has compared itself with all of them may trust the comparison.  *)
(***************************************************************************)
StillFree(n) == view[n].tenure = tenure /\ pc[n] \in RaceSteps

Ahead(n, m) ==
    /\ answers[n][m] >= 0
    /\ wal[m] > wal[n]
    /\ ~(view[n].failover.leader = n /\ is_lagging(n, answers[n][m]))

Fair(n) ==
    /\ key = None
    /\ \A m \in Nodes : answers[n][m] >= 0 => answers[n][m] = wal[m]
    /\ pc[n] = "acquire" => \A m \in Nodes : ~Ahead(n, m)

RaceAt(n) ==
    /\ view[n].tenure <= tenure
    /\ pc[n] = "idle" => answers[n] = NoAnswers
    /\ pc[n] = "former" => view[n].failover.leader = n
    /\ pc[n] = "acquire" => Answered(n)
    /\ StillFree(n) => Fair(n)

RaceInv == \A n \in Nodes : RaceAt(n)

(***************************************************************************)
(* A takeover on a request lasts: the winner has the key until nothing is  *)
(* requested any more.                                                     *)
(***************************************************************************)
TakenOver ==
    /\ key \notin {None, api.leader}
    /\ \/ pc[key] = "clean"
       \/ /\ ~Requested(failover)
          /\ pc[key] \in {"promote", "idle", "leader"}
          /\ pc[key] = "leader" => ~Requested(view[key].failover)

RunningInv ==
    ~paused => (api.pc = "poll" /\ api.moved => TakenOver)

(***************************************************************************)
(* In pause there is one request at a time, it is executed at once, and    *)
(* its candidate alone runs for the key.                                   *)
(***************************************************************************)
Unmoved == api.pc = "poll" /\ ~api.moved

\* The owner n gives the key up only to another node that a client waits for.
Leaving(n) ==
    Unmoved /\ api.leader = n /\ failover.candidate \notin {None, n}

\* What the owner n has read is done, or meant for itself, or still requested.
PausedView(n) ==
    LET f == view[n].failover IN
    \/ ~Requested(f)
    \/ f.candidate = n
    \/ Unmoved /\ api.leader = n /\ failover = f /\ f.candidate # None

PausedApi ==
    /\ api.pc \notin {"flush", "done"}
    /\ api.pc = "write" => /\ api.f.candidate # None /\ api.f.at = "none"
                           /\ key # None /\ api.leader = key
    /\ Unmoved => key \in {None, api.leader}
    /\ api.pc = "poll" /\ api.moved => key \notin {None, api.leader}

PausedKey ==
    /\ failover.at = "none"
    /\ Requested(failover) => failover.candidate # None
    /\ key = None => Unmoved /\ failover.candidate \notin {None, api.leader}
    /\ key # None /\ ~Unmoved =>
          ~Requested(failover) \/ failover.candidate = key

PausedLoop ==
    \A n \in Nodes :
        /\ view[n].failover.at = "none"
        /\ pc[n] \in {"from_leader", "demote", "release"} => Leaving(n)
        /\ pc[n] = "leader" => PausedView(n)
        /\ pc[n] \notin {"candidate", "former", "compare"}
        /\ pc[n] = "acquire" => key = None /\ failover.candidate = n
        /\ pc[n] \in {"acquire", "clean"} => view[n].failover.candidate = n

PausedRun == PausedApi /\ PausedKey /\ PausedLoop

PausedInv == paused => PausedRun

(***************************************************************************)
(* Until the first fault no node is dead, and no takeover is reported as a *)
(* failure.                                                                *)
(***************************************************************************)
FailedInv ==
    faults = 0 =>
        /\ dead = {}
        /\ RunningInv
        /\ PausedInv
        /\ api.pc = "failed" => ~api.moved

-----------------------------------------------------------------------------
(***************************************************************************)
(* The values that a loop and the failover key are reset to have the right *)
(* types.                                                                  *)
(***************************************************************************)
LEMMA Values ==
    /\ Empty \in Failovers
    /\ NoView.failover = Empty
    /\ ~Requested(Empty)
    /\ NoView \in Views
    /\ NoAnswers \in [Nodes -> -4..MaxWal]
BY RaceAssumption DEF Empty, NoView, Failovers, Times, Views, NoAnswers,
                      Skipped, Requested

(***************************************************************************)
(* RaceAssumption, conjunct by conjunct.                                   *)
(***************************************************************************)
LEMMA Bounds ==
    /\ None \notin Nodes
    /\ MaxLag \in Nat /\ MaxWal \in Nat /\ MaxTenures \in Nat
    /\ MaxRequests \in Nat /\ MaxFaults \in Nat
BY RaceAssumption

\* The write succeeds, or it leaves the key alone.
LEMMA WhatIsWritten ==
    ASSUME NEW f \in Failovers, NEW i, manual_failover(f, i)
    PROVE  \/ failover' = failover
           \/ /\ failover'.leader = f.leader /\ failover'.candidate = f.candidate
              /\ failover'.at = f.at
<1>1. failover' = failover \/ failover' = [f EXCEPT !.index = failover.index + 1]
  BY DEF manual_failover
<1>2. LET g == [f EXCEPT !.index = failover.index + 1]
      IN  g.leader = f.leader /\ g.candidate = f.candidate /\ g.at = f.at
  BY DEF Failovers
<1> QED
  BY <1>1, <1>2


(***************************************************************************)
(* manual_failover writes a proper failover key, or none.                  *)
(***************************************************************************)
LEMMA WriteType ==
    ASSUME failover \in Failovers, NEW f \in Failovers, NEW i,
           manual_failover(f, i)
    PROVE  failover' \in Failovers
<1>1. failover.index + 1 \in Nat
    BY DEF Failovers
<1>2. [f EXCEPT !.index = failover.index + 1] \in Failovers
    BY <1>1 DEF Failovers
<1>q. QED
    BY <1>2 DEF manual_failover

(***************************************************************************)
(* TypeOK in two parts: what the HA loops know, and all the rest.          *)
(***************************************************************************)
LoopTypes ==
    /\ pc \in [Nodes -> PCs]
    /\ view \in [Nodes -> Views]
    /\ answers \in [Nodes -> [Nodes -> -4..MaxWal]]

(***************************************************************************)
(* The ways a loop goes on keep its types.                                 *)
(***************************************************************************)
LEMMA EndType ==
    ASSUME LoopTypes, NEW n \in Nodes, End(n) PROVE LoopTypes'
BY Values DEF LoopTypes, End, PCs

\* A loop goes on to a step.
LEMMA GotoType ==
    ASSUME LoopTypes, NEW n \in Nodes, NEW step \in PCs, Goto(n, step)
    PROVE  LoopTypes'
BY DEF LoopTypes, Goto

\* get_cluster loads a proper cluster.
LEMMA LoadedType ==
    ASSUME TypeOK, NEW n \in Nodes, Loaded(n) PROVE view' \in [Nodes -> Views]
<1>1. [optime |-> optime, tenure |-> tenure, failover |-> failover] \in Views
    BY DEF Views, TypeOK
<1>q. QED
    BY <1>1 DEF Loaded, TypeOK

\* The members to be asked have no statuses yet.
LEMMA AskType ==
    ASSUME LoopTypes, NEW n \in Nodes, NEW step \in PCs, NEW M, Ask(n, step, M)
    PROVE  /\ pc' \in [Nodes -> PCs]
           /\ answers' \in [Nodes -> [Nodes -> -4..MaxWal]]
<1>1. [m \in Nodes |-> IF m \in M \ {n} THEN Unasked ELSE Skipped]
        \in [Nodes -> -4..MaxWal]
    BY RaceAssumption DEF Unasked, Skipped
<1>q. QED
    BY <1>1 DEF LoopTypes, Ask

RestTypes ==
    /\ paused \in BOOLEAN
    /\ key \in Nodes \cup {None}
    /\ tenure \in 0..MaxTenures
    /\ failover \in Failovers
    /\ optime \in 0..MaxWal
    /\ db \in [Nodes -> {"primary", "replica", "stopped"}]
    /\ wal \in [Nodes -> 0..MaxWal]
    /\ dead \subseteq Nodes
    /\ api \in [pc : ApiPCs, f : Failovers, leader : Nodes \cup {None},
               moved : BOOLEAN]
    /\ requests \in 0..MaxRequests
    /\ faults \in 0..MaxFaults

\* The two parts of TypeOK.
LEMMA TypeParts ==
    /\ TypeOK <=> LoopTypes /\ RestTypes
    /\ TypeOK' <=> LoopTypes' /\ RestTypes'
BY DEF TypeOK, LoopTypes, RestTypes

(***************************************************************************)
(* Every step keeps the types.                                             *)
(***************************************************************************)
LEMMA TypeStep ==
    TypeOK /\ [Next]_vars
      => TypeOK'
<1> SUFFICES ASSUME TypeOK, [Next]_vars
             PROVE  TypeOK'
    OBVIOUS
<1> USE Bounds, TypeParts
<1>1. ASSUME NEW k \in Nodes, Cycle(k) PROVE TypeOK'
  <2>1. CASE load_cluster(k)
    <3>1. LoopTypes'
      BY <2>1, LoadedType, TypeParts DEF load_cluster, LoopTypes, PCs
    <3>2. RestTypes'
      BY <2>1, TypeParts DEF load_cluster, RestTypes, dcsVars, clientVars
    <3>q. QED
      BY <3>1, <3>2
  <2>2. ASSUME NEW m \in Nodes, fetch_node_status(k, m) PROVE TypeOK'
    <3>1. Status(m) \in -4..MaxWal /\ Unknown \in -4..MaxWal
      <4>1. {Unknown, Primary, wal[m]} \subseteq -4..MaxWal
        BY DEF RestTypes, Unknown, Primary
      <4>2. Status(m) \in {Unknown, Primary, wal[m]}
        BY Zenon DEF Status
      <4>q. QED
        BY <4>1, <4>2
    <3>2. LoopTypes'
      <4>1. \E s \in -4..MaxWal : answers' = [answers EXCEPT ![k][m] = s]
        BY <2>2, <3>1 DEF fetch_node_status
      <4>2. answers' \in [Nodes -> [Nodes -> -4..MaxWal]]
        BY <4>1 DEF LoopTypes
      <4>q. QED
        BY <2>2, <4>2 DEF fetch_node_status, LoopTypes
    <3>3. RestTypes'
      BY <2>2 DEF fetch_node_status, Fault, RestTypes, dcsVars, clientVars
    <3>q. QED
      BY <3>2, <3>3
  <2>3. CASE update_lock(k)
    <3>1. CASE End(k) /\ UNCHANGED failover
      BY <2>3, <3>1, EndType DEF update_lock, write_leader_optime, RestTypes,
                                 clientVars
    <3>2. CASE End(k) /\ Clean(k)
      <4>1. failover' \in Failovers
        BY <3>2, Values, WriteType DEF Clean, RestTypes
      <4>q. QED
        BY <2>3, <3>2, <4>1, EndType DEF update_lock, write_leader_optime,
           RestTypes, clientVars
    <3>3. ASSUME NEW M, Ask(k, "from_leader", M), UNCHANGED <<view, failover>>
          PROVE  TypeOK'
      <4>1. LoopTypes'
        BY <3>3, AskType DEF PCs, LoopTypes
      <4>q. QED
        BY <2>3, <3>3, <4>1 DEF update_lock, write_leader_optime, RestTypes,
                                clientVars
    <3>q. QED
      BY <2>3, <3>1, <3>2, <3>3 DEF update_lock
  <2>4. CASE process_manual_failover_from_leader(k)
    <3>1. LoopTypes'
      BY <2>4, EndType, GotoType DEF process_manual_failover_from_leader, PCs
    <3>2. failover' \in Failovers
      BY <2>4, Values, WriteType DEF process_manual_failover_from_leader,
                                     Clean, RestTypes
    <3>q. QED
      BY <2>4, <3>1, <3>2 DEF process_manual_failover_from_leader, RestTypes,
                              clientVars
  <2>5. CASE demote(k)
    <3>1. LoopTypes'
      BY <2>5, EndType, GotoType DEF demote, PCs
    <3>2. RestTypes'
      BY <2>5 DEF demote, RestTypes, dcsVars, clientVars
    <3>q. QED
      BY <3>1, <3>2
  <2>6. CASE release_leader_key(k)
    <3>1. LoopTypes'
      BY <2>6, EndType, GotoType DEF release_leader_key, PCs
    <3>2. RestTypes'
      BY <2>6 DEF release_leader_key, RestTypes, dcsVars, clientVars
    <3>q. QED
      BY <3>1, <3>2
  <2>7. CASE demote_Start(k)
    <3>1. LoopTypes'
      BY <2>7, EndType, GotoType DEF demote_Start, PCs
    <3>2. RestTypes'
      BY <2>7 DEF demote_Start, RestTypes, dcsVars, clientVars
    <3>q. QED
      BY <3>1, <3>2
  <2>8. CASE is_healthiest_node(k)
    <3>1. ASSUME NEW M, NEW step \in PCs, Ask(k, step, M) PROVE LoopTypes'
      BY <2>8, <3>1, AskType, LoadedType DEF is_healthiest_node, LoopTypes
    <3>2. RestTypes'
      BY <2>8 DEF is_healthiest_node, RestTypes, dcsVars, clientVars
    <3>q. QED
      BY <2>8, <3>1, <3>2 DEF is_healthiest_node, PCs
  <2>9. CASE manual_failover_process_no_leader(k)
    <3>1. ASSUME NEW M, NEW step \in PCs, Ask(k, step, M), UNCHANGED view
          PROVE  LoopTypes'
      BY <2>9, <3>1, AskType DEF LoopTypes
    <3>2. RestTypes'
      BY <2>9 DEF manual_failover_process_no_leader, RestTypes, dcsVars,
                  clientVars
    <3>q. QED
      BY <2>9, <3>1, <3>2, EndType DEF manual_failover_process_no_leader, PCs
  <2>10. CASE former_leader(k)
    <3>1. LoopTypes'
      BY <2>10, EndType, GotoType DEF former_leader, PCs
    <3>2. RestTypes'
      BY <2>10 DEF former_leader, RestTypes, dcsVars, clientVars
    <3>q. QED
      BY <3>1, <3>2
  <2>11. CASE _is_healthiest_node(k)
    <3>1. LoopTypes'
      BY <2>11, EndType, GotoType DEF _is_healthiest_node, PCs
    <3>2. RestTypes'
      BY <2>11 DEF _is_healthiest_node, RestTypes, dcsVars, clientVars
    <3>q. QED
      BY <3>1, <3>2
  <2>12. CASE attempt_to_acquire_leader(k)
    <3>1. LoopTypes'
      BY <2>12, EndType, GotoType DEF attempt_to_acquire_leader, PCs
    <3>2. key' \in Nodes \cup {None} /\ tenure' \in 0..MaxTenures
      BY <2>12 DEF attempt_to_acquire_leader, RestTypes
    <3>3. api' \in [pc : ApiPCs, f : Failovers, leader : Nodes \cup {None},
                    moved : BOOLEAN]
      BY <2>12 DEF attempt_to_acquire_leader, RestTypes, Requested
    <3>q. QED
      BY <2>12, <3>1, <3>2, <3>3 DEF attempt_to_acquire_leader, RestTypes
  <2>13. CASE process_unhealthy_cluster(k)
    <3>1. [view[k].failover EXCEPT !.leader = None] \in Failovers
      <4>1. view[k].failover \in Failovers
        BY DEF LoopTypes, Views
      <4>q. QED
        BY <4>1 DEF Failovers
    <3>2. failover' \in Failovers
      BY <2>13, <3>1, Values, WriteType DEF process_unhealthy_cluster,
         RestTypes
    <3>q. QED
      BY <2>13, <3>2, GotoType DEF process_unhealthy_cluster, RestTypes,
                                   clientVars, PCs
  <2>14. CASE enforce_master_role(k)
    <3>1. LoopTypes'
      BY <2>14, EndType, GotoType DEF enforce_master_role, PCs
    <3>2. RestTypes'
      BY <2>14 DEF enforce_master_role, RestTypes, dcsVars, clientVars
    <3>q. QED
      BY <3>1, <3>2
  <2>q. QED
    BY <1>1, <2>1, <2>2, <2>3, <2>4, <2>5, <2>6, <2>7, <2>8, <2>9, <2>10,
       <2>11, <2>12, <2>13, <2>14 DEF Cycle
<1>2. ASSUME NEW k \in Nodes, WriteWal(k) \/ Die(k) \/ Revive(k) PROVE TypeOK'
  <2>1. CASE WriteWal(k)
    BY <2>1, Values DEF WriteWal, LoopTypes, RestTypes, ApiPCs, dcsVars,
                        loopVars, clientVars
  <2>2. CASE Die(k)
    <3>1. LoopTypes'
      BY <2>2, Values DEF Die, LoopTypes, PCs
    <3>2. RestTypes'
      BY <2>2 DEF Die, Fault, RestTypes, dcsVars, clientVars
    <3>q. QED
      BY <3>1, <3>2
  <2>3. CASE Revive(k)
    BY <2>3, Values DEF Revive, LoopTypes, RestTypes, ApiPCs, dcsVars,
                        loopVars, clientVars
  <2>q. QED
    BY <1>2, <2>1, <2>2, <2>3
<1>3. ASSUME NEW k \in Nodes, NEW m \in Nodes, Stream(k, m) PROVE TypeOK'
  BY <1>3, Values DEF Stream, LoopTypes, RestTypes, ApiPCs, dcsVars, loopVars,
                      clientVars
<1>4. CASE Expire
  BY <1>4, Values DEF Expire, LoopTypes, RestTypes, ApiPCs, dcsVars, loopVars,
                      clientVars
<1>5. CASE TimePasses
  <2>1. failover' \in Failovers
    BY <1>5 DEF TimePasses, RestTypes, Failovers, Times
  <2>q. QED
    BY <1>5, <2>1 DEF TimePasses, LoopTypes, RestTypes, loopVars, clientVars
<1>6. ASSUME NEW f \in Requests, do_POST_failover(f) PROVE TypeOK'
  <2>1. f \in Failovers
    BY DEF Requests, RestTypes, Failovers, Times
  <2>q. QED
    BY <1>6, <2>1 DEF do_POST_failover, LoopTypes, RestTypes, ApiPCs, dcsVars,
                      loopVars
<1>7. CASE do_POST_failover_Write
  <2>1. failover' \in Failovers
    BY <1>7, Values, WriteType DEF do_POST_failover_Write, RestTypes
  <2>q. QED
    BY <1>7, <2>1 DEF do_POST_failover_Write, Fault, LoopTypes, RestTypes,
                      ApiPCs, loopVars
<1>8. CASE poll_failover_result
  BY <1>8, Values DEF poll_failover_result, LoopTypes, RestTypes, ApiPCs,
                      dcsVars, loopVars, clientVars
<1>9. CASE ctl_failover
  <2>1. failover' \in Failovers
    BY <1>9, Values, WriteType DEF ctl_failover, RestTypes
  <2>2. faults' \in 0..MaxFaults
    BY <1>9 DEF ctl_failover, Fault, RestTypes
  <2>q. QED
    BY <1>9, <2>1, <2>2 DEF ctl_failover, LoopTypes, RestTypes, ApiPCs,
                            loopVars
<1>10. CASE do_DELETE_switchover
  BY <1>10, Values DEF do_DELETE_switchover, LoopTypes, RestTypes, ApiPCs,
                       dcsVars, loopVars, clientVars
<1>11. CASE do_DELETE_switchover_Write
  <2>1. failover' \in Failovers
    BY <1>11, Values, WriteType DEF do_DELETE_switchover_Write, RestTypes
  <2>q. QED
    BY <1>11, <2>1 DEF do_DELETE_switchover_Write, Fault, LoopTypes,
                       RestTypes, ApiPCs, loopVars
<1>12. CASE ClientDone
  BY <1>12, Values DEF ClientDone, LoopTypes, RestTypes, ApiPCs, dcsVars,
                       loopVars, clientVars
<1>13. CASE UNCHANGED vars
  BY <1>13 DEF vars, LoopTypes, RestTypes
<1>q. QED
  BY <1>1, <1>2, <1>3, <1>4, <1>5, <1>6, <1>7, <1>8, <1>9, <1>10, <1>11,
     <1>12, <1>13 DEF Next

(***************************************************************************)
(* No step makes a second owner.                                           *)
(***************************************************************************)
LEMMA OwnerStep ==
    TypeOK /\ OwnerInv /\ [Next]_vars
      => OwnerInv'
<1> SUFFICES ASSUME TypeOK, OwnerInv, [Next]_vars
             PROVE  OwnerInv'
    OBVIOUS
<1> USE Bounds, TypeParts DEF LoopTypes, RestTypes, PCs, OwnerInv, OwnerSteps,
                              RaceSteps
<1>1. ASSUME NEW k \in Nodes, Cycle(k) PROVE OwnerInv'
  <2>1. CASE load_cluster(k)
    BY <2>1 DEF load_cluster, Loaded, dcsVars, loopVars, clientVars
  <2>2. ASSUME NEW m \in Nodes, fetch_node_status(k, m) PROVE OwnerInv'
    BY <2>2 DEF fetch_node_status, Fault, Status, dcsVars, loopVars, clientVars
  <2>3. CASE update_lock(k)
    BY <2>3 DEF update_lock, write_leader_optime, TooEarly, TooLate,
                Misplaced, Clean, manual_failover, Ask, End, dcsVars,
                loopVars, clientVars
  <2>4. CASE process_manual_failover_from_leader(k)
    BY <2>4 DEF process_manual_failover_from_leader, Clean, manual_failover,
                Goto, End, dcsVars, loopVars, clientVars
  <2>5. CASE demote(k)
    BY <2>5 DEF demote, Goto, dcsVars, loopVars, clientVars
  <2>6. CASE release_leader_key(k)
    BY <2>6 DEF release_leader_key, Goto, dcsVars, loopVars, clientVars
  <2>7. CASE demote_Start(k)
    BY <2>7 DEF demote_Start, End, dcsVars, loopVars, clientVars
  <2>8. CASE is_healthiest_node(k)
    BY <2>8 DEF is_healthiest_node, Loaded, Ask, dcsVars, loopVars, clientVars
  <2>9. CASE manual_failover_process_no_leader(k)
    BY <2>9 DEF manual_failover_process_no_leader, Ask, End, dcsVars,
                loopVars, clientVars
  <2>10. CASE former_leader(k)
    BY <2>10 DEF former_leader, Goto, End, dcsVars, loopVars, clientVars
  <2>11. CASE _is_healthiest_node(k)
    BY <2>11 DEF _is_healthiest_node, Goto, End, dcsVars, loopVars, clientVars
  <2>12. CASE attempt_to_acquire_leader(k)
    BY <2>12 DEF attempt_to_acquire_leader, Goto, End, dcsVars, loopVars,
                 clientVars
  <2>13. CASE process_unhealthy_cluster(k)
    BY <2>13 DEF process_unhealthy_cluster, manual_failover, Goto, dcsVars,
                 loopVars, clientVars
  <2>14. CASE enforce_master_role(k)
    BY <2>14 DEF enforce_master_role, End, dcsVars, loopVars, clientVars
  <2>q. QED
    BY <1>1, <2>1, <2>2, <2>3, <2>4, <2>5, <2>6, <2>7, <2>8, <2>9, <2>10,
       <2>11, <2>12, <2>13, <2>14 DEF Cycle
<1>2. ASSUME NEW k \in Nodes, WriteWal(k) \/ Die(k) \/ Revive(k)
      PROVE  OwnerInv'
  <2>1. CASE WriteWal(k)
    BY <2>1 DEF WriteWal, dcsVars, loopVars, clientVars
  <2>2. CASE Die(k)
    BY <2>2 DEF Die, Fault, dcsVars, loopVars, clientVars
  <2>3. CASE Revive(k)
    BY <2>3 DEF Revive, dcsVars, loopVars, clientVars
  <2>q. QED
    BY <1>2, <2>1, <2>2, <2>3
<1>3. ASSUME NEW k \in Nodes, NEW m \in Nodes, Stream(k, m) PROVE OwnerInv'
  BY <1>3 DEF Stream, dcsVars, loopVars, clientVars
<1>4. CASE Expire
  BY <1>4 DEF Expire, dcsVars, loopVars, clientVars
<1>5. CASE TimePasses
  BY <1>5 DEF TimePasses, dcsVars, loopVars, clientVars
<1>6. ASSUME NEW f \in Requests, do_POST_failover(f) PROVE OwnerInv'
  BY <1>6 DEF do_POST_failover, dcsVars, loopVars, clientVars
<1>7. CASE do_POST_failover_Write
  BY <1>7 DEF do_POST_failover_Write, manual_failover, dcsVars, loopVars,
              clientVars
<1>8. CASE poll_failover_result
  BY <1>8 DEF poll_failover_result, dcsVars, loopVars, clientVars
<1>9. CASE ctl_failover
  BY <1>9 DEF ctl_failover, Fault, manual_failover, dcsVars, loopVars,
              clientVars
<1>10. CASE do_DELETE_switchover
  BY <1>10 DEF do_DELETE_switchover, dcsVars, loopVars, clientVars
<1>11. CASE do_DELETE_switchover_Write
  BY <1>11 DEF do_DELETE_switchover_Write, manual_failover, dcsVars, loopVars,
               clientVars
<1>12. CASE ClientDone
  BY <1>12 DEF ClientDone, dcsVars, loopVars, clientVars
<1>13. CASE UNCHANGED vars
  BY <1>13 DEF vars, dcsVars, loopVars, clientVars
<1>q. QED
  BY <1>1, <1>2, <1>3, <1>4, <1>5, <1>6, <1>7, <1>8, <1>9, <1>10, <1>11,
     <1>12, <1>13 DEF Next

(***************************************************************************)
(* While nobody has the key and nobody acquires it, no WAL is written. So  *)
(* what the loop of a node has found out stays true while it does nothing  *)
(* itself.                                                                 *)
(***************************************************************************)
NoneLeads == key = None /\ tenure' = tenure => key' = None /\ wal' = wal

\* A node that does nothing keeps its claim.
LEMMA RaceFrame ==
    ASSUME TypeOK, RaceInv, TypeOK', NEW n \in Nodes,
           tenure <= tenure', NoneLeads,
           pc'[n] = pc[n], view'[n] = view[n], answers'[n] = answers[n]
    PROVE  RaceAt(n)'
<1>1. RaceAt(n)
    BY DEF RaceInv
<1>2. view[n].tenure \in Nat /\ tenure \in Nat /\ tenure' \in Nat
    BY TypeParts, Bounds DEF LoopTypes, RestTypes, Views
<1>3. ASSUME StillFree(n)' PROVE Fair(n)'
  <2>1. tenure' = tenure /\ StillFree(n)
    BY <1>1, <1>2, <1>3 DEF StillFree, RaceAt
  <2>2. Fair(n) /\ key' = None /\ wal' = wal
    BY <1>1, <2>1 DEF RaceAt, Fair, NoneLeads
  <2>q. QED
    BY <2>2 DEF Fair, Ahead, is_lagging
<1>q. QED
    BY <1>1, <1>2, <1>3 DEF RaceAt, Answered

(***************************************************************************)
(* A loop that has come to its end, or has left the race, claims nothing.  *)
(***************************************************************************)
LEMMA RaceEnd ==
    ASSUME TypeOK', NEW n \in Nodes, view'[n] = NoView, pc'[n] = "idle",
           answers'[n] = NoAnswers
    PROVE  RaceAt(n)'
<1>1. tenure' \in Nat /\ NoView.tenure = 0
    BY TypeParts, Bounds DEF RestTypes, NoView
<1>q. QED
    BY <1>1 DEF RaceAt, StillFree, RaceSteps

\* Who has left the race claims nothing.
LEMMA RaceOver ==
    ASSUME TypeOK, RaceInv, TypeOK', NEW n \in Nodes,
           view'[n] = view[n], tenure <= tenure',
           pc'[n] \notin RaceSteps \cup {"idle"}
    PROVE  RaceAt(n)'
<1>1. view[n].tenure \in Nat /\ tenure \in Nat /\ tenure' \in Nat
    BY TypeParts, Bounds DEF LoopTypes, RestTypes, Views
<1>q. QED
    BY <1>1 DEF RaceInv, RaceAt, StillFree, RaceSteps

\* End is such an end.
LEMMA EndOfRace ==
    ASSUME TypeOK, TypeOK', NEW n \in Nodes, End(n) PROVE RaceAt(n)'
BY RaceEnd, TypeParts DEF End, LoopTypes

(***************************************************************************)
(* So a step of one loop has only its own claim to preserve.               *)
(***************************************************************************)
LEMMA RaceRest ==
    ASSUME TypeOK, RaceInv, TypeOK', NEW k \in Nodes,
           tenure <= tenure', NoneLeads,
           \A n \in Nodes \ {k} : /\ pc'[n] = pc[n] /\ view'[n] = view[n]
                                  /\ answers'[n] = answers[n],
           RaceAt(k)'
    PROVE  RaceInv'
BY RaceFrame DEF RaceInv

(***************************************************************************)
(* Every step keeps the claims of the nodes in the race.                   *)
(***************************************************************************)
LEMMA RaceStep ==
    TypeOK /\ TypeOK' /\ OwnerInv /\ RaceInv /\ [Next]_vars
      => RaceInv'
<1> SUFFICES ASSUME TypeOK, TypeOK', OwnerInv, RaceInv, [Next]_vars
             PROVE  RaceInv'
    OBVIOUS
<1> USE Bounds, TypeParts
<1>1. ASSUME NEW k \in Nodes, Cycle(k) PROVE RaceInv'
  <2>1. CASE load_cluster(k)
    <3>1. \A n \in Nodes \ {k} : /\ pc'[n] = pc[n] /\ view'[n] = view[n]
                                  /\ answers'[n] = answers[n]
      BY <2>1 DEF load_cluster, Loaded, dcsVars, loopVars, clientVars,
                  LoopTypes
    <3>2. tenure <= tenure' /\ NoneLeads
      BY <2>1 DEF load_cluster, Loaded, dcsVars, loopVars, clientVars,
                  RestTypes, NoneLeads, OwnerInv, OwnerSteps, RaceSteps
    <3>3. RaceAt(k)'
      <4>1. view'[k].tenure = tenure' /\ pc'[k] = "leader" /\ tenure' \in Nat
        BY <2>1 DEF load_cluster, Loaded, dcsVars, LoopTypes, RestTypes
      <4>q. QED
        BY <4>1 DEF RaceAt, StillFree, RaceSteps
    <3>q. QED
      BY <3>1, <3>2, <3>3, RaceRest
  <2>2. ASSUME NEW m \in Nodes, fetch_node_status(k, m) PROVE RaceInv'
    <3>1. \A n \in Nodes \ {k} : /\ pc'[n] = pc[n] /\ view'[n] = view[n]
                                  /\ answers'[n] = answers[n]
      BY <2>2 DEF fetch_node_status, Fault, Status, dcsVars, loopVars,
                  clientVars, LoopTypes
    <3>2. tenure <= tenure' /\ NoneLeads
      BY <2>2 DEF fetch_node_status, Fault, Status, dcsVars, loopVars,
                  clientVars, RestTypes, NoneLeads, OwnerInv, OwnerSteps,
                  RaceSteps
    <3>3. RaceAt(k)'
      <4>1. RaceAt(k)
        BY DEF RaceInv
      <4>3. pc[k] # "acquire" /\ answers[k] # NoAnswers
        BY <2>2, <4>1 DEF RaceAt, Answered, fetch_node_status, NoAnswers,
                          Unasked, Skipped
      <4>4. UNCHANGED <<pc, view, tenure>>
        BY <2>2 DEF fetch_node_status, dcsVars
      <4>2. ASSUME StillFree(k) PROVE Fair(k)'
        <5>1. /\ Fair(k) /\ key' = None /\ UNCHANGED <<wal, view>>
              /\ pc'[k] = pc[k]
          BY <2>2, <4>1, <4>2 DEF RaceAt, fetch_node_status, dcsVars, Fair
        <5>2. Status(m) >= 0 => Status(m) = wal[m]
          <6>1. Status(m) \in {Unknown, Primary, wal[m]}
            BY Zenon DEF Status
          <6>q. QED
            BY <6>1 DEF Unknown, Primary
        <5>3. \A j \in Nodes \ {m} : answers'[k][j] = answers[k][j]
          BY <2>2 DEF fetch_node_status, LoopTypes
        <5>4. answers'[k][m] >= 0 => answers'[k][m] = wal[m]
          BY <2>2, <5>2 DEF fetch_node_status, LoopTypes, Unknown
        <5>q. QED
          BY <4>3, <5>1, <5>3, <5>4 DEF Fair
      <4>q. QED
        BY <4>1, <4>2, <4>3, <4>4 DEF RaceAt, StillFree
    <3>q. QED
      BY <3>1, <3>2, <3>3, RaceRest
  <2>3. CASE update_lock(k)
    <3>1. \A n \in Nodes \ {k} : /\ pc'[n] = pc[n] /\ view'[n] = view[n]
                                  /\ answers'[n] = answers[n]
      BY <2>3 DEF update_lock, write_leader_optime, TooEarly, TooLate,
                  Misplaced, Clean, manual_failover, Ask, End, dcsVars,
                  loopVars, clientVars, LoopTypes
    <3>2. tenure <= tenure' /\ NoneLeads
      BY <2>3 DEF update_lock, write_leader_optime, TooEarly, TooLate,
                  Misplaced, Clean, manual_failover, Ask, End, dcsVars,
                  loopVars, clientVars, RestTypes, NoneLeads, OwnerInv,
                  OwnerSteps, RaceSteps
    <3>3. RaceAt(k)'
      BY <2>3, <3>2, EndOfRace, RaceOver DEF update_lock, Ask, Goto,
         LoopTypes, RaceSteps, dcsVars
    <3>q. QED
      BY <3>1, <3>2, <3>3, RaceRest
  <2>4. CASE process_manual_failover_from_leader(k)
    <3>1. \A n \in Nodes \ {k} : /\ pc'[n] = pc[n] /\ view'[n] = view[n]
                                  /\ answers'[n] = answers[n]
      BY <2>4 DEF process_manual_failover_from_leader, Clean, manual_failover,
                  Goto, End, dcsVars, loopVars, clientVars, LoopTypes
    <3>2. tenure <= tenure' /\ NoneLeads
      BY <2>4 DEF process_manual_failover_from_leader, Clean, manual_failover,
                  Goto, End, dcsVars, loopVars, clientVars, RestTypes,
                  NoneLeads, OwnerInv, OwnerSteps, RaceSteps
    <3>3. RaceAt(k)'
      BY <2>4, <3>2, EndOfRace, RaceOver DEF
         process_manual_failover_from_leader, Ask, Goto, LoopTypes, RaceSteps,
         dcsVars
    <3>q. QED
      BY <3>1, <3>2, <3>3, RaceRest
  <2>5. CASE demote(k)
    <3>1. \A n \in Nodes \ {k} : /\ pc'[n] = pc[n] /\ view'[n] = view[n]
                                  /\ answers'[n] = answers[n]
      BY <2>5 DEF demote, Goto, dcsVars, loopVars, clientVars, LoopTypes
    <3>2. tenure <= tenure' /\ NoneLeads
      BY <2>5 DEF demote, Goto, dcsVars, loopVars, clientVars, RestTypes,
                  NoneLeads, OwnerInv, OwnerSteps, RaceSteps
    <3>3. RaceAt(k)'
      BY <2>5, <3>2, EndOfRace, RaceOver DEF demote, Ask, Goto, LoopTypes,
         RaceSteps, dcsVars
    <3>q. QED
      BY <3>1, <3>2, <3>3, RaceRest
  <2>6. CASE release_leader_key(k)
    <3>1. \A n \in Nodes \ {k} : /\ pc'[n] = pc[n] /\ view'[n] = view[n]
                                  /\ answers'[n] = answers[n]
      BY <2>6 DEF release_leader_key, Goto, dcsVars, loopVars, clientVars,
                  LoopTypes
    <3>2. tenure <= tenure' /\ NoneLeads
      BY <2>6 DEF release_leader_key, Goto, dcsVars, loopVars, clientVars,
                  RestTypes, NoneLeads, OwnerInv, OwnerSteps, RaceSteps
    <3>3. RaceAt(k)'
      BY <2>6, <3>2, EndOfRace, RaceOver DEF release_leader_key, Ask, Goto,
         LoopTypes, RaceSteps, dcsVars
    <3>q. QED
      BY <3>1, <3>2, <3>3, RaceRest
  <2>7. CASE demote_Start(k)
    <3>1. \A n \in Nodes \ {k} : /\ pc'[n] = pc[n] /\ view'[n] = view[n]
                                  /\ answers'[n] = answers[n]
      BY <2>7 DEF demote_Start, End, dcsVars, loopVars, clientVars, LoopTypes
    <3>2. tenure <= tenure' /\ NoneLeads
      BY <2>7 DEF demote_Start, End, dcsVars, loopVars, clientVars, RestTypes,
                  NoneLeads, OwnerInv, OwnerSteps, RaceSteps
    <3>3. RaceAt(k)'
      BY <2>7, <3>2, EndOfRace, RaceOver DEF demote_Start, Ask, Goto,
         LoopTypes, RaceSteps, dcsVars
    <3>q. QED
      BY <3>1, <3>2, <3>3, RaceRest
  <2>8. CASE is_healthiest_node(k)
    <3>1. \A n \in Nodes \ {k} : /\ pc'[n] = pc[n] /\ view'[n] = view[n]
                                  /\ answers'[n] = answers[n]
      BY <2>8 DEF is_healthiest_node, Loaded, Ask, dcsVars, loopVars,
                  clientVars, LoopTypes
    <3>2. tenure <= tenure' /\ NoneLeads
      BY <2>8 DEF is_healthiest_node, Loaded, Ask, dcsVars, loopVars,
                  clientVars, RestTypes, NoneLeads, OwnerInv, OwnerSteps,
                  RaceSteps
    <3>3. RaceAt(k)'
      <4>1. /\ key' = None /\ tenure' = tenure
            /\ view'[k].tenure = tenure /\ view'[k].failover = failover
        BY <2>8 DEF is_healthiest_node, Loaded, dcsVars, LoopTypes
      <4>2. \A m \in Nodes : ~(answers'[k][m] >= 0)
        BY <2>8 DEF is_healthiest_node, Ask, LoopTypes, Unasked, Skipped
      <4>3. pc'[k] \in RaceSteps /\ (pc'[k] = "former" => failover.leader = k)
        BY <2>8 DEF is_healthiest_node, Ask, LoopTypes, RaceSteps
      <4>4. pc'[k] = "acquire" => Answered(k)'
        BY <2>8 DEF is_healthiest_node, Ask, LoopTypes, Answered, Unasked,
                    Skipped
      <4>5. Fair(k)'
        BY <4>1, <4>2 DEF Fair, Ahead
      <4>6. tenure \in Nat /\ pc'[k] # "idle"
        BY <4>3 DEF RestTypes, RaceSteps
      <4>q. QED
        BY <4>1, <4>3, <4>4, <4>5, <4>6 DEF RaceAt
    <3>q. QED
      BY <3>1, <3>2, <3>3, RaceRest
  <2>9. CASE manual_failover_process_no_leader(k)
    <3>1. \A n \in Nodes \ {k} : /\ pc'[n] = pc[n] /\ view'[n] = view[n]
                                  /\ answers'[n] = answers[n]
      BY <2>9 DEF manual_failover_process_no_leader, Ask, End, dcsVars,
                  loopVars, clientVars, LoopTypes
    <3>2. tenure <= tenure' /\ NoneLeads
      BY <2>9 DEF manual_failover_process_no_leader, Ask, End, dcsVars,
                  loopVars, clientVars, RestTypes, NoneLeads, OwnerInv,
                  OwnerSteps, RaceSteps
    <3>3. RaceAt(k)'
      <4>1. CASE End(k)
        BY <4>1, EndOfRace
      <4>2. CASE ~End(k)
        <5>1. /\ UNCHANGED <<view, tenure, key, wal>>
              /\ pc'[k] \in {"former", "compare"}
          BY <2>9, <4>2 DEF manual_failover_process_no_leader, Ask, LoopTypes,
                            dcsVars
        <5>2. pc'[k] = "former" => view[k].failover.leader = k
          BY <2>9, <4>2 DEF manual_failover_process_no_leader, Ask, LoopTypes
        <5>3. \A m \in Nodes : ~(answers'[k][m] >= 0)
          BY <2>9, <4>2 DEF manual_failover_process_no_leader, Ask, LoopTypes,
                            Unasked, Skipped
        <5>4. pc[k] \in RaceSteps /\ RaceAt(k)
          BY <2>9 DEF manual_failover_process_no_leader, RaceInv, RaceSteps
        <5>5. StillFree(k)' => StillFree(k)
          BY <5>1, <5>4 DEF StillFree
        <5>6. StillFree(k)' => Fair(k)'
          BY <5>1, <5>3, <5>4, <5>5 DEF RaceAt, Fair
        <5>q. QED
          BY <5>1, <5>2, <5>4, <5>6 DEF RaceAt
      <4>q. QED
        BY <4>1, <4>2
    <3>q. QED
      BY <3>1, <3>2, <3>3, RaceRest
  <2>10. CASE former_leader(k)
    <3>1. \A n \in Nodes \ {k} : /\ pc'[n] = pc[n] /\ view'[n] = view[n]
                                  /\ answers'[n] = answers[n]
      BY <2>10 DEF former_leader, Goto, End, dcsVars, loopVars, clientVars,
                   LoopTypes
    <3>2. tenure <= tenure' /\ NoneLeads
      BY <2>10 DEF former_leader, Goto, End, dcsVars, loopVars, clientVars,
                   RestTypes, NoneLeads, OwnerInv, OwnerSteps, RaceSteps
    <3>3. RaceAt(k)'
      <4>1. CASE End(k)
        BY <4>1, EndOfRace
      <4>2. CASE ~End(k)
        <5>1. /\ UNCHANGED <<view, answers, tenure, key, wal, optime>>
              /\ pc'[k] = "acquire"
          BY <2>10, <4>2 DEF former_leader, Goto, LoopTypes, dcsVars
        <5>2. \A m \in Nodes :
                answers[k][m] >= 0 => is_lagging(k, answers[k][m])
          BY <2>10, <4>2 DEF former_leader, is_failover_possible
        <5>3. pc[k] \in RaceSteps /\ RaceAt(k) /\ view[k].failover.leader = k
          BY <2>10 DEF former_leader, RaceInv, RaceAt, RaceSteps
        <5>q. QED
          BY <2>10, <5>1, <5>2, <5>3 DEF former_leader, Answered, RaceAt,
             StillFree, Fair, Ahead, is_lagging
      <4>q. QED
        BY <4>1, <4>2
    <3>q. QED
      BY <3>1, <3>2, <3>3, RaceRest
  <2>11. CASE _is_healthiest_node(k)
    <3>1. \A n \in Nodes \ {k} : /\ pc'[n] = pc[n] /\ view'[n] = view[n]
                                  /\ answers'[n] = answers[n]
      BY <2>11 DEF _is_healthiest_node, Goto, End, dcsVars, loopVars,
                   clientVars, LoopTypes
    <3>2. tenure <= tenure' /\ NoneLeads
      BY <2>11 DEF _is_healthiest_node, Goto, End, dcsVars, loopVars,
                   clientVars, RestTypes, NoneLeads, OwnerInv, OwnerSteps,
                   RaceSteps
    <3>3. RaceAt(k)'
      <4>1. CASE End(k)
        BY <4>1, EndOfRace
      <4>2. CASE ~End(k)
        <5>1. /\ UNCHANGED <<view, answers, tenure, key, wal, optime>>
              /\ pc'[k] = "acquire"
          BY <2>11, <4>2 DEF _is_healthiest_node, Goto, LoopTypes, dcsVars
        <5>2. \A m \in Nodes : answers[k][m] <= wal[k]
          BY <2>11, <4>2 DEF _is_healthiest_node
        <5>3. pc[k] \in RaceSteps /\ RaceAt(k)
          BY <2>11 DEF _is_healthiest_node, RaceInv, RaceSteps
        <5>4. \A m \in Nodes : wal[m] \in Nat /\ answers[k][m] \in Int
          BY DEF LoopTypes, RestTypes
        <5>q. QED
          BY <2>11, <5>1, <5>2, <5>3, <5>4 DEF _is_healthiest_node, Answered,
             RaceAt, StillFree, Fair, Ahead
      <4>q. QED
        BY <4>1, <4>2
    <3>q. QED
      BY <3>1, <3>2, <3>3, RaceRest
  <2>12. CASE attempt_to_acquire_leader(k)
    <3>1. \A n \in Nodes \ {k} : /\ pc'[n] = pc[n] /\ view'[n] = view[n]
                                  /\ answers'[n] = answers[n]
      BY <2>12 DEF attempt_to_acquire_leader, Goto, End, dcsVars, loopVars,
                   clientVars, LoopTypes
    <3>2. tenure <= tenure' /\ NoneLeads
      BY <2>12 DEF attempt_to_acquire_leader, Goto, End, dcsVars, loopVars,
                   clientVars, RestTypes, NoneLeads, OwnerInv, OwnerSteps,
                   RaceSteps
    <3>3. RaceAt(k)'
      BY <2>12, <3>2, EndOfRace, RaceOver DEF attempt_to_acquire_leader, Goto,
         LoopTypes, RaceSteps
    <3>q. QED
      BY <3>1, <3>2, <3>3, RaceRest
  <2>13. CASE process_unhealthy_cluster(k)
    <3>1. \A n \in Nodes \ {k} : /\ pc'[n] = pc[n] /\ view'[n] = view[n]
                                  /\ answers'[n] = answers[n]
      BY <2>13 DEF process_unhealthy_cluster, manual_failover, Goto, dcsVars,
                   loopVars, clientVars, LoopTypes
    <3>2. tenure <= tenure' /\ NoneLeads
      BY <2>13 DEF process_unhealthy_cluster, manual_failover, Goto, dcsVars,
                   loopVars, clientVars, RestTypes, NoneLeads, OwnerInv,
                   OwnerSteps, RaceSteps
    <3>3. RaceAt(k)'
      BY <2>13, <3>2, EndOfRace, RaceOver DEF process_unhealthy_cluster, Ask,
         Goto, LoopTypes, RaceSteps, dcsVars
    <3>q. QED
      BY <3>1, <3>2, <3>3, RaceRest
  <2>14. CASE enforce_master_role(k)
    <3>1. \A n \in Nodes \ {k} : /\ pc'[n] = pc[n] /\ view'[n] = view[n]
                                  /\ answers'[n] = answers[n]
      BY <2>14 DEF enforce_master_role, End, dcsVars, loopVars, clientVars,
                   LoopTypes
    <3>2. tenure <= tenure' /\ NoneLeads
      BY <2>14 DEF enforce_master_role, End, dcsVars, loopVars, clientVars,
                   RestTypes, NoneLeads, OwnerInv, OwnerSteps, RaceSteps
    <3>3. RaceAt(k)'
      BY <2>14, <3>2, EndOfRace, RaceOver DEF enforce_master_role, Ask, Goto,
         LoopTypes, RaceSteps, dcsVars
    <3>q. QED
      BY <3>1, <3>2, <3>3, RaceRest
  <2>q. QED
    BY <1>1, <2>1, <2>2, <2>3, <2>4, <2>5, <2>6, <2>7, <2>8, <2>9, <2>10,
       <2>11, <2>12, <2>13, <2>14 DEF Cycle
<1>2. ASSUME NEW k \in Nodes, WriteWal(k) \/ Die(k) \/ Revive(k) PROVE RaceInv'
  <2>1. CASE WriteWal(k)
    <3>1. \A n \in Nodes : /\ pc'[n] = pc[n] /\ view'[n] = view[n]
                         /\ answers'[n] = answers[n]
      BY <2>1 DEF WriteWal, dcsVars, loopVars, clientVars
    <3>2. tenure <= tenure' /\ NoneLeads
      BY <2>1 DEF WriteWal, dcsVars, loopVars, clientVars, RestTypes,
                  NoneLeads, OwnerInv
    <3>q. QED
      BY <3>1, <3>2, RaceFrame DEF RaceInv
  <2>2. CASE Die(k)
    <3>1. \A n \in Nodes \ {k} : /\ pc'[n] = pc[n] /\ view'[n] = view[n]
                                  /\ answers'[n] = answers[n]
      BY <2>2 DEF Die, Fault, dcsVars, loopVars, clientVars, LoopTypes
    <3>2. tenure <= tenure' /\ NoneLeads
      BY <2>2 DEF Die, Fault, dcsVars, loopVars, clientVars, RestTypes,
                  NoneLeads, OwnerInv, OwnerSteps, RaceSteps
    <3>3. RaceAt(k)'
      BY <2>2, RaceEnd DEF Die, LoopTypes
    <3>q. QED
      BY <3>1, <3>2, <3>3, RaceRest
  <2>3. CASE Revive(k)
    <3>1. \A n \in Nodes : /\ pc'[n] = pc[n] /\ view'[n] = view[n]
                         /\ answers'[n] = answers[n]
      BY <2>3 DEF Revive, dcsVars, loopVars, clientVars
    <3>2. tenure <= tenure' /\ NoneLeads
      BY <2>3 DEF Revive, dcsVars, loopVars, clientVars, RestTypes, NoneLeads,
                  OwnerInv
    <3>q. QED
      BY <3>1, <3>2, RaceFrame DEF RaceInv
  <2>q. QED
    BY <1>2, <2>1, <2>2, <2>3
<1>3. ASSUME NEW k \in Nodes, NEW m \in Nodes, Stream(k, m) PROVE RaceInv'
  <2>1. \A n \in Nodes : /\ pc'[n] = pc[n] /\ view'[n] = view[n]
                       /\ answers'[n] = answers[n]
    BY <1>3 DEF Stream, dcsVars, loopVars, clientVars
  <2>2. tenure <= tenure' /\ NoneLeads
    BY <1>3 DEF Stream, dcsVars, loopVars, clientVars, RestTypes, NoneLeads,
                OwnerInv
  <2>q. QED
    BY <2>1, <2>2, RaceFrame DEF RaceInv
<1>4. CASE Expire
  <2>1. \A n \in Nodes : /\ pc'[n] = pc[n] /\ view'[n] = view[n]
                       /\ answers'[n] = answers[n]
    BY <1>4 DEF Expire, dcsVars, loopVars, clientVars
  <2>2. tenure <= tenure' /\ NoneLeads
    BY <1>4 DEF Expire, dcsVars, loopVars, clientVars, RestTypes, NoneLeads,
                OwnerInv
  <2>q. QED
    BY <2>1, <2>2, RaceFrame DEF RaceInv
<1>5. CASE TimePasses
  <2>1. \A n \in Nodes : /\ pc'[n] = pc[n] /\ view'[n] = view[n]
                       /\ answers'[n] = answers[n]
    BY <1>5 DEF TimePasses, dcsVars, loopVars, clientVars
  <2>2. tenure <= tenure' /\ NoneLeads
    BY <1>5 DEF TimePasses, dcsVars, loopVars, clientVars, RestTypes,
                NoneLeads, OwnerInv
  <2>q. QED
    BY <2>1, <2>2, RaceFrame DEF RaceInv
<1>6. ASSUME NEW f \in Requests, do_POST_failover(f) PROVE RaceInv'
  <2>1. \A n \in Nodes : /\ pc'[n] = pc[n] /\ view'[n] = view[n]
                       /\ answers'[n] = answers[n]
    BY <1>6 DEF do_POST_failover, dcsVars, loopVars, clientVars
  <2>2. tenure <= tenure' /\ NoneLeads
    BY <1>6 DEF do_POST_failover, dcsVars, loopVars, clientVars, RestTypes,
                NoneLeads, OwnerInv
  <2>q. QED
    BY <2>1, <2>2, RaceFrame DEF RaceInv
<1>7. CASE do_POST_failover_Write
  <2>1. \A n \in Nodes : /\ pc'[n] = pc[n] /\ view'[n] = view[n]
                       /\ answers'[n] = answers[n]
    BY <1>7 DEF do_POST_failover_Write, dcsVars, loopVars, clientVars
  <2>2. tenure <= tenure' /\ NoneLeads
    BY <1>7 DEF do_POST_failover_Write, dcsVars, loopVars, clientVars,
                RestTypes, NoneLeads, OwnerInv
  <2>q. QED
    BY <2>1, <2>2, RaceFrame DEF RaceInv
<1>8. CASE poll_failover_result
  <2>1. \A n \in Nodes : /\ pc'[n] = pc[n] /\ view'[n] = view[n]
                       /\ answers'[n] = answers[n]
    BY <1>8 DEF poll_failover_result, dcsVars, loopVars, clientVars
  <2>2. tenure <= tenure' /\ NoneLeads
    BY <1>8 DEF poll_failover_result, dcsVars, loopVars, clientVars,
                RestTypes, NoneLeads, OwnerInv
  <2>q. QED
    BY <2>1, <2>2, RaceFrame DEF RaceInv
<1>9. CASE ctl_failover
  <2>1. \A n \in Nodes : /\ pc'[n] = pc[n] /\ view'[n] = view[n]
                       /\ answers'[n] = answers[n]
    BY <1>9 DEF ctl_failover, dcsVars, loopVars, clientVars
  <2>2. tenure <= tenure' /\ NoneLeads
    BY <1>9 DEF ctl_failover, dcsVars, loopVars, clientVars, RestTypes,
                NoneLeads, OwnerInv
  <2>q. QED
    BY <2>1, <2>2, RaceFrame DEF RaceInv
<1>10. CASE do_DELETE_switchover
  <2>1. \A n \in Nodes : /\ pc'[n] = pc[n] /\ view'[n] = view[n]
                       /\ answers'[n] = answers[n]
    BY <1>10 DEF do_DELETE_switchover, dcsVars, loopVars, clientVars
  <2>2. tenure <= tenure' /\ NoneLeads
    BY <1>10 DEF do_DELETE_switchover, dcsVars, loopVars, clientVars,
                 RestTypes, NoneLeads, OwnerInv
  <2>q. QED
    BY <2>1, <2>2, RaceFrame DEF RaceInv
<1>11. CASE do_DELETE_switchover_Write
  <2>1. \A n \in Nodes : /\ pc'[n] = pc[n] /\ view'[n] = view[n]
                       /\ answers'[n] = answers[n]
    BY <1>11 DEF do_DELETE_switchover_Write, dcsVars, loopVars, clientVars
  <2>2. tenure <= tenure' /\ NoneLeads
    BY <1>11 DEF do_DELETE_switchover_Write, dcsVars, loopVars, clientVars,
                 RestTypes, NoneLeads, OwnerInv
  <2>q. QED
    BY <2>1, <2>2, RaceFrame DEF RaceInv
<1>12. CASE ClientDone
  <2>1. \A n \in Nodes : /\ pc'[n] = pc[n] /\ view'[n] = view[n]
                       /\ answers'[n] = answers[n]
    BY <1>12 DEF ClientDone, dcsVars, loopVars, clientVars
  <2>2. tenure <= tenure' /\ NoneLeads
    BY <1>12 DEF ClientDone, dcsVars, loopVars, clientVars, RestTypes,
                 NoneLeads, OwnerInv
  <2>q. QED
    BY <2>1, <2>2, RaceFrame DEF RaceInv
<1>13. CASE UNCHANGED vars
  BY <1>13, RaceFrame DEF vars, RaceInv, NoneLeads, RestTypes
<1>q. QED
  BY <1>1, <1>2, <1>3, <1>4, <1>5, <1>6, <1>7, <1>8, <1>9, <1>10, <1>11,
     <1>12, <1>13 DEF Next

(***************************************************************************)
(* Outside pause: without faults, who has taken over on a request stays    *)
(* the owner until the client has seen it.                                 *)
(***************************************************************************)
LEMMA RunningStep ==
    TypeOK /\ OwnerInv /\ RunningInv /\ faults' = 0 /\ dead = {}
    /\ ~paused /\ [Next]_vars
      => RunningInv'
<1> SUFFICES ASSUME TypeOK, OwnerInv, RunningInv, faults' = 0, dead = {},
                    ~paused, [Next]_vars
             PROVE  RunningInv'
    OBVIOUS
<1> USE Bounds, TypeParts, Values DEF LoopTypes, RestTypes, PCs, OwnerInv,
                                      OwnerSteps, RaceSteps, RunningInv,
                                      TakenOver
<1>1. ASSUME NEW k \in Nodes, Cycle(k) PROVE RunningInv'
  <2>1. CASE load_cluster(k)
    BY <2>1 DEF load_cluster, Loaded, dcsVars, loopVars, clientVars
  <2>2. ASSUME NEW m \in Nodes, fetch_node_status(k, m) PROVE RunningInv'
    BY <2>2 DEF fetch_node_status, Fault, Status, dcsVars, loopVars, clientVars
  <2>3. CASE update_lock(k)
    BY <2>3 DEF update_lock, write_leader_optime, TooEarly, TooLate,
                Misplaced, Clean, manual_failover, Ask, End, dcsVars,
                loopVars, clientVars
  <2>4. CASE process_manual_failover_from_leader(k)
    BY <2>4 DEF process_manual_failover_from_leader, Clean, manual_failover,
                Goto, End, dcsVars, loopVars, clientVars
  <2>5. CASE demote(k)
    BY <2>5 DEF demote, Goto, dcsVars, loopVars, clientVars
  <2>6. CASE release_leader_key(k)
    BY <2>6 DEF release_leader_key, Goto, dcsVars, loopVars, clientVars
  <2>7. CASE demote_Start(k)
    BY <2>7 DEF demote_Start, End, dcsVars, loopVars, clientVars
  <2>8. CASE is_healthiest_node(k)
    BY <2>8 DEF is_healthiest_node, Loaded, Ask, dcsVars, loopVars, clientVars
  <2>9. CASE manual_failover_process_no_leader(k)
    BY <2>9 DEF manual_failover_process_no_leader, Ask, End, dcsVars,
                loopVars, clientVars
  <2>10. CASE former_leader(k)
    BY <2>10 DEF former_leader, Goto, End, dcsVars, loopVars, clientVars
  <2>11. CASE _is_healthiest_node(k)
    BY <2>11 DEF _is_healthiest_node, Goto, End, dcsVars, loopVars, clientVars
  <2>12. CASE attempt_to_acquire_leader(k)
    BY <2>12 DEF attempt_to_acquire_leader, Goto, End, dcsVars, loopVars,
                 clientVars
  <2>13. CASE process_unhealthy_cluster(k)
    <3>1. failover' = [Empty EXCEPT !.index = failover.index + 1]
      BY <2>13 DEF process_unhealthy_cluster, manual_failover
    <3>2. ~Requested(failover')
      BY <3>1 DEF Requested, Empty, NoView
    <3>q. QED
      BY <2>13, <3>2 DEF process_unhealthy_cluster, Goto, clientVars
  <2>14. CASE enforce_master_role(k)
    BY <2>14 DEF enforce_master_role, End, dcsVars, loopVars, clientVars
  <2>q. QED
    BY <1>1, <2>1, <2>2, <2>3, <2>4, <2>5, <2>6, <2>7, <2>8, <2>9, <2>10,
       <2>11, <2>12, <2>13, <2>14 DEF Cycle
<1>2. ASSUME NEW k \in Nodes, WriteWal(k) \/ Die(k) \/ Revive(k)
      PROVE  RunningInv'
  <2>1. CASE WriteWal(k)
    BY <2>1 DEF WriteWal, dcsVars, loopVars, clientVars
  <2>2. CASE Die(k)
    BY <2>2 DEF Die, Fault, dcsVars, loopVars, clientVars
  <2>3. CASE Revive(k)
    BY <2>3 DEF Revive, dcsVars, loopVars, clientVars
  <2>q. QED
    BY <1>2, <2>1, <2>2, <2>3
<1>3. ASSUME NEW k \in Nodes, NEW m \in Nodes, Stream(k, m) PROVE RunningInv'
  BY <1>3 DEF Stream, dcsVars, loopVars, clientVars
<1>4. CASE Expire
  BY <1>4 DEF Expire, dcsVars, loopVars, clientVars
<1>5. CASE TimePasses
  BY <1>5 DEF TimePasses, Requested, dcsVars, loopVars, clientVars
<1>6. ASSUME NEW f \in Requests, do_POST_failover(f) PROVE RunningInv'
  BY <1>6 DEF do_POST_failover, dcsVars, loopVars, clientVars
<1>7. CASE do_POST_failover_Write
  BY <1>7 DEF do_POST_failover_Write, manual_failover, dcsVars, loopVars,
              clientVars
<1>8. CASE poll_failover_result
  BY <1>8 DEF poll_failover_result, dcsVars, loopVars, clientVars
<1>9. CASE ctl_failover
  BY <1>9 DEF ctl_failover, Fault, manual_failover, dcsVars, loopVars,
              clientVars
<1>10. CASE do_DELETE_switchover
  BY <1>10 DEF do_DELETE_switchover, dcsVars, loopVars, clientVars
<1>11. CASE do_DELETE_switchover_Write
  BY <1>11 DEF do_DELETE_switchover_Write, manual_failover, dcsVars, loopVars,
               clientVars
<1>12. CASE ClientDone
  BY <1>12 DEF ClientDone, dcsVars, loopVars, clientVars
<1>13. CASE UNCHANGED vars
  BY <1>13 DEF vars, dcsVars, loopVars, clientVars
<1>q. QED
  BY <1>1, <1>2, <1>3, <1>4, <1>5, <1>6, <1>7, <1>8, <1>9, <1>10, <1>11,
     <1>12, <1>13 DEF Next

(***************************************************************************)
(* In pause: without faults, a request is executed for the client that     *)
(* waits for it, or is left to a candidate that already has the key.       *)
(***************************************************************************)
LEMMA PausedStep ==
    TypeOK /\ TypeOK' /\ OwnerInv /\ PausedRun /\ faults' = 0 /\ dead = {}
    /\ paused /\ [Next]_vars
      => PausedRun'
<1> SUFFICES ASSUME TypeOK, TypeOK', OwnerInv, PausedRun, faults' = 0,
                    dead = {}, paused, [Next]_vars
             PROVE  PausedRun'
    OBVIOUS
<1> USE Bounds, TypeParts, Values DEF LoopTypes, RestTypes, Views, PCs,
                                      ApiPCs, OwnerInv, OwnerSteps, RaceSteps,
                                      PausedRun, PausedApi, PausedKey,
                                      PausedLoop, PausedView, Leaving,
                                      Unmoved, Requested
<1>1. ASSUME NEW k \in Nodes, Cycle(k) PROVE PausedRun'
  <2>1. CASE load_cluster(k)
    BY <2>1 DEF load_cluster, Loaded, Empty, NoView, dcsVars, loopVars,
                clientVars
  <2>2. ASSUME NEW m \in Nodes, fetch_node_status(k, m) PROVE PausedRun'
    BY <2>2 DEF fetch_node_status, Fault, Status, Empty, NoView, dcsVars,
                loopVars, clientVars
  <2>3. CASE update_lock(k)
    <3>1. view[k].failover.at = "none" /\ PausedView(k) /\ key = k
      BY <2>3 DEF update_lock
    <3>2. CASE End(k)
      <4>1. /\ UNCHANGED <<key, api>> /\ pc' = [pc EXCEPT ![k] = "idle"]
            /\ view' = [view EXCEPT ![k] = NoView]
        BY <2>3, <3>2 DEF update_lock, End, clientVars
      <4>2. \/ failover' = failover
            \/ failover' = [Empty EXCEPT !.index = failover.index + 1]
        BY <2>3 DEF update_lock, Clean, manual_failover
      <4>3. /\ failover'.at = "none"
            /\ failover' = failover \/ ~Requested(failover')
        BY <4>2 DEF Empty, NoView
      <4>4. \A n \in Nodes \ {k} :
              pc'[n] = pc[n] /\ pc[n] \notin OwnerSteps /\ view'[n] = view[n]
        BY <3>1, <4>1
      <4>5. PausedApi' /\ PausedKey'
        BY <3>1, <4>1, <4>3
      <4>6. (\A n \in Nodes : view'[n].failover.at = "none") /\ pc'[k] = "idle"
        BY <4>1, <4>4 DEF NoView
      <4>7. PausedLoop'
        BY <3>1, <4>1, <4>4, <4>6
      <4>q. QED
        BY <4>5, <4>7
    <3>3. CASE ~End(k)
      <4>1. LET f == view[k].failover IN
            /\ Requested(f) /\ ~Misplaced(k, f)
            /\ UNCHANGED <<key, api, failover, view>>
            /\ pc' = [pc EXCEPT ![k] = "from_leader"]
        BY <2>3, <3>3 DEF update_lock, Ask, clientVars
      <4>2. Leaving(k)
        BY <3>1, <4>1 DEF Misplaced
      <4>q. QED
        BY <3>1, <4>1, <4>2
    <3>q. QED
      BY <3>2, <3>3
  <2>4. CASE process_manual_failover_from_leader(k)
    BY <2>4 DEF process_manual_failover_from_leader, Clean, manual_failover,
                Goto, End, Empty, NoView, dcsVars, loopVars, clientVars
  <2>5. CASE demote(k)
    BY <2>5 DEF demote, Goto, Empty, NoView, dcsVars, loopVars, clientVars
  <2>6. CASE release_leader_key(k)
    BY <2>6 DEF release_leader_key, Goto, Empty, NoView, dcsVars, loopVars,
                clientVars
  <2>7. CASE demote_Start(k)
    BY <2>7 DEF demote_Start, End, Empty, NoView, dcsVars, loopVars, clientVars
  <2>8. CASE is_healthiest_node(k)
    BY <2>8 DEF is_healthiest_node, Loaded, Ask, Empty, NoView, dcsVars,
                loopVars, clientVars
  <2>9. CASE manual_failover_process_no_leader(k)
    BY <2>9 DEF manual_failover_process_no_leader, Ask, End, Empty, NoView,
                dcsVars, loopVars, clientVars
  <2>10. CASE former_leader(k)
    BY <2>10 DEF former_leader, Goto, End, Empty, NoView, dcsVars, loopVars,
                 clientVars
  <2>11. CASE _is_healthiest_node(k)
    BY <2>11 DEF _is_healthiest_node, Goto, End, Empty, NoView, dcsVars,
                 loopVars, clientVars
  <2>12. CASE attempt_to_acquire_leader(k)
    <3>1. pc[k] = "acquire" /\ key = None /\ failover.candidate = k
         /\ view[k].failover.candidate = k /\ Requested(view[k].failover)
      BY <2>12 DEF attempt_to_acquire_leader
    <3>2. Unmoved /\ k # api.leader /\ failover.at = "none"
      BY <3>1
    <3>3. /\ key' = k /\ pc' = [pc EXCEPT ![k] = "clean"]
          /\ UNCHANGED <<failover, view>>
          /\ api' = [api EXCEPT !.moved = TRUE]
      BY <2>12, <3>1, <3>2 DEF attempt_to_acquire_leader, Goto
    <3>q. QED
      BY <3>1, <3>2, <3>3
  <2>13. CASE process_unhealthy_cluster(k)
    <3>1. key = k /\ pc[k] = "clean" /\ view[k].failover.candidate = k
      BY <2>13 DEF process_unhealthy_cluster
    <3>2. UNCHANGED <<key, api, view>> /\ pc' = [pc EXCEPT ![k] = "promote"]
      BY <2>13 DEF process_unhealthy_cluster, Goto, clientVars
    <3>3. \/ failover' = failover
          \/ failover'.at = "none" /\ ~Requested(failover')
          \/ failover'.at = view[k].failover.at /\ failover'.candidate = k
      <4> DEFINE f == view[k].failover
      <4>1. CASE manual_failover([f EXCEPT !.leader = None], f.index)
        <5>1. f \in Failovers
          OBVIOUS
        <5>2. /\ [f EXCEPT !.leader = None].candidate = f.candidate
              /\ [f EXCEPT !.leader = None].at = f.at
              /\ [f EXCEPT !.leader = None] \in Failovers
          BY <5>1 DEF Failovers
        <5> HIDE DEF f
        <5>q. QED
          BY <3>1, <4>1, <5>2, WhatIsWritten DEF f
      <4>2. CASE manual_failover(Empty, failover.index)
        <5>1. Empty.at = "none" /\ ~Requested(Empty)
          BY DEF Empty, NoView, Requested
        <5>q. QED
          BY <4>2, <5>1, WhatIsWritten DEF Requested
      <4>q. QED
        BY <2>13, <4>1, <4>2 DEF process_unhealthy_cluster
    <3>q. QED
      BY <3>1, <3>2, <3>3
  <2>14. CASE enforce_master_role(k)
    BY <2>14 DEF enforce_master_role, End, Empty, NoView, dcsVars, loopVars,
                 clientVars
  <2>q. QED
    BY <1>1, <2>1, <2>2, <2>3, <2>4, <2>5, <2>6, <2>7, <2>8, <2>9, <2>10,
       <2>11, <2>12, <2>13, <2>14 DEF Cycle
<1>2. ASSUME NEW k \in Nodes, WriteWal(k) \/ Die(k) \/ Revive(k)
      PROVE  PausedRun'
  <2>1. CASE WriteWal(k)
    BY <2>1 DEF WriteWal, Empty, NoView, dcsVars, loopVars, clientVars
  <2>2. CASE Die(k)
    BY <2>2 DEF Die, Fault, Empty, NoView, dcsVars, loopVars, clientVars
  <2>3. CASE Revive(k)
    BY <2>3 DEF Revive, Empty, NoView, dcsVars, loopVars, clientVars
  <2>q. QED
    BY <1>2, <2>1, <2>2, <2>3
<1>3. ASSUME NEW k \in Nodes, NEW m \in Nodes, Stream(k, m) PROVE PausedRun'
  BY <1>3 DEF Stream, Empty, NoView, dcsVars, loopVars, clientVars
<1>4. CASE Expire
  BY <1>4 DEF Expire, Empty, NoView, dcsVars, loopVars, clientVars
<1>5. CASE TimePasses
  BY <1>5 DEF TimePasses, Empty, NoView, dcsVars, loopVars, clientVars
<1>6. ASSUME NEW f \in Requests, do_POST_failover(f) PROVE PausedRun'
  BY <1>6 DEF do_POST_failover, Empty, NoView, dcsVars, loopVars, clientVars
<1>7. CASE do_POST_failover_Write
  BY <1>7 DEF do_POST_failover_Write, manual_failover, Empty, NoView, dcsVars,
              loopVars, clientVars
<1>8. CASE poll_failover_result
  BY <1>8 DEF poll_failover_result, Empty, NoView, dcsVars, loopVars,
              clientVars
<1>9. CASE ctl_failover
  BY <1>9 DEF ctl_failover, Fault, manual_failover, Empty, NoView, dcsVars,
              loopVars, clientVars
<1>10. CASE do_DELETE_switchover
  BY <1>10 DEF do_DELETE_switchover, Empty, NoView, dcsVars, loopVars,
               clientVars
<1>11. CASE do_DELETE_switchover_Write
  BY <1>11 DEF do_DELETE_switchover_Write, manual_failover, Empty, NoView,
               dcsVars, loopVars, clientVars
<1>12. CASE ClientDone
  BY <1>12 DEF ClientDone, Empty, NoView, dcsVars, loopVars, clientVars
<1>13. CASE UNCHANGED vars
  BY <1>13 DEF vars, dcsVars, loopVars, clientVars
<1>q. QED
  BY <1>1, <1>2, <1>3, <1>4, <1>5, <1>6, <1>7, <1>8, <1>9, <1>10, <1>11,
     <1>12, <1>13 DEF Next

(***************************************************************************)
(* Only poll_failover_result reports a failure, and it looks at the        *)
(* leader.                                                                 *)
(***************************************************************************)
LEMMA FailedReported ==
    ASSUME TypeOK, OwnerInv, [Next]_vars, dead = {}, RunningInv, PausedInv,
           api.pc = "failed" => ~api.moved
    PROVE  api'.pc = "failed" => ~api'.moved
<1> USE TypeParts DEF RestTypes
<1>1. CASE poll_failover_result
  BY <1>1 DEF poll_failover_result, RunningInv, TakenOver, PausedInv,
              PausedRun, PausedApi
<1>2. ASSUME NEW k \in Nodes, attempt_to_acquire_leader(k)
      PROVE  api'.pc = "failed" => ~api'.moved
  BY <1>2 DEF attempt_to_acquire_leader
<1>3. CASE UNCHANGED api
  BY <1>3
<1>4. CASE \/ do_POST_failover_Write \/ ctl_failover \/ do_DELETE_switchover
           \/ do_DELETE_switchover_Write \/ ClientDone
           \/ \E f \in Requests : do_POST_failover(f)
  <2>1. ASSUME NEW f \in Requests, do_POST_failover(f)
        PROVE  api'.pc # "failed"
    BY <2>1 DEF do_POST_failover
  <2>2. CASE do_POST_failover_Write
    BY <2>2 DEF do_POST_failover_Write
  <2>3. CASE ctl_failover
    BY <2>3 DEF ctl_failover
  <2>4. CASE do_DELETE_switchover
    BY <2>4 DEF do_DELETE_switchover
  <2>5. CASE do_DELETE_switchover_Write
    BY <2>5 DEF do_DELETE_switchover_Write
  <2>6. CASE ClientDone
    BY <2>6 DEF ClientDone
  <2>q. QED
    BY <1>4, <2>1, <2>2, <2>3, <2>4, <2>5, <2>6
<1>5. \/ UNCHANGED api \/ poll_failover_result
      \/ do_POST_failover_Write \/ ctl_failover \/ do_DELETE_switchover
      \/ do_DELETE_switchover_Write \/ ClientDone
      \/ \E f \in Requests : do_POST_failover(f)
      \/ \E k \in Nodes : attempt_to_acquire_leader(k)
  <2>1. ASSUME NEW k \in Nodes, Cycle(k)
        PROVE  UNCHANGED api \/ attempt_to_acquire_leader(k)
    BY <2>1 DEF Cycle, load_cluster, fetch_node_status, update_lock,
                process_manual_failover_from_leader, demote,
                release_leader_key, demote_Start, is_healthiest_node,
                manual_failover_process_no_leader, former_leader,
                _is_healthiest_node, process_unhealthy_cluster,
                enforce_master_role, clientVars
  <2>2. ASSUME NEW k \in Nodes, WriteWal(k) \/ Die(k) \/ Revive(k)
        PROVE  UNCHANGED api
    BY <2>2 DEF WriteWal, Die, Revive, clientVars
  <2>3. ASSUME NEW k \in Nodes, NEW m \in Nodes, Stream(k, m)
        PROVE  UNCHANGED api
    BY <2>3 DEF Stream, clientVars
  <2>4. CASE Expire \/ TimePasses \/ UNCHANGED vars
    BY <2>4 DEF Expire, TimePasses, vars, clientVars
  <2>q. QED
    BY <2>1, <2>2, <2>3, <2>4 DEF Next
<1>q. QED
  BY <1>1, <1>2, <1>3, <1>4, <1>5

(***************************************************************************)
(* The types of process_unhealthy_cluster, do_POST_failover,               *)
(* manual_failover and all other steps are right, for any number of nodes, *)
(* tenures, requests and faults.                                           *)
(***************************************************************************)
THEOREM TypeCorrect == Spec => []TypeOK
<1>1. Init => TypeOK
  <2> SUFFICES ASSUME Init PROVE TypeOK
    OBVIOUS
  <2>1. key \in Nodes
    BY RaceAssumption DEF Init
  <2>2. LoopTypes
    BY Values DEF Init, LoopTypes, PCs
  <2>3. db \in [Nodes -> {"primary", "replica", "stopped"}]
    BY <2>1 DEF Init
  <2>4. api \in [pc : ApiPCs, f : Failovers, leader : Nodes \cup {None},
                 moved : BOOLEAN]
    BY Values DEF Init, ApiPCs
  <2>5. tenure \in 0..MaxTenures
    BY RaceAssumption DEF Init
  <2>q. QED
    BY <2>1, <2>2, <2>3, <2>4, <2>5, Values, Bounds, TypeParts
       DEF Init, RestTypes
<1>2. TypeOK /\ [Next]_vars => TypeOK'
  BY TypeStep
<1>q. QED
  BY <1>1, <1>2, PTL DEF Spec

(***************************************************************************)
(* Only the owner leads, for any number of nodes and faults, and what the  *)
(* nodes in a race have found out is true.                                 *)
(***************************************************************************)
LEMMA RaceHolds == Spec => [](TypeOK /\ OwnerInv /\ RaceInv)
<1>1. Init => OwnerInv
  BY DEF Init, OwnerInv, OwnerSteps, RaceSteps
<1>2. Init => RaceInv
  BY Bounds DEF Init, RaceInv, RaceAt, StillFree, RaceSteps, NoView
<1>3. TypeOK /\ TypeOK' /\ OwnerInv /\ RaceInv /\ [Next]_vars
        => OwnerInv' /\ RaceInv'
  BY OwnerStep, RaceStep
<1>q. QED
  BY <1>1, <1>2, <1>3, TypeCorrect, PTL DEF Spec

(***************************************************************************)
(* _is_healthiest_node (ha.py) compares WAL positions that were asked for  *)
(* one after the other, and acquire_lock reads nothing again: the          *)
(* comparison is right all the same, for any number of nodes and any WAL,  *)
(* because nobody writes while the key stays free.                         *)
(***************************************************************************)
THEOREM WinnerIsHealthiestHolds == Spec => WinnerIsHealthiest
<1>1. TypeOK /\ RaceInv /\ [Next]_vars
  => [\A n \in Nodes :
        /\ key = None /\ key' = n
        /\ view[n].tenure = tenure
        => \A m \in Nodes :
             answers[n][m] >= 0 =>
               \/ wal[m] <= wal[n]
               \/ view[n].failover.leader = n /\ is_lagging(n, answers[n][m])]_vars
  <2> SUFFICES ASSUME TypeOK, RaceInv, Next, NEW n \in Nodes,
                      key = None, key' = n, view[n].tenure = tenure
               PROVE  \A m \in Nodes :
                        answers[n][m] >= 0 =>
                          \/ wal[m] <= wal[n]
                          \/ /\ view[n].failover.leader = n
                             /\ is_lagging(n, answers[n][m])
    OBVIOUS
  <2>1. key' # key
    BY Bounds
  <2>2. \A k \in Nodes : ~(WriteWal(k) \/ Die(k) \/ Revive(k))
    BY <2>1 DEF WriteWal, Die, Revive, dcsVars
  <2>3. \A k, m \in Nodes : ~Stream(k, m)
    BY <2>1 DEF Stream, dcsVars
  <2>4. ~(Expire \/ TimePasses)
    BY <2>1, Bounds DEF Expire, TimePasses
  <2>5. \A f \in Requests : ~do_POST_failover(f)
    BY <2>1 DEF do_POST_failover, dcsVars
  <2>6. ~(\/ do_POST_failover_Write \/ poll_failover_result \/ ctl_failover
          \/ do_DELETE_switchover \/ do_DELETE_switchover_Write \/ ClientDone)
    BY <2>1 DEF do_POST_failover_Write, poll_failover_result, ctl_failover,
                do_DELETE_switchover, do_DELETE_switchover_Write, ClientDone,
                dcsVars
  <2>7. PICK k \in Nodes : Cycle(k)
    BY <2>2, <2>3, <2>4, <2>5, <2>6 DEF Next
  <2>8. pc[n] = "acquire"
    <3>1. ASSUME NEW m \in Nodes PROVE ~fetch_node_status(k, m)
      BY <2>1 DEF fetch_node_status, dcsVars
    <3>2. ~(\/ load_cluster(k) \/ update_lock(k)
            \/ process_manual_failover_from_leader(k) \/ demote(k)
            \/ demote_Start(k) \/ is_healthiest_node(k)
            \/ manual_failover_process_no_leader(k) \/ former_leader(k)
            \/ _is_healthiest_node(k) \/ process_unhealthy_cluster(k)
            \/ enforce_master_role(k))
      BY <2>1 DEF load_cluster, update_lock,
                  process_manual_failover_from_leader, demote, demote_Start,
                  is_healthiest_node, manual_failover_process_no_leader,
                  former_leader, _is_healthiest_node,
                  process_unhealthy_cluster, enforce_master_role, dcsVars
    <3>3. ~release_leader_key(k)
      BY <2>1 DEF release_leader_key
    <3>4. attempt_to_acquire_leader(k)
      BY <2>7, <3>1, <3>2, <3>3 DEF Cycle
    <3>q. QED
      BY <2>1, <3>4 DEF attempt_to_acquire_leader
  <2>9. Fair(n)
    BY <2>8 DEF RaceInv, RaceAt, StillFree, RaceSteps
  <2>10. \A m \in Nodes : wal[m] \in Nat
    BY TypeParts DEF RestTypes
  <2>q. QED
    BY <2>8, <2>9, <2>10 DEF Fair, Ahead
<1>q. QED
  BY <1>1, RaceHolds, PTL DEF Spec, WinnerIsHealthiest

(***************************************************************************)
(* Every step keeps what makes a failure of poll_failover_result true.     *)
(***************************************************************************)
LEMMA FailedStep ==
    TypeOK /\ TypeOK' /\ OwnerInv /\ FailedInv /\ [Next]_vars => FailedInv'
<1> SUFFICES ASSUME TypeOK, TypeOK', OwnerInv, FailedInv, [Next]_vars,
                    faults' = 0
             PROVE  FailedInv'
    BY DEF FailedInv
<1>1. paused' = paused /\ faults = 0 /\ dead' \subseteq dead
  <2> USE TypeParts, Bounds DEF RestTypes
  <2>1. ASSUME NEW k \in Nodes, Cycle(k)
        PROVE paused' = paused /\ faults = 0 /\ dead' = dead
    <3>1. CASE load_cluster(k)
      BY <3>1 DEF load_cluster
    <3>2. ASSUME NEW m \in Nodes, fetch_node_status(k, m)
          PROVE paused' = paused /\ faults = 0 /\ dead' = dead
      BY <3>2 DEF fetch_node_status, Fault
    <3>3. CASE update_lock(k)
      BY <3>3 DEF update_lock
    <3>4. CASE process_manual_failover_from_leader(k)
      BY <3>4 DEF process_manual_failover_from_leader
    <3>5. CASE demote(k)
      BY <3>5 DEF demote
    <3>6. CASE release_leader_key(k)
      BY <3>6 DEF release_leader_key
    <3>7. CASE demote_Start(k)
      BY <3>7 DEF demote_Start
    <3>8. CASE is_healthiest_node(k)
      BY <3>8 DEF is_healthiest_node
    <3>9. CASE manual_failover_process_no_leader(k)
      BY <3>9 DEF manual_failover_process_no_leader
    <3>10. CASE former_leader(k)
      BY <3>10 DEF former_leader
    <3>11. CASE _is_healthiest_node(k)
      BY <3>11 DEF _is_healthiest_node
    <3>12. CASE attempt_to_acquire_leader(k)
      BY <3>12 DEF attempt_to_acquire_leader
    <3>13. CASE process_unhealthy_cluster(k)
      BY <3>13 DEF process_unhealthy_cluster
    <3>14. CASE enforce_master_role(k)
      BY <3>14 DEF enforce_master_role
    <3>q. QED
      BY <2>1, <3>1, <3>2, <3>3, <3>4, <3>5, <3>6, <3>7, <3>8, <3>9, <3>10,
         <3>11, <3>12, <3>13, <3>14 DEF Cycle
  <2>2. ASSUME NEW k \in Nodes, WriteWal(k) \/ Die(k) \/ Revive(k)
        PROVE paused' = paused /\ faults = 0 /\ dead' \subseteq dead
    BY <2>2 DEF WriteWal, Die, Revive, Fault
  <2>3. ASSUME NEW k \in Nodes, NEW m \in Nodes, Stream(k, m)
        PROVE paused' = paused /\ faults = 0 /\ dead' \subseteq dead
    BY <2>3 DEF Stream
  <2>4. ASSUME NEW f \in Requests, do_POST_failover(f)
        PROVE paused' = paused /\ faults = 0 /\ dead' \subseteq dead
    BY <2>4 DEF do_POST_failover
  <2>5. CASE \/ Expire \/ TimePasses \/ do_POST_failover_Write
             \/ poll_failover_result \/ ctl_failover \/ do_DELETE_switchover
             \/ do_DELETE_switchover_Write \/ ClientDone \/ UNCHANGED vars
    BY <2>5 DEF Expire, TimePasses, do_POST_failover_Write,
                poll_failover_result, ctl_failover, Fault,
                do_DELETE_switchover, do_DELETE_switchover_Write, ClientDone,
                vars
  <2>q. QED
    BY <2>1, <2>2, <2>3, <2>4, <2>5 DEF Next
<1>2. dead = {} /\ RunningInv /\ PausedInv /\ (api.pc = "failed" => ~api.moved)
    BY <1>1 DEF FailedInv
<1>3. dead' = {}
    BY <1>1, <1>2
<1>4. CASE ~paused
  <2>1. RunningInv'
    BY <1>2, <1>4, RunningStep
  <2>q. QED
    BY <1>1, <1>2, <1>3, <1>4, <2>1, FailedReported DEF FailedInv, PausedInv
<1>5. CASE paused
  <2>1. PausedRun
    BY <1>2, <1>5 DEF PausedInv
  <2>2. PausedRun'
    BY <1>2, <1>5, <2>1, PausedStep
  <2>q. QED
    BY <1>1, <1>2, <1>3, <1>5, <2>2, FailedReported DEF FailedInv, PausedInv,
       RunningInv
<1>q. QED
    BY <1>4, <1>5

(***************************************************************************)
(* The failure that do_POST_failover reports to its client (api.py,        *)
(* poll_failover_result) is one: while no node dies and no call fails, no  *)
(* other node has taken over on a request since this one was written, for  *)
(* any number of nodes, tenures and requests, in pause or not.             *)
(***************************************************************************)
THEOREM FailedMeansUnchangedHolds == Spec => []FailedMeansUnchanged
<1>1. Init => FailedInv
  <2> SUFFICES ASSUME Init PROVE FailedInv
    OBVIOUS
  <2>1. key \in Nodes
    BY RaceAssumption DEF Init
  <2>q. QED
    BY <2>1, Bounds DEF Init, FailedInv, RunningInv, PausedInv, PausedRun,
                        PausedApi, PausedKey, PausedLoop, Unmoved, Requested,
                        NoView
<1>2. TypeOK /\ TypeOK' /\ OwnerInv /\ FailedInv /\ [Next]_vars => FailedInv'
  BY FailedStep
<1>3. TypeOK /\ FailedInv => FailedMeansUnchanged
  BY TypeParts, Bounds DEF FailedInv, FailedMeansUnchanged, RestTypes
<1>q. QED
  BY <1>1, <1>2, <1>3, RaceHolds, PTL DEF Spec

=============================================================================
