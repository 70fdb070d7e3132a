------------------------ MODULE SyncReplicationProofs ------------------------
(***************************************************************************)
(* Proofs about SyncReplication, for any number of nodes, transactions and *)
(* faults: first what holds whichever of the assumptions do not, then the  *)
(* sync key's promise, each with the assumptions that it needs.            *)
(***************************************************************************)
EXTENDS SyncReplication, TLAPS

(***************************************************************************)
(* No node is its own synchronous standby, and in the strict mode there is *)
(* always somebody to wait for.  A client waits only at a primary, which   *)
(* has its transaction.                                                    *)
(***************************************************************************)
StrictInv ==
    \A n \in Nodes :
        /\ n \notin names[n]
        /\ n \notin effective[n]
        /\ n \notin plan[n].picked
        /\ upstream[n] /= n
        /\ mode = "strict" => names[n] /= {} /\ effective[n] /= {}
        /\ pending[n] \subseteq data[n]
        /\ pg[n] /= "primary" => pending[n] = {}

(***************************************************************************)
(* Whatever a node without the lock gives up, the types stay.              *)
(***************************************************************************)
LEMMA GiveUpType ==
    ASSUME TypeOK, NEW n \in Nodes, GiveUp(n)
    PROVE  /\ promoting' \subseteq Nodes
           /\ pg' \in [Nodes -> {"replica", "primary", "down"}]
           /\ upstream' \in [Nodes -> Nodes \cup {None}]
           /\ pending' \in [Nodes -> SUBSET (1 .. MaxTxn)]
           /\ pc' \in [Nodes -> PCs]
           /\ UNCHANGED <<data, acked, txn>>
<1> USE DEF TypeOK, PCs
<1>1. pc' \in [Nodes -> PCs]
    BY DEF GiveUp, Goto
<1>2. CASE n \in promoting
    BY <1>1, <1>2 DEF GiveUp, pgVars, txnVars
<1>3. CASE n \notin promoting /\ pg[n] = "primary"
  <2>1. StopDb(n, "replica") /\ UNCHANGED promoting
      BY <1>3 DEF GiveUp
  <2>2. pg' \in [Nodes -> {"replica", "primary", "down"}]
      BY <2>1 DEF StopDb
  <2>3. upstream' \in [Nodes -> Nodes \cup {None}]
      BY <2>1 DEF StopDb
  <2>4. pending' \in [Nodes -> SUBSET (1 .. MaxTxn)]
      BY <2>1 DEF StopDb
  <2>q. QED
      BY <1>1, <2>1, <2>2, <2>3, <2>4 DEF StopDb
<1>4. CASE n \notin promoting /\ pg[n] /= "primary"
    BY <1>1, <1>4 DEF GiveUp, pgVars, txnVars
<1>q. QED
    BY <1>2, <1>3, <1>4

(***************************************************************************)
(* write_sync_state, whether it succeeds or not, writes a proper sync key. *)
(***************************************************************************)
LEMMA WriteSyncType ==
    ASSUME TypeOK, NEW n \in Nodes, NEW members \in SUBSET Nodes,
           NEW step \in PCs, WriteSyncThen(n, members, step)
    PROVE  /\ sync' \in SyncKeys
           /\ fresh' \subseteq Nodes
           /\ pc' \in [Nodes -> PCs]
           /\ faults' \in Nat
<1> USE DEF TypeOK, PCs, SyncKeys, Goto
<1>1. CASE WriteSync(n, members) /\ Goto(n, step) /\ UNCHANGED faults
    BY <1>1 DEF WriteSync
<1>2. CASE WriteSyncFails(n, members) /\ Goto(n, "sleep")
    BY <1>2 DEF WriteSyncFails, WriteSync, Fault
<1>q. QED
    BY <1>1, <1>2 DEF WriteSyncThen

(***************************************************************************)
(* Every step keeps the types.                                             *)
(***************************************************************************)
LEMMA TypeStep ==
    TypeOK /\ [Next]_vars => TypeOK'
<1> SUFFICES ASSUME TypeOK, [Next]_vars
             PROVE  TypeOK'
    OBVIOUS
<1> USE SyncAssumption DEF TypeOK, SyncKeys, PCs, NoPlan
<1>1. CASE Expire
    BY <1>1 DEF Expire, Fault, dcsVars, loopVars, confVars, pgVars, txnVars
<1>2. ASSUME NEW n \in Nodes,
             \/ Commit(n) \/ Disconnect(n) \/ PgDies(n) \/ promote(n)
             \/ promote_Fails(n) \/ Restart(n) \/ Server(n) \/ HaLoop(n)
      PROVE  TypeOK'
  <2>1. CASE Commit(n)
      BY <2>1 DEF Commit, dcsVars, loopVars, confVars, pgVars, txnVars
  <2>2. CASE Disconnect(n)
      BY <2>2
         DEF Disconnect, Fault, dcsVars, loopVars, confVars, pgVars, txnVars
  <2>3. CASE PgDies(n)
      BY <2>3
         DEF PgDies, Fault, StopDb, dcsVars, loopVars, confVars, pgVars, txnVars
  <2>4. CASE promote(n)
      BY <2>4 DEF promote, dcsVars, loopVars, confVars, pgVars, txnVars
  <2>5. CASE promote_Fails(n)
      BY <2>5
         DEF promote_Fails, Fault, dcsVars, loopVars, confVars, pgVars, txnVars
  <2>6. CASE Restart(n)
      BY <2>6
         DEF Restart, Fault, Goto, NoStandby, dcsVars, loopVars, confVars,
             pgVars, txnVars
  <2>7. ASSUME NEW t \in 1 .. MaxTxn, Acknowledge(n, t) PROVE TypeOK'
      BY <2>7 DEF Acknowledge, dcsVars, loopVars, confVars, pgVars, txnVars
  <2>8. CASE Stream(n)
      BY <2>8 DEF Stream, dcsVars, loopVars, confVars, pgVars, txnVars
  <2>9. ASSUME NEW p \in Nodes, Connect(n, p) PROVE TypeOK'
      BY <2>9 DEF Connect, dcsVars, loopVars, confVars, pgVars, txnVars
  <2>10. CASE Reload(n)
      BY <2>10 DEF Reload, dcsVars, loopVars, confVars, pgVars, txnVars
  <2>11. CASE load_cluster_from_dcs(n)
      BY <2>11
         DEF load_cluster_from_dcs, Goto, dcsVars, loopVars, confVars, pgVars,
             txnVars
  <2>12. CASE follow(n)
      BY <2>12, GiveUpType DEF follow, dcsVars, confVars
  <2>13. CASE acquire_lock(n)
      BY <2>13
         DEF acquire_lock, Goto, dcsVars, loopVars, confVars, pgVars, txnVars
  <2>14. CASE acquired(n)
      BY <2>14 DEF acquired, Goto, dcsVars, loopVars, confVars, pgVars, txnVars
  <2>15. CASE follow_NoLeader(n)
      BY <2>15, GiveUpType DEF follow_NoLeader, dcsVars, confVars
  <2>16. CASE recover(n)
    <3>1. pg' \in [Nodes -> {"replica", "primary", "down"}]
        BY <2>16 DEF recover
    <3>2. UNCHANGED <<leader, sync, fresh, race, view, plan, promoting, mode,
                      names, effective, upstream, data, pending, acked, txn, faults>>
        BY <2>16 DEF recover, dcsVars, confVars, txnVars
    <3>q. QED
        BY <2>16, <3>1, <3>2 DEF recover, Goto
  <2>17. CASE update_lock(n)
      BY <2>17
         DEF update_lock, Goto, dcsVars, loopVars, confVars, pgVars, txnVars
  <2>18. CASE enforce_master_role(n)
    <3>1. UNCHANGED <<leader, race, view, plan, mode, effective, pg, upstream,
                      data, pending, acked, txn>>
        BY <2>18 DEF enforce_master_role, pgVars, txnVars
    <3>2. NoStandby \in SUBSET (Nodes \cup {Star})
        BY DEF NoStandby
    <3>3. /\ promoting' \subseteq Nodes
          /\ names' \in [Nodes -> SUBSET (Nodes \cup {Star})]
          /\ pc' \in [Nodes -> PCs]
        BY <2>18, <3>2 DEF enforce_master_role, Goto
    <3>4. \/ WriteSync(n, {}) /\ UNCHANGED faults
          \/ n \notin fresh /\ UNCHANGED <<sync, fresh, faults>>
          \/ Fault("dcs") /\ (WriteSync(n, {}) \/ UNCHANGED <<sync, fresh>>)
        BY <2>18 DEF enforce_master_role, WriteSyncFails
    <3>5. sync' \in SyncKeys /\ fresh' \subseteq Nodes /\ faults' \in Nat
        BY <3>4 DEF WriteSync, Fault
    <3>q. QED
        BY <3>1, <3>3, <3>5
  <2>19. CASE process_sync_replication(n)
    <3>1. PICK S \in SyncStates(n) : \E P \in Picks(n, S) :
             LET current == view[n].sync.members
                 common == current \cap (P \cap S)
             IN  /\ P /= current
                 /\ plan' = [plan EXCEPT ![n] = [picked |-> P, allow |-> P \cap S,
                                                 common |-> common]]
                 /\ IF common = current
                    THEN Goto(n, "assign") /\ UNCHANGED <<sync, fresh, faults>>
                    ELSE WriteSyncThen(n, common, "assign")
        BY <2>19 DEF process_sync_replication
    <3>2. PICK P \in Picks(n, S) :
             /\ plan' = [plan EXCEPT ![n] =
                           [picked |-> P, allow |-> P \cap S,
                            common |-> view[n].sync.members \cap (P \cap S)]]
             /\ IF view[n].sync.members \cap (P \cap S) = view[n].sync.members
                THEN Goto(n, "assign") /\ UNCHANGED <<sync, fresh, faults>>
                ELSE WriteSyncThen(n, view[n].sync.members \cap (P \cap S), "assign")
        BY <3>1
    <3>3. P \subseteq Nodes
        BY DEF Picks, Standbys
    <3>4. plan' \in [Nodes -> [picked : SUBSET Nodes, allow : SUBSET Nodes,
                               common : SUBSET Nodes]]
        BY <3>2, <3>3
    <3>5. UNCHANGED <<leader, race, view, promoting, mode, names, effective,
                      pg, upstream, data, pending, acked, txn>>
        BY <2>19 DEF process_sync_replication, confVars, pgVars, txnVars
    <3>6. /\ sync' \in SyncKeys
          /\ fresh' \subseteq Nodes
          /\ pc' \in [Nodes -> PCs]
          /\ faults' \in Nat
      <4>1. CASE Goto(n, "assign") /\ UNCHANGED <<sync, fresh, faults>>
          BY <4>1 DEF Goto
      <4>2. CASE WriteSyncThen(n, view[n].sync.members \cap (P \cap S), "assign")
          BY <4>2, <3>3, WriteSyncType
      <4>q. QED
          BY <3>2, <4>1, <4>2
    <3>q. QED
        BY <3>4, <3>5, <3>6
  <2>20. CASE process_sync_Unchanged(n)
      BY <2>20
         DEF process_sync_Unchanged, Goto, dcsVars, loopVars, confVars, pgVars,
             txnVars
  <2>21. CASE set_synchronous_standby(n)
      BY <2>21
         DEF set_synchronous_standby, AfterAllow, Goto, NoStandby, dcsVars,
             loopVars, confVars, pgVars, txnVars
  <2>22. CASE process_sync_Confirm(n)
    <3>1. UNCHANGED <<leader, sync, fresh, race, view, promoting, mode, names,
                      effective, pg, upstream, data, pending, acked, txn, faults>>
        BY <2>22 DEF process_sync_Confirm, dcsVars, confVars, pgVars, txnVars
    <3>2. CASE /\ CanQuery(n)
               /\ \E S \in SyncStates(n) : \E P \in Picks(n, S) :
                     /\ plan' = [plan EXCEPT ![n].allow = P \cap S]
                     /\ Goto(n, AfterAllow(n, P \cap S))
      <4> PICK S \in SyncStates(n) : \E P \in Picks(n, S) :
                     /\ plan' = [plan EXCEPT ![n].allow = P \cap S]
                     /\ Goto(n, AfterAllow(n, P \cap S))
          BY <3>2
      <4>1. PICK P \in Picks(n, S) :
                     /\ plan' = [plan EXCEPT ![n].allow = P \cap S]
                     /\ Goto(n, AfterAllow(n, P \cap S))
          OBVIOUS
      <4>2. P \subseteq Nodes
          BY DEF Picks, Standbys
      <4>3. plan' \in [Nodes -> [picked : SUBSET Nodes, allow : SUBSET Nodes,
                                 common : SUBSET Nodes]]
        <5>1. [plan[n] EXCEPT !.allow = P \cap S]
                 \in [picked : SUBSET Nodes, allow : SUBSET Nodes,
                      common : SUBSET Nodes]
          <6>1. plan[n] \in [picked : SUBSET Nodes, allow : SUBSET Nodes,
                             common : SUBSET Nodes]
              OBVIOUS
          <6>2. P \cap S \in SUBSET Nodes
              BY <4>2
          <6> HIDE DEF TypeOK
          <6>q. QED
              BY <6>1, <6>2
        <5>2. plan' = [plan EXCEPT ![n] = [plan[n] EXCEPT !.allow = P \cap S]]
            BY <4>1
        <5>q. QED
            BY <5>1, <5>2
      <4>4. AfterAllow(n, P \cap S) \in PCs
          BY DEF AfterAllow
      <4>5. pc' \in [Nodes -> PCs]
          BY <4>1, <4>4 DEF Goto
      <4>q. QED
          BY <3>1, <4>3, <4>5
    <3>3. CASE pg[n] /= "primary" /\ Goto(n, "sleep") /\ UNCHANGED plan
        BY <3>1, <3>3 DEF Goto
    <3>q. QED
        BY <2>22, <3>2, <3>3 DEF process_sync_Confirm
  <2>23. CASE process_sync_Load(n)
    <3>1. UNCHANGED <<leader, sync, race, view, plan, promoting, mode, names,
                      effective, pg, upstream, data, pending, acked, txn>>
        BY <2>23 DEF process_sync_Load, confVars, pgVars, txnVars
    <3>2. fresh' \subseteq Nodes /\ faults' \in Nat
        BY <2>23 DEF process_sync_Load, Fault
    <3>3. \E step \in {"publish", "sleep"} : pc' = [pc EXCEPT ![n] = step]
        BY <2>23 DEF process_sync_Load, Goto
    <3>4. pc' \in [Nodes -> PCs]
        BY <3>3
    <3>q. QED
        BY <3>1, <3>2, <3>4
  <2>24. CASE process_sync_Publish(n)
    <3>1. UNCHANGED <<leader, race, view, plan, promoting, mode, names,
                      effective, pg, upstream, data, pending, acked, txn>>
        BY <2>24 DEF process_sync_Publish, confVars, pgVars, txnVars
    <3>2. WriteSyncThen(n, plan[n].allow, "sleep")
        BY <2>24 DEF process_sync_Publish
    <3>q. QED
        BY <3>1, <3>2, WriteSyncType
  <2>q. QED
      BY <1>2, <2>1, <2>2, <2>3, <2>4, <2>5, <2>6, <2>7, <2>8, <2>9, <2>10,
         <2>11, <2>12, <2>13, <2>14, <2>15, <2>16, <2>17, <2>18, <2>19, <2>20,
         <2>21, <2>22, <2>23, <2>24
         DEF Server, HaLoop
<1>3. CASE UNCHANGED vars
    BY <1>3 DEF vars, dcsVars, loopVars, confVars, pgVars, txnVars
<1>q. QED
    BY <1>1, <1>2, <1>3 DEF Next

(***************************************************************************)
(* The state stays within its types, for any number of nodes, faults and   *)
(* transactions.                                                           *)
(***************************************************************************)
THEOREM TypeCorrect == Spec => []TypeOK
<1>1. Init => TypeOK
    BY SyncAssumption DEF Init, TypeOK, SyncKeys, PCs, NoPlan, NoStandby
<1>q. QED
    BY <1>1, TypeStep, PTL DEF Spec

(***************************************************************************)
(* A node that gives up its role clears the clients that wait at it.       *)
(***************************************************************************)
LEMMA GiveUpStrict ==
    ASSUME TypeOK, StrictInv, NEW n \in Nodes, GiveUp(n),
           UNCHANGED <<plan, mode, names, effective>>
    PROVE  StrictInv'
<1>1. CASE UNCHANGED pgVars
    BY <1>1 DEF StrictInv, pgVars, txnVars
<1>2. CASE StopDb(n, "replica")
  <2>1. UNCHANGED data
      BY <1>2 DEF StopDb
  <2>2. \A m \in Nodes : upstream'[m] \in {None, upstream[m]}
      BY <1>2 DEF StopDb, TypeOK
  <2>3. \A m \in Nodes : /\ m /= n => pg'[m] = pg[m] /\ pending'[m] = pending[m]
                         /\ m = n => pending'[m] = {}
      BY <1>2 DEF StopDb, TypeOK
  <2>q. QED
      BY <2>1, <2>2, <2>3, SyncAssumption DEF StrictInv
<1>q. QED
    BY <1>1, <1>2 DEF GiveUp

(***************************************************************************)
(* Every step keeps StrictInv.                                             *)
(***************************************************************************)
LEMMA StrictStep ==
    TypeOK /\ StrictInv /\ [Next]_vars => StrictInv'
<1> SUFFICES ASSUME TypeOK, StrictInv, [Next]_vars
             PROVE  StrictInv'
    OBVIOUS
<1> USE SyncAssumption DEF TypeOK, StrictInv
<1>1. CASE Expire
    BY <1>1 DEF Expire, Fault, dcsVars, loopVars, confVars, pgVars, txnVars
<1>2. ASSUME NEW n \in Nodes,
             \/ Commit(n) \/ Disconnect(n) \/ PgDies(n) \/ promote(n)
             \/ promote_Fails(n) \/ Restart(n) \/ Server(n) \/ HaLoop(n)
      PROVE  StrictInv'
  <2>1. CASE Commit(n)
      BY <2>1 DEF Commit, dcsVars, loopVars, confVars, pgVars, txnVars
  <2>2. CASE Disconnect(n)
      BY <2>2
         DEF Disconnect, Fault, dcsVars, loopVars, confVars, pgVars, txnVars
  <2>3. CASE PgDies(n)
      BY <2>3
         DEF PgDies, Fault, StopDb, dcsVars, loopVars, confVars, pgVars, txnVars
  <2>4. CASE promote(n)
      BY <2>4 DEF promote, dcsVars, loopVars, confVars, pgVars, txnVars
  <2>5. CASE promote_Fails(n)
      BY <2>5
         DEF promote_Fails, Fault, dcsVars, loopVars, confVars, pgVars, txnVars
  <2>6. CASE Restart(n)
      BY <2>6
         DEF Restart, Fault, Goto, NoStandby, dcsVars, loopVars, confVars,
             pgVars, txnVars
  <2>7. ASSUME NEW t \in 1 .. MaxTxn, Acknowledge(n, t) PROVE StrictInv'
      BY <2>7 DEF Acknowledge, dcsVars, loopVars, confVars, pgVars, txnVars
  <2>8. CASE Stream(n)
      BY <2>8 DEF Stream, dcsVars, loopVars, confVars, pgVars, txnVars
  <2>9. ASSUME NEW p \in Nodes, Connect(n, p) PROVE StrictInv'
      BY <2>9 DEF Connect, dcsVars, loopVars, confVars, pgVars, txnVars
  <2>10. CASE Reload(n)
      BY <2>10 DEF Reload, dcsVars, loopVars, confVars, pgVars, txnVars
  <2>11. CASE load_cluster_from_dcs(n)
      BY <2>11
         DEF load_cluster_from_dcs, Goto, dcsVars, loopVars, confVars, pgVars,
             txnVars
  <2>12. CASE follow(n)
    <3>1. UNCHANGED <<plan, mode, names, effective>>
        BY <2>12 DEF follow, confVars
    <3>2. GiveUp(n)
        BY <2>12 DEF follow
    <3>q. QED
        BY <3>1, <3>2, GiveUpStrict
  <2>13. CASE acquire_lock(n)
      BY <2>13
         DEF acquire_lock, Goto, dcsVars, loopVars, confVars, pgVars, txnVars
  <2>14. CASE acquired(n)
      BY <2>14 DEF acquired, Goto, dcsVars, loopVars, confVars, pgVars, txnVars
  <2>15. CASE follow_NoLeader(n)
    <3>1. UNCHANGED <<plan, mode, names, effective>>
        BY <2>15 DEF follow_NoLeader, confVars
    <3>2. GiveUp(n)
        BY <2>15 DEF follow_NoLeader
    <3>q. QED
        BY <3>1, <3>2, GiveUpStrict
  <2>16. CASE recover(n)
      BY <2>16 DEF recover, Goto, dcsVars, loopVars, confVars, pgVars, txnVars
  <2>17. CASE update_lock(n)
      BY <2>17
         DEF update_lock, Goto, dcsVars, loopVars, confVars, pgVars, txnVars
  <2>18. CASE enforce_master_role(n)
    <3>1. UNCHANGED <<plan, mode, effective, upstream, data, pending, pg>>
        BY <2>18 DEF enforce_master_role, pgVars, txnVars
    <3>2. names' = names \/ names' = [names EXCEPT ![n] = NoStandby]
        BY <2>18 DEF enforce_master_role
    <3>3. CASE names' = names
        BY <3>1, <3>3
    <3>4. CASE names' = [names EXCEPT ![n] = NoStandby]
      <4>1. Star \notin Nodes /\ NoStandby \in {{}, {Star}}
          BY DEF NoStandby
      <4>2. mode = "strict" => NoStandby /= {}
          BY DEF NoStandby
      <4>3. \A m \in Nodes : /\ m \notin names'[m]
                             /\ mode = "strict" => names'[m] /= {}
          BY <3>4, <4>1, <4>2
      <4>q. QED
          BY <3>1, <4>3
    <3>q. QED
        BY <3>2, <3>3, <3>4
  <2>19. CASE process_sync_replication(n)
      BY <2>19
         DEF process_sync_replication, WriteSyncThen, WriteSync, WriteSyncFails,
             Fault, Picks, Standbys, Goto, dcsVars, loopVars, confVars, pgVars,
             txnVars
  <2>20. CASE process_sync_Unchanged(n)
      BY <2>20
         DEF process_sync_Unchanged, Goto, dcsVars, loopVars, confVars, pgVars,
             txnVars
  <2>21. CASE set_synchronous_standby(n)
      BY <2>21
         DEF set_synchronous_standby, AfterAllow, Goto, NoStandby, dcsVars,
             loopVars, confVars, pgVars, txnVars
  <2>22. CASE process_sync_Confirm(n)
      BY <2>22
         DEF process_sync_Confirm, AfterAllow, Picks, Standbys, Goto, dcsVars,
             loopVars, confVars, pgVars, txnVars
  <2>23. CASE process_sync_Load(n)
      BY <2>23
         DEF process_sync_Load, Fault, Goto, dcsVars, loopVars, confVars, pgVars,
             txnVars
  <2>24. CASE process_sync_Publish(n)
      BY <2>24
         DEF process_sync_Publish, WriteSyncThen, WriteSync, WriteSyncFails,
             Fault, Goto, dcsVars, loopVars, confVars, pgVars, txnVars
  <2>q. QED
      BY <1>2, <2>1, <2>2, <2>3, <2>4, <2>5, <2>6, <2>7, <2>8, <2>9, <2>10,
         <2>11, <2>12, <2>13, <2>14, <2>15, <2>16, <2>17, <2>18, <2>19, <2>20,
         <2>21, <2>22, <2>23, <2>24
         DEF Server, HaLoop
<1>3. CASE UNCHANGED vars
    BY <1>3 DEF vars, dcsVars, loopVars, confVars, pgVars, txnVars
<1>q. QED
    BY <1>1, <1>2, <1>3 DEF Next

(***************************************************************************)
(* Clients are answered by Acknowledge alone.                              *)
(***************************************************************************)
LEMMA OnlyAcknowledge ==
    [Next]_vars => \/ UNCHANGED acked
                   \/ \E n \in Nodes, t \in 1 .. MaxTxn : Acknowledge(n, t)
<1> SUFFICES ASSUME [Next]_vars, acked' /= acked
             PROVE  \E n \in Nodes, t \in 1 .. MaxTxn : Acknowledge(n, t)
    OBVIOUS
<1> USE DEF pgVars, txnVars
<1>1. ~Expire /\ ~UNCHANGED vars
    BY DEF Expire, vars
<1>2. PICK n \in Nodes :
         \/ Commit(n) \/ Disconnect(n) \/ PgDies(n) \/ promote(n)
         \/ promote_Fails(n) \/ Restart(n) \/ Server(n) \/ HaLoop(n)
    BY <1>1 DEF Next
<1>3. ~Commit(n) /\ ~Disconnect(n) /\ ~promote(n) /\ ~promote_Fails(n) /\ ~Restart(n)
    BY DEF Commit, Disconnect, promote, promote_Fails, Restart
<1>4. ~PgDies(n) /\ ~GiveUp(n)
    BY DEF PgDies, GiveUp, StopDb
<1>5. /\ ~load_cluster_from_dcs(n) /\ ~follow(n) /\ ~acquire_lock(n) /\ ~acquired(n)
      /\ ~follow_NoLeader(n) /\ ~recover(n) /\ ~update_lock(n) /\ ~enforce_master_role(n)
    BY <1>4 DEF load_cluster_from_dcs, follow, acquire_lock, acquired,
                follow_NoLeader, recover, update_lock, enforce_master_role
<1>6. /\ ~process_sync_replication(n) /\ ~process_sync_Unchanged(n)
      /\ ~set_synchronous_standby(n) /\ ~process_sync_Confirm(n)
      /\ ~process_sync_Load(n) /\ ~process_sync_Publish(n)
    BY DEF process_sync_replication, process_sync_Unchanged,
           set_synchronous_standby, process_sync_Confirm, process_sync_Load,
           process_sync_Publish
<1>7. Server(n)
    BY <1>2, <1>3, <1>4, <1>5, <1>6 DEF HaLoop
<1>8. ~Stream(n) /\ ~Reload(n) /\ ~\E p \in Nodes : Connect(n, p)
    BY DEF Stream, Reload, Connect
<1>q. QED
    BY <1>7, <1>8 DEF Server

(***************************************************************************)
(* In the strict mode no client is answered before two nodes have its      *)
(* transaction, for any number of nodes and faults, and whichever of the   *)
(* assumptions about leaders do not hold.                                  *)
(***************************************************************************)
THEOREM StrictOnTwoNodesHolds == Spec => StrictOnTwoNodes
<1>1. Init => StrictInv
    BY SyncAssumption DEF Init, StrictInv, NoPlan, NoStandby
<1>2. TypeOK /\ StrictInv /\ [Next]_vars
        => [mode = "strict" =>
              \A t \in acked' \ acked :
                  \E n, r \in Nodes : n /= r /\ t \in data[n] \cap data[r]]_vars
  <2> SUFFICES ASSUME TypeOK, StrictInv, [Next]_vars, mode = "strict",
                      NEW t \in acked' \ acked
               PROVE  \E n, r \in Nodes : n /= r /\ t \in data[n] \cap data[r]
      BY DEF vars
  <2>1. PICK n \in Nodes, u \in 1 .. MaxTxn : Acknowledge(n, u)
      BY OnlyAcknowledge
  <2>q. QED
      BY <2>1 DEF Acknowledge, StrictInv, TypeOK, Standbys
<1>q. QED
    BY <1>1, <1>2, StrictStep, TypeCorrect, PTL DEF Spec, StrictOnTwoNodes

-----------------------------------------------------------------------------
(* The sync key's promise *)

(***************************************************************************)
(* A node whose database is a primary or becomes one.                      *)
(***************************************************************************)
Active(n) == pg[n] = "primary" \/ n \in promoting

\* No node outlives the leader key, runs on a view from an earlier tenure, or
\* starts a dead database as a primary without being the sync key's leader.
RolesAssumed ==
    Lapses \cap {"cycle", "stall", "race", "normal", "unmarked"} = {}

\* The server reloads its configuration in time, and Patroni is not restarted
\* next to a running database.
ConfAssumed == "reload" \notin Lapses /\ "restart" \notin Faults

\* A standby that the server reports as "sync" has caught up.
LagAssumed == "lag" \notin Lapses

(***************************************************************************)
(* Who may be a primary, who has the leader key, and what the HA loops     *)
(* still know of the two keys:                                             *)
(*   - the sync key names the only node that is a primary or becomes one;  *)
(*   - nobody but the leader key's owner is active while there is one;     *)
(*   - beyond the start of a cycle a node owns the leader key;             *)
(*   - a view without a leader that is still good shows today's sync key;  *)
(*   - a node that has read that it is the leader is the leader, and what  *)
(*     it has read of the sync key is still so;                            *)
(*   - a leader whose database is dead is the sync key's leader.           *)
(***************************************************************************)
RoleInv ==
    \A n \in Nodes :
        /\ Active(n) => sync.leader = n
        /\ leader = n => \A m \in Nodes \ {n} : ~Active(m)
        /\ pc[n] \notin {"sleep", "cycle"} => leader = n
        /\ n \in race =>
              leader = None /\ view[n] = [leader |-> None, sync |-> sync]
        /\ pc[n] = "cycle" /\ view[n].leader = n => leader = n
        /\ \/ pc[n] \in {"sync", "promote"}
           \/ pc[n] = "cycle" /\ view[n].leader = n
           => view[n].sync = sync
        /\ leader = n /\ pg[n] = "down" => sync.leader = n

(***************************************************************************)
(* The members of the sync key are in synchronous_standby_names of its     *)
(* leader, on disk and as the server has loaded it: the leader takes their *)
(* privilege away before it drops them, and gives it only to standbys that *)
(* the server waits for already.                                           *)
(***************************************************************************)
ConfInv ==
    /\ sync.members \subseteq names[sync.leader] \cap effective[sync.leader]
    /\ \A n \in Nodes :
          /\ pc[n] = "assign" => /\ sync.members \subseteq plan[n].picked
                                /\ plan[n].allow \subseteq plan[n].picked
          /\ pc[n] \in {"load", "publish"} => plan[n].allow \subseteq names[n]
          /\ pc[n] = "confirm" => Star \notin names[n]

\* A client waits only at a primary, which has its transaction.
WaitInv ==
    \A n \in Nodes :
        /\ pending[n] \subseteq data[n]
        /\ pg[n] /= "primary" => pending[n] = {}

(***************************************************************************)
(* Whoever may promote itself has every transaction that a client believes *)
(* to be committed: the sync key's nodes, the owner of the leader key, and *)
(* the standbys that are about to be published, which the server waits for *)
(* from the moment they were found to be "sync".                           *)
(***************************************************************************)
DataInv ==
    mode = "sync" =>
        /\ \A n \in {sync.leader} \cup sync.members : acked \subseteq data[n]
        /\ \A n \in Nodes :
              /\ Star \notin names[n] \cup effective[n]
              /\ leader = n => acked \subseteq data[n]
              /\ pc[n] \in {"assign", "confirm", "load", "publish"} =>
                    /\ plan[n].allow \subseteq effective[n] \cap names[n]
                    /\ \A r \in plan[n].allow : acked \subseteq data[r]

(***************************************************************************)
(* Every step keeps RoleInv.                                               *)
(***************************************************************************)
LEMMA RoleStep ==
    RolesAssumed /\ TypeOK /\ RoleInv /\ [Next]_vars => RoleInv'
<1> SUFFICES ASSUME RolesAssumed, TypeOK, RoleInv, [Next]_vars
             PROVE  RoleInv'
    OBVIOUS
<1> USE SyncAssumption DEF TypeOK, SyncKeys, PCs, RoleInv, Active, RolesAssumed
<1>1. CASE Expire
    BY <1>1 DEF Expire, Fault, dcsVars, loopVars, confVars, pgVars, txnVars
<1>2. ASSUME NEW k \in Nodes,
             \/ Commit(k) \/ Disconnect(k) \/ PgDies(k) \/ promote(k)
             \/ promote_Fails(k) \/ Restart(k) \/ Server(k) \/ HaLoop(k)
      PROVE  RoleInv'
  <2>1. CASE Commit(k)
      BY <2>1 DEF Commit, dcsVars, loopVars, confVars, pgVars, txnVars
  <2>2. CASE Disconnect(k)
      BY <2>2 DEF Disconnect, Fault, dcsVars, loopVars, confVars, pgVars,
                  txnVars
  <2>3. CASE PgDies(k)
      BY <2>3 DEF PgDies, Fault, StopDb, dcsVars, loopVars, confVars, pgVars,
                  txnVars
  <2>4. CASE promote(k)
      BY <2>4 DEF promote, dcsVars, loopVars, confVars, pgVars, txnVars
  <2>5. CASE promote_Fails(k)
      BY <2>5 DEF promote_Fails, Fault, dcsVars, loopVars, confVars, pgVars,
                  txnVars
  <2>6. CASE Restart(k)
      BY <2>6 DEF Restart, Fault, Goto, NoStandby, dcsVars, loopVars, confVars,
                  pgVars, txnVars
  <2>7. ASSUME NEW t \in 1 .. MaxTxn, Acknowledge(k, t) PROVE RoleInv'
      BY <2>7 DEF Acknowledge, dcsVars, loopVars, confVars, pgVars, txnVars
  <2>8. CASE Stream(k)
      BY <2>8 DEF Stream, dcsVars, loopVars, confVars, pgVars, txnVars
  <2>9. ASSUME NEW p \in Nodes, Connect(k, p) PROVE RoleInv'
      BY <2>9 DEF Connect, dcsVars, loopVars, confVars, pgVars, txnVars
  <2>10. CASE Reload(k)
      BY <2>10 DEF Reload, dcsVars, loopVars, confVars, pgVars, txnVars
  <2>11. CASE load_cluster_from_dcs(k)
      BY <2>11 DEF load_cluster_from_dcs, Goto, dcsVars, loopVars, confVars,
                   pgVars, txnVars
  <2>12. CASE follow(k)
      BY <2>12 DEF follow, GiveUp, StopDb, Goto, dcsVars, loopVars, confVars,
                   pgVars, txnVars
  <2>13. CASE acquire_lock(k)
      BY <2>13 DEF acquire_lock, Alone, is_healthiest_node, Goto, dcsVars,
                   loopVars, confVars, pgVars, txnVars
  <2>14. CASE acquired(k)
      BY <2>14 DEF acquired, Goto, dcsVars, loopVars, confVars, pgVars, txnVars
  <2>15. CASE follow_NoLeader(k)
      BY <2>15 DEF follow_NoLeader, GiveUp, StopDb, Goto, dcsVars, loopVars,
                   confVars, pgVars, txnVars
  <2>16. CASE recover(k)
      BY <2>16 DEF recover, Goto, dcsVars, loopVars, confVars, pgVars, txnVars
  <2>17. CASE update_lock(k)
      BY <2>17 DEF update_lock, Goto, dcsVars, loopVars, confVars, pgVars,
                   txnVars
  <2>18. CASE enforce_master_role(k)
      BY <2>18 DEF enforce_master_role, WriteSync, WriteSyncFails, Fault, Goto,
                   dcsVars, loopVars, confVars, pgVars, txnVars
  <2>19. CASE process_sync_replication(k)
      BY <2>19 DEF process_sync_replication, WriteSyncThen, WriteSync,
                   WriteSyncFails, Fault, Goto, dcsVars, loopVars, confVars,
                      pgVars, txnVars
  <2>20. CASE process_sync_Unchanged(k)
      BY <2>20 DEF process_sync_Unchanged, Goto, dcsVars, loopVars, confVars,
                   pgVars, txnVars
  <2>21. CASE set_synchronous_standby(k)
      BY <2>21 DEF set_synchronous_standby, AfterAllow, Goto, dcsVars,
                   loopVars, confVars, pgVars, txnVars
  <2>22. CASE process_sync_Confirm(k)
      BY <2>22 DEF process_sync_Confirm, AfterAllow, Goto, dcsVars, loopVars,
                   confVars, pgVars, txnVars
  <2>23. CASE process_sync_Load(k)
      BY <2>23 DEF process_sync_Load, Fault, Goto, dcsVars, loopVars, confVars,
                   pgVars, txnVars
  <2>24. CASE process_sync_Publish(k)
      BY <2>24 DEF process_sync_Publish, WriteSyncThen, WriteSync,
                   WriteSyncFails, Fault, Goto, dcsVars, loopVars, confVars,
                      pgVars, txnVars
  <2>q. QED
      BY <1>2, <2>1, <2>2, <2>3, <2>4, <2>5, <2>6, <2>7, <2>8, <2>9, <2>10,
         <2>11, <2>12, <2>13, <2>14, <2>15, <2>16, <2>17, <2>18, <2>19, <2>20,
            <2>21, <2>22, <2>23, <2>24
         DEF Server, HaLoop
<1>3. CASE UNCHANGED vars
    BY <1>3 DEF vars, dcsVars, loopVars, confVars, pgVars, txnVars
<1>q. QED
    BY <1>1, <1>2, <1>3 DEF Next

(***************************************************************************)
(* The roles are as RoleInv says.                                          *)
(***************************************************************************)
LEMMA RolesHold ==
    ASSUME RolesAssumed PROVE Spec => []RoleInv
<1>1. Init => RoleInv
    BY SyncAssumption DEF Init, RoleInv, Active
<1>q. QED
    BY <1>1, RoleStep, TypeCorrect, PTL DEF Spec

(***************************************************************************)
(* The primary that has the leader key is the leader in the sync key: if no*)
(* node outlives the leader key or acts on an old view, and dead databases *)
(* are started as primaries only by the sync key's leader, for any number of*)
(* nodes, transactions and other faults, restarts of Patroni included.     *)
(***************************************************************************)
THEOREM LeaderIsMarkedHolds ==
    ASSUME RolesAssumed PROVE Spec => []LeaderIsMarked
<1>1. RoleInv => LeaderIsMarked
    BY DEF RoleInv, Active, LeaderIsMarked
<1>q. QED
    BY <1>1, RolesHold, PTL

(***************************************************************************)
(* What a write of the sync key leaves, whether it succeeds or not.        *)
(***************************************************************************)
LEMMA WriteSyncEffect ==
    ASSUME NEW n \in Nodes, NEW members, NEW step, WriteSyncThen(n, members,
       step)
    PROVE  \/ sync' = [leader |-> n, members |-> members] /\ Goto(n, step)
           \/ sync' \in {sync, [leader |-> n, members |-> members]} /\ Goto(n,
              "sleep")
BY DEF WriteSyncThen, WriteSync, WriteSyncFails

(***************************************************************************)
(* Every step keeps ConfInv.                                               *)
(***************************************************************************)
LEMMA ConfStep ==
    RolesAssumed /\ ConfAssumed /\ TypeOK /\ RoleInv /\ ConfInv
    /\ [Next]_vars => ConfInv'
<1> SUFFICES ASSUME RolesAssumed, ConfAssumed, TypeOK, RoleInv, ConfInv,
   [Next]_vars
             PROVE  ConfInv'
    OBVIOUS
<1> USE SyncAssumption DEF TypeOK, SyncKeys, PCs, RoleInv, Active, ConfInv,
                           ConfAssumed
<1>1. CASE Expire
    BY <1>1 DEF Expire, Fault, dcsVars, loopVars, confVars, pgVars, txnVars
<1>2. ASSUME NEW k \in Nodes,
             \/ Commit(k) \/ Disconnect(k) \/ PgDies(k) \/ promote(k)
             \/ promote_Fails(k) \/ Restart(k) \/ Server(k) \/ HaLoop(k)
      PROVE  ConfInv'
  <2>1. CASE Commit(k)
      BY <2>1 DEF Commit, dcsVars, loopVars, confVars, pgVars, txnVars
  <2>2. CASE Disconnect(k)
      BY <2>2 DEF Disconnect, Fault, dcsVars, loopVars, confVars, pgVars,
                  txnVars
  <2>3. CASE PgDies(k)
      BY <2>3 DEF PgDies, Fault, StopDb, dcsVars, loopVars, confVars, pgVars,
                  txnVars
  <2>4. CASE promote(k)
      BY <2>4 DEF promote, dcsVars, loopVars, confVars, pgVars, txnVars
  <2>5. CASE promote_Fails(k)
      BY <2>5 DEF promote_Fails, Fault, dcsVars, loopVars, confVars, pgVars,
                  txnVars
  <2>6. CASE Restart(k)
      BY <2>6 DEF Restart, Fault, Goto, NoStandby, dcsVars, loopVars, confVars,
                  pgVars, txnVars
  <2>7. ASSUME NEW t \in 1 .. MaxTxn, Acknowledge(k, t) PROVE ConfInv'
      BY <2>7 DEF Acknowledge, dcsVars, loopVars, confVars, pgVars, txnVars
  <2>8. CASE Stream(k)
      BY <2>8 DEF Stream, dcsVars, loopVars, confVars, pgVars, txnVars
  <2>9. ASSUME NEW p \in Nodes, Connect(k, p) PROVE ConfInv'
      BY <2>9 DEF Connect, dcsVars, loopVars, confVars, pgVars, txnVars
  <2>10. CASE Reload(k)
      BY <2>10 DEF Reload, dcsVars, loopVars, confVars, pgVars, txnVars
  <2>11. CASE load_cluster_from_dcs(k)
      BY <2>11 DEF load_cluster_from_dcs, Goto, dcsVars, loopVars, confVars,
                   pgVars, txnVars
  <2>12. CASE follow(k)
      BY <2>12 DEF follow, GiveUp, StopDb, Goto, dcsVars, loopVars, confVars,
                   pgVars, txnVars
  <2>13. CASE acquire_lock(k)
      BY <2>13 DEF acquire_lock, Goto, dcsVars, loopVars, confVars, pgVars,
                   txnVars
  <2>14. CASE acquired(k)
      BY <2>14 DEF acquired, Goto, dcsVars, loopVars, confVars, pgVars, txnVars
  <2>15. CASE follow_NoLeader(k)
      BY <2>15 DEF follow_NoLeader, GiveUp, StopDb, Goto, dcsVars, loopVars,
                   confVars, pgVars, txnVars
  <2>16. CASE recover(k)
      BY <2>16 DEF recover, Goto, dcsVars, loopVars, confVars, pgVars, txnVars
  <2>17. CASE update_lock(k)
      BY <2>17 DEF update_lock, Goto, dcsVars, loopVars, confVars, pgVars,
                   txnVars
  <2>18. CASE enforce_master_role(k)
      BY <2>18 DEF enforce_master_role, WriteSync, WriteSyncFails, Fault, Goto,
                   dcsVars, loopVars, confVars, pgVars, txnVars
  <2>19. CASE process_sync_replication(k)
      BY <2>19 DEF process_sync_replication, CanQuery, Picks, SyncStates,
                   Standbys, WriteSyncThen, WriteSync, WriteSyncFails, Fault,
                      Goto, dcsVars, loopVars, confVars, pgVars, txnVars
  <2>20. CASE process_sync_Unchanged(k)
      BY <2>20 DEF process_sync_Unchanged, Goto, dcsVars, loopVars, confVars,
                   pgVars, txnVars
  <2>21. CASE set_synchronous_standby(k)
      BY <2>21 DEF set_synchronous_standby, AfterAllow, Goto, NoStandby,
                   dcsVars, loopVars, confVars, pgVars, txnVars
  <2>22. CASE process_sync_Confirm(k)
    <3>1. UNCHANGED <<sync, names, effective>> /\ pc[k] = "confirm"
        BY <2>22 DEF process_sync_Confirm, dcsVars, confVars
    <3>a. \A n \in Nodes \ {k} : pc[n] \in {"sleep", "cycle"}
        BY <3>1
    <3>2. CASE pc' = [pc EXCEPT ![k] = "sleep"] /\ UNCHANGED plan
        BY <3>1, <3>2
    <3>3. CASE \E S \in SyncStates(k) : \E P \in Picks(k, S) :
                  /\ CanQuery(k)
                  /\ plan' = [plan EXCEPT ![k].allow = P \cap S]
                  /\ Goto(k, AfterAllow(k, P \cap S))
      <4>1. PICK S \in SyncStates(k) : \E P \in Picks(k, S) :
                  /\ CanQuery(k)
                  /\ plan' = [plan EXCEPT ![k].allow = P \cap S]
                  /\ Goto(k, AfterAllow(k, P \cap S))
          BY <3>3
      <4>1a. PICK P \in Picks(k, S) :
                  /\ CanQuery(k)
                  /\ plan' = [plan EXCEPT ![k].allow = P \cap S]
                  /\ Goto(k, AfterAllow(k, P \cap S))
          BY <4>1
      <4>2. effective[k] = names[k] /\ Star \notin effective[k]
          BY <2>22, <4>1a DEF CanQuery, process_sync_Confirm
      <4>3. S \subseteq names[k]
          BY <4>2 DEF SyncStates
      <4>4. plan'[k].allow = P \cap S /\ pc'[k] \in {"sleep", "load"}
          BY <4>1a DEF AfterAllow, Goto
      <4>q. QED
          <5>1. \A n \in Nodes \ {k} : pc'[n] = pc[n]
              BY <4>1a DEF Goto
          <5>q. QED
              BY <3>1, <3>a, <4>3, <4>4, <5>1
    <3>4. \/ pc' = [pc EXCEPT ![k] = "sleep"] /\ UNCHANGED plan
          \/ \E S \in SyncStates(k) : \E P \in Picks(k, S) :
                  /\ CanQuery(k)
                  /\ plan' = [plan EXCEPT ![k].allow = P \cap S]
                  /\ Goto(k, AfterAllow(k, P \cap S))
        BY <2>22, Zenon DEF process_sync_Confirm, Goto
    <3>q. QED
        BY <3>2, <3>3, <3>4
  <2>23. CASE process_sync_Load(k)
    <3>1. UNCHANGED <<sync, names, effective, plan>>
        BY <2>23 DEF process_sync_Load, WriteSyncThen, confVars
    <3>2. pc[k] = "load" /\ \E step \in {"publish",
       "sleep"} : pc' = [pc EXCEPT ![k] = step]
        BY <2>23 DEF process_sync_Load, Goto
    <3>q. QED
        BY <3>1, <3>2
  <2>24. CASE process_sync_Publish(k)
    <3>1. UNCHANGED <<names, effective, plan>>
        BY <2>24 DEF process_sync_Publish, confVars
    <3>2. plan[k].allow \subseteq names[k] \cap effective[k]
        BY <2>24 DEF process_sync_Publish
    <3>3. /\ sync' \in {sync, [leader |-> k, members |-> plan[k].allow]}
          /\ pc' = [pc EXCEPT ![k] = "sleep"]
        BY <2>24, WriteSyncEffect DEF process_sync_Publish, Goto
    <3>4. sync'.members \subseteq names[sync'.leader] \cap effective[sync'.leader]
        BY <3>2, <3>3
    <3>5. \A n \in Nodes \ {k} : pc[n] \in {"sleep", "cycle"}
        BY <2>24 DEF process_sync_Publish
    <3>6. \A n \in Nodes : pc'[n] \in {"sleep", "cycle"}
        BY <3>3, <3>5
    <3>q. QED
        BY <3>1, <3>4, <3>6
  <2>q. QED
      BY <1>2, <2>1, <2>2, <2>3, <2>4, <2>5, <2>6, <2>7, <2>8, <2>9, <2>10,
         <2>11, <2>12, <2>13, <2>14, <2>15, <2>16, <2>17, <2>18, <2>19, <2>20,
            <2>21, <2>22, <2>23, <2>24
         DEF Server, HaLoop
<1>3. CASE UNCHANGED vars
    BY <1>3 DEF vars, dcsVars, loopVars, confVars, pgVars, txnVars
<1>q. QED
    BY <1>1, <1>2, <1>3 DEF Next

(***************************************************************************)
(* The configurations are as ConfInv says.                                 *)
(***************************************************************************)
LEMMA ConfHolds ==
    ASSUME RolesAssumed, ConfAssumed PROVE Spec => []ConfInv
<1>1. Init => ConfInv
    BY DEF Init, ConfInv
<1>q. QED
    BY <1>1, ConfStep, RolesHold, TypeCorrect, PTL DEF Spec

(***************************************************************************)
(* Whoever is published as a synchronous standby is one for the primary, if*)
(* besides the server reloads its configuration in time and Patroni is not *)
(* restarted next to a running primary.                                    *)
(***************************************************************************)
THEOREM PublishedIsEnforcedHolds ==
    ASSUME RolesAssumed, ConfAssumed PROVE Spec => []PublishedIsEnforced
<1>1. ConfInv => PublishedIsEnforced
    BY DEF ConfInv, PublishedIsEnforced
<1>q. QED
    BY <1>1, ConfHolds, PTL

(***************************************************************************)
(* Every step keeps DataInv.                                               *)
(***************************************************************************)
LEMMA DataStep ==
    RolesAssumed /\ ConfAssumed /\ LagAssumed /\ TypeOK /\ RoleInv
    /\ ConfInv /\ WaitInv /\ DataInv /\ [Next]_vars => DataInv'
<1> SUFFICES ASSUME RolesAssumed, ConfAssumed, LagAssumed, TypeOK, RoleInv,
   ConfInv, WaitInv, DataInv, [Next]_vars
             PROVE  DataInv'
    OBVIOUS
<1> USE SyncAssumption DEF TypeOK, SyncKeys, PCs, RoleInv, Active, ConfInv,
                           ConfAssumed, WaitInv, DataInv, LagAssumed
<1>1. CASE Expire
    BY <1>1 DEF Expire, Fault, dcsVars, loopVars, confVars, pgVars, txnVars
<1>2. ASSUME NEW k \in Nodes,
             \/ Commit(k) \/ Disconnect(k) \/ PgDies(k) \/ promote(k)
             \/ promote_Fails(k) \/ Restart(k) \/ Server(k) \/ HaLoop(k)
      PROVE  DataInv'
  <2>1. CASE Commit(k)
      BY <2>1 DEF Commit, dcsVars, loopVars, confVars, pgVars, txnVars
  <2>2. CASE Disconnect(k)
      BY <2>2 DEF Disconnect, Fault, dcsVars, loopVars, confVars, pgVars,
                  txnVars
  <2>3. CASE PgDies(k)
      BY <2>3 DEF PgDies, Fault, StopDb, dcsVars, loopVars, confVars, pgVars,
                  txnVars
  <2>4. CASE promote(k)
      BY <2>4 DEF promote, dcsVars, loopVars, confVars, pgVars, txnVars
  <2>5. CASE promote_Fails(k)
      BY <2>5 DEF promote_Fails, Fault, dcsVars, loopVars, confVars, pgVars,
                  txnVars
  <2>6. CASE Restart(k)
      BY <2>6 DEF Restart, Fault, Goto, NoStandby, dcsVars, loopVars, confVars,
                  pgVars, txnVars
  <2>7. ASSUME NEW t \in 1 .. MaxTxn, Acknowledge(k, t) PROVE DataInv'
    <3>1. /\ acked' = acked \cup {t} /\ t \in pending[k]
          /\ UNCHANGED <<sync, leader, pc, plan, names, effective, mode, data>>
        BY <2>7 DEF Acknowledge, dcsVars, loopVars, confVars
    <3>2. SUFFICES ASSUME mode = "sync" PROVE DataInv'
        BY <3>1
    <3>3. pg[k] = "primary" /\ t \in data[k] /\ sync.leader = k
        BY <3>1
    <3>4. \A r \in effective[k] : t \in data[r]
        BY <2>7, <3>2 DEF Acknowledge
    <3>5. \A n \in {sync.leader} \cup sync.members : t \in data[n]
        BY <3>3, <3>4
    <3>6. \A n \in Nodes : leader = n => n = k
        BY <3>3
    <3>7. \A n \in Nodes \ {k} : pc[n] \in {"sleep", "cycle"}
        BY <3>6
    <3>q. QED
        BY SMTT(60), <3>1, <3>2, <3>3, <3>4, <3>5, <3>6, <3>7
  <2>8. CASE Stream(k)
      BY <2>8 DEF Stream, dcsVars, loopVars, confVars, pgVars, txnVars
  <2>9. ASSUME NEW p \in Nodes, Connect(k, p) PROVE DataInv'
      BY <2>9 DEF Connect, dcsVars, loopVars, confVars, pgVars, txnVars
  <2>10. CASE Reload(k)
      BY <2>10 DEF Reload, dcsVars, loopVars, confVars, pgVars, txnVars
  <2>11. CASE load_cluster_from_dcs(k)
      BY <2>11 DEF load_cluster_from_dcs, Goto, dcsVars, loopVars, confVars,
                   pgVars, txnVars
  <2>12. CASE follow(k)
    <3>1. /\ UNCHANGED <<sync, leader, plan, names, effective, mode, data,
                         acked>>
          /\ pc' = [pc EXCEPT ![k] = "sleep"]
        BY <2>12 DEF follow, GiveUp, StopDb, Goto, dcsVars, confVars, pgVars,
                     txnVars
    <3>q. QED
        BY <3>1
  <2>13. CASE acquire_lock(k)
    <3>1. /\ UNCHANGED <<sync, plan, names, effective, mode, data, acked>>
          /\ pc' = [pc EXCEPT ![k] = "acquired"] /\ leader' = k
        BY <2>13 DEF acquire_lock, Goto, dcsVars, loopVars, confVars, pgVars,
                     txnVars
    <3>2. k \in {sync.leader} \cup sync.members
        BY <2>13 DEF acquire_lock, is_healthiest_node, RolesAssumed
    <3>q. QED
        BY <3>1, <3>2
  <2>14. CASE acquired(k)
      BY <2>14 DEF acquired, Goto, dcsVars, loopVars, confVars, pgVars, txnVars
  <2>15. CASE follow_NoLeader(k)
    <3>1. /\ UNCHANGED <<sync, leader, plan, names, effective, mode, data,
                         acked>>
          /\ pc' = [pc EXCEPT ![k] = "sleep"]
        BY <2>15 DEF follow_NoLeader, GiveUp, StopDb, Goto, dcsVars, confVars,
                     pgVars, txnVars
    <3>q. QED
        BY <3>1
  <2>16. CASE recover(k)
      BY <2>16 DEF recover, Goto, dcsVars, loopVars, confVars, pgVars, txnVars
  <2>17. CASE update_lock(k)
      BY <2>17 DEF update_lock, Goto, dcsVars, loopVars, confVars, pgVars,
                   txnVars
  <2>18. CASE enforce_master_role(k)
    <3>1. /\ UNCHANGED <<leader, plan, effective, mode, data, acked>>
          /\ pc[k] = "promote" /\ pc' = [pc EXCEPT ![k] = "sleep"]
          /\ sync' \in {sync, [leader |-> k, members |-> {}]}
          /\ names' \in {names, [names EXCEPT ![k] = NoStandby]}
        BY <2>18 DEF enforce_master_role, WriteSync, WriteSyncFails, Goto,
                     pgVars, txnVars
    <3>2. mode = "sync" => NoStandby = {}
        BY DEF NoStandby
    <3>3. mode = "sync" => acked \subseteq data[k]
        BY <3>1
    <3>q. QED
        BY <3>1, <3>2, <3>3
  <2>19. CASE process_sync_replication(k)
      BY <2>19 DEF process_sync_replication, CanQuery, Picks, SyncStates,
                   Standbys, WriteSyncThen, WriteSync, WriteSyncFails, Fault,
                      Goto, dcsVars, loopVars, confVars, pgVars, txnVars
  <2>20. CASE process_sync_Unchanged(k)
      BY <2>20 DEF process_sync_Unchanged, Goto, dcsVars, loopVars, confVars,
                   pgVars, txnVars
  <2>21. CASE set_synchronous_standby(k)
      BY <2>21 DEF set_synchronous_standby, AfterAllow, Goto, NoStandby,
                   dcsVars, loopVars, confVars, pgVars, txnVars
  <2>22. CASE process_sync_Confirm(k)
      BY SMTT(60), <2>22 DEF process_sync_Confirm, CanQuery, Picks, SyncStates, Standbys,
                   AfterAllow, Fault, Goto, dcsVars, loopVars, confVars,
                      pgVars, txnVars
  <2>23. CASE process_sync_Load(k)
      BY SMTT(60), <2>23 DEF process_sync_Load, Fault, Goto, dcsVars, loopVars, confVars,
                   pgVars, txnVars
  <2>24. CASE process_sync_Publish(k)
    <3>1. UNCHANGED <<leader, plan, names, effective, mode, data, acked>>
        BY <2>24 DEF process_sync_Publish, confVars, pgVars, txnVars
    <3>2. mode = "sync" => \A r \in {k} \cup plan[k].allow : acked \subseteq data[r]
        BY <2>24 DEF process_sync_Publish
    <3>3. /\ sync' \in {sync, [leader |-> k, members |-> plan[k].allow]}
          /\ pc' = [pc EXCEPT ![k] = "sleep"]
        BY <2>24, WriteSyncEffect DEF process_sync_Publish, Goto
    <3>q. QED
        BY <3>1, <3>2, <3>3
  <2>q. QED
      BY <1>2, <2>1, <2>2, <2>3, <2>4, <2>5, <2>6, <2>7, <2>8, <2>9, <2>10,
         <2>11, <2>12, <2>13, <2>14, <2>15, <2>16, <2>17, <2>18, <2>19, <2>20,
            <2>21, <2>22, <2>23, <2>24
         DEF Server, HaLoop
<1>3. CASE UNCHANGED vars
    BY <1>3 DEF vars, dcsVars, loopVars, confVars, pgVars, txnVars
<1>q. QED
    BY <1>1, <1>2, <1>3 DEF Next

(***************************************************************************)
(* No transaction that a client believes to be committed is missing at a   *)
(* node that may promote itself, if besides the server's word about who is *)
(* "sync" is true: for any number of nodes, transactions, expiries, crashes,*)
(* broken connections, failed promotions and failed writes of the sync key.*)
(***************************************************************************)
THEOREM NoAckedLossHolds ==
    ASSUME RolesAssumed, ConfAssumed, LagAssumed PROVE Spec => []NoAckedLoss
<1>1. Init => StrictInv /\ DataInv
    BY SyncAssumption DEF Init, StrictInv, DataInv, NoPlan, NoStandby
<1>2. StrictInv => WaitInv
    BY DEF StrictInv, WaitInv
<1>3. DataInv => NoAckedLoss
    BY DEF DataInv, NoAckedLoss
<1>q. QED
    BY <1>1, <1>2, <1>3, StrictStep, DataStep, ConfHolds, RolesHold,
       TypeCorrect,
       PTL DEF Spec

=============================================================================
