--------------------------- MODULE SyncReplication ---------------------------
(***************************************************************************)
(* Synchronous mode: the sync key in the DCS, synchronous_standby_names of *)
(* the primary, and the transactions that clients were told are committed. *)
(*                                                                         *)
(* The leader of a cluster with synchronous_mode publishes in the sync key *)
(* who has been the leader and which standbys replicate synchronously; in  *)
(* the leader race only these nodes may promote themselves                 *)
(* (Ha.is_healthiest_node).  Ha.process_sync_replication changes           *)
(* postgresql.conf and the sync key in steps between which everything else *)
(* may happen.  The HA loop is reduced to what decides who has the key and *)
(* who is primary (HaFailover has the details).  Which of the admitted     *)
(* replicas is the healthiest is left open, as is the choice between       *)
(* standbys that are equally synchronous (the code looks at their LSNs).   *)
(* maximum_lag_on_syncnode is off (its default), nobody switches over by   *)
(* hand, and the sync key exists.                                          *)
(***************************************************************************)
EXTENDS Naturals, FiniteSets

CONSTANTS
    Nodes,      \* the members of the cluster
    None,       \* no leader, no upstream
    Star,       \* "*" in synchronous_standby_names
    Modes,      \* "sync", and "strict" with synchronous_mode_strict
    NodeCount,  \* synchronous_node_count
    MaxTxn,     \* bound on the number of transactions
    Faults,     \* the kinds of faults that happen (see FaultKinds)
    MaxFaults,  \* bound on their number
    Lapses      \* the assumptions that do not hold (see LapseKinds)

(***************************************************************************)
(*   "expiry"      the leader key is not renewed in time;                  *)
(*   "disconnect"  a standby's replication connection breaks;              *)
(*   "crash"       a database dies;                                        *)
(*   "promote"     a promotion fails, and the leader key is released;      *)
(*   "dcs"         a request about the sync key fails, or its answer is    *)
(*                 lost;                                                   *)
(*   "restart"     Patroni is restarted while its database runs.           *)
(***************************************************************************)
FaultKinds == {"expiry", "disconnect", "crash", "promote", "dcs", "restart"}

(***************************************************************************)
(* What the sync key's promise depends on, and what happens otherwise:     *)
(*   "cycle"   the leader key expires while its owner is inside a cycle;   *)
(*   "stall"   a primary, or a node that is being promoted, outlives the   *)
(*             leader key (without the watchdog), and another node gets it *)
(*             meanwhile;                                                  *)
(*   "race"    a node acts on a view without a leader although somebody    *)
(*             has had the leader key since;                               *)
(*   "reload"  the server has not reloaded its configuration two seconds   *)
(*             after it was asked to;                                      *)
(*   "lag"     the server reports a standby as "sync" that still lacks     *)
(*             transactions committed before it became synchronous;        *)
(*   "normal"  a dead database that is not the sync key's leader is found  *)
(*             while there is no leader, and is started as a primary;      *)
(*   "unmarked"  a database dies after its node has got the leader key and *)
(*             before the sync key says so, and is started as a primary.   *)
(***************************************************************************)
LapseKinds == {"cycle", "stall", "race", "reload", "lag", "normal", "unmarked"}

ASSUME SyncAssumption ==
    /\ None \notin Nodes
    /\ Star \notin Nodes
    /\ Modes \subseteq {"sync", "strict"}
    /\ NodeCount \in Nat \ {0}
    /\ MaxTxn \in Nat
    /\ Faults \subseteq FaultKinds
    /\ MaxFaults \in Nat
    /\ Lapses \subseteq LapseKinds

VARIABLES
    leader,     \* the leader key: its owner or None
    sync,       \* the sync key: leader and members
    view,       \* the leader and the sync key as each node has read them
    fresh,      \* the nodes whose view has the sync key's current index
    race,       \* the nodes whose view is without a leader, and nobody has
                \* had the leader key since
    pc,         \* where each HA loop is
    plan,       \* the local variables of process_sync_replication
    promoting,  \* the nodes with a promotion in the background
    pg,         \* each database
    mode,       \* the mode of the cluster, which does not change
    names,      \* synchronous_standby_names in each postgresql.conf ...
    effective,  \* ... and as the server has loaded it
    upstream,   \* the primary each standby is streaming from
    data,       \* the transactions each database has
    pending,    \* the transactions whose clients are waiting at a primary
    acked,      \* the transactions reported to clients as committed
    txn,        \* the number of transactions so far
    faults      \* the number of faults so far

vars == <<leader, sync, view, fresh, race, pc, plan, promoting, pg, mode,
          names, effective, upstream, data, pending, acked, txn, faults>>

dcsVars == <<leader, sync, fresh, race>>
loopVars == <<view, pc, plan, promoting>>
confVars == <<mode, names, effective>>
txnVars == <<data, pending, acked, txn>>
pgVars == <<pg, upstream, txnVars>>

SyncKeys == [leader : Nodes, members : SUBSET Nodes]
PCs == {"sleep", "cycle", "acquired", "promote", "sync", "assign", "confirm",
        "load", "publish"}

TypeOK ==
    /\ leader \in Nodes \cup {None}
    /\ sync \in SyncKeys
    /\ view \in [Nodes -> [leader : Nodes \cup {None}, sync : SyncKeys]]
    /\ fresh \subseteq Nodes
    /\ race \subseteq Nodes
    /\ pc \in [Nodes -> PCs]
    /\ plan \in [Nodes -> [picked : SUBSET Nodes, allow : SUBSET Nodes,
                           common : SUBSET Nodes]]
    /\ promoting \subseteq Nodes
    /\ pg \in [Nodes -> {"replica", "primary", "down"}]
    /\ mode \in Modes
    /\ names \in [Nodes -> SUBSET (Nodes \cup {Star})]
    /\ effective \in [Nodes -> SUBSET (Nodes \cup {Star})]
    /\ upstream \in [Nodes -> Nodes \cup {None}]
    /\ data \in [Nodes -> SUBSET (1 .. MaxTxn)]
    /\ pending \in [Nodes -> SUBSET (1 .. MaxTxn)]
    /\ acked \subseteq 1 .. MaxTxn
    /\ txn \in 0 .. MaxTxn
    /\ faults \in Nat

\* A plausible bug: the strict mode is left when the last standby leaves.
NoStandby_NeverStrict == {}

\* synchronous_standby_names when there is no standby to name.
NoStandby == IF mode = "strict" THEN {Star} ELSE {}

NoPlan == [picked |-> {}, allow |-> {}, common |-> {}]

\* A cluster whose leader has just been promoted.
Init ==
    /\ leader \in Nodes
    /\ sync = [leader |-> leader, members |-> {}]
    /\ view = [n \in Nodes |-> [leader |-> leader, sync |-> sync]]
    /\ fresh = Nodes
    /\ race = {}
    /\ pc = [n \in Nodes |-> "sleep"]
    /\ plan = [n \in Nodes |-> NoPlan]
    /\ promoting = {}
    /\ pg = [n \in Nodes |-> IF n = leader THEN "primary" ELSE "replica"]
    /\ mode \in Modes
    /\ names = [n \in Nodes |-> NoStandby]
    /\ effective = names
    /\ upstream = [n \in Nodes |-> IF n = leader THEN None ELSE leader]
    /\ data = [n \in Nodes |-> {}]
    /\ pending = [n \in Nodes |-> {}]
    /\ acked = {}
    /\ txn = 0
    /\ faults = 0

Fault(kind) ==
    /\ kind \in Faults
    /\ faults < MaxFaults
    /\ faults' = faults + 1

Goto(n, step) == pc' = [pc EXCEPT ![n] = step]

-----------------------------------------------------------------------------
(* The database servers (external) *)

(***************************************************************************)
(* A client commits a transaction at n ...                                 *)
(***************************************************************************)
Commit(n) ==
    /\ pg[n] = "primary"
    /\ txn < MaxTxn
    /\ txn' = txn + 1
    /\ data' = [data EXCEPT ![n] = @ \cup {txn'}]
    /\ pending' = [pending EXCEPT ![n] = @ \cup {txn'}]
    /\ UNCHANGED <<dcsVars, loopVars, pg, confVars, upstream, acked, faults>>

Standbys(n) == {r \in Nodes : upstream[r] = n}

(***************************************************************************)
(* ... and is told so when all the standbys in synchronous_standby_names   *)
(* have it (for "*", one of the standbys).                                 *)
(***************************************************************************)
Acknowledge(n, t) ==
    /\ t \in pending[n]
    /\ IF Star \in effective[n]
       THEN \E r \in Standbys(n) : t \in data[r]
       ELSE \A r \in effective[n] : r \in Standbys(n) /\ t \in data[r]
    /\ acked' = acked \cup {t}
    /\ pending' = [pending EXCEPT ![n] = @ \ {t}]
    /\ UNCHANGED <<dcsVars, loopVars, pg, confVars, upstream, data, txn, faults>>

(***************************************************************************)
(* A standby receives the next transaction.                                *)
(***************************************************************************)
Stream(r) ==
    /\ upstream[r] /= None
    /\ \E t \in data[upstream[r]] \ data[r] :
          /\ \A u \in data[upstream[r]] \ data[r] : t <= u
          /\ data' = [data EXCEPT ![r] = @ \cup {t}]
    /\ UNCHANGED <<dcsVars, loopVars, pg, confVars, upstream, pending, acked,
                   txn, faults>>

(***************************************************************************)
(* A standby connects and catches up, which makes its state "streaming"; a *)
(* diverged one is first rebuilt from the leader.                          *)
(***************************************************************************)
Connect(r, p) ==
    /\ pg[r] = "replica"
    /\ upstream[r] = None
    /\ pg[p] = "primary"
    /\ p = leader \/ data[r] \subseteq data[p]
    /\ upstream' = [upstream EXCEPT ![r] = p]
    /\ data' = [data EXCEPT ![r] = data[p]]
    /\ UNCHANGED <<dcsVars, loopVars, pg, confVars, pending, acked, txn, faults>>

Disconnect(r) ==
    /\ upstream[r] /= None
    /\ Fault("disconnect")
    /\ upstream' = [upstream EXCEPT ![r] = None]
    /\ UNCHANGED <<dcsVars, loopVars, pg, confVars, txnVars>>

\* The database of n is stopped, or dies, and becomes what `state' says.
StopDb(n, state) ==
    /\ pg' = [pg EXCEPT ![n] = state]
    /\ upstream' = [r \in Nodes |-> IF r = n \/ upstream[r] = n THEN None
                                                                ELSE upstream[r]]
    /\ pending' = [pending EXCEPT ![n] = {}]
    /\ UNCHANGED <<data, acked, txn>>

PgDies(n) ==
    /\ pg[n] /= "down"
    /\ leader = n => sync.leader = n \/ "unmarked" \in Lapses
    /\ Fault("crash")
    /\ StopDb(n, "down")
    /\ UNCHANGED <<dcsVars, loopVars, confVars>>

(***************************************************************************)
(* The server reloads postgresql.conf.                                     *)
(***************************************************************************)
Reload(n) ==
    /\ effective[n] /= names[n]
    /\ effective' = [effective EXCEPT ![n] = names[n]]
    /\ UNCHANGED <<dcsVars, loopVars, mode, names, pgVars, faults>>

-----------------------------------------------------------------------------
(* The keys in the DCS *)

(***************************************************************************)
(* The leader key is not renewed in time.                                  *)
(***************************************************************************)
Expire ==
    /\ leader /= None
    /\ pc[leader] = "sleep" \/ "cycle" \in Lapses
    /\ Fault("expiry")
    /\ leader' = None
    /\ UNCHANGED <<sync, fresh, race, loopVars, confVars, pgVars>>

\* write_sync_state, a write with prevIndex.
WriteSync(n, members) ==
    /\ n \in fresh
    /\ sync' = [leader |-> n, members |-> members]
    /\ fresh' = {}

\* write_sync_state returns False: the index has changed, or the request fails,
\* or the answer to a write that was applied is lost.
WriteSyncFails(n, members) ==
    \/ n \notin fresh /\ UNCHANGED <<sync, fresh, faults>>
    \/ Fault("dcs") /\ (WriteSync(n, members) \/ UNCHANGED <<sync, fresh>>)

\* write_sync_state leads to the next step, or fails and ends the cycle.
WriteSyncThen(n, members, step) ==
    \/ WriteSync(n, members) /\ Goto(n, step) /\ UNCHANGED faults
    \/ WriteSyncFails(n, members) /\ Goto(n, "sleep")

-----------------------------------------------------------------------------
(* The HA loop *)

(***************************************************************************)
(* load_cluster_from_dcs, at the start of a cycle.                         *)
(***************************************************************************)
load_cluster_from_dcs(n) ==
    /\ pc[n] = "sleep"
    /\ view' = [view EXCEPT ![n] = [leader |-> leader, sync |-> sync]]
    /\ fresh' = fresh \cup {n}
    /\ race' = IF leader = None THEN race \cup {n} ELSE race \ {n}
    /\ Goto(n, "cycle")
    /\ UNCHANGED <<leader, sync, plan, promoting, confVars, pgVars, faults>>

(***************************************************************************)
(* A node without the lock: its promotion is cancelled unless that is too  *)
(* late, and a primary is stopped and becomes a standby.                   *)
(***************************************************************************)
GiveUp(n) ==
    /\ IF n \in promoting
       THEN promoting' \in {promoting, promoting \ {n}} /\ UNCHANGED pgVars
       ELSE /\ IF pg[n] = "primary" THEN StopDb(n, "replica")
                                    ELSE UNCHANGED pgVars
            /\ UNCHANGED promoting
    /\ Goto(n, "sleep")

(***************************************************************************)
(* Another node has the lock, or update_lock fails.                        *)
(***************************************************************************)
follow(n) ==
    /\ pc[n] = "cycle"
    /\ pg[n] /= "down"
    /\ view[n].leader /= None
    /\ view[n].leader /= n \/ leader /= n
    /\ GiveUp(n)
    /\ UNCHANGED <<dcsVars, view, plan, confVars, faults>>

\* Nobody outlives the leader key as a primary, or about to become one.
Alone(n) ==
    \/ "stall" \in Lapses
    \/ \A m \in Nodes \ {n} : pg[m] /= "primary" /\ m \notin promoting

\* A plausible bug: every healthy replica may take the leader key.
is_healthiest_node_AnyReplica(n) == TRUE

(***************************************************************************)
(* is_healthiest_node, as far as the sync key decides: a running primary   *)
(* is, a replica must be in the sync key (as the cycle has read it).       *)
(***************************************************************************)
is_healthiest_node(n) ==
    pg[n] = "primary" \/ n \in {view[n].sync.leader} \cup view[n].sync.members

(***************************************************************************)
(* process_unhealthy_cluster: acquire_lock succeeds ...                    *)
(***************************************************************************)
acquire_lock(n) ==
    /\ pc[n] = "cycle"
    /\ pg[n] /= "down"
    /\ n \notin promoting
    /\ view[n].leader = None
    /\ is_healthiest_node(n)
    /\ n \in race \/ "race" \in Lapses
    /\ Alone(n)
    /\ leader = None
    /\ leader' = n
    /\ race' = {}
    /\ Goto(n, "acquired")
    /\ UNCHANGED <<sync, fresh, view, plan, promoting, confVars, pgVars, faults>>

(***************************************************************************)
(* ... and the cluster is loaded again.                                    *)
(***************************************************************************)
acquired(n) ==
    /\ pc[n] = "acquired"
    /\ view' = [view EXCEPT ![n] = [leader |-> leader, sync |-> sync]]
    /\ fresh' = fresh \cup {n}
    /\ Goto(n, IF pg[n] = "primary" THEN "sync" ELSE "promote")
    /\ UNCHANGED <<leader, sync, race, plan, promoting, confVars, pgVars, faults>>

(***************************************************************************)
(* The node is not the healthiest, or somebody else was faster.            *)
(***************************************************************************)
follow_NoLeader(n) ==
    /\ pc[n] = "cycle"
    /\ pg[n] /= "down"
    /\ view[n].leader = None
    /\ pg[n] = "primary" => leader /= None
    /\ GiveUp(n)
    /\ UNCHANGED <<dcsVars, view, plan, confVars, faults>>

\* A plausible bug: a dead database is started only on the leader.
recover_LeaderOnly(n) ==
    /\ pc[n] = "cycle"
    /\ pg[n] = "down"
    /\ pg' = [pg EXCEPT ![n] = IF leader = n /\ Alone(n) THEN "primary" ELSE @]
    /\ Goto(n, "sleep")
    /\ UNCHANGED <<dcsVars, view, plan, promoting, confVars, upstream, txnVars,
                   faults>>

(***************************************************************************)
(* recover loads the cluster again and starts a dead database: as a        *)
(* standby if another node is the leader, else as a primary.  The last     *)
(* disjunct is a node that waits until there is a leader.                  *)
(***************************************************************************)
recover(n) ==
    /\ pc[n] = "cycle"
    /\ pg[n] = "down"
    /\ \/ /\ leader = n \/ (leader = None /\ (sync.leader = n \/ "normal" \in Lapses))
          /\ Alone(n)
          /\ pg' = [pg EXCEPT ![n] = "primary"]
       \/ /\ leader \notin {None, n}
          /\ pg' = [pg EXCEPT ![n] = "replica"]
       \/ /\ leader = None
          /\ ~Alone(n) \/ (sync.leader /= n /\ "normal" \notin Lapses)
          /\ UNCHANGED pg
    /\ Goto(n, "sleep")
    /\ UNCHANGED <<dcsVars, view, plan, promoting, confVars, upstream, txnVars,
                   faults>>

(***************************************************************************)
(* process_healthy_cluster with the lock: wait for a promotion, or go on   *)
(* with enforce_master_role.                                               *)
(***************************************************************************)
update_lock(n) ==
    /\ pc[n] = "cycle"
    /\ pg[n] /= "down"
    /\ view[n].leader = n
    /\ leader = n
    /\ Goto(n, CASE n \in promoting -> "sleep"
                 [] n \notin promoting /\ pg[n] = "primary" -> "sync"
                 [] n \notin promoting /\ pg[n] = "replica" -> "promote")
    /\ UNCHANGED <<dcsVars, view, plan, promoting, confVars, pgVars, faults>>

\* A plausible bug: promote first, write the sync key in the next cycle.
enforce_master_role_NoWrite(n) ==
    /\ pc[n] = "promote"
    /\ Goto(n, "sleep")
    /\ promoting' = promoting \cup {n}
    /\ names' = [names EXCEPT ![n] = NoStandby]
    /\ UNCHANGED <<leader, sync, fresh, race, view, plan, mode, effective, pgVars,
                   faults>>

(***************************************************************************)
(* enforce_master_role of a replica: become the leader in the sync key,    *)
(* reset synchronous_standby_names, and promote in the background.         *)
(***************************************************************************)
enforce_master_role(n) ==
    /\ pc[n] = "promote"
    /\ \/ /\ WriteSync(n, {})
          /\ promoting' = promoting \cup {n}
          /\ names' = [names EXCEPT ![n] = NoStandby]
          /\ UNCHANGED faults
       \/ WriteSyncFails(n, {}) /\ UNCHANGED <<promoting, names>>
    /\ Goto(n, "sleep")
    /\ UNCHANGED <<leader, race, view, plan, mode, effective, pgVars>>

(***************************************************************************)
(* The promotion succeeds ...                                              *)
(***************************************************************************)
promote(n) ==
    /\ n \in promoting
    /\ promoting' = promoting \ {n}
    /\ pg' = [pg EXCEPT ![n] = IF @ = "replica" THEN "primary" ELSE @]
    /\ upstream' = [upstream EXCEPT ![n] = None]
    /\ effective' = [effective EXCEPT ![n] = names[n]]
    /\ UNCHANGED <<dcsVars, view, pc, plan, mode, names, txnVars, faults>>

(***************************************************************************)
(* ... or the pre_promote script fails, and the leader key is released.    *)
(***************************************************************************)
promote_Fails(n) ==
    /\ n \in promoting
    /\ pc[n] = "sleep"
    /\ Fault("promote")
    /\ promoting' = promoting \ {n}
    /\ leader' = IF leader = n THEN None ELSE leader
    /\ UNCHANGED <<sync, fresh, race, view, pc, plan, confVars, pgVars>>

-----------------------------------------------------------------------------
(* process_sync_replication *)

\* The standbys that pg_stat_replication may show as "sync".
SyncStates(n) ==
    LET known == {r \in Standbys(n) : acked \subseteq data[r] \/ "lag" \in Lapses}
    IN  IF Star \in effective[n]
        THEN {{r} : r \in known} \cup (IF known = {} THEN {{}} ELSE {})
        ELSE {known \cap effective[n]}

\* pick_synchronous_standby, when it finds the standbys S to be "sync": the
\* candidates, those in S first.
Picks(n, S) ==
    {P \in SUBSET Standbys(n) :
        /\ \/ Cardinality(P) = NodeCount
           \/ P = Standbys(n) /\ Cardinality(P) < NodeCount
        /\ S \subseteq P \/ P \subseteq S}

\* The node needs its database's answer, and its configuration has been
\* reloaded.
CanQuery(n) ==
    /\ pg[n] = "primary"
    /\ effective[n] = names[n] \/ "reload" \in Lapses

\* A plausible bug: the members that are not chosen keep their privilege until
\* the new ones are published.
process_sync_replication_KeepsPrivilege(n) ==
    /\ pc[n] = "sync"
    /\ CanQuery(n)
    /\ \E S \in SyncStates(n) : \E P \in Picks(n, S) :
         /\ P /= view[n].sync.members
         /\ plan' = [plan EXCEPT ![n] =
                       [picked |-> P, allow |-> P \cap S,
                        common |-> view[n].sync.members \cap (P \cap S)]]
         /\ Goto(n, "assign")
    /\ UNCHANGED <<dcsVars, view, promoting, confVars, pgVars, faults>>

(***************************************************************************)
(* The choice differs from the members in the sync key: those that are not *)
(* chosen lose their privilege first.                                      *)
(***************************************************************************)
process_sync_replication(n) ==
    /\ pc[n] = "sync"
    /\ CanQuery(n)
    /\ \E S \in SyncStates(n) : \E P \in Picks(n, S) :
         LET current == view[n].sync.members
             common == current \cap (P \cap S)
         IN  /\ P /= current
             /\ plan' = [plan EXCEPT ![n] = [picked |-> P, allow |-> P \cap S,
                                             common |-> common]]
             /\ IF common = current
                THEN Goto(n, "assign") /\ UNCHANGED <<sync, fresh, faults>>
                ELSE WriteSyncThen(n, common, "assign")
    /\ UNCHANGED <<leader, race, view, promoting, confVars, pgVars>>

process_sync_Unchanged(n) ==
    /\ pc[n] = "sync"
    /\ \/ pg[n] /= "primary"
       \/ /\ CanQuery(n)
          /\ \E S \in SyncStates(n) : view[n].sync.members \in Picks(n, S)
    /\ Goto(n, "sleep")
    /\ UNCHANGED <<dcsVars, view, plan, promoting, confVars, pgVars, faults>>

\* Is there something to publish once `allow' may be?
AfterAllow(n, allow) == IF allow \in {{}, plan[n].common} THEN "sleep" ELSE "load"

(***************************************************************************)
(* set_synchronous_standby: write postgresql.conf and ask for a reload.    *)
(***************************************************************************)
set_synchronous_standby(n) ==
    /\ pc[n] = "assign"
    /\ LET p == plan[n] IN
       /\ names' = [names EXCEPT ![n] = IF p.picked = {} THEN NoStandby
                                                         ELSE p.picked]
       /\ Goto(n, IF p.picked /= {} /\ p.allow = {} THEN "confirm"
                                                    ELSE AfterAllow(n, p.allow))
    /\ UNCHANGED <<dcsVars, view, plan, promoting, mode, effective, pgVars, faults>>

(***************************************************************************)
(* Two seconds later: who is "sync" now?                                   *)
(***************************************************************************)
process_sync_Confirm(n) ==
    /\ pc[n] = "confirm"
    /\ \/ /\ CanQuery(n)
          /\ \E S \in SyncStates(n) : \E P \in Picks(n, S) :
                /\ plan' = [plan EXCEPT ![n].allow = P \cap S]
                /\ Goto(n, AfterAllow(n, P \cap S))
       \/ pg[n] /= "primary" /\ Goto(n, "sleep") /\ UNCHANGED plan
    /\ UNCHANGED <<dcsVars, view, promoting, confVars, pgVars, faults>>

(***************************************************************************)
(* get_cluster fails, or shows whether somebody else has become the leader *)
(* in the sync key.                                                        *)
(***************************************************************************)
process_sync_Load(n) ==
    /\ pc[n] = "load"
    /\ \/ /\ fresh' = fresh \cup {n}
          /\ Goto(n, IF sync.leader = n THEN "publish" ELSE "sleep")
          /\ UNCHANGED faults
       \/ Fault("dcs") /\ Goto(n, "sleep") /\ UNCHANGED fresh
    /\ UNCHANGED <<leader, sync, race, view, plan, promoting, confVars, pgVars>>

(***************************************************************************)
(* The synchronous standbys get their privilege.                           *)
(***************************************************************************)
process_sync_Publish(n) ==
    /\ pc[n] = "publish"
    /\ effective[n] = names[n] \/ "reload" \in Lapses
    /\ WriteSyncThen(n, plan[n].allow, "sleep")
    /\ UNCHANGED <<leader, race, view, plan, promoting, confVars, pgVars>>

(***************************************************************************)
(* Patroni is restarted next to a running database: Postgresql.__init__    *)
(* writes postgresql.conf without knowing of any synchronous standby, and  *)
(* the server reloads it.                                                  *)
(***************************************************************************)
Restart(n) ==
    /\ pg[n] /= "down"
    /\ n \notin promoting
    /\ Fault("restart")
    /\ names' = [names EXCEPT ![n] = NoStandby]
    /\ Goto(n, "sleep")
    /\ UNCHANGED <<dcsVars, view, plan, promoting, mode, effective, pgVars>>

-----------------------------------------------------------------------------
Server(n) ==
    \/ \E t \in 1 .. MaxTxn : Acknowledge(n, t)
    \/ Stream(n)
    \/ \E p \in Nodes : Connect(n, p)
    \/ Reload(n)

HaLoop(n) ==
    \/ load_cluster_from_dcs(n)
    \/ follow(n)
    \/ acquire_lock(n)
    \/ acquired(n)
    \/ follow_NoLeader(n)
    \/ recover(n)
    \/ update_lock(n)
    \/ enforce_master_role(n)
    \/ process_sync_replication(n)
    \/ process_sync_Unchanged(n)
    \/ set_synchronous_standby(n)
    \/ process_sync_Confirm(n)
    \/ process_sync_Load(n)
    \/ process_sync_Publish(n)

Next ==
    \/ Expire
    \/ \E n \in Nodes :
          \/ Commit(n)
          \/ Disconnect(n)
          \/ PgDies(n)
          \/ promote(n)
          \/ promote_Fails(n)
          \/ Restart(n)
          \/ Server(n)
          \/ HaLoop(n)

Spec == Init /\ [][Next]_vars

(***************************************************************************)
(* The HA loops and the servers keep running: configurations are reloaded, *)
(* promotions end, and a connected standby receives what it lacks.  A      *)
(* standby that is not connected may stay away for ever.                   *)
(***************************************************************************)
Fairness ==
    \A n \in Nodes :
        /\ WF_vars(HaLoop(n))
        /\ WF_vars(promote(n))
        /\ WF_vars(Reload(n))
        /\ WF_vars(Stream(n))
        /\ WF_vars(\E t \in 1 .. MaxTxn : Acknowledge(n, t))

FairSpec == Spec /\ Fairness

(***************************************************************************)
(* The standbys come back, too.                                            *)
(***************************************************************************)
Reconnect == \A n \in Nodes : WF_vars(\E p \in Nodes : Connect(n, p))

ReconnectSpec == FairSpec /\ Reconnect

-----------------------------------------------------------------------------
(* Properties *)

(***************************************************************************)
(* docs/replication_modes.rst: "A node must be set as the synchronous      *)
(* standby in PostgreSQL as long as it is published as the synchronous     *)
(* standby."                                                               *)
(***************************************************************************)
PublishedIsEnforced ==
    pg[sync.leader] = "primary" => sync.members \subseteq effective[sync.leader]

(***************************************************************************)
(* docs/replication_modes.rst: Patroni "will not promote a standby unless  *)
(* it is certain that the standby contains all transactions that may have  *)
(* returned a successful commit status to client".  Every node that may    *)
(* promote itself has them.  (Not in the strict mode: while "*" is in      *)
(* effect the standby that was found to be "sync" may have to leave, and a *)
(* commit is confirmed by another one, before the server waits for it.)    *)
(***************************************************************************)
NoAckedLoss ==
    mode = "sync" =>
        \A n \in {sync.leader} \cup sync.members : acked \subseteq data[n]

(***************************************************************************)
(* docs/replication_modes.rst on synchronous_mode_strict: "each write is   *)
(* stored durably on at least two nodes" when its client is answered.      *)
(***************************************************************************)
StrictOnTwoNodes ==
    [][mode = "strict" =>
        \A t \in acked' \ acked :
            \E n, r \in Nodes : n /= r /\ t \in data[n] \cap data[r]]_vars

(***************************************************************************)
(* docs/replication_modes.rst: "A node must be marked as the latest leader *)
(* whenever it can accept write transactions."  Between two cycles the     *)
(* primary that has the leader key is the sync key's leader.               *)
(***************************************************************************)
LeaderIsMarked ==
    \A n \in Nodes : leader = n /\ pg[n] = "primary" /\ pc[n] = "sleep"
                        => sync.leader = n

(***************************************************************************)
(* docs/replication_modes.rst: "When synchronous_mode is on and a standby  *)
(* crashes, commits will block until next iteration of Patroni runs and    *)
(* switches the primary to standalone mode".  No client waits for ever,    *)
(* unless in the strict mode.                                              *)
(***************************************************************************)
CommitsResume ==
    \A n \in Nodes, t \in 1 .. MaxTxn :
        t \in pending[n] /\ mode /= "strict" ~> t \notin pending[n]

=============================================================================
