----------------------------- MODULE DcsProofs -----------------------------
(***************************************************************************)
(* Proofs about the DCS.  DcsLeader, for any number of nodes, writes,      *)
(* sessions and faults: every back end implements LeaderKey, the contract  *)
(* of AbstractDCS, and tells its client the truth.  MCDcsClients, for      *)
(* bounds of any size: what the rest of the clients promises.              *)
(***************************************************************************)
EXTENDS DcsLeader, MCDcsClients, FiniteSetTheorems, FunctionTheorems,
        SequenceTheorems, TLAPS

-----------------------------------------------------------------------------
(* The leader key *)

(***************************************************************************)
(* What breaks the contract of AbstractDCS is left out: a ZooKeeper        *)
(* session that outlives the Patroni that has restarted, and any way to    *)
(* lose an etcd3 lease while its client lives on.                          *)
(***************************************************************************)
ContractAssumed ==
    /\ "restart" \notin Faults["zookeeper"]
    /\ Faults["etcd3"] \subseteq {"lost"}

(***************************************************************************)
(* Every write gives the key a new index.  A copy with the index of the    *)
(* key is the key; so what compares the index compares the owner, too.     *)
(***************************************************************************)
Indexed(n) ==
    /\ cache[n].index <= key.index
    /\ cache[n].index = key.index => cache[n] = key
    /\ view[n].index <= key.index
    /\ view[n].index = key.index => view[n].owner \in {None, key.owner}
    /\ aged[n] <= key.index

IndexInv ==
    /\ key.index = 0 => key = NoKey
    /\ \A n \in Nodes : Indexed(n)
    /\ limb <= key.index

(***************************************************************************)
(* Nobody renews a record that has been seen unchanged for ttl seconds, or *)
(* whose expiry is in the log, without a new index.                        *)
(***************************************************************************)
Over == key.owner = None \/ 0 \in late

AgeInv ==
    /\ limb > 0 => backend = "raft" /\ (limb = key.index => Over)
    /\ backend = "kubernetes" =>
          \A n \in Nodes :
             /\ aged[n] = key.index => Over
             /\ view[n].owner = None /\ view[n].index = key.index => Over

(***************************************************************************)
(* The call that a loop is in goes with what its cycle has loaded and with *)
(* its back end.                                                           *)
(***************************************************************************)
CallInv ==
    \A n \in Nodes :
        /\ pc[n] \in {"disown", "update", "delete", "take"} =>
              view[n].owner = n
        /\ pc[n] = "acquire" => view[n].owner = None \/ backend = "raft"
        /\ pc[n] = "disown" => backend = "consul"
        /\ pc[n] = "take" => backend = "etcd3"
        /\ pc[n] = "fallback" => backend = "raft"
        /\ pc[n] = "set_ttl" => backend \in Sessional
        /\ pc[n] \in {"reread", "again"} => backend = "kubernetes"
        /\ pc[n] = "again" /\ mine[n] = key.index => key.owner = n
        /\ pc[n] = "again" => mine[n] <= key.index

(***************************************************************************)
(* A session is never given out twice, and the key hangs on a live session *)
(* of its owner.  With ZooKeeper it is the one that the owner has; with    *)
(* etcd3, as long as no lease is lost, every copy of the key agrees.       *)
(***************************************************************************)
SessionInv ==
    IF backend \in Sessional
    THEN /\ live \subseteq 1..sessions
         /\ \A n \in Nodes : mine[n] <= sessions
         /\ \A n, m \in Nodes : mine[n] = mine[m] /\ mine[n] # 0 => n = m
         /\ key.owner # None =>
               /\ key.session \in live
               /\ \A n \in Nodes : mine[n] = key.session => key.owner = n
    ELSE live = {}

Hangs(record) ==
    \A n \in Nodes :
        record.owner = n => record.session = mine[n] /\ mine[n] # 0

HoldInv ==
    /\ backend = "zookeeper" => Hangs(key)
    /\ backend = "etcd3" =>
          /\ late = {}
          /\ \A n \in Nodes : pc[n] # "set_ttl"
          /\ \A s \in live : \E n \in Nodes : mine[n] = s
          /\ \A n \in Nodes : mine[n] # 0 => mine[n] \in live
          /\ Hangs(key)
          /\ \A n \in Nodes : Hangs(cache[n]) /\ Hangs(view[n])

ContractInv == IndexInv /\ AgeInv /\ CallInv /\ SessionInv /\ HoldInv

-----------------------------------------------------------------------------
(* Types *)

(***************************************************************************)
(* DcsAssumption, conjunct by conjunct.                                    *)
(***************************************************************************)
LEMMA Bounds ==
    /\ None \notin Nodes
    /\ MaxIndex \in Nat /\ MaxSessions \in Nat /\ MaxFaults \in Nat
    /\ Faults \in [AllBackends -> SUBSET FaultKinds]
    /\ NoKey \in Records
BY DcsAssumption DEF NoKey, Records

(***************************************************************************)
(* TypeOK in four parts: the key, the sessions, the calls and the copies   *)
(* of the key.                                                             *)
(***************************************************************************)
KeyTypes == key \in Records /\ late \subseteq 0..MaxSessions

SessionTypes ==
    /\ sessions \in 0..MaxSessions
    /\ live \subseteq 1..MaxSessions
    /\ mine \in [Nodes -> 0..(MaxSessions + MaxIndex)]

CallTypes ==
    /\ pc \in [Nodes -> PCs]
    /\ told \in [Nodes -> {"none", "yes", "no"}]
    /\ faults \in 0..MaxFaults

CopyTypes ==
    /\ cache \in [Nodes -> Records]
    /\ view \in [Nodes -> Records]
    /\ aged \in [Nodes -> 0..MaxIndex]
    /\ limb \in 0..MaxIndex
    /\ backend \in Backends

\* The four parts of TypeOK.
LEMMA TypeParts ==
    /\ TypeOK <=> KeyTypes /\ SessionTypes /\ CallTypes /\ CopyTypes
    /\ TypeOK' <=> KeyTypes' /\ SessionTypes' /\ CallTypes' /\ CopyTypes'
BY DEF TypeOK, KeyTypes, SessionTypes, CallTypes, CopyTypes

(***************************************************************************)
(* What a write, an answer, a fault and a new session do to the types.     *)
(***************************************************************************)
LEMMA WriteType ==
    ASSUME KeyTypes, NEW o \in Nodes \cup {None}, NEW s \in 0..MaxSessions,
           Write(o, s) \/ Keep
    PROVE  KeyTypes'
<1>1. CASE Write(o, s)
  <2>1. key.index + 1 \in 0..MaxIndex
    BY <1>1, Bounds DEF Write, KeyTypes, Records
  <2>q. QED
    BY <1>1, <2>1 DEF Write, KeyTypes, Records
<1>q. QED
  BY <1>1 DEF Keep, KeyTypes

\* An answer, lost or not.
LEMMA AnswerType ==
    ASSUME CallTypes, NEW n \in Nodes, NEW a \in {"yes", "no"}, Answer(n, a)
    PROVE  CallTypes'
<1>1. faults' \in 0..MaxFaults
  BY Bounds DEF Answer, Fault, CallTypes
<1>q. QED
  BY <1>1 DEF Answer, Goto, CallTypes, PCs

\* A fault.
LEMMA FaultType ==
    ASSUME CallTypes, NEW what, Fault(what) PROVE faults' \in 0..MaxFaults
BY Bounds DEF Fault, CallTypes

\* A new session.
LEMMA NewSessionType ==
    ASSUME SessionTypes, NEW n \in Nodes, NewSession(n) PROVE SessionTypes'
<1>1. sessions + 1 \in 1..MaxSessions
  BY Bounds DEF SessionTypes, NewSession
<1>q. QED
  BY <1>1, Bounds DEF SessionTypes, NewSession

(***************************************************************************)
(* Every step keeps the types.                                             *)
(***************************************************************************)
LEMMA TypeStep ==
    TypeOK /\ [Next]_vars
      => TypeOK'
<1> SUFFICES ASSUME TypeOK, [Next]_vars
             PROVE  TypeOK'
    OBVIOUS
<1> USE TypeParts
<1>1. ASSUME NEW k \in Nodes, Client(k) PROVE TypeOK'
  <2>1. CASE get_cluster(k)
    <3>1. KeyTypes'
      BY <2>1 DEF get_cluster, etcd_load_cluster, etcd3_load_cluster,
                  raft_load_cluster, consul_load_cluster,
                  zookeeper_load_cluster, kubernetes_load_cluster, Loaded,
                  KeyTypes, serverVars
    <3>2. SessionTypes'
      BY <2>1 DEF get_cluster, etcd_load_cluster, etcd3_load_cluster,
                  raft_load_cluster, consul_load_cluster,
                  zookeeper_load_cluster, kubernetes_load_cluster, Loaded,
                  SessionTypes, serverVars, clientVars
    <3>3. CallTypes'
      BY <2>1 DEF get_cluster, etcd_load_cluster, etcd3_load_cluster,
                  raft_load_cluster, consul_load_cluster,
                  zookeeper_load_cluster, kubernetes_load_cluster, Loaded,
                  CallTypes, Goto, PCs
    <3>4. CopyTypes'
      <4>1. [cache[k] EXCEPT !.owner = None] \in Records
        BY DEF CopyTypes, Records
      <4>q. QED
        BY <2>1, <4>1 DEF get_cluster, etcd_load_cluster, etcd3_load_cluster,
                          raft_load_cluster, consul_load_cluster,
                          zookeeper_load_cluster, kubernetes_load_cluster,
                          Loaded, CopyTypes, KeyTypes, serverVars
    <3>q. QED
      BY <3>1, <3>2, <3>3, <3>4
  <2>2. CASE disown(k)
    <3>1. KeyTypes'
      BY <2>2, WriteType, Bounds DEF disown
    <3>2. SessionTypes'
      BY <2>2 DEF disown, SessionTypes, serverVars, clientVars
    <3>3. CallTypes'
      BY <2>2 DEF disown, CallTypes, Goto, PCs
    <3>4. CopyTypes'
      BY <2>2 DEF disown, CopyTypes, Records
    <3>q. QED
      BY <3>1, <3>2, <3>3, <3>4
  <2>3. CASE touch_member(k)
    <3>1. KeyTypes'
      BY <2>3 DEF touch_member, KeyTypes, refresh_session
    <3>2. SessionTypes'
      BY <2>3, NewSessionType DEF touch_member, SessionTypes, refresh_session
    <3>3. CallTypes'
      BY <2>3 DEF touch_member, CallTypes, Goto, PCs
    <3>4. CopyTypes'
      BY <2>3 DEF touch_member, CopyTypes, serverVars, clientVars
    <3>q. QED
      BY <3>1, <3>2, <3>3, <3>4
  <2>4. CASE kazoo(k)
    <3>1. KeyTypes'
      BY <2>4 DEF kazoo, KeyTypes
    <3>2. SessionTypes'
      BY <2>4, NewSessionType DEF kazoo, SessionTypes
    <3>3. CallTypes'
      BY <2>4 DEF kazoo, CallTypes
    <3>4. CopyTypes'
      BY <2>4 DEF kazoo, CopyTypes, serverVars, clientVars
    <3>q. QED
      BY <3>1, <3>2, <3>3, <3>4
  <2>5. CASE decide(k)
    <3>1. KeyTypes'
      BY <2>5 DEF decide, KeyTypes, serverVars
    <3>2. SessionTypes'
      BY <2>5 DEF decide, SessionTypes, serverVars, clientVars
    <3>3. CallTypes'
      BY <2>5 DEF decide, CallTypes, Goto, PCs
    <3>4. CopyTypes'
      BY <2>5 DEF decide, CopyTypes, serverVars, clientVars
    <3>q. QED
      BY <3>1, <3>2, <3>3, <3>4
  <2>6. CASE attempt_to_acquire_leader(k)
    <3>1. KeyTypes'
      <4>1. CASE etcd_attempt_to_acquire_leader(k)
        BY <4>1, WriteType, Bounds DEF etcd_attempt_to_acquire_leader, Keep,
                                       KeyTypes, SessionTypes
      <4>2. CASE raft_attempt_to_acquire_leader(k)
        BY <4>2, WriteType, Bounds DEF raft_attempt_to_acquire_leader, Keep,
                                       KeyTypes, SessionTypes
      <4>3. CASE etcd3_attempt_to_acquire_leader(k)
        BY <4>3, WriteType, Bounds DEF etcd3_attempt_to_acquire_leader, Keep,
                                       KeyTypes, SessionTypes
      <4>4. CASE consul_attempt_to_acquire_leader(k)
        BY <4>4, WriteType, Bounds DEF consul_attempt_to_acquire_leader, Keep,
                                       KeyTypes, SessionTypes
      <4>5. CASE zookeeper_attempt_to_acquire_leader(k)
        BY <4>5, WriteType, Bounds DEF zookeeper_attempt_to_acquire_leader,
                                       Keep, KeyTypes, SessionTypes
      <4>6. CASE kubernetes_attempt_to_acquire_leader(k)
        BY <4>6, WriteType, Bounds DEF kubernetes_attempt_to_acquire_leader,
                                       Keep, KeyTypes, SessionTypes
      <4>q. QED
        BY <2>6, <4>1, <4>2, <4>3, <4>4, <4>5, <4>6 DEF
           attempt_to_acquire_leader
    <3>2. SessionTypes'
      BY <2>6, NewSessionType DEF attempt_to_acquire_leader,
                                  etcd_attempt_to_acquire_leader,
                                  raft_attempt_to_acquire_leader,
                                  etcd3_attempt_to_acquire_leader,
                                  consul_attempt_to_acquire_leader,
                                  zookeeper_attempt_to_acquire_leader,
                                  kubernetes_attempt_to_acquire_leader,
                                  SameSession, SessionTypes
    <3>3. CallTypes'
      BY <2>6, AnswerType DEF attempt_to_acquire_leader,
                              etcd_attempt_to_acquire_leader,
                              raft_attempt_to_acquire_leader,
                              etcd3_attempt_to_acquire_leader,
                              consul_attempt_to_acquire_leader,
                              zookeeper_attempt_to_acquire_leader,
                              kubernetes_attempt_to_acquire_leader, CallTypes
    <3>4. CopyTypes'
      BY <2>6, WriteType, <3>1 DEF attempt_to_acquire_leader,
                                   etcd_attempt_to_acquire_leader,
                                   raft_attempt_to_acquire_leader,
                                   etcd3_attempt_to_acquire_leader,
                                   consul_attempt_to_acquire_leader,
                                   zookeeper_attempt_to_acquire_leader,
                                   kubernetes_attempt_to_acquire_leader,
                                   CopyTypes, KeyTypes, CacheAnswer
    <3>q. QED
      BY <3>1, <3>2, <3>3, <3>4
  <2>7. CASE update_leader(k)
    <3>1. KeyTypes'
      <4>1. CASE etcd_update_leader(k)
        BY <4>1, WriteType, Bounds DEF etcd_update_leader, Keep, KeyTypes,
                                       SessionTypes
      <4>2. CASE raft_update_leader(k)
        BY <4>2, WriteType, Bounds DEF raft_update_leader, Keep, KeyTypes,
                                       SessionTypes
      <4>3. CASE etcd3_update_leader(k)
        BY <4>3, WriteType, Bounds DEF etcd3_update_leader, Keep, KeyTypes,
                                       SessionTypes
      <4>4. CASE consul_update_leader(k)
        BY <4>4, WriteType, Bounds DEF consul_update_leader, Keep, KeyTypes,
                                       SessionTypes
      <4>5. CASE zookeeper_update_leader(k)
        BY <4>5, WriteType, Bounds DEF zookeeper_update_leader, Keep,
                                       KeyTypes, SessionTypes
      <4>6. CASE kubernetes_update_leader(k)
        BY <4>6, WriteType, Bounds DEF kubernetes_update_leader, Keep,
                                       KeyTypes, SessionTypes
      <4>q. QED
        BY <2>7, <4>1, <4>2, <4>3, <4>4, <4>5, <4>6 DEF update_leader
    <3>2. SessionTypes'
      BY <2>7, NewSessionType DEF update_leader, etcd_update_leader,
                                  raft_update_leader, etcd3_update_leader,
                                  consul_update_leader,
                                  zookeeper_update_leader,
                                  kubernetes_update_leader, SameSession,
                                  SessionTypes
    <3>3. CallTypes'
      BY <2>7, AnswerType DEF update_leader, etcd_update_leader,
                              raft_update_leader, etcd3_update_leader,
                              consul_update_leader, zookeeper_update_leader,
                              kubernetes_update_leader, CallTypes, Goto, PCs
    <3>4. CopyTypes'
      BY <2>7, <3>1 DEF update_leader, etcd_update_leader, raft_update_leader,
                        etcd3_update_leader, consul_update_leader,
                        zookeeper_update_leader, kubernetes_update_leader,
                        CopyTypes, KeyTypes, CacheAnswer
    <3>q. QED
      BY <3>1, <3>2, <3>3, <3>4
  <2>8. CASE raft_fallback(k)
    <3>1. KeyTypes'
      BY <2>8 DEF raft_fallback, KeyTypes, serverVars
    <3>2. SessionTypes'
      BY <2>8 DEF raft_fallback, SessionTypes, serverVars, clientVars
    <3>3. CallTypes'
      BY <2>8 DEF raft_fallback, CallTypes, Goto, PCs
    <3>4. CopyTypes'
      BY <2>8 DEF raft_fallback, CopyTypes, serverVars, clientVars
    <3>q. QED
      BY <3>1, <3>2, <3>3, <3>4
  <2>9. CASE etcd3_take_leader(k)
    <3>1. KeyTypes'
      BY <2>9, WriteType DEF etcd3_take_leader, SessionTypes
    <3>2. SessionTypes'
      BY <2>9 DEF etcd3_take_leader, SessionTypes, serverVars, clientVars
    <3>3. CallTypes'
      BY <2>9, AnswerType DEF etcd3_take_leader, CallTypes
    <3>4. CopyTypes'
      BY <2>9 DEF etcd3_take_leader, CopyTypes, serverVars, clientVars
    <3>q. QED
      BY <3>1, <3>2, <3>3, <3>4
  <2>10. CASE kubernetes_reread(k)
    <3>1. KeyTypes'
      BY <2>10 DEF kubernetes_reread, KeyTypes, serverVars
    <3>2. SessionTypes'
      BY <2>10, Bounds DEF kubernetes_reread, SessionTypes, KeyTypes, Records,
                           serverVars
    <3>3. CallTypes'
      BY <2>10 DEF kubernetes_reread, CallTypes, Goto, PCs
    <3>4. CopyTypes'
      BY <2>10 DEF kubernetes_reread, CopyTypes, KeyTypes, serverVars,
                   clientVars
    <3>q. QED
      BY <3>1, <3>2, <3>3, <3>4
  <2>11. CASE kubernetes_again(k)
    <3>1. KeyTypes'
      BY <2>11, WriteType, Bounds DEF kubernetes_again, SessionTypes
    <3>2. SessionTypes'
      BY <2>11 DEF kubernetes_again, SessionTypes, serverVars, clientVars
    <3>3. CallTypes'
      BY <2>11, AnswerType DEF kubernetes_again, CallTypes
    <3>4. CopyTypes'
      BY <2>11, <3>1 DEF kubernetes_again, CopyTypes, KeyTypes, CacheAnswer
    <3>q. QED
      BY <3>1, <3>2, <3>3, <3>4
  <2>12. CASE delete_leader(k)
    <3>1. KeyTypes'
      BY <2>12, WriteType, Bounds DEF delete_leader, SessionTypes
    <3>2. SessionTypes'
      BY <2>12 DEF delete_leader, SessionTypes, serverVars, clientVars
    <3>3. CallTypes'
      BY <2>12 DEF delete_leader, CallTypes, Goto, PCs
    <3>4. CopyTypes'
      BY <2>12 DEF delete_leader, CopyTypes, serverVars, clientVars
    <3>q. QED
      BY <3>1, <3>2, <3>3, <3>4
  <2>13. CASE zookeeper_delete_leader(k)
    <3>1. KeyTypes'
      BY <2>13, WriteType, Bounds DEF zookeeper_delete_leader,
                                      zookeeper_restart, SessionTypes
    <3>2. SessionTypes'
      BY <2>13, Bounds DEF zookeeper_delete_leader, zookeeper_restart,
                           SessionTypes
    <3>3. CallTypes'
      BY <2>13 DEF zookeeper_delete_leader, zookeeper_restart, CallTypes,
                   Goto, PCs
    <3>4. CopyTypes'
      BY <2>13 DEF zookeeper_delete_leader, zookeeper_restart, CopyTypes,
                   serverVars, clientVars
    <3>q. QED
      BY <3>1, <3>2, <3>3, <3>4
  <2>14. CASE reload_config(k)
    <3>1. KeyTypes'
      BY <2>14 DEF reload_config, KeyTypes, serverVars
    <3>2. SessionTypes'
      BY <2>14 DEF reload_config, SessionTypes, serverVars, clientVars
    <3>3. CallTypes'
      BY <2>14, FaultType DEF reload_config, CallTypes, Goto, PCs
    <3>4. CopyTypes'
      BY <2>14 DEF reload_config, CopyTypes, serverVars, clientVars
    <3>q. QED
      BY <3>1, <3>2, <3>3, <3>4
  <2>15. CASE set_ttl(k)
    <3>1. KeyTypes'
      BY <2>15, WriteType, Bounds DEF set_ttl, zookeeper_restart, SessionTypes
    <3>2. SessionTypes'
      BY <2>15, Bounds DEF set_ttl, zookeeper_restart, SessionTypes
    <3>3. CallTypes'
      BY <2>15 DEF set_ttl, zookeeper_restart, CallTypes, Goto, PCs
    <3>4. CopyTypes'
      BY <2>15 DEF set_ttl, zookeeper_restart, CopyTypes, serverVars,
                   clientVars
    <3>q. QED
      BY <3>1, <3>2, <3>3, <3>4
  <2>16. CASE Restart(k)
    <3>1. KeyTypes'
      BY <2>16 DEF Restart, KeyTypes, serverVars
    <3>2. SessionTypes'
      BY <2>16, Bounds DEF Restart, SessionTypes, serverVars
    <3>3. CallTypes'
      BY <2>16, FaultType DEF Restart, CallTypes, Goto, PCs
    <3>4. CopyTypes'
      BY <2>16, Bounds DEF Restart, CopyTypes, serverVars
    <3>q. QED
      BY <3>1, <3>2, <3>3, <3>4
  <2>q. QED
    BY <1>1, <2>1, <2>2, <2>3, <2>4, <2>5, <2>6, <2>7, <2>8, <2>9, <2>10,
       <2>11, <2>12, <2>13, <2>14, <2>15, <2>16 DEF Client
<1>2. ASSUME NEW k \in Nodes, Deliver(k) PROVE TypeOK'
  <2>1. KeyTypes'
    BY <1>2 DEF Deliver, KeyTypes, serverVars
  <2>2. SessionTypes'
    BY <1>2 DEF Deliver, SessionTypes, serverVars, clientVars
  <2>3. CallTypes'
    BY <1>2 DEF Deliver, CallTypes
  <2>4. CopyTypes'
    BY <1>2 DEF Deliver, CopyTypes, KeyTypes, serverVars
  <2>q. QED
    BY <2>1, <2>2, <2>3, <2>4
<1>3. ASSUME NEW k \in Nodes, Age(k) PROVE TypeOK'
  <2>1. KeyTypes'
    BY <1>3 DEF Age, KeyTypes, serverVars
  <2>2. SessionTypes'
    BY <1>3 DEF Age, SessionTypes, serverVars, clientVars
  <2>3. CallTypes'
    BY <1>3 DEF Age, CallTypes
  <2>4. CopyTypes'
    BY <1>3 DEF Age, CopyTypes, Records, serverVars
  <2>q. QED
    BY <2>1, <2>2, <2>3, <2>4
<1>4. ASSUME NEW s \in 0..MaxSessions, TtlPasses(s) PROVE TypeOK'
  <2>1. KeyTypes'
    BY <1>4, Bounds DEF TtlPasses, KeyTypes
  <2>2. SessionTypes'
    BY <1>4 DEF TtlPasses, SessionTypes, serverVars, clientVars
  <2>3. CallTypes'
    BY <1>4, FaultType DEF TtlPasses, CallTypes
  <2>4. CopyTypes'
    BY <1>4 DEF TtlPasses, CopyTypes, serverVars, clientVars
  <2>q. QED
    BY <2>1, <2>2, <2>3, <2>4
<1>5. ASSUME NEW s \in 0..MaxSessions, Expire(s) PROVE TypeOK'
  <2>1. KeyTypes'
    BY <1>5, WriteType, Bounds DEF Expire, KeyTypes
  <2>2. SessionTypes'
    BY <1>5 DEF Expire, SessionTypes, serverVars, clientVars
  <2>3. CallTypes'
    BY <1>5 DEF Expire, CallTypes
  <2>4. CopyTypes'
    BY <1>5 DEF Expire, CopyTypes, serverVars, clientVars
  <2>q. QED
    BY <2>1, <2>2, <2>3, <2>4
<1>6. CASE expire_keys
  <2>1. KeyTypes'
    BY <1>6 DEF expire_keys, KeyTypes, serverVars
  <2>2. SessionTypes'
    BY <1>6 DEF expire_keys, SessionTypes, serverVars, clientVars
  <2>3. CallTypes'
    BY <1>6 DEF expire_keys, CallTypes
  <2>4. CopyTypes'
    BY <1>6 DEF expire_keys, CopyTypes, KeyTypes, Records, serverVars,
                clientVars
  <2>q. QED
    BY <2>1, <2>2, <2>3, <2>4
<1>7. CASE expire
  <2>1. KeyTypes'
    BY <1>7, WriteType, Bounds DEF expire, KeyTypes
  <2>2. SessionTypes'
    BY <1>7 DEF expire, SessionTypes, serverVars, clientVars
  <2>3. CallTypes'
    BY <1>7 DEF expire, CallTypes
  <2>4. CopyTypes'
    BY <1>7, Bounds DEF expire, CopyTypes, clientVars
  <2>q. QED
    BY <2>1, <2>2, <2>3, <2>4
<1>8. CASE UNCHANGED vars
  BY <1>8 DEF vars, KeyTypes, SessionTypes, CallTypes, CopyTypes
<1>q. QED
  BY <1>1, <1>2, <1>3, <1>4, <1>5, <1>6, <1>7, <1>8 DEF Next

-----------------------------------------------------------------------------
(* What the contract rests on *)

(***************************************************************************)
(* Every write gives the key a new index, and no copy is ahead of it.      *)
(***************************************************************************)
LEMMA IndexStep ==
    TypeOK /\ IndexInv /\ CallInv /\ [Next]_vars
      => IndexInv'
<1> SUFFICES ASSUME TypeOK, IndexInv, CallInv, [Next]_vars
             PROVE  IndexInv'
    OBVIOUS
<1> USE Bounds, TypeParts DEF KeyTypes, SessionTypes, CallTypes, CopyTypes,
                              Records, PCs, Sessional, Cached, IndexInv,
                              Indexed, CallInv, NoKey
<1>1. ASSUME NEW k \in Nodes, Client(k) PROVE IndexInv'
  <2>1. CASE get_cluster(k)
    <3>1. CASE etcd_load_cluster(k)
      BY <2>1, <3>1 DEF etcd_load_cluster, get_cluster, Loaded, Goto,
                        serverVars
    <3>2. CASE etcd3_load_cluster(k)
      BY <2>1, <3>2 DEF etcd3_load_cluster, get_cluster, Loaded, Goto,
                        serverVars
    <3>3. CASE raft_load_cluster(k)
      BY <2>1, <3>3 DEF raft_load_cluster, get_cluster, Loaded, Goto,
                        serverVars
    <3>4. CASE consul_load_cluster(k)
      BY <2>1, <3>4 DEF consul_load_cluster, get_cluster, Loaded, Goto,
                        serverVars
    <3>5. CASE zookeeper_load_cluster(k)
      <4>1. \/ view' = [view EXCEPT ![k] = key]
            \/ view' = [view EXCEPT ![k] = view[k]]
        BY <2>1, <3>5 DEF zookeeper_load_cluster, Loaded
      <4>2. UNCHANGED <<key, late, limb, cache, aged>>
        BY <2>1, <3>5 DEF get_cluster, serverVars
      <4>3. \A n \in Nodes : view'[n] = view[n] \/ view'[n] = key
        BY <4>1
      <4>q. QED
        BY <4>2, <4>3
    <3>6. CASE kubernetes_load_cluster(k)
      BY <2>1, <3>6 DEF kubernetes_load_cluster, get_cluster, Loaded, Goto,
                        serverVars
    <3>q. QED
      BY <2>1, <3>1, <3>2, <3>3, <3>4, <3>5, <3>6 DEF get_cluster
  <2>2. CASE disown(k)
    BY <2>2 DEF disown, Write, Keep, Goto, serverVars, clientVars
  <2>3. CASE touch_member(k)
    BY <2>3 DEF touch_member, refresh_session, NewSession, Goto, serverVars,
                clientVars
  <2>4. CASE kazoo(k)
    BY <2>4 DEF kazoo, NewSession, serverVars, clientVars
  <2>5. CASE decide(k)
    BY <2>5 DEF decide, Goto, serverVars, clientVars
  <2>6. CASE attempt_to_acquire_leader(k)
    <3>1. CASE etcd_attempt_to_acquire_leader(k)
      BY <2>6, <3>1 DEF etcd_attempt_to_acquire_leader,
                        attempt_to_acquire_leader, Write, Keep, Answer, Fault,
                        Goto, SameSession, NewSession, CacheAnswer
    <3>2. CASE raft_attempt_to_acquire_leader(k)
      BY <2>6, <3>2 DEF raft_attempt_to_acquire_leader,
                        attempt_to_acquire_leader, Write, Keep, Answer, Fault,
                        Goto, SameSession, NewSession, CacheAnswer
    <3>3. CASE etcd3_attempt_to_acquire_leader(k)
      BY <2>6, <3>3 DEF etcd3_attempt_to_acquire_leader,
                        attempt_to_acquire_leader, Write, Keep, Answer, Fault,
                        Goto, SameSession, NewSession, CacheAnswer
    <3>4. CASE consul_attempt_to_acquire_leader(k)
      BY <2>6, <3>4 DEF consul_attempt_to_acquire_leader,
                        attempt_to_acquire_leader, Write, Keep, Answer, Fault,
                        Goto, SameSession, NewSession, CacheAnswer
    <3>5. CASE zookeeper_attempt_to_acquire_leader(k)
      BY <2>6, <3>5 DEF zookeeper_attempt_to_acquire_leader,
                        attempt_to_acquire_leader, Write, Keep, Answer, Fault,
                        Goto, SameSession, NewSession, CacheAnswer
    <3>6. CASE kubernetes_attempt_to_acquire_leader(k)
      BY SMTT(60), <2>6, <3>6 DEF kubernetes_attempt_to_acquire_leader,
                        attempt_to_acquire_leader, Write, Keep, Answer, Fault,
                        Goto, SameSession, NewSession, CacheAnswer
    <3>q. QED
      BY <2>6, <3>1, <3>2, <3>3, <3>4, <3>5, <3>6 DEF attempt_to_acquire_leader
  <2>7. CASE update_leader(k)
    <3>1. CASE etcd_update_leader(k)
      BY <2>7, <3>1 DEF etcd_update_leader, update_leader, Write, Keep,
                        Answer, Fault, Goto, SameSession, NewSession,
                        CacheAnswer
    <3>2. CASE raft_update_leader(k)
      BY <2>7, <3>2 DEF raft_update_leader, update_leader, Write, Keep,
                        Answer, Fault, Goto, SameSession, NewSession,
                        CacheAnswer
    <3>3. CASE etcd3_update_leader(k)
      BY <2>7, <3>3 DEF etcd3_update_leader, update_leader, Write, Keep,
                        Answer, Fault, Goto, SameSession, NewSession,
                        CacheAnswer
    <3>4. CASE consul_update_leader(k)
      BY <2>7, <3>4 DEF consul_update_leader, update_leader, Write, Keep,
                        Answer, Fault, Goto, SameSession, NewSession,
                        CacheAnswer
    <3>5. CASE zookeeper_update_leader(k)
      BY <2>7, <3>5 DEF zookeeper_update_leader, update_leader, Write, Keep,
                        Answer, Fault, Goto, SameSession, NewSession,
                        CacheAnswer
    <3>6. CASE kubernetes_update_leader(k)
      <4>1. CASE key' = key
        BY <2>7, <3>6, <4>1 DEF kubernetes_update_leader, update_leader, Keep,
                                SameSession, CacheAnswer
      <4>2. CASE key' # key
        <5>1. /\ key'.index = key.index + 1
              /\ UNCHANGED <<view, aged, limb>>
          BY <2>7, <3>6, <4>2 DEF kubernetes_update_leader, update_leader,
                                  Write, Keep, SameSession
        <5>2. cache' = cache \/ cache' = [cache EXCEPT ![k] = key']
          BY <2>7, <3>6, <4>2 DEF kubernetes_update_leader, Keep, CacheAnswer
        <5>3. \A n \in Nodes : cache'[n] = cache[n] \/ cache'[n] = key'
          BY <5>2
        <5>q. QED
          BY <5>1, <5>3
      <4>q. QED
        BY <4>1, <4>2
    <3>q. QED
      BY <2>7, <3>1, <3>2, <3>3, <3>4, <3>5, <3>6 DEF update_leader
  <2>8. CASE raft_fallback(k)
    BY <2>8 DEF raft_fallback, Goto, serverVars, clientVars
  <2>9. CASE etcd3_take_leader(k)
    BY <2>9 DEF etcd3_take_leader, Write, Keep, Answer, Fault, Goto,
                serverVars, clientVars
  <2>10. CASE kubernetes_reread(k)
    BY <2>10 DEF kubernetes_reread, Goto, serverVars, clientVars
  <2>11. CASE kubernetes_again(k)
    <3>1. CASE key' = key
      BY SMTT(60), <2>11, <3>1 DEF kubernetes_again, Keep, CacheAnswer
    <3>2. CASE key' # key
      <4>1. /\ key'.index = key.index + 1
            /\ UNCHANGED <<view, aged, limb>>
        BY <2>11, <3>2 DEF kubernetes_again, Write, Keep
      <4>2. cache' = cache \/ cache' = [cache EXCEPT ![k] = key']
        BY <2>11, <3>2 DEF kubernetes_again, Keep, CacheAnswer
      <4>3. \A n \in Nodes : cache'[n] = cache[n] \/ cache'[n] = key'
        BY <4>2
      <4>q. QED
        BY <4>1, <4>3
    <3>q. QED
      BY <3>1, <3>2
  <2>12. CASE delete_leader(k)
    BY <2>12 DEF delete_leader, Write, Keep, Goto, etcd_delete_leader,
                 raft_delete_leader, etcd3_delete_leader,
                 consul_delete_leader, kubernetes_delete_leader, serverVars,
                 clientVars
  <2>13. CASE zookeeper_delete_leader(k)
    BY <2>13 DEF zookeeper_delete_leader, zookeeper_restart, Write, Keep,
                 Goto, serverVars, clientVars
  <2>14. CASE reload_config(k)
    BY <2>14 DEF reload_config, Fault, Goto, serverVars, clientVars
  <2>15. CASE set_ttl(k)
    BY <2>15 DEF set_ttl, zookeeper_restart, Write, Keep, Goto, serverVars,
                 clientVars
  <2>16. CASE Restart(k)
    BY <2>16 DEF Restart, Fault, Goto, serverVars, clientVars
  <2>q. QED
    BY <1>1, <2>1, <2>2, <2>3, <2>4, <2>5, <2>6, <2>7, <2>8, <2>9, <2>10,
       <2>11, <2>12, <2>13, <2>14, <2>15, <2>16 DEF Client
<1>2. ASSUME NEW k \in Nodes, Deliver(k) PROVE IndexInv'
  BY <1>2 DEF Deliver, serverVars, clientVars
<1>3. ASSUME NEW k \in Nodes, Age(k) PROVE IndexInv'
  BY <1>3 DEF Age, serverVars, clientVars
<1>4. ASSUME NEW s \in 0..MaxSessions, TtlPasses(s) PROVE IndexInv'
  BY <1>4 DEF TtlPasses, Fault, serverVars, clientVars
<1>5. ASSUME NEW s \in 0..MaxSessions, Expire(s) PROVE IndexInv'
  BY <1>5 DEF Expire, Write, Keep, serverVars, clientVars
<1>6. CASE expire_keys
  BY <1>6 DEF expire_keys, serverVars, clientVars
<1>7. CASE expire
  BY <1>7 DEF expire, Write, Keep, serverVars, clientVars
<1>8. CASE UNCHANGED vars
  BY <1>8 DEF vars
<1>q. QED
  BY <1>1, <1>2, <1>3, <1>4, <1>5, <1>6, <1>7, <1>8 DEF Next

(***************************************************************************)
(* A record that was over stays over until the next write.                 *)
(***************************************************************************)
LEMMA AgeStep ==
    TypeOK /\ IndexInv /\ CallInv /\ AgeInv /\ [Next]_vars
      => AgeInv'
<1> SUFFICES ASSUME TypeOK, IndexInv, CallInv, AgeInv, [Next]_vars
             PROVE  AgeInv'
    OBVIOUS
<1> USE Bounds, TypeParts DEF KeyTypes, SessionTypes, CallTypes, CopyTypes,
                              Records, PCs, Sessional, Cached, IndexInv,
                              Indexed, AgeInv, Over, CallInv, NoKey
<1>1. ASSUME NEW k \in Nodes, Client(k) PROVE AgeInv'
  <2>1. CASE get_cluster(k)
    <3>1. CASE etcd_load_cluster(k)
      BY <2>1, <3>1 DEF etcd_load_cluster, get_cluster, Loaded, Goto,
                        serverVars
    <3>2. CASE etcd3_load_cluster(k)
      BY <2>1, <3>2 DEF etcd3_load_cluster, get_cluster, Loaded, Goto,
                        serverVars
    <3>3. CASE raft_load_cluster(k)
      BY <2>1, <3>3 DEF raft_load_cluster, get_cluster, Loaded, Goto,
                        serverVars
    <3>4. CASE consul_load_cluster(k)
      BY <2>1, <3>4 DEF consul_load_cluster, get_cluster, Loaded, Goto,
                        serverVars
    <3>5. CASE zookeeper_load_cluster(k)
      BY <2>1, <3>5 DEF zookeeper_load_cluster, get_cluster, Loaded, Goto,
                        serverVars
    <3>6. CASE kubernetes_load_cluster(k)
      BY <2>1, <3>6 DEF kubernetes_load_cluster, get_cluster, Loaded, Goto,
                        serverVars
    <3>q. QED
      BY <2>1, <3>1, <3>2, <3>3, <3>4, <3>5, <3>6 DEF get_cluster
  <2>2. CASE disown(k)
    BY <2>2 DEF disown, Write, Keep, Goto, serverVars, clientVars
  <2>3. CASE touch_member(k)
    BY <2>3 DEF touch_member, refresh_session, NewSession, Goto, serverVars,
                clientVars
  <2>4. CASE kazoo(k)
    BY <2>4 DEF kazoo, NewSession, serverVars, clientVars
  <2>5. CASE decide(k)
    BY <2>5 DEF decide, Goto, serverVars, clientVars
  <2>6. CASE attempt_to_acquire_leader(k)
    BY <2>6 DEF attempt_to_acquire_leader, etcd_attempt_to_acquire_leader,
                raft_attempt_to_acquire_leader,
                etcd3_attempt_to_acquire_leader,
                consul_attempt_to_acquire_leader,
                zookeeper_attempt_to_acquire_leader,
                kubernetes_attempt_to_acquire_leader, Write, Keep, Answer,
                Fault, Goto, SameSession, NewSession, CacheAnswer, serverVars,
                clientVars
  <2>7. CASE update_leader(k)
    BY <2>7 DEF update_leader, etcd_update_leader, raft_update_leader,
                etcd3_update_leader, consul_update_leader,
                zookeeper_update_leader, kubernetes_update_leader, Write,
                Keep, Answer, Fault, Goto, SameSession, NewSession,
                CacheAnswer, serverVars, clientVars
  <2>8. CASE raft_fallback(k)
    BY <2>8 DEF raft_fallback, Goto, serverVars, clientVars
  <2>9. CASE etcd3_take_leader(k)
    BY <2>9 DEF etcd3_take_leader, Write, Keep, Answer, Fault, Goto,
                serverVars, clientVars
  <2>10. CASE kubernetes_reread(k)
    BY <2>10 DEF kubernetes_reread, Goto, serverVars, clientVars
  <2>11. CASE kubernetes_again(k)
    BY <2>11 DEF kubernetes_again, Write, Keep, Answer, Fault, Goto,
                 CacheAnswer, serverVars, clientVars
  <2>12. CASE delete_leader(k)
    BY <2>12 DEF delete_leader, Write, Keep, Goto, etcd_delete_leader,
                 raft_delete_leader, etcd3_delete_leader,
                 consul_delete_leader, kubernetes_delete_leader, serverVars,
                 clientVars
  <2>13. CASE zookeeper_delete_leader(k)
    BY <2>13 DEF zookeeper_delete_leader, zookeeper_restart, Write, Keep,
                 Goto, serverVars, clientVars
  <2>14. CASE reload_config(k)
    BY <2>14 DEF reload_config, Fault, Goto, serverVars, clientVars
  <2>15. CASE set_ttl(k)
    BY <2>15 DEF set_ttl, zookeeper_restart, Write, Keep, Goto, serverVars,
                 clientVars
  <2>16. CASE Restart(k)
    BY <2>16 DEF Restart, Fault, Goto, serverVars, clientVars
  <2>q. QED
    BY <1>1, <2>1, <2>2, <2>3, <2>4, <2>5, <2>6, <2>7, <2>8, <2>9, <2>10,
       <2>11, <2>12, <2>13, <2>14, <2>15, <2>16 DEF Client
<1>2. ASSUME NEW k \in Nodes, Deliver(k) PROVE AgeInv'
  BY <1>2 DEF Deliver, serverVars, clientVars
<1>3. ASSUME NEW k \in Nodes, Age(k) PROVE AgeInv'
  BY <1>3 DEF Age, serverVars, clientVars
<1>4. ASSUME NEW s \in 0..MaxSessions, TtlPasses(s) PROVE AgeInv'
  BY <1>4 DEF TtlPasses, Fault, serverVars, clientVars
<1>5. ASSUME NEW s \in 0..MaxSessions, Expire(s) PROVE AgeInv'
  BY <1>5 DEF Expire, Write, Keep, serverVars, clientVars
<1>6. CASE expire_keys
  BY <1>6 DEF expire_keys, serverVars, clientVars
<1>7. CASE expire
  BY <1>7 DEF expire, Write, Keep, serverVars, clientVars
<1>8. CASE UNCHANGED vars
  BY <1>8 DEF vars
<1>q. QED
  BY <1>1, <1>2, <1>3, <1>4, <1>5, <1>6, <1>7, <1>8 DEF Next

(***************************************************************************)
(* Every call is made with what its cycle has loaded.                      *)
(***************************************************************************)
LEMMA CallStep ==
    TypeOK /\ IndexInv /\ CallInv /\ SessionInv /\ HoldInv /\ [Next]_vars
      => CallInv'
<1> SUFFICES ASSUME TypeOK, IndexInv, CallInv, SessionInv, HoldInv, [Next]_vars
             PROVE  CallInv'
    OBVIOUS
<1> USE Bounds, TypeParts DEF KeyTypes, SessionTypes, CallTypes, CopyTypes,
                              Records, PCs, Sessional, Cached, IndexInv,
                              Indexed, CallInv, SessionInv, HoldInv, Hangs,
                              NoKey
<1>1. ASSUME NEW k \in Nodes, Client(k) PROVE CallInv'
  <2>1. CASE get_cluster(k)
    BY <2>1 DEF get_cluster, etcd_load_cluster, etcd3_load_cluster,
                raft_load_cluster, consul_load_cluster,
                zookeeper_load_cluster, kubernetes_load_cluster, Loaded, Goto,
                serverVars, clientVars
  <2>2. CASE disown(k)
    BY <2>2 DEF disown, Write, Keep, Goto, serverVars, clientVars
  <2>3. CASE touch_member(k)
    BY <2>3 DEF touch_member, refresh_session, NewSession, Goto, serverVars,
                clientVars
  <2>4. CASE kazoo(k)
    BY <2>4 DEF kazoo, NewSession, serverVars, clientVars
  <2>5. CASE decide(k)
    BY <2>5 DEF decide, Goto, serverVars, clientVars
  <2>6. CASE attempt_to_acquire_leader(k)
    BY <2>6 DEF attempt_to_acquire_leader, etcd_attempt_to_acquire_leader,
                raft_attempt_to_acquire_leader,
                etcd3_attempt_to_acquire_leader,
                consul_attempt_to_acquire_leader,
                zookeeper_attempt_to_acquire_leader,
                kubernetes_attempt_to_acquire_leader, Write, Keep, Answer,
                Fault, Goto, SameSession, NewSession, CacheAnswer, serverVars,
                clientVars
  <2>7. CASE update_leader(k)
    BY <2>7 DEF update_leader, etcd_update_leader, raft_update_leader,
                etcd3_update_leader, consul_update_leader,
                zookeeper_update_leader, kubernetes_update_leader, Write,
                Keep, Answer, Fault, Goto, SameSession, NewSession,
                CacheAnswer, serverVars, clientVars
  <2>8. CASE raft_fallback(k)
    BY <2>8 DEF raft_fallback, Goto, serverVars, clientVars
  <2>9. CASE etcd3_take_leader(k)
    BY <2>9 DEF etcd3_take_leader, Write, Keep, Answer, Fault, Goto,
                serverVars, clientVars
  <2>10. CASE kubernetes_reread(k)
    BY <2>10 DEF kubernetes_reread, Goto, serverVars, clientVars
  <2>11. CASE kubernetes_again(k)
    BY <2>11 DEF kubernetes_again, Write, Keep, Answer, Fault, Goto,
                 CacheAnswer, serverVars, clientVars
  <2>12. CASE delete_leader(k)
    BY <2>12 DEF delete_leader, Write, Keep, Goto, etcd_delete_leader,
                 raft_delete_leader, etcd3_delete_leader,
                 consul_delete_leader, kubernetes_delete_leader, serverVars,
                 clientVars
  <2>13. CASE zookeeper_delete_leader(k)
    BY <2>13 DEF zookeeper_delete_leader, zookeeper_restart, Write, Keep,
                 Goto, serverVars, clientVars
  <2>14. CASE reload_config(k)
    BY <2>14 DEF reload_config, Fault, Goto, serverVars, clientVars
  <2>15. CASE set_ttl(k)
    BY <2>15 DEF set_ttl, zookeeper_restart, Write, Keep, Goto, serverVars,
                 clientVars
  <2>16. CASE Restart(k)
    BY <2>16 DEF Restart, Fault, Goto, serverVars, clientVars
  <2>q. QED
    BY <1>1, <2>1, <2>2, <2>3, <2>4, <2>5, <2>6, <2>7, <2>8, <2>9, <2>10,
       <2>11, <2>12, <2>13, <2>14, <2>15, <2>16 DEF Client
<1>2. ASSUME NEW k \in Nodes, Deliver(k) PROVE CallInv'
  BY <1>2 DEF Deliver, serverVars, clientVars
<1>3. ASSUME NEW k \in Nodes, Age(k) PROVE CallInv'
  BY <1>3 DEF Age, serverVars, clientVars
<1>4. ASSUME NEW s \in 0..MaxSessions, TtlPasses(s) PROVE CallInv'
  BY <1>4 DEF TtlPasses, Fault, serverVars, clientVars
<1>5. ASSUME NEW s \in 0..MaxSessions, Expire(s) PROVE CallInv'
  BY <1>5 DEF Expire, Write, Keep, serverVars, clientVars
<1>6. CASE expire_keys
  BY <1>6 DEF expire_keys, serverVars, clientVars
<1>7. CASE expire
  BY <1>7 DEF expire, Write, Keep, serverVars, clientVars
<1>8. CASE UNCHANGED vars
  BY <1>8 DEF vars
<1>q. QED
  BY <1>1, <1>2, <1>3, <1>4, <1>5, <1>6, <1>7, <1>8 DEF Next

(***************************************************************************)
(* The key hangs on a live session of its owner.                           *)
(***************************************************************************)
LEMMA SessionStep ==
    TypeOK /\ IndexInv /\ CallInv /\ SessionInv /\ [Next]_vars
      => SessionInv'
<1> SUFFICES ASSUME TypeOK, IndexInv, CallInv, SessionInv, [Next]_vars
             PROVE  SessionInv'
    OBVIOUS
<1> USE Bounds, TypeParts DEF KeyTypes, SessionTypes, CallTypes, CopyTypes,
                              Records, PCs, Sessional, Cached, CallInv,
                              SessionInv, NoKey
<1>1. ASSUME NEW k \in Nodes, Client(k) PROVE SessionInv'
  <2>1. CASE get_cluster(k)
    BY <2>1 DEF get_cluster, etcd_load_cluster, etcd3_load_cluster,
                raft_load_cluster, consul_load_cluster,
                zookeeper_load_cluster, kubernetes_load_cluster, Loaded, Goto,
                serverVars, clientVars
  <2>2. CASE disown(k)
    BY <2>2 DEF disown, Write, Keep, Goto, serverVars, clientVars
  <2>3. CASE touch_member(k)
    <3>1. CASE UNCHANGED <<sessions, live, mine>>
      BY <2>3, <3>1 DEF touch_member, refresh_session, serverVars
    <3>2. CASE NewSession(k)
      BY <2>3, <3>2 DEF touch_member, refresh_session, NewSession, serverVars
    <3>q. QED
      BY <2>3, <3>1, <3>2 DEF touch_member, refresh_session
  <2>4. CASE kazoo(k)
    <3>1. CASE UNCHANGED <<sessions, live, mine>>
      BY <2>4, <3>1 DEF kazoo, serverVars
    <3>2. CASE NewSession(k)
      BY <2>4, <3>2 DEF kazoo, NewSession, serverVars
    <3>q. QED
      BY <2>4, <3>1, <3>2 DEF kazoo
  <2>5. CASE decide(k)
    BY <2>5 DEF decide, Goto, serverVars, clientVars
  <2>6. CASE attempt_to_acquire_leader(k)
    <3>1. CASE etcd_attempt_to_acquire_leader(k)
      BY <2>6, <3>1 DEF etcd_attempt_to_acquire_leader,
                        attempt_to_acquire_leader, Write, Keep, Answer, Fault,
                        Goto, SameSession, NewSession, CacheAnswer
    <3>2. CASE raft_attempt_to_acquire_leader(k)
      BY <2>6, <3>2 DEF raft_attempt_to_acquire_leader,
                        attempt_to_acquire_leader, Write, Keep, Answer, Fault,
                        Goto, SameSession, NewSession, CacheAnswer
    <3>3. CASE etcd3_attempt_to_acquire_leader(k)
      <4>1. CASE NewSession(k) /\ UNCHANGED key
        <5>1. UNCHANGED backend
          BY <2>6 DEF attempt_to_acquire_leader
        <5>2. \A n \in Nodes : mine'[n] = IF n = k THEN sessions' ELSE mine[n]
          BY <4>1 DEF NewSession
        <5>3. sessions' = sessions + 1 /\ live' = live \cup {sessions'}
          BY <4>1 DEF NewSession
        <5>4. /\ sessions \in Nat
              /\ \A n \in Nodes : mine[n] \in Nat /\ mine[n] <= sessions
          BY <2>6, <3>3 DEF etcd3_attempt_to_acquire_leader
        <5>5. \A n, m \in Nodes : mine'[n] = mine'[m] /\ mine'[n] # 0 => n = m
          <6>1. \A n \in Nodes \ {k} :
                   mine'[n] = mine[n] /\ mine'[n] # mine'[k]
            BY <5>2, <5>3, <5>4
          <6>2. \A n, m \in Nodes : mine[n] = mine[m] /\ mine[n] # 0 => n = m
            BY <3>3 DEF etcd3_attempt_to_acquire_leader
          <6>q. QED
            BY <6>1, <6>2
        <5>6. key.owner = None /\ key'.owner = None
          BY <3>3, <4>1, <5>3, <5>4 DEF etcd3_attempt_to_acquire_leader,
                                        SameSession
        <5>7. /\ \A n \in Nodes : mine'[n] <= sessions'
              /\ live' \subseteq 1..sessions'
          BY <2>6, <3>3, <5>2, <5>3, <5>4 DEF etcd3_attempt_to_acquire_leader
        <5>q. QED
          BY <2>6, <3>3, <5>1, <5>5, <5>6, <5>7 DEF
             etcd3_attempt_to_acquire_leader
      <4>2. CASE SameSession /\ UNCHANGED key
        BY <2>6, <3>3, <4>2 DEF attempt_to_acquire_leader, SameSession
      <4>3. CASE /\ SameSession /\ mine[k] \in live
                 /\ key'.owner = k /\ key'.session = mine[k]
        BY <2>6, <3>3, <4>3 DEF attempt_to_acquire_leader, SameSession
      <4>q. QED
        BY <3>3, <4>1, <4>2, <4>3 DEF etcd3_attempt_to_acquire_leader, Write,
                                      Keep
    <3>4. CASE consul_attempt_to_acquire_leader(k)
      BY <2>6, <3>4 DEF consul_attempt_to_acquire_leader,
                        attempt_to_acquire_leader, Write, Keep, Answer, Fault,
                        Goto, SameSession, NewSession, CacheAnswer
    <3>5. CASE zookeeper_attempt_to_acquire_leader(k)
      BY <2>6, <3>5 DEF zookeeper_attempt_to_acquire_leader,
                        attempt_to_acquire_leader, Write, Keep, Answer, Fault,
                        Goto, SameSession, NewSession, CacheAnswer
    <3>6. CASE kubernetes_attempt_to_acquire_leader(k)
      BY <2>6, <3>6 DEF kubernetes_attempt_to_acquire_leader,
                        attempt_to_acquire_leader, Write, Keep, Answer, Fault,
                        Goto, SameSession, NewSession, CacheAnswer
    <3>q. QED
      BY <2>6, <3>1, <3>2, <3>3, <3>4, <3>5, <3>6 DEF attempt_to_acquire_leader
  <2>7. CASE update_leader(k)
    BY <2>7 DEF update_leader, etcd_update_leader, raft_update_leader,
                etcd3_update_leader, consul_update_leader,
                zookeeper_update_leader, kubernetes_update_leader, Write,
                Keep, Answer, Fault, Goto, SameSession, NewSession,
                CacheAnswer, serverVars, clientVars
  <2>8. CASE raft_fallback(k)
    BY <2>8 DEF raft_fallback, Goto, serverVars, clientVars
  <2>9. CASE etcd3_take_leader(k)
    BY <2>9 DEF etcd3_take_leader, Write, Keep, Answer, Fault, Goto,
                serverVars, clientVars
  <2>10. CASE kubernetes_reread(k)
    BY <2>10 DEF kubernetes_reread, Goto, serverVars, clientVars
  <2>11. CASE kubernetes_again(k)
    BY <2>11 DEF kubernetes_again, Write, Keep, Answer, Fault, Goto,
                 CacheAnswer, serverVars, clientVars
  <2>12. CASE delete_leader(k)
    BY <2>12 DEF delete_leader, Write, Keep, Goto, etcd_delete_leader,
                 raft_delete_leader, etcd3_delete_leader,
                 consul_delete_leader, kubernetes_delete_leader, serverVars,
                 clientVars
  <2>13. CASE zookeeper_delete_leader(k)
    BY <2>13 DEF zookeeper_delete_leader, zookeeper_restart, Write, Keep,
                 Goto, serverVars, clientVars
  <2>14. CASE reload_config(k)
    BY <2>14 DEF reload_config, Fault, Goto, serverVars, clientVars
  <2>15. CASE set_ttl(k)
    <3>1. CASE backend = "zookeeper"
      <4>1. /\ UNCHANGED <<backend, sessions>>
            /\ live' = live \ {mine[k]} /\ mine' = [mine EXCEPT ![k] = 0]
        BY <2>15, <3>1 DEF set_ttl, zookeeper_restart
      <4>2. \/ key' = key /\ (key.owner = None \/ key.session # mine[k])
            \/ key'.owner = None
        BY <2>15, <3>1 DEF set_ttl, zookeeper_restart, Write, Keep
      <4>q. QED
        BY <3>1, <4>1, <4>2
    <3>2. CASE backend # "zookeeper"
      BY <2>15, <3>2 DEF set_ttl, Keep, Goto
    <3>q. QED
      BY <3>1, <3>2
  <2>16. CASE Restart(k)
    BY <2>16 DEF Restart, Fault, Goto, serverVars, clientVars
  <2>q. QED
    BY <1>1, <2>1, <2>2, <2>3, <2>4, <2>5, <2>6, <2>7, <2>8, <2>9, <2>10,
       <2>11, <2>12, <2>13, <2>14, <2>15, <2>16 DEF Client
<1>2. ASSUME NEW k \in Nodes, Deliver(k) PROVE SessionInv'
  BY <1>2 DEF Deliver, serverVars, clientVars
<1>3. ASSUME NEW k \in Nodes, Age(k) PROVE SessionInv'
  BY <1>3 DEF Age, serverVars, clientVars
<1>4. ASSUME NEW s \in 0..MaxSessions, TtlPasses(s) PROVE SessionInv'
  BY <1>4 DEF TtlPasses, Fault, serverVars, clientVars
<1>5. ASSUME NEW s \in 0..MaxSessions, Expire(s) PROVE SessionInv'
  BY <1>5 DEF Expire, Write, Keep, serverVars, clientVars
<1>6. CASE expire_keys
  BY <1>6 DEF expire_keys, serverVars, clientVars
<1>7. CASE expire
  BY <1>7 DEF expire, Write, Keep, serverVars, clientVars
<1>8. CASE UNCHANGED vars
  BY <1>8 DEF vars
<1>q. QED
  BY <1>1, <1>2, <1>3, <1>4, <1>5, <1>6, <1>7, <1>8 DEF Next

(***************************************************************************)
(* With ZooKeeper, and with etcd3 while no lease is lost, the key hangs on *)
(* the session that its owner has.                                         *)
(***************************************************************************)
LEMMA HoldStep ==
    ContractAssumed /\ TypeOK /\ IndexInv /\ CallInv /\ SessionInv
    /\ HoldInv /\ [Next]_vars
      => HoldInv'
<1> SUFFICES ASSUME ContractAssumed, TypeOK, IndexInv, CallInv, SessionInv,
                    HoldInv, [Next]_vars
             PROVE  HoldInv'
    OBVIOUS
<1> USE Bounds, TypeParts DEF KeyTypes, SessionTypes, CallTypes, CopyTypes,
                              Records, PCs, Sessional, Cached,
                              ContractAssumed, FaultKinds, AllBackends,
                              CallInv, SessionInv, HoldInv, Hangs, NoKey
<1>1. ASSUME NEW k \in Nodes, Client(k) PROVE HoldInv'
  <2>1. CASE get_cluster(k)
    <3>1. CASE etcd_load_cluster(k)
      BY <2>1, <3>1 DEF etcd_load_cluster, get_cluster, Loaded, Goto,
                        serverVars
    <3>2. CASE etcd3_load_cluster(k)
      BY <2>1, <3>2 DEF etcd3_load_cluster, get_cluster, Loaded, Goto,
                        serverVars
    <3>3. CASE raft_load_cluster(k)
      BY <2>1, <3>3 DEF raft_load_cluster, get_cluster, Loaded, Goto,
                        serverVars
    <3>4. CASE consul_load_cluster(k)
      BY <2>1, <3>4 DEF consul_load_cluster, get_cluster, Loaded, Goto,
                        serverVars
    <3>5. CASE zookeeper_load_cluster(k)
      BY <2>1, <3>5 DEF zookeeper_load_cluster, get_cluster, Loaded, Goto,
                        serverVars
    <3>6. CASE kubernetes_load_cluster(k)
      BY <2>1, <3>6 DEF kubernetes_load_cluster, get_cluster, Loaded, Goto,
                        serverVars
    <3>q. QED
      BY <2>1, <3>1, <3>2, <3>3, <3>4, <3>5, <3>6 DEF get_cluster
  <2>2. CASE disown(k)
    BY <2>2 DEF disown, Write, Keep, Goto, serverVars, clientVars
  <2>3. CASE touch_member(k)
    BY <2>3 DEF touch_member, refresh_session, NewSession, Goto, serverVars,
                clientVars
  <2>4. CASE kazoo(k)
    BY <2>4 DEF kazoo, NewSession, serverVars, clientVars
  <2>5. CASE decide(k)
    BY <2>5 DEF decide, Goto, serverVars, clientVars
  <2>6. CASE attempt_to_acquire_leader(k)
    <3>1. CASE etcd_attempt_to_acquire_leader(k)
      BY <2>6, <3>1 DEF etcd_attempt_to_acquire_leader,
                        attempt_to_acquire_leader, Write, Keep, Answer, Fault,
                        Goto, SameSession, NewSession, CacheAnswer
    <3>2. CASE raft_attempt_to_acquire_leader(k)
      BY <2>6, <3>2 DEF raft_attempt_to_acquire_leader,
                        attempt_to_acquire_leader, Write, Keep, Answer, Fault,
                        Goto, SameSession, NewSession, CacheAnswer
    <3>3. CASE etcd3_attempt_to_acquire_leader(k)
      BY <2>6, <3>3 DEF etcd3_attempt_to_acquire_leader,
                        attempt_to_acquire_leader, Write, Keep, Answer, Fault,
                        Goto, SameSession, NewSession, CacheAnswer
    <3>4. CASE consul_attempt_to_acquire_leader(k)
      BY <2>6, <3>4 DEF consul_attempt_to_acquire_leader,
                        attempt_to_acquire_leader, Write, Keep, Answer, Fault,
                        Goto, SameSession, NewSession, CacheAnswer
    <3>5. CASE zookeeper_attempt_to_acquire_leader(k)
      BY <2>6, <3>5 DEF zookeeper_attempt_to_acquire_leader,
                        attempt_to_acquire_leader, Write, Keep, Answer, Fault,
                        Goto, SameSession, NewSession, CacheAnswer
    <3>6. CASE kubernetes_attempt_to_acquire_leader(k)
      BY <2>6, <3>6 DEF kubernetes_attempt_to_acquire_leader,
                        attempt_to_acquire_leader, Write, Keep, Answer, Fault,
                        Goto, SameSession, NewSession, CacheAnswer
    <3>q. QED
      BY <2>6, <3>1, <3>2, <3>3, <3>4, <3>5, <3>6 DEF attempt_to_acquire_leader
  <2>7. CASE update_leader(k)
    <3>1. CASE etcd_update_leader(k)
      BY <2>7, <3>1 DEF etcd_update_leader, update_leader, Write, Keep,
                        Answer, Fault, Goto, SameSession, NewSession,
                        CacheAnswer
    <3>2. CASE raft_update_leader(k)
      BY <2>7, <3>2 DEF raft_update_leader, update_leader, Write, Keep,
                        Answer, Fault, Goto, SameSession, NewSession,
                        CacheAnswer
    <3>3. CASE etcd3_update_leader(k)
      BY <2>7, <3>3 DEF etcd3_update_leader, update_leader, Write, Keep,
                        Answer, Fault, Goto, SameSession, NewSession,
                        CacheAnswer
    <3>4. CASE consul_update_leader(k)
      BY <2>7, <3>4 DEF consul_update_leader, update_leader, Write, Keep,
                        Answer, Fault, Goto, SameSession, NewSession,
                        CacheAnswer
    <3>5. CASE zookeeper_update_leader(k)
      BY <2>7, <3>5 DEF zookeeper_update_leader, update_leader, Write, Keep,
                        Answer, Fault, Goto, SameSession, NewSession,
                        CacheAnswer
    <3>6. CASE kubernetes_update_leader(k)
      BY <2>7, <3>6 DEF kubernetes_update_leader, update_leader, Write, Keep,
                        Answer, Fault, Goto, SameSession, NewSession,
                        CacheAnswer
    <3>q. QED
      BY <2>7, <3>1, <3>2, <3>3, <3>4, <3>5, <3>6 DEF update_leader
  <2>8. CASE raft_fallback(k)
    BY <2>8 DEF raft_fallback, Goto, serverVars, clientVars
  <2>9. CASE etcd3_take_leader(k)
    BY <2>9 DEF etcd3_take_leader, Write, Keep, Answer, Fault, Goto,
                serverVars, clientVars
  <2>10. CASE kubernetes_reread(k)
    BY <2>10 DEF kubernetes_reread, Goto, serverVars, clientVars
  <2>11. CASE kubernetes_again(k)
    BY <2>11 DEF kubernetes_again, Write, Keep, Answer, Fault, Goto,
                 CacheAnswer, serverVars, clientVars
  <2>12. CASE delete_leader(k)
    BY <2>12 DEF delete_leader, Write, Keep, Goto, etcd_delete_leader,
                 raft_delete_leader, etcd3_delete_leader,
                 consul_delete_leader, kubernetes_delete_leader, serverVars,
                 clientVars
  <2>13. CASE zookeeper_delete_leader(k)
    BY <2>13 DEF zookeeper_delete_leader, zookeeper_restart, Write, Keep,
                 Goto, serverVars, clientVars
  <2>14. CASE reload_config(k)
    BY <2>14 DEF reload_config, Fault, Goto, serverVars, clientVars
  <2>15. CASE set_ttl(k)
    <3>1. CASE backend = "zookeeper"
      BY <2>15, <3>1 DEF set_ttl, zookeeper_restart, Write, Keep, Goto
    <3>2. CASE backend # "zookeeper"
      BY <2>15, <3>2 DEF set_ttl, Keep, Goto
    <3>q. QED
      BY <3>1, <3>2
  <2>16. CASE Restart(k)
    BY <2>16 DEF Restart, Fault, Goto, serverVars, clientVars
  <2>q. QED
    BY <1>1, <2>1, <2>2, <2>3, <2>4, <2>5, <2>6, <2>7, <2>8, <2>9, <2>10,
       <2>11, <2>12, <2>13, <2>14, <2>15, <2>16 DEF Client
<1>2. ASSUME NEW k \in Nodes, Deliver(k) PROVE HoldInv'
  BY <1>2 DEF Deliver, serverVars, clientVars
<1>3. ASSUME NEW k \in Nodes, Age(k) PROVE HoldInv'
  BY <1>3 DEF Age, serverVars, clientVars
<1>4. ASSUME NEW s \in 0..MaxSessions, TtlPasses(s) PROVE HoldInv'
  BY <1>4 DEF TtlPasses, Fault, serverVars, clientVars
<1>5. ASSUME NEW s \in 0..MaxSessions, Expire(s) PROVE HoldInv'
  BY <1>5 DEF Expire, Write, Keep, serverVars, clientVars
<1>6. CASE expire_keys
  BY <1>6 DEF expire_keys, serverVars, clientVars
<1>7. CASE expire
  BY <1>7 DEF expire, Write, Keep, serverVars, clientVars
<1>8. CASE UNCHANGED vars
  BY <1>8 DEF vars
<1>q. QED
  BY <1>1, <1>2, <1>3, <1>4, <1>5, <1>6, <1>7, <1>8 DEF Next

-----------------------------------------------------------------------------
(* The contract *)

(***************************************************************************)
(* The steps of LeaderKey, in the terms of the back ends.                  *)
(***************************************************************************)
Giving(n) == pc[n] \in {"delete", "disown", "set_ttl"}

KeyStep ==
    \/ (key.owner = None \/ lapsed) /\ key'.owner \in Nodes
    \/ key.owner \in Nodes /\ key'.owner = key.owner /\ ~lapsed'
    \/ \E n \in Nodes : Giving(n) /\ key.owner = n /\ key'.owner = None
    \/ key.owner # None /\ key'.owner = key.owner /\ lapsed'
    \/ lapsed /\ key'.owner = None
    \/ key'.owner = key.owner /\ (lapsed' <=> lapsed)

(***************************************************************************)
(* Every step of every back end is one of LeaderKey.                       *)
(***************************************************************************)
LEMMA ContractStep ==
    ContractAssumed /\ TypeOK /\ ContractInv /\ [Next]_vars
      => KeyStep
<1> SUFFICES ASSUME ContractAssumed, TypeOK, ContractInv, [Next]_vars
             PROVE  KeyStep
    OBVIOUS
<1> USE Bounds, TypeParts DEF KeyTypes, SessionTypes, CallTypes, CopyTypes,
                              Records, PCs, Sessional, Cached, ContractInv,
                              IndexInv, Indexed, AgeInv, Over, CallInv,
                              SessionInv, HoldInv, Hangs, NoKey, Giving,
                              KeyStep, lapsed
<1>1. ASSUME NEW k \in Nodes, Client(k) PROVE KeyStep
  <2>1. CASE get_cluster(k)
    BY <2>1 DEF get_cluster, etcd_load_cluster, etcd3_load_cluster,
                raft_load_cluster, consul_load_cluster,
                zookeeper_load_cluster, kubernetes_load_cluster, Loaded, Goto,
                serverVars, clientVars
  <2>2. CASE disown(k)
    BY <2>2 DEF disown, Write, Keep, Goto, serverVars, clientVars
  <2>3. CASE touch_member(k)
    BY <2>3 DEF touch_member, refresh_session, NewSession, Goto, serverVars,
                clientVars
  <2>4. CASE kazoo(k)
    BY <2>4 DEF kazoo, NewSession, serverVars, clientVars
  <2>5. CASE decide(k)
    BY <2>5 DEF decide, Goto, serverVars, clientVars
  <2>6. CASE attempt_to_acquire_leader(k)
    <3>1. CASE etcd_attempt_to_acquire_leader(k)
      BY <2>6, <3>1 DEF etcd_attempt_to_acquire_leader,
                        attempt_to_acquire_leader, Write, Keep, Answer, Fault,
                        Goto, SameSession, NewSession, CacheAnswer
    <3>2. CASE raft_attempt_to_acquire_leader(k)
      BY <2>6, <3>2 DEF raft_attempt_to_acquire_leader,
                        attempt_to_acquire_leader, Write, Keep, Answer, Fault,
                        Goto, SameSession, NewSession, CacheAnswer
    <3>3. CASE etcd3_attempt_to_acquire_leader(k)
      BY <2>6, <3>3 DEF etcd3_attempt_to_acquire_leader,
                        attempt_to_acquire_leader, Write, Keep, Answer, Fault,
                        Goto, SameSession, NewSession, CacheAnswer
    <3>4. CASE consul_attempt_to_acquire_leader(k)
      BY <2>6, <3>4 DEF consul_attempt_to_acquire_leader,
                        attempt_to_acquire_leader, Write, Keep, Answer, Fault,
                        Goto, SameSession, NewSession, CacheAnswer
    <3>5. CASE zookeeper_attempt_to_acquire_leader(k)
      BY <2>6, <3>5 DEF zookeeper_attempt_to_acquire_leader,
                        attempt_to_acquire_leader, Write, Keep, Answer, Fault,
                        Goto, SameSession, NewSession, CacheAnswer
    <3>6. CASE kubernetes_attempt_to_acquire_leader(k)
      BY <2>6, <3>6 DEF kubernetes_attempt_to_acquire_leader,
                        attempt_to_acquire_leader, Write, Keep, Answer, Fault,
                        Goto, SameSession, NewSession, CacheAnswer
    <3>q. QED
      BY <2>6, <3>1, <3>2, <3>3, <3>4, <3>5, <3>6 DEF attempt_to_acquire_leader
  <2>7. CASE update_leader(k)
    <3>1. CASE etcd_update_leader(k)
      BY <2>7, <3>1 DEF etcd_update_leader, update_leader, Write, Keep,
                        Answer, Fault, Goto, SameSession, NewSession,
                        CacheAnswer
    <3>2. CASE raft_update_leader(k)
      BY <2>7, <3>2 DEF raft_update_leader, update_leader, Write, Keep,
                        Answer, Fault, Goto, SameSession, NewSession,
                        CacheAnswer
    <3>3. CASE etcd3_update_leader(k)
      BY <2>7, <3>3 DEF etcd3_update_leader, update_leader, Write, Keep,
                        Answer, Fault, Goto, SameSession, NewSession,
                        CacheAnswer
    <3>4. CASE consul_update_leader(k)
      BY <2>7, <3>4 DEF consul_update_leader, update_leader, Write, Keep,
                        Answer, Fault, Goto, SameSession, NewSession,
                        CacheAnswer
    <3>5. CASE zookeeper_update_leader(k)
      BY <2>7, <3>5 DEF zookeeper_update_leader, update_leader, Write, Keep,
                        Answer, Fault, Goto, SameSession, NewSession,
                        CacheAnswer
    <3>6. CASE kubernetes_update_leader(k)
      BY <2>7, <3>6 DEF kubernetes_update_leader, update_leader, Write, Keep,
                        Answer, Fault, Goto, SameSession, NewSession,
                        CacheAnswer
    <3>q. QED
      BY <2>7, <3>1, <3>2, <3>3, <3>4, <3>5, <3>6 DEF update_leader
  <2>8. CASE raft_fallback(k)
    BY <2>8 DEF raft_fallback, Goto, serverVars, clientVars
  <2>9. CASE etcd3_take_leader(k)
    BY <2>9 DEF etcd3_take_leader, Write, Keep, Answer, Fault, Goto,
                serverVars, clientVars
  <2>10. CASE kubernetes_reread(k)
    BY <2>10 DEF kubernetes_reread, Goto, serverVars, clientVars
  <2>11. CASE kubernetes_again(k)
    BY <2>11 DEF kubernetes_again, Write, Keep, Answer, Fault, Goto,
                 CacheAnswer, serverVars, clientVars
  <2>12. CASE delete_leader(k)
    BY <2>12 DEF delete_leader, Write, Keep, Goto, etcd_delete_leader,
                 raft_delete_leader, etcd3_delete_leader,
                 consul_delete_leader, kubernetes_delete_leader, serverVars,
                 clientVars
  <2>13. CASE zookeeper_delete_leader(k)
    BY <2>13 DEF zookeeper_delete_leader, zookeeper_restart, Write, Keep,
                 Goto, serverVars, clientVars
  <2>14. CASE reload_config(k)
    BY <2>14 DEF reload_config, Fault, Goto, serverVars, clientVars
  <2>15. CASE set_ttl(k)
    BY <2>15 DEF set_ttl, zookeeper_restart, Write, Keep, Goto, serverVars,
                 clientVars
  <2>16. CASE Restart(k)
    BY <2>16 DEF Restart, Fault, Goto, serverVars, clientVars
  <2>q. QED
    BY <1>1, <2>1, <2>2, <2>3, <2>4, <2>5, <2>6, <2>7, <2>8, <2>9, <2>10,
       <2>11, <2>12, <2>13, <2>14, <2>15, <2>16 DEF Client
<1>2. ASSUME NEW k \in Nodes, Deliver(k) PROVE KeyStep
  BY <1>2 DEF Deliver, serverVars, clientVars
<1>3. ASSUME NEW k \in Nodes, Age(k) PROVE KeyStep
  BY <1>3 DEF Age, serverVars, clientVars
<1>4. ASSUME NEW s \in 0..MaxSessions, TtlPasses(s) PROVE KeyStep
  BY <1>4 DEF TtlPasses, Fault, serverVars, clientVars
<1>5. ASSUME NEW s \in 0..MaxSessions, Expire(s) PROVE KeyStep
  BY <1>5 DEF Expire, Write, Keep, serverVars, clientVars
<1>6. CASE expire_keys
  BY <1>6 DEF expire_keys, serverVars, clientVars
<1>7. CASE expire
  BY <1>7 DEF expire, Write, Keep, serverVars, clientVars
<1>8. CASE UNCHANGED vars
  BY <1>8 DEF vars
<1>q. QED
  BY <1>1, <1>2, <1>3, <1>4, <1>5, <1>6, <1>7, <1>8 DEF Next

(***************************************************************************)
(* Only etcd3 puts the key without a comparison.                           *)
(***************************************************************************)
TakeInv == \A n \in Nodes : pc[n] = "take" => backend = "etcd3"

(***************************************************************************)
(* What YesMeansOwner says of a node, in one step.                         *)
(***************************************************************************)
YesAt(n) ==
    /\ told[n] # "yes" /\ told'[n] = "yes"
    /\ pc[n] = "acquire" \/ backend \notin Sessional
    => key'.owner = n

(***************************************************************************)
(* The types of the six back ends of patroni/dcs and of their clients are  *)
(* right, for any number of nodes, writes, sessions and faults.            *)
(***************************************************************************)
THEOREM TypeCorrect == Spec => []TypeOK
<1>1. Init => TypeOK
  BY Bounds DEF Init, TypeOK, PCs
<1>2. TypeOK /\ [Next]_vars => TypeOK'
  BY TypeStep
<1>q. QED
  BY <1>1, <1>2, PTL DEF Spec

(***************************************************************************)
(* What the contract rests on is an invariant of every back end.           *)
(***************************************************************************)
LEMMA ContractHolds == ContractAssumed => (Spec => [](TypeOK /\ ContractInv))
<1> SUFFICES ASSUME ContractAssumed PROVE Spec => [](TypeOK /\ ContractInv)
  OBVIOUS
<1>1. Init => ContractInv
  <2> SUFFICES ASSUME Init PROVE ContractInv
    OBVIOUS
  <2>1. NoKey.owner = None /\ NoKey.index = 0
    BY DEF NoKey
  <2> USE <2>1, Bounds DEF Init
  <2>2. IndexInv
    BY DEF IndexInv, Indexed
  <2>3. AgeInv
    BY DEF AgeInv, Over
  <2>4. CallInv
    BY DEF CallInv
  <2>5. SessionInv
    BY DEF SessionInv
  <2>6. HoldInv
    BY DEF HoldInv, Hangs
  <2>q. QED
    BY <2>2, <2>3, <2>4, <2>5, <2>6 DEF ContractInv
<1>2. TypeOK /\ TypeOK' /\ ContractInv /\ [Next]_vars => ContractInv'
  BY IndexStep, AgeStep, CallStep, SessionStep, HoldStep DEF ContractInv
<1>q. QED
  BY <1>1, <1>2, TypeCorrect, PTL DEF Spec

(***************************************************************************)
(* All six back ends implement the contract of AbstractDCS                 *)
(* (dcs/__init__.py: attempt_to_acquire_leader, update_leader,             *)
(* delete_leader) as LeaderKey states it, for any number of nodes, writes, *)
(* sessions and faults: the key is created only when it is absent or its   *)
(* owner has lapsed, and it leaves its owner only by a release or after a  *)
(* whole ttl. Not so with a ZooKeeper session that outlives its client,    *)
(* nor when an etcd3 lease is lost.                                        *)
(***************************************************************************)
THEOREM ContractIsImplemented == ContractAssumed => (Spec => Contract)
<1> SUFFICES ASSUME ContractAssumed PROVE Spec => Contract
  OBVIOUS
<1>1. Init => Abstract!Init
  BY Bounds DEF Init, Abstract!Init, lapsed, NoKey
<1>2. TypeOK /\ ContractInv /\ [Next]_vars => [Abstract!Next]_(Abstract!vars)
  <2> SUFFICES ASSUME TypeOK, ContractInv, [Next]_vars PROVE Abstract!Next
    OBVIOUS
  <2>1. KeyStep
    BY ContractStep
  <2>2. /\ lapsed \in BOOLEAN /\ lapsed' \in BOOLEAN
        /\ key'.owner = None => ~lapsed'
    BY DEF lapsed
  <2>3. {n \in Nodes : pc'[n] \in {"delete", "disown", "set_ttl"}}
          \in SUBSET Nodes
    OBVIOUS
  <2>4. CASE (key.owner = None \/ lapsed) /\ key'.owner \in Nodes
    <3>1. \E n \in Nodes : Abstract!Acquire(n)
      BY <2>2, <2>4 DEF Abstract!Acquire
    <3>q. QED
      BY <2>3, <3>1 DEF Abstract!Next
  <2>5. CASE key.owner \in Nodes /\ key'.owner = key.owner /\ ~lapsed'
    <3>1. \E n \in Nodes : Abstract!Renew(n)
      BY <2>2, <2>5 DEF Abstract!Renew
    <3>q. QED
      BY <2>3, <3>1 DEF Abstract!Next
  <2>6. ASSUME NEW n \in Nodes, Giving(n), key.owner = n, key'.owner = None
        PROVE  Abstract!Next
    <3>1. Abstract!Release(n)
      BY <2>2, <2>6 DEF Abstract!Release, Giving
    <3>q. QED
      BY <2>3, <3>1 DEF Abstract!Next
  <2>7. CASE key.owner # None /\ key'.owner = key.owner /\ lapsed'
    <3>1. Abstract!Lapse
      BY <2>2, <2>7 DEF Abstract!Lapse
    <3>q. QED
      BY <2>3, <3>1 DEF Abstract!Next
  <2>8. CASE lapsed /\ key'.owner = None
    <3>1. Abstract!Expire
      BY <2>2, <2>8 DEF Abstract!Expire
    <3>q. QED
      BY <2>3, <3>1 DEF Abstract!Next
  <2>9. CASE key'.owner = key.owner /\ (lapsed' <=> lapsed)
    <3>1. key'.owner = key.owner /\ lapsed' = lapsed
      BY <2>2, <2>9
    <3>q. QED
      BY <2>3, <3>1 DEF Abstract!Next
  <2>q. QED
    BY <2>1, <2>4, <2>5, <2>6, <2>7, <2>8, <2>9 DEF KeyStep
<1>q. QED
  BY <1>1, <1>2, ContractHolds, PTL DEF Spec, Contract, Abstract!Spec

(***************************************************************************)
(* No other back end gets there.                                           *)
(***************************************************************************)
LEMMA TakeStep ==
    TypeOK /\ TakeInv /\ [Next]_vars
      => TakeInv'
<1> SUFFICES ASSUME TypeOK, TakeInv, [Next]_vars
             PROVE  TakeInv'
    OBVIOUS
<1> USE Bounds, TypeParts DEF KeyTypes, SessionTypes, CallTypes, CopyTypes,
                              Records, PCs, Sessional, Cached, TakeInv
<1>1. ASSUME NEW k \in Nodes, Client(k) PROVE TakeInv'
  <2>1. CASE get_cluster(k)
    BY <2>1 DEF get_cluster, etcd_load_cluster, etcd3_load_cluster,
                raft_load_cluster, consul_load_cluster,
                zookeeper_load_cluster, kubernetes_load_cluster, Loaded, Goto,
                serverVars, clientVars
  <2>2. CASE disown(k)
    BY <2>2 DEF disown, Write, Keep, Goto, serverVars, clientVars
  <2>3. CASE touch_member(k)
    BY <2>3 DEF touch_member, refresh_session, NewSession, Goto, serverVars,
                clientVars
  <2>4. CASE kazoo(k)
    BY <2>4 DEF kazoo, NewSession, serverVars, clientVars
  <2>5. CASE decide(k)
    BY <2>5 DEF decide, Goto, serverVars, clientVars
  <2>6. CASE attempt_to_acquire_leader(k)
    <3>1. CASE etcd_attempt_to_acquire_leader(k)
      BY <2>6, <3>1 DEF etcd_attempt_to_acquire_leader,
                        attempt_to_acquire_leader, Write, Keep, Answer, Fault,
                        Goto, SameSession, NewSession, CacheAnswer
    <3>2. CASE raft_attempt_to_acquire_leader(k)
      BY <2>6, <3>2 DEF raft_attempt_to_acquire_leader,
                        attempt_to_acquire_leader, Write, Keep, Answer, Fault,
                        Goto, SameSession, NewSession, CacheAnswer
    <3>3. CASE etcd3_attempt_to_acquire_leader(k)
      BY <2>6, <3>3 DEF etcd3_attempt_to_acquire_leader,
                        attempt_to_acquire_leader, Write, Keep, Answer, Fault,
                        Goto, SameSession, NewSession, CacheAnswer
    <3>4. CASE consul_attempt_to_acquire_leader(k)
      BY <2>6, <3>4 DEF consul_attempt_to_acquire_leader,
                        attempt_to_acquire_leader, Write, Keep, Answer, Fault,
                        Goto, SameSession, NewSession, CacheAnswer
    <3>5. CASE zookeeper_attempt_to_acquire_leader(k)
      BY <2>6, <3>5 DEF zookeeper_attempt_to_acquire_leader,
                        attempt_to_acquire_leader, Write, Keep, Answer, Fault,
                        Goto, SameSession, NewSession, CacheAnswer
    <3>6. CASE kubernetes_attempt_to_acquire_leader(k)
      BY <2>6, <3>6 DEF kubernetes_attempt_to_acquire_leader,
                        attempt_to_acquire_leader, Write, Keep, Answer, Fault,
                        Goto, SameSession, NewSession, CacheAnswer
    <3>q. QED
      BY <2>6, <3>1, <3>2, <3>3, <3>4, <3>5, <3>6 DEF attempt_to_acquire_leader
  <2>7. CASE update_leader(k)
    <3>1. CASE etcd_update_leader(k)
      BY <2>7, <3>1 DEF etcd_update_leader, update_leader, Write, Keep,
                        Answer, Fault, Goto, SameSession, NewSession,
                        CacheAnswer
    <3>2. CASE raft_update_leader(k)
      BY <2>7, <3>2 DEF raft_update_leader, update_leader, Write, Keep,
                        Answer, Fault, Goto, SameSession, NewSession,
                        CacheAnswer
    <3>3. CASE etcd3_update_leader(k)
      BY <2>7, <3>3 DEF etcd3_update_leader, update_leader, Write, Keep,
                        Answer, Fault, Goto, SameSession, NewSession,
                        CacheAnswer
    <3>4. CASE consul_update_leader(k)
      BY <2>7, <3>4 DEF consul_update_leader, update_leader, Write, Keep,
                        Answer, Fault, Goto, SameSession, NewSession,
                        CacheAnswer
    <3>5. CASE zookeeper_update_leader(k)
      BY <2>7, <3>5 DEF zookeeper_update_leader, update_leader, Write, Keep,
                        Answer, Fault, Goto, SameSession, NewSession,
                        CacheAnswer
    <3>6. CASE kubernetes_update_leader(k)
      BY <2>7, <3>6 DEF kubernetes_update_leader, update_leader, Write, Keep,
                        Answer, Fault, Goto, SameSession, NewSession,
                        CacheAnswer
    <3>q. QED
      BY <2>7, <3>1, <3>2, <3>3, <3>4, <3>5, <3>6 DEF update_leader
  <2>8. CASE raft_fallback(k)
    BY <2>8 DEF raft_fallback, Goto, serverVars, clientVars
  <2>9. CASE etcd3_take_leader(k)
    BY <2>9 DEF etcd3_take_leader, Write, Keep, Answer, Fault, Goto,
                serverVars, clientVars
  <2>10. CASE kubernetes_reread(k)
    BY <2>10 DEF kubernetes_reread, Goto, serverVars, clientVars
  <2>11. CASE kubernetes_again(k)
    BY <2>11 DEF kubernetes_again, Write, Keep, Answer, Fault, Goto,
                 CacheAnswer, serverVars, clientVars
  <2>12. CASE delete_leader(k)
    BY <2>12 DEF delete_leader, Write, Keep, Goto, etcd_delete_leader,
                 raft_delete_leader, etcd3_delete_leader,
                 consul_delete_leader, kubernetes_delete_leader, serverVars,
                 clientVars
  <2>13. CASE zookeeper_delete_leader(k)
    BY <2>13 DEF zookeeper_delete_leader, zookeeper_restart, Write, Keep,
                 Goto, serverVars, clientVars
  <2>14. CASE reload_config(k)
    BY <2>14 DEF reload_config, Fault, Goto, serverVars, clientVars
  <2>15. CASE set_ttl(k)
    BY <2>15 DEF set_ttl, zookeeper_restart, Write, Keep, Goto, serverVars,
                 clientVars
  <2>16. CASE Restart(k)
    BY <2>16 DEF Restart, Fault, Goto, serverVars, clientVars
  <2>q. QED
    BY <1>1, <2>1, <2>2, <2>3, <2>4, <2>5, <2>6, <2>7, <2>8, <2>9, <2>10,
       <2>11, <2>12, <2>13, <2>14, <2>15, <2>16 DEF Client
<1>2. ASSUME NEW k \in Nodes, Deliver(k) PROVE TakeInv'
  BY <1>2 DEF Deliver, serverVars, clientVars
<1>3. ASSUME NEW k \in Nodes, Age(k) PROVE TakeInv'
  BY <1>3 DEF Age, serverVars, clientVars
<1>4. ASSUME NEW s \in 0..MaxSessions, TtlPasses(s) PROVE TakeInv'
  BY <1>4 DEF TtlPasses, Fault, serverVars, clientVars
<1>5. ASSUME NEW s \in 0..MaxSessions, Expire(s) PROVE TakeInv'
  BY <1>5 DEF Expire, Write, Keep, serverVars, clientVars
<1>6. CASE expire_keys
  BY <1>6 DEF expire_keys, serverVars, clientVars
<1>7. CASE expire
  BY <1>7 DEF expire, Write, Keep, serverVars, clientVars
<1>8. CASE UNCHANGED vars
  BY <1>8 DEF vars
<1>q. QED
  BY <1>1, <1>2, <1>3, <1>4, <1>5, <1>6, <1>7, <1>8 DEF Next

(***************************************************************************)
(* Only a call that has written the key says so.                           *)
(***************************************************************************)
LEMMA YesStep ==
    TypeOK /\ TakeInv /\ [Next]_vars
      => (\A n \in Nodes : YesAt(n))
<1> SUFFICES ASSUME TypeOK, TakeInv, [Next]_vars
             PROVE  (\A n \in Nodes : YesAt(n))
    OBVIOUS
<1> USE Bounds, TypeParts DEF KeyTypes, SessionTypes, CallTypes, CopyTypes,
                              Records, PCs, Sessional, Cached, TakeInv, YesAt
<1>1. ASSUME NEW k \in Nodes, Client(k) PROVE (\A n \in Nodes : YesAt(n))
  <2>1. CASE get_cluster(k)
    BY <2>1 DEF get_cluster, etcd_load_cluster, etcd3_load_cluster,
                raft_load_cluster, consul_load_cluster,
                zookeeper_load_cluster, kubernetes_load_cluster, Loaded, Goto,
                serverVars, clientVars
  <2>2. CASE disown(k)
    BY <2>2 DEF disown, Write, Keep, Goto, serverVars, clientVars
  <2>3. CASE touch_member(k)
    BY <2>3 DEF touch_member, refresh_session, NewSession, Goto, serverVars,
                clientVars
  <2>4. CASE kazoo(k)
    BY <2>4 DEF kazoo, NewSession, serverVars, clientVars
  <2>5. CASE decide(k)
    BY <2>5 DEF decide, Goto, serverVars, clientVars
  <2>6. CASE attempt_to_acquire_leader(k)
    <3>1. CASE etcd_attempt_to_acquire_leader(k)
      BY <2>6, <3>1 DEF etcd_attempt_to_acquire_leader,
                        attempt_to_acquire_leader, Write, Keep, Answer, Fault,
                        Goto, SameSession, NewSession, CacheAnswer
    <3>2. CASE raft_attempt_to_acquire_leader(k)
      BY <2>6, <3>2 DEF raft_attempt_to_acquire_leader,
                        attempt_to_acquire_leader, Write, Keep, Answer, Fault,
                        Goto, SameSession, NewSession, CacheAnswer
    <3>3. CASE etcd3_attempt_to_acquire_leader(k)
      BY <2>6, <3>3 DEF etcd3_attempt_to_acquire_leader,
                        attempt_to_acquire_leader, Write, Keep, Answer, Fault,
                        Goto, SameSession, NewSession, CacheAnswer
    <3>4. CASE consul_attempt_to_acquire_leader(k)
      BY <2>6, <3>4 DEF consul_attempt_to_acquire_leader,
                        attempt_to_acquire_leader, Write, Keep, Answer, Fault,
                        Goto, SameSession, NewSession, CacheAnswer
    <3>5. CASE zookeeper_attempt_to_acquire_leader(k)
      BY <2>6, <3>5 DEF zookeeper_attempt_to_acquire_leader,
                        attempt_to_acquire_leader, Write, Keep, Answer, Fault,
                        Goto, SameSession, NewSession, CacheAnswer
    <3>6. CASE kubernetes_attempt_to_acquire_leader(k)
      BY <2>6, <3>6 DEF kubernetes_attempt_to_acquire_leader,
                        attempt_to_acquire_leader, Write, Keep, Answer, Fault,
                        Goto, SameSession, NewSession, CacheAnswer
    <3>q. QED
      BY <2>6, <3>1, <3>2, <3>3, <3>4, <3>5, <3>6 DEF attempt_to_acquire_leader
  <2>7. CASE update_leader(k)
    <3>1. CASE etcd_update_leader(k)
      BY <2>7, <3>1 DEF etcd_update_leader, update_leader, Write, Keep,
                        Answer, Fault, Goto, SameSession, NewSession,
                        CacheAnswer
    <3>2. CASE raft_update_leader(k)
      BY <2>7, <3>2 DEF raft_update_leader, update_leader, Write, Keep,
                        Answer, Fault, Goto, SameSession, NewSession,
                        CacheAnswer
    <3>3. CASE etcd3_update_leader(k)
      BY <2>7, <3>3 DEF etcd3_update_leader, update_leader, Write, Keep,
                        Answer, Fault, Goto, SameSession, NewSession,
                        CacheAnswer
    <3>4. CASE consul_update_leader(k)
      BY <2>7, <3>4 DEF consul_update_leader, update_leader, Write, Keep,
                        Answer, Fault, Goto, SameSession, NewSession,
                        CacheAnswer
    <3>5. CASE zookeeper_update_leader(k)
      BY <2>7, <3>5 DEF zookeeper_update_leader, update_leader, Write, Keep,
                        Answer, Fault, Goto, SameSession, NewSession,
                        CacheAnswer
    <3>6. CASE kubernetes_update_leader(k)
      BY <2>7, <3>6 DEF kubernetes_update_leader, update_leader, Write, Keep,
                        Answer, Fault, Goto, SameSession, NewSession,
                        CacheAnswer
    <3>q. QED
      BY <2>7, <3>1, <3>2, <3>3, <3>4, <3>5, <3>6 DEF update_leader
  <2>8. CASE raft_fallback(k)
    BY <2>8 DEF raft_fallback, Goto, serverVars, clientVars
  <2>9. CASE etcd3_take_leader(k)
    BY <2>9 DEF etcd3_take_leader, Write, Keep, Answer, Fault, Goto,
                serverVars, clientVars
  <2>10. CASE kubernetes_reread(k)
    BY <2>10 DEF kubernetes_reread, Goto, serverVars, clientVars
  <2>11. CASE kubernetes_again(k)
    BY <2>11 DEF kubernetes_again, Write, Keep, Answer, Fault, Goto,
                 CacheAnswer, serverVars, clientVars
  <2>12. CASE delete_leader(k)
    BY <2>12 DEF delete_leader, Write, Keep, Goto, etcd_delete_leader,
                 raft_delete_leader, etcd3_delete_leader,
                 consul_delete_leader, kubernetes_delete_leader, serverVars,
                 clientVars
  <2>13. CASE zookeeper_delete_leader(k)
    BY <2>13 DEF zookeeper_delete_leader, zookeeper_restart, Write, Keep,
                 Goto, serverVars, clientVars
  <2>14. CASE reload_config(k)
    BY <2>14 DEF reload_config, Fault, Goto, serverVars, clientVars
  <2>15. CASE set_ttl(k)
    BY <2>15 DEF set_ttl, zookeeper_restart, Write, Keep, Goto, serverVars,
                 clientVars
  <2>16. CASE Restart(k)
    BY <2>16 DEF Restart, Fault, Goto, serverVars, clientVars
  <2>q. QED
    BY <1>1, <2>1, <2>2, <2>3, <2>4, <2>5, <2>6, <2>7, <2>8, <2>9, <2>10,
       <2>11, <2>12, <2>13, <2>14, <2>15, <2>16 DEF Client
<1>2. ASSUME NEW k \in Nodes, Deliver(k) PROVE (\A n \in Nodes : YesAt(n))
  BY <1>2 DEF Deliver, serverVars, clientVars
<1>3. ASSUME NEW k \in Nodes, Age(k) PROVE (\A n \in Nodes : YesAt(n))
  BY <1>3 DEF Age, serverVars, clientVars
<1>4. ASSUME NEW s \in 0..MaxSessions, TtlPasses(s)
      PROVE  (\A n \in Nodes : YesAt(n))
  BY <1>4 DEF TtlPasses, Fault, serverVars, clientVars
<1>5. ASSUME NEW s \in 0..MaxSessions, Expire(s)
      PROVE  (\A n \in Nodes : YesAt(n))
  BY <1>5 DEF Expire, Write, Keep, serverVars, clientVars
<1>6. CASE expire_keys
  BY <1>6 DEF expire_keys, serverVars, clientVars
<1>7. CASE expire
  BY <1>7 DEF expire, Write, Keep, serverVars, clientVars
<1>8. CASE UNCHANGED vars
  BY <1>8 DEF vars
<1>q. QED
  BY <1>1, <1>2, <1>3, <1>4, <1>5, <1>6, <1>7, <1>8 DEF Next

(***************************************************************************)
(* An answer "yes" means that the node owns the key at that moment: to     *)
(* attempt_to_acquire_leader with every back end, to update_leader where   *)
(* it compares and swaps, whatever happens to the answers.                 *)
(***************************************************************************)
THEOREM YesMeansOwnerHolds == Spec => YesMeansOwner
<1>1. Init => TakeInv
  BY DEF Init, TakeInv
<1>2. TypeOK /\ TakeInv /\ [Next]_vars => TakeInv'
  BY TakeStep
<1>3. TypeOK /\ TakeInv /\ [Next]_vars
  => [\A n \in Nodes :
        /\ told[n] # "yes" /\ told'[n] = "yes"
        /\ pc[n] = "acquire" \/ backend \notin Sessional
        => key'.owner = n]_vars
  BY YesStep DEF YesAt
<1>q. QED
  BY <1>1, <1>2, <1>3, TypeCorrect, PTL DEF Spec, YesMeansOwner

-----------------------------------------------------------------------------
(* The bounds of the clients *)

LEMMA ClientsBounds ==
    /\ MaxChanges \in Nat /\ MemberFaults \in Nat /\ MaxRev \in Nat /\ MaxBreaks \in Nat
    /\ MaxMoves \in Nat /\ MaxLeaderRev \in Nat /\ ReadTimeout \in Nat /\ SleepTime \in Nat
    /\ MaxVersion \in Nat /\ 1 <= MaxVersion
BY ClientsAssumption

-----------------------------------------------------------------------------
(* How the loop sleeps between two cycles *)

\* What happens before the sleep is remembered by the event until it is over.
NapInv ==
    /\ Nap!TypeOK
    /\ npc = "leader" => since = viewRev /\ store # "event"
    /\ npc # "load" => /\ asked => flag
                       /\ store = "event" /\ leaderRev # viewRev => flag
    /\ npc \in {"leader", "event"} /\ early => flag

LEMMA NapInit == Nap!Init => NapInv
<1>1. 0 \in 0..MaxLeaderRev
  BY ClientsBounds
<1>q. QED
  BY <1>1 DEF Nap!Init, NapInv, Nap!TypeOK

LEMMA NapStep == NapInv /\ [Nap!Next]_napVars => NapInv'
<1> SUFFICES ASSUME NapInv, [Nap!Next]_napVars PROVE NapInv'
  OBVIOUS
<1> USE DEF NapInv, Nap!TypeOK
<1>1. CASE Nap!ChangeLeader
  <2>1. leaderRev' \in 0..MaxLeaderRev
    BY <1>1, ClientsBounds DEF Nap!ChangeLeader
  <2>q. QED
    BY <1>1, <2>1 DEF Nap!ChangeLeader
<1>2. CASE Nap!wakeup
  BY <1>2 DEF Nap!wakeup
<1>3. CASE Nap!load_cluster
  BY <1>3 DEF Nap!load_cluster
<1>4. CASE Nap!set_ttl
  BY <1>4 DEF Nap!set_ttl
<1>5. ASSUME NEW alone \in BOOLEAN, Nap!watch(alone) PROVE NapInv'
  <2>1. 0 \in 0..MaxLeaderRev
    BY ClientsBounds
  <2>q. QED
    BY <1>5, <2>1 DEF Nap!watch
<1>6. CASE Nap!watch_Leader
  BY <1>6 DEF Nap!watch_Leader, Nap!Sleeps
<1>7. CASE Nap!event_wait
  BY <1>7 DEF Nap!event_wait, Nap!Sleeps
<1>8. CASE Nap!TimesOut
  BY <1>8 DEF Nap!TimesOut, Nap!Sleeps
<1>9. CASE Nap!event_clear
  BY <1>9 DEF Nap!event_clear, Nap!Sleeps
<1>10. CASE UNCHANGED napVars
  BY <1>10 DEF napVars
<1>q. QED
  BY <1>1, <1>2, <1>3, <1>4, <1>5, <1>6, <1>7, <1>8, <1>9, <1>10 DEF Nap!Next

\* The loop gives up waiting only when there is nothing to wake up for.
LEMMA NapSafe ==
    ASSUME NapInv, Nap!TimesOut
    PROVE  IF npc = "leader" THEN leaderRev = viewRev
           ELSE /\ ~early
                /\ store = "event" => leaderRev = viewRev
BY DEF NapInv, Nap!TimesOut

-----------------------------------------------------------------------------
(* The clusters that ZooKeeper keeps *)

LEMMA ZooInit == Zoo!Init => Zoo!TypeOK
<1> SUFFICES ASSUME Zoo!Init PROVE Zoo!TypeOK
  OBVIOUS
<1>1. 0 \in 0..MaxVersion /\ 1 \in 0..MaxVersion /\ 1 \in 1..MaxVersion
  BY ClientsBounds
<1>2. nodeNames \in 1..MaxVersion /\ data \in 1..MaxVersion
  BY <1>1 DEF Zoo!Init
<1>3. optime \in 0..MaxVersion
  BY <1>1 DEF Zoo!Init
<1>4. zooView \in [children : 0..MaxVersion, data : 0..MaxVersion, optime : 0..MaxVersion]
  BY <1>1 DEF Zoo!Init
<1>q. QED
  BY <1>2, <1>3, <1>4 DEF Zoo!Init, Zoo!TypeOK

LEMMA ZooStep == Zoo!TypeOK /\ [Zoo!Next]_zooVars => Zoo!TypeOK'
<1> SUFFICES ASSUME Zoo!TypeOK, [Zoo!Next]_zooVars PROVE Zoo!TypeOK'
  OBVIOUS
<1> USE DEF Zoo!TypeOK, Zoo!Watches
<1>1. CASE Zoo!ChangeChildren
  BY <1>1, ClientsBounds DEF Zoo!ChangeChildren, Zoo!Fire, Zoo!flags
<1>2. CASE Zoo!ChangeData
  BY <1>2, ClientsBounds DEF Zoo!ChangeData, Zoo!Fire, Zoo!flags
<1>3. CASE Zoo!ChangeOptime
  <2>1. /\ optime' \in 0..MaxVersion /\ nodeNames' \in 1..MaxVersion
    BY <1>3, ClientsBounds DEF Zoo!ChangeOptime
  <2>2. /\ armed' \subseteq Zoo!Watches /\ fired' \subseteq Zoo!Watches
        /\ UNCHANGED <<isLeader, fetchCluster, fetchOptime, event, zooView, nodes, lpc, data>>
    BY <1>3 DEF Zoo!ChangeOptime, Zoo!Fire, Zoo!flags
  <2>q. QED
    BY <2>1, <2>2
<1>4. CASE Zoo!optime_watcher
  BY <1>4 DEF Zoo!optime_watcher, Zoo!serverVars
<1>5. ASSUME NEW w \in Zoo!Watches, Zoo!cluster_watcher(w) PROVE Zoo!TypeOK'
  BY <1>5 DEF Zoo!cluster_watcher, Zoo!serverVars
<1>6. CASE Zoo!load_Begin
  BY <1>6 DEF Zoo!load_Begin, Zoo!serverVars
<1>7. CASE Zoo!load_Children
  <2>1. nodeNames \in 0..MaxVersion
    BY ClientsBounds
  <2>q. QED
    BY <1>7, <2>1 DEF Zoo!load_Children, Zoo!serverVars, Zoo!flags
<1>8. CASE Zoo!load_Data
  <2>1. data \in 0..MaxVersion
    BY ClientsBounds
  <2>q. QED
    BY <1>8, <2>1 DEF Zoo!load_Data, Zoo!serverVars, Zoo!flags
<1>9. CASE Zoo!load_Leader
  BY <1>9 DEF Zoo!load_Leader, Zoo!serverVars
<1>10. CASE Zoo!load_Optime
  BY <1>10 DEF Zoo!load_Optime, Zoo!get_leader_optime, Zoo!serverVars
<1>11. CASE Zoo!load_Cached
  BY <1>11 DEF Zoo!load_Cached, Zoo!get_leader_optime, Zoo!serverVars
<1>12. CASE Zoo!watch
  BY <1>12 DEF Zoo!watch, Zoo!serverVars
<1>13. CASE UNCHANGED zooVars
  BY <1>13 DEF zooVars
<1>q. QED
  BY <1>1, <1>2, <1>3, <1>4, <1>5, <1>6, <1>7, <1>8, <1>9, <1>10, <1>11, <1>12,
     <1>13 DEF Zoo!Next, Zoo!Kazoo, Zoo!HaLoop

-----------------------------------------------------------------------------
(* The member key *)

\* The content of a key or of a view: nothing, or one entry.
Contents == {{}} \cup {{d} : d \in Member!Entry}

MemberInv ==
    /\ memberBackend \in MemberBackends /\ node \in Member!Locals
    /\ session \in Sessions \cup {0} /\ alive \subseteq Sessions
    /\ memberKey \in Contents /\ own \in Contents /\ peer \in Contents
    /\ snap \in [data : Member!Data, member : Contents, created : BOOLEAN]
    /\ stale \subseteq {"own", "peer"}
    /\ service \in {"none", "replica", "master"}
    /\ lastResult \in {"none", "ok", "failed"}
    /\ leads \in BOOLEAN /\ blind \in BOOLEAN
    /\ step \in {"free", "session", "delete", "put", "service"}

LEMMA MemberTypes == MemberInv => Member!TypeOK
<1> SUFFICES ASSUME MemberInv PROVE Member!TypeOK
  OBVIOUS
<1>1. ASSUME NEW e \in Contents
      PROVE  e = {} \/ \E d \in e : e = {d} /\ d \in Member!Entry
  BY DEF Contents
<1>2. {memberKey, own, peer, snap.member} \subseteq Contents
  BY DEF MemberInv
<1>3. {leads, blind, snap.created} \subseteq BOOLEAN /\ snap.data \in Member!Data
  BY DEF MemberInv
<1>q. QED
  BY <1>1, <1>2, <1>3, Zenon DEF MemberInv, Member!TypeOK

LEMMA NoSnapType ==
    Member!NoSnap \in [data : Member!Data, member : Contents, created : BOOLEAN]
BY DEF Member!NoSnap, Member!Data, Contents

LEMMA MemberSessionType ==
    ASSUME Member!FreshSessions # {} PROVE Member!NewSession \in Sessions
BY DEF Member!NewSession, Member!FreshSessions

\* A content that is restricted or changed in a field stays a content.
LEMMA ContentsKept ==
    ASSUME NEW e \in Contents
    PROVE  /\ \A s : {d \in e : d.session # s} \in Contents
           /\ \A l \in Member!Labels : {[d EXCEPT !.label = l] : d \in e} \in Contents
           /\ \A x \in Member!Data : {[d EXCEPT !.data = x] : d \in e} \in Contents
<1>1. CASE e = {}
  BY <1>1 DEF Contents
<1>2. ASSUME NEW c \in Member!Entry, e = {c}
      PROVE  /\ \A s : {d \in e : d.session # s} \in Contents
             /\ \A l \in Member!Labels : {[d EXCEPT !.label = l] : d \in e} \in Contents
             /\ \A x \in Member!Data : {[d EXCEPT !.data = x] : d \in e} \in Contents
  <2>1. ASSUME NEW s PROVE {d \in e : d.session # s} \in Contents
    <3>1. {d \in e : d.session # s} \in {{}, {c}}
      BY <1>2
    <3>q. QED
      BY <3>1 DEF Contents
  <2>2. ASSUME NEW l \in Member!Labels PROVE {[d EXCEPT !.label = l] : d \in e} \in Contents
    <3>1. {[d EXCEPT !.label = l] : d \in e} = {[c EXCEPT !.label = l]}
      BY <1>2
    <3>2. [c EXCEPT !.label = l] \in Member!Entry
      BY DEF Member!Entry
    <3>q. QED
      BY <3>1, <3>2 DEF Contents
  <2>3. ASSUME NEW x \in Member!Data PROVE {[d EXCEPT !.data = x] : d \in e} \in Contents
    <3>1. {[d EXCEPT !.data = x] : d \in e} = {[c EXCEPT !.data = x]}
      BY <1>2
    <3>2. [c EXCEPT !.data = x] \in Member!Entry
      BY DEF Member!Entry
    <3>q. QED
      BY <3>1, <3>2 DEF Contents
  <2>q. QED
    BY <2>1, <2>2, <2>3
<1>q. QED
  BY <1>1, <1>2 DEF Contents

LEMMA LabelType == MemberInv => Member!role_label \in Member!Labels
BY DEF MemberInv, Member!role_label, Member!Labels, Member!Data

LEMMA WritesType == MemberInv => Member!Writes \in Contents
<1> SUFFICES ASSUME MemberInv PROVE Member!Writes \in Contents
  OBVIOUS
<1> DEFINE new == [data |-> snap.data, session |-> session, label |-> "none"]
<1>1. new \in Member!Entry /\ [new EXCEPT !.label = Member!role_label] \in Member!Entry
  BY LabelType DEF MemberInv, Member!Entry, Member!Labels
<1>2. {new} \in Contents /\ {[new EXCEPT !.label = Member!role_label]} \in Contents
      /\ {} \in Contents
  BY <1>1, Zenon DEF Contents
<1>3. memberKey \in Contents /\ {[e EXCEPT !.data = snap.data] : e \in memberKey} \in Contents
  <2>1. memberKey \in Contents /\ snap.data \in Member!Data
    BY DEF MemberInv
  <2>q. QED
    BY <2>1, ContentsKept
<1>4. memberBackend \in {"etcd", "etcd3", "raft", "consul", "zookeeper", "kubernetes"}
  BY ClientsAssumption DEF MemberInv
<1>5. CASE memberBackend \in {"etcd", "etcd3", "raft"}
  BY <1>2, <1>5 DEF Member!Writes
<1>6. CASE memberBackend = "kubernetes"
  BY <1>2, <1>6 DEF Member!Writes
<1>7. CASE memberBackend = "consul"
  BY <1>2, <1>3, <1>7 DEF Member!Writes
<1>8. CASE memberBackend = "zookeeper"
  BY <1>2, <1>3, <1>8 DEF Member!Writes
<1>q. QED
  BY <1>4, <1>5, <1>6, <1>7, <1>8

LEMMA MemberInit == Member!Init => MemberInv
<1> SUFFICES ASSUME Member!Init PROVE MemberInv
  OBVIOUS
<1>1. 1 \in Sessions /\ {} \in Contents
  BY ClientsAssumption DEF Contents
<1>2. node \in Member!Locals
  BY DEF Member!Init, Member!Locals
<1>3. session \in Sessions \cup {0} /\ alive \subseteq Sessions
  BY <1>1 DEF Member!Init
<1>4. snap \in [data : Member!Data, member : Contents, created : BOOLEAN]
  BY NoSnapType DEF Member!Init
<1>q. QED
  BY <1>1, <1>2, <1>3, <1>4 DEF Member!Init, MemberInv

LEMMA MemberStep == MemberInv /\ [Member!Next]_memberVars => MemberInv'
<1> SUFFICES ASSUME MemberInv, [Member!Next]_memberVars PROVE MemberInv'
  OBVIOUS
<1> USE DEF Member!dcsVars, Member!viewVars, Member!serviceVars
<1>0. {} \in Contents
  BY DEF Contents
<1>1. CASE Member!Change
  <2>1. node' \in Member!Locals
    BY <1>1 DEF Member!Change, MemberInv, Member!Locals
  <2>q. QED
    BY <1>1, <2>1 DEF Member!Change, MemberInv
<1>2. ASSUME NEW s \in Sessions \cup {0}, Member!Expire(s) PROVE MemberInv'
  <2>1. memberKey' \in Contents /\ stale' \subseteq {"own", "peer"}
    BY <1>2, ContentsKept DEF Member!Expire, Member!SetKey, MemberInv
  <2>2. session' \in Sessions \cup {0} /\ alive' \subseteq Sessions
    BY <1>2, MemberSessionType DEF Member!Expire, MemberInv
  <2>q. QED
    BY <1>2, <2>1, <2>2 DEF Member!Expire, MemberInv
<1>3. CASE Member!Restart
  <2>1. session' \in Sessions \cup {0} /\ alive' \subseteq Sessions
    BY <1>3, MemberSessionType DEF Member!Restart, MemberInv
  <2>q. QED
    BY <1>0, <1>3, <2>1, NoSnapType DEF Member!Restart, MemberInv
<1>4. CASE Member!get_cluster
  <2>1. node.leader \in BOOLEAN
    BY DEF MemberInv, Member!Locals
  <2>q. QED
    BY <1>0, <1>4, <2>1 DEF Member!get_cluster, MemberInv
<1>5. CASE Member!peer_get_cluster
  BY <1>5 DEF Member!peer_get_cluster, MemberInv
<1>6. CASE Member!touch_member
  <2>1. Member!Collected \in Member!Data
    BY DEF MemberInv, Member!Collected, Member!Data, Member!Locals
  <2>q. QED
    BY <1>6, <2>1 DEF Member!touch_member, Member!Goto, MemberInv
<1>7. CASE Member!refresh_session
  <2>1. session' \in Sessions \cup {0} /\ alive' \subseteq Sessions
    BY <1>7, MemberSessionType DEF Member!refresh_session, MemberInv
  <2>2. snap' \in [data : Member!Data, member : Contents, created : BOOLEAN]
        /\ step' \in {"free", "session", "delete", "put", "service"}
    BY <1>7, NoSnapType DEF Member!refresh_session, Member!Goto, Member!Done, MemberInv
  <2>q. QED
    BY <1>7, <2>1, <2>2 DEF Member!refresh_session, MemberInv
<1>8. CASE Member!delete_member
  <2>1. memberKey' \in Contents /\ stale' \subseteq {"own", "peer"}
    BY <1>0, <1>8 DEF Member!delete_member, Member!SetKey, MemberInv
  <2>2. snap' \in [data : Member!Data, member : Contents, created : BOOLEAN]
        /\ step' \in {"free", "session", "delete", "put", "service"}
    BY <1>0, <1>8, NoSnapType DEF Member!delete_member, Member!Goto, Member!Done, MemberInv
  <2>q. QED
    BY <1>8, <2>1, <2>2 DEF Member!delete_member, MemberInv
<1>9. CASE Member!put_member
  <2>1. memberKey' \in Contents /\ stale' \subseteq {"own", "peer"}
    BY <1>9, WritesType DEF Member!put_member, Member!SetKey, MemberInv
  <2>2. snap' \in [data : Member!Data, member : Contents, created : BOOLEAN]
        /\ step' \in {"free", "session", "delete", "put", "service"}
    BY <1>9, NoSnapType DEF Member!put_member, Member!Goto, Member!Done, MemberInv
  <2>3. own' \in Contents
    BY <1>9, ContentsKept DEF Member!put_member, Member!PopLabels, Member!Labels, MemberInv
  <2>4. session' \in Sessions \cup {0} /\ blind' \in BOOLEAN
    <3>1. Member!Unaware \in BOOLEAN
      BY DEF Member!Unaware, MemberInv
    <3>q. QED
      BY <1>9, <3>1 DEF Member!put_member, MemberInv
  <2>q. QED
    BY <1>9, <2>1, <2>2, <2>3, <2>4 DEF Member!put_member, MemberInv
<1>10. CASE Member!update_service
  <2>1. Member!Wanted \subseteq {"none", "replica", "master"}
    BY DEF Member!Wanted, MemberInv, Member!Data
  <2>q. QED
    BY <1>10, <2>1, NoSnapType
       DEF Member!update_service, Member!Done, Member!Goto, MemberInv
<1>11. CASE UNCHANGED memberVars
  BY <1>11 DEF memberVars, MemberInv
<1>q. QED
  BY <1>1, <1>2, <1>3, <1>4, <1>5, <1>6, <1>7, <1>8, <1>9, <1>10, <1>11
     DEF Member!Next, Member!TouchStep

-----------------------------------------------------------------------------
(* Largest elements *)

LEMMA HasLargest ==
    ASSUME NEW r \in Nat, NEW S \in SUBSET (0..r), S # {}
    PROVE  \E m \in S : \A j \in S : j <= m
<1> DEFINE T == {r - i : i \in S}
<1>1. T \subseteq Nat /\ T # {}
  <2>1. \A i \in S : i \in 0..r
    OBVIOUS
  <2>2. \A i \in S : r - i \in Nat
    BY <2>1
  <2>q. QED
    BY <2>2
<1>2. PICK x \in T : \A y \in T : <<y, x>> \notin OpToRel(<, Nat)
  BY <1>1, WFMin, NatLessThanWellFounded
<1>3. \A y \in T : ~(y < x)
  BY <1>1, <1>2 DEF OpToRel
<1>4. PICK m \in S : x = r - m
  BY <1>2
<1>5. ASSUME NEW j \in S PROVE j <= m
  <2>1. ~(r - j < r - m)
    BY <1>3, <1>4
  <2>q. QED
    BY <2>1
<1>q. QED
  BY <1>4, <1>5

LEMMA MaxOfProperty ==
    ASSUME NEW r \in Nat, NEW S \in SUBSET (1..r)
    PROVE  /\ S = {} => Watch!MaxOf(S) = 0
           /\ S # {} => Watch!MaxOf(S) \in S /\ \A j \in S : j <= Watch!MaxOf(S)
<1>1. CASE S = {}
  BY <1>1 DEF Watch!MaxOf
<1>2. CASE S # {}
  <2>1. \E m \in S : \A j \in S : j <= m
    <3>1. S \in SUBSET (0..r)
      OBVIOUS
    <3>q. QED
      BY <1>2, <3>1, HasLargest
  <2>2. Watch!MaxOf(S) = CHOOSE m \in S : \A j \in S : j <= m
    BY <1>2 DEF Watch!MaxOf
  <2>q. QED
    BY <1>2, <2>1, <2>2, Zenon
<1>q. QED
  BY <1>1, <1>2

-----------------------------------------------------------------------------
(* The watch caches *)

\* The cache holds of object k what change i has made of it, or something later.
Recent(k, i) ==
    IF objects[k] > 0 THEN objects[k] >= i
    ELSE \E j \in i..Len(log) : log[j].key = k /\ ~log[j].put

\* A stream is closed when the client has left its server, or it will be.
Followed == stream = base \/ mpc = "kill"

WatchInv ==
    /\ Watch!TypeOK
    /\ pos <= Len(log) /\ list <= Len(log)
    /\ tpc \in {"reset", "connect"} => pos = list
    /\ mpc = "answer" => wrote \in 1..Len(log)
    /\ kind # "etcd3" => mpc # "kill" /\ tpc # "adopt"
    /\ kind = "etcd3" /\ tpc = "read" => response = "open"
    /\ tpc = "adopt" /\ response = "none" => Followed
    /\ tpc = "read" /\ ~cut => Followed

(***************************************************************************)
(* No object is deleted between a put of the HA loop and its answer; all   *)
(* that the stream has delivered is in the cache.                          *)
(***************************************************************************)
ObjectsInv ==
    /\ mpc = "answer" /\ log[wrote].put =>
          \A j \in wrote..Len(log) : log[j].key = log[wrote].key => log[j].put
    /\ ready => \A i \in 1..pos : Recent(log[i].key, i)

LEMMA WatchInit == Watch!Init => WatchInv /\ ObjectsInv
<1> SUFFICES ASSUME Watch!Init PROVE WatchInv /\ ObjectsInv
  OBVIOUS
<1>1. /\ 0 \in 0..MaxRev /\ 0 \in 0..MaxMoves /\ 0 \in 0..MaxBreaks
  BY ClientsBounds
<1>2. log \in Seq([key : Keys, put : BOOLEAN]) /\ Len(log) = 0
  BY DEF Watch!Init
<1>3. Len(log) <= MaxRev /\ objects \in [Keys -> 0..MaxRev]
  BY <1>1, <1>2 DEF Watch!Init
<1>4. Watch!TypeOK
  BY <1>1, <1>2, <1>3 DEF Watch!Init, Watch!TypeOK
<1>q. QED
  BY <1>2, <1>4 DEF Watch!Init, WatchInv, ObjectsInv, Followed

LEMMA WatchFacts ==
    ASSUME WatchInv
    PROVE  /\ Len(log) \in Nat /\ Len(log) <= MaxRev /\ MaxRev \in Nat
           /\ pos \in Nat /\ list \in Nat /\ wrote \in Nat
           /\ \A i \in 1..Len(log) : log[i].key \in Keys /\ log[i].put \in BOOLEAN
           /\ \A k \in Keys : objects[k] \in Nat
<1>1. log \in Seq([key : Keys, put : BOOLEAN])
  BY DEF WatchInv, Watch!TypeOK
<1>2. \A i \in 1..Len(log) : log[i] \in [key : Keys, put : BOOLEAN]
  BY <1>1, ElementOfSeq
<1>q. QED
  BY <1>1, <1>2, ClientsBounds DEF WatchInv, Watch!TypeOK

\* The object of the store: absent, or the last change, if it wrote it.
LEMMA StateProperty ==
    ASSUME WatchInv, NEW k \in Keys, NEW r \in 0..Len(log)
    PROVE  /\ Watch!StateAt(k, r) \in 0..r
           /\ \A i \in 1..r : log[i].key = k =>
                 IF Watch!StateAt(k, r) > 0 THEN Watch!StateAt(k, r) >= i
                 ELSE \E j \in i..r : log[j].key = k /\ ~log[j].put
<1> DEFINE S == Watch!Touching(k, r)
           m == Watch!MaxOf(S)
<1>1. r \in Nat /\ S \in SUBSET (1..r) /\ \A i \in 1..r : i \in S <=> log[i].key = k
  BY WatchFacts DEF Watch!Touching
<1>2. /\ S = {} => m = 0
      /\ S # {} => m \in S /\ \A j \in S : j <= m
  BY <1>1, MaxOfProperty
<1>3. Watch!StateAt(k, r) = IF m > 0 /\ log[m].put THEN m ELSE 0
  BY DEF Watch!StateAt
<1> HIDE DEF S, m
<1>4. CASE S = {}
  BY <1>1, <1>2, <1>3, <1>4
<1>5. CASE S # {}
  <2>1. m \in 1..r /\ log[m].key = k /\ \A i \in 1..r : log[i].key = k => i <= m
    BY <1>1, <1>2, <1>5
  <2>2. CASE log[m].put
    BY <1>1, <1>3, <2>1, <2>2
  <2>3. CASE ~log[m].put
    BY <1>1, <1>3, <2>1, <2>3
  <2>q. QED
    BY <2>2, <2>3
<1>q. QED
  BY <1>4, <1>5

\* What an event or an answer does to the cache.
LEMMA EventKeeps ==
    ASSUME WatchInv, NEW r \in 1..Len(log), Watch!process_event(r)
    PROVE  /\ objects' \in [Keys -> 0..MaxRev]
           /\ \A k \in Keys \ {log[r].key} : objects'[k] = objects[k]
           /\ log[r].put => objects'[log[r].key] =
                 (IF objects[log[r].key] = 0 \/ objects[log[r].key] < r THEN r
                  ELSE objects[log[r].key])
           /\ ~log[r].put => objects'[log[r].key] =
                 (IF objects[log[r].key] < r THEN 0 ELSE objects[log[r].key])
<1>1. objects \in [Keys -> 0..MaxRev] /\ log[r].key \in Keys /\ log[r].put \in BOOLEAN
      /\ r \in 0..MaxRev
  BY WatchFacts DEF WatchInv, Watch!TypeOK
<1>2. CASE log[r].put
  BY <1>1, <1>2 DEF Watch!process_event, Watch!set
<1>3. CASE ~log[r].put
  BY <1>1, <1>3, ClientsBounds DEF Watch!process_event, Watch!delete
<1>q. QED
  BY <1>2, <1>3

\* A change is appended to the log of the store.
LEMMA ChangeKeeps ==
    ASSUME WatchInv, NEW k \in Keys, NEW put \in BOOLEAN, Watch!Change(k, put),
           UNCHANGED <<objects, ready, pos>>
    PROVE  /\ log' \in Seq([key : Keys, put : BOOLEAN]) /\ Len(log') = Len(log) + 1
           /\ Len(log') <= MaxRev
           /\ \A i \in 1..Len(log) : log'[i] = log[i]
           /\ log'[Len(log) + 1] = [key |-> k, put |-> put]
           /\ ObjectsInv /\ ready => \A i \in 1..pos : Recent(log[i].key, i)'
<1>1. /\ log \in Seq([key : Keys, put : BOOLEAN]) /\ Len(log) < MaxRev
      /\ log' = Append(log, [key |-> k, put |-> put])
  BY DEF WatchInv, Watch!TypeOK, Watch!Change
<1>2. /\ log' \in Seq([key : Keys, put : BOOLEAN]) /\ Len(log') = Len(log) + 1
      /\ \A i \in 1..Len(log) : log'[i] = log[i]
      /\ log'[Len(log) + 1] = [key |-> k, put |-> put]
  BY <1>1
<1>3. Len(log') <= MaxRev
  BY <1>1, <1>2, ClientsBounds
<1>4. ASSUME ObjectsInv, ready, NEW i \in 1..pos PROVE Recent(log[i].key, i)'
  <2>1. i \in 1..Len(log) /\ Recent(log[i].key, i) /\ log'[i] = log[i]
    BY <1>2, <1>4, WatchFacts DEF WatchInv, ObjectsInv
  <2>2. CASE objects[log[i].key] > 0
    BY <2>1, <2>2 DEF Recent
  <2>3. CASE ~(objects[log[i].key] > 0)
    <3>1. PICK j \in i..Len(log) : log[j].key = log[i].key /\ ~log[j].put
      BY <2>1, <2>3 DEF Recent
    <3>2. j \in i..Len(log') /\ log'[j] = log[j]
      BY <1>2, <2>1, <3>1, WatchFacts
    <3>q. QED
      BY <2>1, <2>3, <3>1, <3>2 DEF Recent
  <2>q. QED
    BY <2>2, <2>3
<1>q. QED
  BY <1>2, <1>3, <1>4

\* A step that leaves the objects, the log and the own write alone.
LEMMA ObjectsSame ==
    ASSUME ObjectsInv, UNCHANGED <<log, objects, pos>>,
           ready' => ready, mpc' = "answer" => mpc = "answer" /\ wrote' = wrote
    PROVE  ObjectsInv'
BY DEF ObjectsInv, Recent

LEMMA WatchSwap == WatchInv /\ Watch!swap => WatchInv' /\ (ObjectsInv => ObjectsInv')
<1> SUFFICES ASSUME WatchInv, Watch!swap PROVE WatchInv' /\ (ObjectsInv => ObjectsInv')
  OBVIOUS
<1>1. /\ objects' = [k \in Keys |-> Watch!StateAt(k, list)] /\ pos' = list
      /\ ready' = TRUE /\ tpc' = IF kind = "etcd3" THEN "reset" ELSE "connect"
      /\ UNCHANGED <<kind, log, list, stream, response, cut, mpc, wrote, base, breaks>>
  BY DEF Watch!swap, Watch!mainVars
<1>2. list \in 0..Len(log) /\ Len(log) <= MaxRev /\ MaxRev \in Nat /\ Len(log) \in Nat
  BY WatchFacts DEF WatchInv
<1>3. objects' \in [Keys -> 0..MaxRev]
  <2>1. ASSUME NEW k \in Keys PROVE Watch!StateAt(k, list) \in 0..MaxRev
    <3>1. Watch!StateAt(k, list) \in 0..list
      BY <1>2, StateProperty
    <3>q. QED
      BY <1>2, <3>1
  <2>q. QED
    BY <1>1, <2>1
<1>4. WatchInv'
  BY <1>1, <1>3 DEF WatchInv, Watch!TypeOK, Followed
<1>5. ASSUME NEW i \in 1..pos' PROVE Recent(log[i].key, i)'
  <2>1. i \in 1..list /\ log[i].key \in Keys /\ i \in 1..Len(log)
    BY <1>1, <1>2, <1>5, WatchFacts
  <2>2. IF Watch!StateAt(log[i].key, list) > 0 THEN Watch!StateAt(log[i].key, list) >= i
        ELSE \E j \in i..list : log[j].key = log[i].key /\ ~log[j].put
    BY <1>2, <2>1, StateProperty
  <2>3. objects'[log[i].key] = Watch!StateAt(log[i].key, list)
    BY <1>1, <2>1
  <2>4. i..list \subseteq i..Len(log)
    BY <1>2, <2>1
  <2>q. QED
    BY <1>1, <2>2, <2>3, <2>4, Zenon DEF Recent
<1>6. ObjectsInv => ObjectsInv'
  BY <1>1, <1>5 DEF ObjectsInv
<1>q. QED
  BY <1>4, <1>6

LEMMA WatchConnect == WatchInv /\ Watch!connect => WatchInv' /\ (ObjectsInv => ObjectsInv')
<1> SUFFICES ASSUME WatchInv, Watch!connect PROVE WatchInv' /\ (ObjectsInv => ObjectsInv')
  OBVIOUS
<1>1. /\ tpc = "connect" /\ stream' = base /\ cut' = FALSE
      /\ pos' = IF kind = "etcd3" /\ list > 0 THEN list - 1 ELSE list
      /\ tpc' = IF kind = "etcd3" THEN "adopt" ELSE "read"
      /\ UNCHANGED <<kind, log, objects, ready, list, response, mpc, wrote, base, breaks>>
  BY DEF Watch!connect, Watch!mainVars
<1>2. pos = list /\ list \in Nat /\ list \in 0..MaxRev
  BY <1>1, WatchFacts DEF WatchInv, Watch!TypeOK
<1>3. pos' \in 0..MaxRev /\ pos' <= pos /\ pos' <= Len(log)
  BY <1>1, <1>2, WatchFacts DEF WatchInv
<1>4. Watch!TypeOK'
  BY <1>1, <1>3 DEF WatchInv, Watch!TypeOK
<1>5. WatchInv'
  BY <1>1, <1>3, <1>4 DEF WatchInv, Followed
<1>6. \A i \in 1..pos' : i \in 1..pos
  BY <1>2, <1>3
<1>7. ObjectsInv => ObjectsInv'
  BY <1>1, <1>6 DEF ObjectsInv, Recent
<1>q. QED
  BY <1>5, <1>7

LEMMA WatchRead == WatchInv /\ Watch!read => WatchInv' /\ (ObjectsInv => ObjectsInv')
<1> SUFFICES ASSUME WatchInv, Watch!read PROVE WatchInv' /\ (ObjectsInv => ObjectsInv')
  OBVIOUS
<1> DEFINE r == pos + 1
<1>1. /\ tpc = "read" /\ ~cut /\ pos < Len(log) /\ pos' = r /\ Watch!process_event(r)
      /\ UNCHANGED <<kind, log, ready, tpc, list, stream, response, cut, mpc, wrote, base,
                     breaks>>
  BY DEF Watch!read, Watch!mainVars
<1>2. r \in 1..Len(log) /\ r \in Nat /\ r \in 0..MaxRev /\ 1..r = 1..pos \cup {r}
  BY <1>1, WatchFacts
<1>3. /\ objects' \in [Keys -> 0..MaxRev]
      /\ \A k \in Keys \ {log[r].key} : objects'[k] = objects[k]
      /\ log[r].put => objects'[log[r].key] =
            (IF objects[log[r].key] = 0 \/ objects[log[r].key] < r THEN r
             ELSE objects[log[r].key])
      /\ ~log[r].put => objects'[log[r].key] =
            (IF objects[log[r].key] < r THEN 0 ELSE objects[log[r].key])
  BY <1>1, <1>2, EventKeeps
<1> HIDE DEF r
<1>4. WatchInv'
  BY <1>1, <1>2, <1>3 DEF WatchInv, Watch!TypeOK, Followed
<1>5. ASSUME ObjectsInv, ready, NEW i \in 1..r PROVE Recent(log[i].key, i)'
  <2>1. /\ i \in 1..Len(log) /\ log[i].key \in Keys /\ objects[log[i].key] \in Nat
        /\ i <= r /\ i \in Nat /\ Len(log) \in Nat
        /\ i # r => Recent(log[i].key, i)
    BY <1>2, <1>5, WatchFacts DEF WatchInv, ObjectsInv
  <2>2. CASE log[i].key # log[r].key
    BY <1>1, <1>3, <2>1, <2>2 DEF Recent
  <2>3. CASE log[i].key = log[r].key /\ log[r].put
    <3>1. objects'[log[i].key] >= i /\ objects'[log[i].key] > 0
      BY <1>2, <1>3, <2>1, <2>3
    <3>q. QED
      BY <3>1, <1>1 DEF Recent
  <2>4. CASE log[i].key = log[r].key /\ ~log[r].put
    <3>1. r \in i..Len(log)
      BY <1>2, <2>1
    <3>2. objects'[log[i].key] > 0 => objects'[log[i].key] >= i
      BY <1>2, <1>3, <2>1, <2>4
    <3>q. QED
      BY <1>1, <2>4, <3>1, <3>2 DEF Recent
  <2>q. QED
    BY <2>2, <2>3, <2>4, WatchFacts, <2>1, <1>2
<1>6. ObjectsInv => ObjectsInv'
  BY <1>1, <1>5 DEF ObjectsInv
<1>q. QED
  BY <1>4, <1>6

LEMMA WatchAnswer ==
    WatchInv /\ Watch!call_rpc_Answer => WatchInv' /\ (ObjectsInv => ObjectsInv')
<1> SUFFICES ASSUME WatchInv, Watch!call_rpc_Answer PROVE WatchInv' /\ (ObjectsInv => ObjectsInv')
  OBVIOUS
<1>1. /\ mpc = "answer" /\ mpc' = "idle"
      /\ Watch!process_event(wrote) \/ UNCHANGED objects
      /\ UNCHANGED <<kind, log, ready, tpc, list, pos, stream, breaks, response, cut,
                     wrote, base>>
  BY DEF Watch!call_rpc_Answer, Watch!threadVars
<1>2. CASE UNCHANGED objects
  <2>1. WatchInv'
    BY <1>1, <1>2 DEF WatchInv, Watch!TypeOK, Followed
  <2>q. QED
    BY <1>1, <1>2, <2>1, ObjectsSame
<1>3. CASE Watch!process_event(wrote)
  <2>1. wrote \in 1..Len(log) /\ wrote \in Nat /\ Len(log) \in Nat
    BY <1>1, WatchFacts DEF WatchInv
  <2>2. /\ objects' \in [Keys -> 0..MaxRev]
        /\ \A k \in Keys \ {log[wrote].key} : objects'[k] = objects[k]
        /\ log[wrote].put => objects'[log[wrote].key] =
              (IF objects[log[wrote].key] = 0 \/ objects[log[wrote].key] < wrote THEN wrote
               ELSE objects[log[wrote].key])
        /\ ~log[wrote].put => objects'[log[wrote].key] =
              (IF objects[log[wrote].key] < wrote THEN 0 ELSE objects[log[wrote].key])
    BY <1>3, <2>1, EventKeeps
  <2>3. WatchInv'
    BY <1>1, <2>2 DEF WatchInv, Watch!TypeOK, Followed
  <2>4. ASSUME ObjectsInv, ready, NEW i \in 1..pos PROVE Recent(log[i].key, i)'
    <3>1. /\ i \in 1..Len(log) /\ log[i].key \in Keys /\ objects[log[i].key] \in Nat
          /\ i \in Nat /\ Recent(log[i].key, i) /\ log[wrote].put \in BOOLEAN
      BY <2>1, <2>4, WatchFacts DEF WatchInv, ObjectsInv
    <3>2. CASE log[i].key # log[wrote].key
      BY <1>1, <2>2, <3>1, <3>2 DEF Recent
    <3>3. CASE log[i].key = log[wrote].key /\ log[wrote].put
      <4>1. CASE objects[log[i].key] > 0
        <5>1. objects'[log[i].key] >= i /\ objects'[log[i].key] > 0
          BY <2>1, <2>2, <3>1, <3>3, <4>1 DEF Recent
        <5>q. QED
          BY <1>1, <5>1 DEF Recent
      <4>2. CASE objects[log[i].key] = 0
        <5>1. PICK j \in i..Len(log) : log[j].key = log[i].key /\ ~log[j].put
          BY <3>1, <4>2 DEF Recent
        <5>2. ~(j \in wrote..Len(log))
          BY <1>1, <2>4, <3>3, <5>1 DEF ObjectsInv
        <5>3. i <= wrote
          BY <2>1, <3>1, <5>1, <5>2
        <5>4. objects'[log[i].key] = wrote
          BY <2>2, <3>3, <4>2
        <5>q. QED
          BY <1>1, <2>1, <5>3, <5>4 DEF Recent
      <4>q. QED
        BY <3>1, <4>1, <4>2
    <3>4. CASE log[i].key = log[wrote].key /\ ~log[wrote].put
      <4>1. CASE objects[log[i].key] > 0 /\ objects[log[i].key] < wrote
        <5>1. wrote \in i..Len(log) /\ objects'[log[i].key] = 0
          BY <2>1, <2>2, <3>1, <3>4, <4>1 DEF Recent
        <5>q. QED
          BY <1>1, <3>4, <5>1 DEF Recent
      <4>2. CASE ~(objects[log[i].key] > 0 /\ objects[log[i].key] < wrote)
        <5>1. objects'[log[i].key] = objects[log[i].key]
          BY <2>1, <2>2, <3>1, <3>4, <4>2
        <5>q. QED
          BY <1>1, <3>1, <5>1 DEF Recent
      <4>q. QED
        BY <4>1, <4>2
    <3>q. QED
      BY <3>1, <3>2, <3>3, <3>4
  <2>5. ObjectsInv => ObjectsInv'
    BY <1>1, <2>4 DEF ObjectsInv
  <2>q. QED
    BY <2>3, <2>5
<1>q. QED
  BY <1>1, <1>2, <1>3

LEMMA WatchOthers ==
    ASSUME WatchInv, NEW k \in Keys, Watch!Others(k)
    PROVE  WatchInv' /\ (~Overtaking /\ ObjectsInv => ObjectsInv')
<1>1. PICK put \in BOOLEAN :
         /\ Watch!Change(k, put)
         /\ ~put /\ ~Overtaking /\ mpc = "answer" => ~(log[wrote].key = k /\ log[wrote].put)
  BY DEF Watch!Others
<1>2. UNCHANGED <<kind, objects, ready, tpc, list, pos, stream, breaks, response, cut,
                  mpc, wrote, base>>
  BY DEF Watch!Others, Watch!threadVars, Watch!mainVars
<1>3. /\ log' \in Seq([key : Keys, put : BOOLEAN]) /\ Len(log') = Len(log) + 1
      /\ Len(log') <= MaxRev
      /\ \A i \in 1..Len(log) : log'[i] = log[i]
      /\ log'[Len(log) + 1] = [key |-> k, put |-> put]
      /\ ObjectsInv /\ ready => \A i \in 1..pos : Recent(log[i].key, i)'
  BY <1>1, <1>2, ChangeKeeps
<1>4. WatchInv'
  <2>1. Watch!TypeOK'
    BY <1>2, <1>3 DEF WatchInv, Watch!TypeOK
  <2>2. pos <= Len(log') /\ list <= Len(log') /\ (mpc = "answer" => wrote \in 1..Len(log'))
    BY <1>3, WatchFacts DEF WatchInv
  <2>q. QED
    BY <1>2, <2>1, <2>2 DEF WatchInv, Followed
<1>5. ASSUME ~Overtaking, ObjectsInv, mpc = "answer"
      PROVE  log'[wrote].put => \A j \in wrote..Len(log') :
                log'[j].key = log'[wrote].key => log'[j].put
  <2>1. wrote \in 1..Len(log) /\ Len(log) \in Nat /\ log'[wrote] = log[wrote]
    BY <1>3, <1>5, WatchFacts DEF WatchInv
  <2>2. ASSUME log[wrote].put, NEW j \in wrote..Len(log'), log'[j].key = log[wrote].key
        PROVE  log'[j].put
    <3>1. CASE j = Len(log) + 1
      BY <1>1, <1>3, <1>5, <2>2, <3>1
    <3>2. CASE j # Len(log) + 1
      <4>1. j \in wrote..Len(log) /\ j \in 1..Len(log)
        BY <1>3, <2>1, <2>2, <3>2
      <4>q. QED
        BY <1>3, <1>5, <2>2, <4>1 DEF ObjectsInv
    <3>q. QED
      BY <3>1, <3>2
  <2>q. QED
    BY <1>3, <2>1, <2>2
<1>6. ~Overtaking /\ ObjectsInv => ObjectsInv'
  BY <1>2, <1>3, <1>5 DEF ObjectsInv
<1>q. QED
  BY <1>4, <1>6

LEMMA WatchCall ==
    ASSUME WatchInv, NEW k \in Keys, Watch!call_rpc(k)
    PROVE  WatchInv' /\ (ObjectsInv => ObjectsInv')
<1>1. PICK put \in BOOLEAN : Watch!Change(k, put)
  BY DEF Watch!call_rpc
<1>2. /\ mpc = "idle" /\ wrote' = Len(log) + 1 /\ mpc' = "answer"
      /\ UNCHANGED <<kind, objects, ready, tpc, list, pos, stream, breaks, response, cut,
                     base>>
  BY DEF Watch!call_rpc, Watch!threadVars
<1>3. /\ log' \in Seq([key : Keys, put : BOOLEAN]) /\ Len(log') = Len(log) + 1
      /\ Len(log') <= MaxRev
      /\ \A i \in 1..Len(log) : log'[i] = log[i]
      /\ log'[Len(log) + 1] = [key |-> k, put |-> put]
      /\ ObjectsInv /\ ready => \A i \in 1..pos : Recent(log[i].key, i)'
  BY <1>1, <1>2, ChangeKeeps
<1>4. wrote' \in 0..MaxRev /\ wrote' \in 1..Len(log') /\ wrote'..Len(log') = {wrote'}
  BY <1>2, <1>3, WatchFacts
<1>5. WatchInv'
  BY <1>2, <1>3, <1>4, WatchFacts DEF WatchInv, Watch!TypeOK, Followed
<1>6. ObjectsInv => ObjectsInv'
  BY <1>2, <1>3, <1>4 DEF ObjectsInv
<1>q. QED
  BY <1>5, <1>6

LEMMA WatchStep ==
    ASSUME WatchInv, [Watch!Next]_watchVars
    PROVE  WatchInv' /\ (~Overtaking /\ ObjectsInv => ObjectsInv')
<1> USE DEF Watch!mainVars, Watch!threadVars
<1>1. CASE Watch!list
  <2>1. list' \in 0..Len(log)
    BY <1>1, WatchFacts DEF Watch!list
  <2>2. list' \in 0..MaxRev
    BY <2>1, WatchFacts
  <2>3. WatchInv'
    BY <1>1, <2>1, <2>2 DEF Watch!list, WatchInv, Watch!TypeOK, Followed
  <2>q. QED
    BY <1>1, <2>3, ObjectsSame DEF Watch!list
<1>2. CASE Watch!reset
  <2>1. WatchInv'
    BY <1>2 DEF Watch!reset, WatchInv, Watch!TypeOK, Followed
  <2>q. QED
    BY <1>2, <2>1, ObjectsSame DEF Watch!reset
<1>3. CASE Watch!adopt
  <2>1. WatchInv'
    BY <1>3 DEF Watch!adopt, WatchInv, Watch!TypeOK, Followed
  <2>q. QED
    BY <1>3, <2>1, ObjectsSame DEF Watch!adopt
<1>4. CASE Watch!read_Fails
  <2>1. breaks' \in 0..MaxBreaks
    BY <1>4, ClientsBounds DEF Watch!read_Fails, WatchInv, Watch!TypeOK
  <2>2. WatchInv'
    BY <1>4, <2>1 DEF Watch!read_Fails, WatchInv, Watch!TypeOK, Followed
  <2>q. QED
    BY <1>4, <2>2, ObjectsSame DEF Watch!read_Fails
<1>5. CASE Watch!close
  <2>1. WatchInv'
    BY <1>5 DEF Watch!close, WatchInv, Watch!TypeOK, Followed
  <2>q. QED
    BY <1>5, <2>1, ObjectsSame DEF Watch!close
<1>6. CASE Watch!set_base_uri
  <2>1. base' \in 0..MaxMoves
    BY <1>6, ClientsBounds DEF Watch!set_base_uri, WatchInv, Watch!TypeOK
  <2>2. WatchInv'
    BY <1>6, <2>1 DEF Watch!set_base_uri, WatchInv, Watch!TypeOK, Followed
  <2>q. QED
    BY <1>6, <2>2, ObjectsSame DEF Watch!set_base_uri
<1>7. CASE Watch!kill_stream
  <2>1. WatchInv'
    BY <1>7 DEF Watch!kill_stream, WatchInv, Watch!TypeOK, Followed
  <2>q. QED
    BY <1>7, <2>1, ObjectsSame DEF Watch!kill_stream
<1>8. CASE UNCHANGED watchVars
  <2>1. WatchInv'
    BY <1>8 DEF watchVars, WatchInv, Watch!TypeOK, Followed
  <2>q. QED
    BY <1>8, <2>1, ObjectsSame DEF watchVars
<1>q. QED
  BY <1>1, <1>2, <1>3, <1>4, <1>5, <1>6, <1>7, <1>8, WatchSwap, WatchConnect, WatchRead,
     WatchAnswer, WatchOthers, WatchCall DEF Watch!Next, Watch!Thread

LEMMA WatchSafe ==
    ASSUME WatchInv, ObjectsInv
    PROVE  Watch!CacheIsRecent /\ Watch!StreamFollowsServer
<1>1. Watch!StreamFollowsServer
  BY DEF WatchInv, Watch!StreamFollowsServer, Followed
<1>2. ASSUME ready, NEW k \in Keys, NEW i \in Watch!Touching(k, pos)
      PROVE  IF objects[k] > 0 THEN objects[k] >= i
             ELSE \E j \in i..Len(log) : log[j].key = k /\ ~log[j].put
  <2>1. i \in 1..pos /\ log[i].key = k
    BY DEF Watch!Touching
  <2>q. QED
    BY <1>2, <2>1 DEF ObjectsInv, Recent
<1>q. QED
  BY <1>1, <1>2 DEF Watch!CacheIsRecent

-----------------------------------------------------------------------------
(* The servers of a request *)

LEMMA ServersCount ==
    /\ Failover!Cardinality(Servers) = Cardinality(Servers)
    /\ Cardinality(Servers) \in Nat /\ 1 <= Cardinality(Servers)
<1>1. Failover!Cardinality(Servers) = Cardinality(Servers)
  BY DEF Failover!Cardinality, Cardinality
<1>2. Cardinality(Servers) \in Nat /\ Cardinality(Servers) # 0
  BY ClientsAssumption, FS_CardinalityType, FS_EmptySet
<1>q. QED
  BY <1>1, <1>2

\* The order in which the servers k are asked when b is the one in use.
Order(k, b) ==
    [j \in DOMAIN k |-> IF b \notin {k[i] : i \in j..Len(k)} THEN k[j]
                        ELSE IF j = 1 THEN b ELSE k[j - 1]]

LEMMA OrderProperty ==
    ASSUME NEW k \in Seq(Servers), NEW b \in Failover!Listed(k)
    PROVE  /\ Order(k, b) \in Seq(Servers) /\ Len(Order(k, b)) = Len(k)
           /\ Failover!Listed(Order(k, b)) \subseteq Failover!Listed(k)
<1>1. DOMAIN k = 1..Len(k) /\ Len(k) \in Nat /\ \A i \in 1..Len(k) : k[i] \in Servers
  BY LenProperties, ElementOfSeq
<1>2. b \in Servers
  BY <1>1 DEF Failover!Listed
<1>3. ASSUME NEW j \in 1..Len(k)
      PROVE  Order(k, b)[j] \in Servers /\ Order(k, b)[j] \in Failover!Listed(k)
  <2>1. Order(k, b)[j] = IF b \notin {k[i] : i \in j..Len(k)} THEN k[j]
                         ELSE IF j = 1 THEN b ELSE k[j - 1]
    BY <1>1 DEF Order
  <2>2. j # 1 => j - 1 \in 1..Len(k)
    BY <1>1
  <2>q. QED
    BY <1>1, <1>2, <2>1, <2>2 DEF Failover!Listed
<1>4. DOMAIN Order(k, b) = 1..Len(k) /\ Order(k, b) = [j \in 1..Len(k) |-> Order(k, b)[j]]
  BY <1>1 DEF Order
<1>5. Order(k, b) \in [1..Len(k) -> Servers]
  BY <1>3, <1>4
<1>6. Order(k, b) \in Seq(Servers) /\ Len(Order(k, b)) = Len(k)
  BY <1>1, <1>5
<1>7. Failover!Listed(Order(k, b)) \subseteq Failover!Listed(k)
  BY <1>3, <1>4 DEF Failover!Listed
<1>q. QED
  BY <1>6, <1>7

LEMMA ListProperty ==
    ASSUME NEW s \in Failover!Lists
    PROVE  /\ s \in Seq(Servers) /\ Len(s) \in 1..Cardinality(Servers)
           /\ s[1] \in Failover!Listed(s)
<1>1. PICK n \in 1..Cardinality(Servers) : s \in [1..n -> Servers]
  BY ServersCount DEF Failover!Lists
<1>2. n \in Nat /\ 1 \in 1..n
  BY <1>1, ServersCount
<1>3. s \in Seq(Servers) /\ Len(s) = n
  BY <1>1, <1>2
<1>4. s[1] \in Failover!Listed(s)
  BY <1>1, <1>2 DEF Failover!Listed
<1>q. QED
  BY <1>1, <1>3, <1>4

LEMMA InUseListed ==
    ASSUME NEW s \in Seq(Servers), NEW b \in Failover!Listed(s) PROVE b \in Servers
<1>1. DOMAIN s = 1..Len(s) /\ \A i \in 1..Len(s) : s[i] \in Servers
  BY LenProperties, ElementOfSeq
<1>q. QED
  BY <1>1 DEF Failover!Listed

-----------------------------------------------------------------------------
(* The time that is left *)

LEMMA ProductBounds ==
    ASSUME NEW a \in Nat, NEW b \in Nat
    PROVE  a * b \in Nat /\ (a >= 1 => b <= a * b) /\ (b >= 1 => a <= a * b)
OBVIOUS

LEMMA QuotientBound ==
    ASSUME NEW a \in Nat \ {0}, NEW t \in Nat
    PROVE  t \div a \in Nat /\ a * (t \div a) <= t
OBVIOUS

LEMMA LargestProperty ==
    ASSUME NEW r \in Nat, NEW S \in SUBSET (0..r), S # {}
    PROVE  Failover!Largest(S) \in S /\ \A j \in S : j <= Failover!Largest(S)
<1>1. \E m \in S : \A j \in S : j <= m
  BY HasLargest
<1>q. QED
  BY <1>1, Zenon DEF Failover!Largest

(***************************************************************************)
(* The servers of a pass are waited for no longer than there is time, and  *)
(* all of them get their share if there is a second for each.              *)
(***************************************************************************)
LEMMA TimeoutsProperty ==
    ASSUME NEW n \in Nat, NEW t \in Int
    PROVE  LET c == Failover!calculate_timeouts(n, t) IN
           /\ c.nodes \in 0..n /\ c.wait \in Nat
           /\ c.nodes = 0 => c.wait = 0
           /\ c.nodes > 0 => t > 0 /\ c.nodes * c.wait <= t /\ c.wait <= t
           /\ t >= n * 6 => c.nodes = n
<1> DEFINE c == Failover!calculate_timeouts(n, t)
           fits == {m \in 1..n : t >= m * 6}
           given == IF fits = {} THEN 0 ELSE Failover!Largest(fits)
           max == IF given < n THEN 1 ELSE Failover!max_retries(n)
           some == {1} \cup {r \in 1..max : t >= given * r * 6}
           tries == Failover!Largest(some)
<1>1. c = IF given = 0 THEN [nodes |-> 0, wait |-> 0]
          ELSE [nodes |-> given, wait |-> tries * (t \div (given * tries))]
  BY Zenon DEF Failover!calculate_timeouts, Failover!Second
<1>2. fits # {} => given \in fits /\ \A m \in fits : m <= given
  <2>1. fits \in SUBSET (0..n)
    OBVIOUS
  <2> HIDE DEF fits
  <2>q. QED
    BY <2>1, LargestProperty
<1>3. /\ given \in 0..n
      /\ given > 0 => t >= given * 6
      /\ t >= n * 6 => given = n
  <2>1. CASE fits = {}
    <3>1. t >= n * 6 => n = 0
      BY <2>1
    <3>q. QED
      BY <2>1, <3>1
  <2>2. CASE fits # {}
    <3>1. given \in 1..n /\ t >= given * 6
      BY <1>2, <2>2
    <3>2. ASSUME t >= n * 6 PROVE given = n
      <4>1. n \in fits
        BY <3>1, <3>2
      <4>q. QED
        BY <1>2, <2>2, <3>1, <4>1
    <3>q. QED
      BY <3>1, <3>2
  <2>q. QED
    BY <2>1, <2>2
<1> HIDE DEF fits, given
<1>4. max \in 1..4
  BY DEF Failover!max_retries, Failover!Least
<1> HIDE DEF max
<1>5. tries \in 1..4
  <2>1. some \in SUBSET (0..4) /\ 1 \in some /\ 0 \notin some
    BY <1>4
  <2> HIDE DEF some
  <2>2. tries \in some
    BY <2>1, LargestProperty
  <2> HIDE DEF tries
  <2>3. tries \in 0..4 /\ tries # 0
    BY <2>1, <2>2
  <2>q. QED
    BY <2>3
<1> HIDE DEF some, tries, c
<1>6. CASE given = 0
  BY <1>1, <1>3, <1>6 DEF c
<1>7. CASE given # 0
  <2> DEFINE a == given * tries
             q == t \div a
  <2>1. given \in Nat \ {0} /\ tries \in Nat \ {0} /\ t \in Nat /\ t > 0
    BY <1>3, <1>5, <1>7
  <2>2. a \in Nat \ {0}
    BY <2>1, ProductBounds
  <2>3. q \in Nat /\ a * q <= t
    <3> HIDE DEF a
    <3>q. QED
      BY <2>1, <2>2, QuotientBound
  <2>4. c.nodes = given /\ c.wait = tries * q
    BY <1>1, <1>7
  <2>5. given * (tries * q) = a * q
    <3> HIDE DEF q
    <3>q. QED
      BY <2>1, <2>3
  <2> HIDE DEF a, q
  <2>6. tries * q \in Nat /\ tries * q <= given * (tries * q)
    BY <2>1, <2>3, ProductBounds
  <2>7. c.wait \in Nat /\ c.nodes * c.wait <= t /\ c.wait <= t
    <3>1. PICK w, p : w = tries * q /\ p = given * (tries * q)
      OBVIOUS
    <3>2. w \in Nat /\ w <= p /\ p <= t /\ p \in Int /\ a * q \in Int
      BY <2>1, <2>2, <2>3, <2>5, <2>6, <3>1
    <3>q. QED
      BY <2>1, <2>4, <3>1, <3>2
  <2>q. QED
    BY <1>3, <2>1, <2>4, <2>7 DEF c
<1>q. QED
  BY <1>6, <1>7

-----------------------------------------------------------------------------
(* A request to the servers *)

\* The server in use is on the list, but after a change of server, which only
\* the list of the pass knows.
FailoverInv ==
    /\ client \in Clients /\ clock \in Nat /\ uri \in Servers
    /\ machines \in Seq(Servers) /\ todo \in Seq(Servers) /\ passes \in Seq(Servers)
    /\ update \in BOOLEAN /\ failed \in BOOLEAN
    /\ count \in 0..Cardinality(Servers) /\ timeout \in 0..ReadTimeout
    /\ rpc \in {"start", "pass", "refresh", "reload", "retry", "ok", "error"}
    /\ Len(machines) \in 1..Cardinality(Servers)
    /\ Failover!Listed(todo) \subseteq Failover!Listed(passes)
    /\ rpc \in {"start", "pass", "retry"} => uri \in Failover!Listed(machines)
    /\ rpc = "refresh" => uri \in Failover!Listed(passes)
    /\ Failover!FailureIsRemembered

(***************************************************************************)
(* The request has one retry_timeout for the list, then one for the pass   *)
(* it is in, which is waited for to the end; only the list is read after.  *)
(***************************************************************************)
TimeInv ==
    /\ rpc = "start" => clock = 0
    /\ rpc = "pass" => clock + Len(todo) * timeout <= 2 * ReadTimeout
    /\ rpc = "refresh" => clock <= 2 * ReadTimeout
    /\ clock <= 3 * ReadTimeout

LEMMA FailoverTypes == FailoverInv => Failover!TypeOK
<1> SUFFICES ASSUME FailoverInv PROVE Failover!TypeOK
  OBVIOUS
<1>1. \A s \in Seq(Servers) : Failover!Listed(s) \subseteq Servers
  BY InUseListed
<1>2. Failover!Cardinality(Servers) = Cardinality(Servers)
  BY ServersCount
<1>3. /\ Failover!Listed(machines) \subseteq Servers /\ Failover!Listed(todo) \subseteq Servers
      /\ {update, failed} \subseteq BOOLEAN
  BY <1>1 DEF FailoverInv
<1>q. QED
  BY <1>2, <1>3 DEF FailoverInv, Failover!TypeOK

LEMMA FailoverInit == Failover!Init => FailoverInv /\ TimeInv
<1> SUFFICES ASSUME Failover!Init PROVE FailoverInv /\ TimeInv
  OBVIOUS
<1>1. /\ machines \in Seq(Servers) /\ Len(machines) \in 1..Cardinality(Servers)
      /\ uri \in Failover!Listed(machines)
  BY ListProperty DEF Failover!Init
<1>2. uri \in Servers
  BY <1>1, InUseListed
<1>3. /\ todo = <<>> /\ passes = <<>> /\ rpc = "start" /\ clock = 0 /\ count = 0
      /\ timeout = 0 /\ failed = FALSE /\ update \in BOOLEAN /\ client \in Clients
  BY DEF Failover!Init
<1>4. todo \in Seq(Servers) /\ passes \in Seq(Servers)
  BY <1>3
<1>5. count \in 0..Cardinality(Servers) /\ timeout \in 0..ReadTimeout
  BY <1>3, ClientsBounds, ServersCount
<1>6. Failover!Listed(todo) \subseteq Failover!Listed(passes)
  BY <1>3
<1>7. FailoverInv
  BY <1>1, <1>2, <1>3, <1>4, <1>5, <1>6 DEF FailoverInv, Failover!FailureIsRemembered
<1>8. TimeInv
  BY <1>3, ClientsBounds DEF TimeInv
<1>q. QED
  BY <1>7, <1>8

\* A list that is read, or that is not.
LEMMA AnswersKeep ==
    ASSUME FailoverInv, NEW spent, Failover!ListAnswers(spent)
    PROVE  /\ spent \in 0..ReadTimeout /\ clock' = clock + spent /\ clock' \in Nat
           /\ machines' \in Seq(Servers) /\ Len(machines') \in 1..Cardinality(Servers)
           /\ uri' \in Failover!Listed(machines)' /\ uri' \in Servers
<1>1. /\ spent \in 0..ReadTimeout /\ clock' = clock + spent
  BY DEF Failover!ListAnswers
<1>2. clock' \in Nat
  BY <1>1, ClientsBounds DEF FailoverInv
<1>3. PICK s \in Failover!Lists :
         machines' = s /\ uri' = IF uri \in Failover!Listed(s) THEN uri ELSE s[1]
  BY DEF Failover!ListAnswers
<1>4. s \in Seq(Servers) /\ Len(s) \in 1..Cardinality(Servers) /\ s[1] \in Failover!Listed(s)
  BY ListProperty
<1>5. uri' \in Failover!Listed(s)
  BY <1>3, <1>4
<1>6. uri' \in Servers
  BY <1>4, <1>5, InUseListed
<1>7. uri' \in Failover!Listed(machines)'
  BY <1>3, <1>5 DEF Failover!Listed
<1>q. QED
  BY <1>1, <1>2, <1>3, <1>4, <1>6, <1>7

LEMMA FailsKeep ==
    ASSUME FailoverInv, Failover!ListFails
    PROVE  /\ clock' = clock + ReadTimeout /\ clock' \in Nat
           /\ UNCHANGED <<machines, uri>>
BY ClientsBounds DEF FailoverInv, Failover!ListFails

\* The servers in the order of the next pass.
LEMMA CacheProperty ==
    ASSUME machines' \in Seq(Servers), uri' \in Failover!Listed(machines)'
    PROVE  /\ Failover!machines_cache' \in Seq(Servers)
           /\ Len(Failover!machines_cache') = Len(machines')
<1>1. PICK k, b : k = machines' /\ b = uri'
  OBVIOUS
<1>2. Failover!machines_cache' = Order(k, b)
  BY <1>1 DEF Failover!machines_cache, Order
<1>3. k \in Seq(Servers) /\ b \in Failover!Listed(k)
  BY <1>1 DEF Failover!Listed
<1>q. QED
  BY <1>1, <1>2, <1>3, OrderProperty

LEMMA StartKeeps ==
    ASSUME FailoverInv, Failover!start
    PROVE  /\ FailoverInv'
           /\ TimeInv /\ Cardinality(Servers) * 6 <= ReadTimeout => TimeInv'
<1>1. rpc = "start" /\ (Failover!start_Etcd \/ Failover!start_Kubernetes)
      /\ UNCHANGED <<client, failed>>
  BY DEF Failover!start
<1>2. /\ clock' \in clock..(clock + ReadTimeout)
      /\ machines' \in Seq(Servers) /\ Len(machines') \in 1..Cardinality(Servers)
      /\ uri' \in Failover!Listed(machines)' /\ uri' \in Servers
      /\ rpc' \in {"pass", "error"} /\ update' \in BOOLEAN
      /\ rpc' = "error" => update'
  <2>1. CASE Failover!ListLoads
    <3>1. PICK spent \in {0, ReadTimeout} : Failover!ListAnswers(spent)
      BY <2>1 DEF Failover!ListLoads
    <3>2. /\ spent \in 0..ReadTimeout /\ clock' = clock + spent
          /\ machines' \in Seq(Servers) /\ Len(machines') \in 1..Cardinality(Servers)
          /\ uri' \in Failover!Listed(machines)' /\ uri' \in Servers
      BY <3>1, AnswersKeep
    <3>3. clock' \in clock..(clock + ReadTimeout)
      BY <3>2, ClientsBounds DEF FailoverInv
    <3>4. rpc' = "pass" /\ update' = FALSE
      BY <2>1 DEF Failover!ListLoads
    <3>q. QED
      BY <3>2, <3>3, <3>4
  <2>2. CASE \/ Failover!ListFails
             \/ UNCHANGED <<clock, machines, uri>>
    <3>1. CASE ~Failover!ListLoads
      <4>1. /\ UNCHANGED <<machines, uri, update>> /\ rpc' \in {"pass", "error"}
            /\ rpc' = "error" => update
        BY <1>1, <3>1, FailsKeep DEF Failover!start_Etcd, Failover!start_Kubernetes
      <4>2. clock' \in clock..(clock + ReadTimeout)
        BY <2>2, FailsKeep, ClientsBounds DEF FailoverInv
      <4>3. uri \in Failover!Listed(machines)
        BY <1>1 DEF FailoverInv
      <4>4. uri' \in Failover!Listed(machines)'
        BY <4>1, <4>3 DEF Failover!Listed
      <4>q. QED
        BY <4>1, <4>2, <4>4 DEF FailoverInv
    <3>q. QED
      BY <2>1, <3>1
  <2>q. QED
    BY <1>1, <2>1, <2>2 DEF Failover!start_Etcd, Failover!start_Kubernetes
<1>3. PICK order : order = Failover!machines_cache'
  OBVIOUS
<1>4. /\ order \in Seq(Servers) /\ Len(order) = Len(machines')
  BY <1>2, <1>3, CacheProperty
<1>5. /\ passes' = order /\ todo' = order /\ count' = Len(order)
      /\ timeout' = Failover!calculate_timeouts(Len(order), ReadTimeout).wait
  BY <1>3 DEF Failover!start
<1>6. /\ Len(order) \in 1..Cardinality(Servers) /\ Len(order) \in Nat /\ ReadTimeout \in Nat
      /\ Cardinality(Servers) \in Nat
  BY <1>2, <1>4, ServersCount, ClientsBounds
<1>7. PICK c : c = Failover!calculate_timeouts(Len(order), ReadTimeout)
  OBVIOUS
<1>8. /\ c.nodes \in 0..Len(order) /\ c.wait \in Nat
      /\ c.nodes = 0 => c.wait = 0
      /\ c.nodes > 0 => c.nodes * c.wait <= ReadTimeout /\ c.wait <= ReadTimeout
      /\ ReadTimeout >= Len(order) * 6 => c.nodes = Len(order)
  <2>1. ReadTimeout \in Int
    BY <1>6
  <2>q. QED
    BY <1>6, <1>7, <2>1, TimeoutsProperty
<1>9. timeout' \in 0..ReadTimeout /\ count' \in 0..Cardinality(Servers)
  BY <1>5, <1>6, <1>7, <1>8
<1>10. Failover!Listed(todo)' \subseteq Failover!Listed(passes)'
  BY <1>5 DEF Failover!Listed
<1>11. FailoverInv'
  BY <1>1, <1>2, <1>4, <1>5, <1>9, <1>10, ClientsBounds
     DEF FailoverInv, Failover!FailureIsRemembered
<1>12. ASSUME TimeInv, Cardinality(Servers) * 6 <= ReadTimeout PROVE TimeInv'
  <2>1. clock = 0 /\ clock' \in 0..ReadTimeout
    BY <1>1, <1>2, <1>12, <1>6 DEF TimeInv
  <2>2. c.nodes = Len(order)
    BY <1>6, <1>8, <1>12
  <2>3. Len(todo') * timeout' <= ReadTimeout
    BY <1>5, <1>6, <1>7, <1>8, <2>2
  <2>4. PICK p : p = Len(todo') * timeout'
    OBVIOUS
  <2>5. Len(todo') \in Nat /\ timeout' \in Nat
    BY <1>4, <1>5, <1>6, <1>9
  <2>6. p \in Nat
    BY <2>4, <2>5, ProductBounds
  <2>7. clock' + p <= 2 * ReadTimeout /\ clock' <= 3 * ReadTimeout
    BY <1>6, <2>1, <2>3, <2>4, <2>6
  <2>q. QED
    BY <1>2, <2>4, <2>7 DEF TimeInv
<1>q. QED
  BY <1>11, <1>12

LEMMA TryKeeps ==
    ASSUME FailoverInv, Failover!try_Answers \/ Failover!try_Fails
    PROVE  FailoverInv' /\ (TimeInv => TimeInv')
<1>1. /\ rpc = "pass" /\ todo # <<>>
      /\ UNCHANGED <<client, machines, update, passes, count, timeout>>
  BY DEF Failover!try_Answers, Failover!try_Fails
<1>2. /\ Len(todo) \in Nat \ {0} /\ Tail(todo) \in Seq(Servers)
      /\ Len(Tail(todo)) = Len(todo) - 1 /\ todo[1] \in Servers
      /\ todo[1] \in Failover!Listed(todo)
      /\ Failover!Listed(Tail(todo)) \subseteq Failover!Listed(todo)
  <2>1. todo \in Seq(Servers)
    BY DEF FailoverInv
  <2>2. /\ Len(todo) \in Nat \ {0} /\ Tail(todo) \in Seq(Servers)
        /\ Len(Tail(todo)) = Len(todo) - 1
        /\ \A i \in 1..Len(Tail(todo)) : Tail(todo)[i] = todo[i + 1]
    BY <1>1, <2>1, HeadTailProperties, EmptySeq
  <2>3. DOMAIN todo = 1..Len(todo) /\ DOMAIN Tail(todo) = 1..Len(Tail(todo))
    BY <2>1, <2>2, LenProperties
  <2>4. \A i \in 1..Len(Tail(todo)) : i + 1 \in 1..Len(todo)
    BY <2>2
  <2>5. Failover!Listed(Tail(todo)) \subseteq Failover!Listed(todo)
    BY <2>2, <2>3, <2>4 DEF Failover!Listed
  <2>6. 1 \in 1..Len(todo)
    BY <2>2
  <2>7. todo[1] \in Servers /\ todo[1] \in Failover!Listed(todo)
    BY <2>1, <2>3, <2>6, ElementOfSeq DEF Failover!Listed
  <2>q. QED
    BY <2>2, <2>5, <2>7
<1>3. PICK p : p = Len(todo) * timeout
  OBVIOUS
<1>4. p \in Nat /\ timeout \in Nat /\ timeout <= p /\ clock \in Nat /\ ReadTimeout \in Nat
  <2>1. timeout \in Nat /\ clock \in Nat /\ ReadTimeout \in Nat
    BY ClientsBounds DEF FailoverInv
  <2>q. QED
    BY <1>2, <1>3, <2>1, ProductBounds
<1>5. TimeInv => clock + p <= 2 * ReadTimeout
  BY <1>1, <1>3 DEF TimeInv
<1>6. CASE Failover!try_Answers
  <2>1. /\ uri' = IF failed THEN todo[1] ELSE uri
        /\ rpc' = IF failed THEN "refresh" ELSE "ok"
        /\ UNCHANGED <<clock, todo, failed>>
    BY <1>6 DEF Failover!try_Answers
  <2>2. /\ uri' \in Servers
        /\ rpc' = "refresh" => uri' \in Failover!Listed(passes)
        /\ rpc' = "ok" => uri' \in Failover!Listed(machines)
    BY <1>1, <1>2, <2>1 DEF FailoverInv
  <2>3. FailoverInv'
    BY <1>1, <2>1, <2>2 DEF FailoverInv, Failover!FailureIsRemembered, Failover!Listed
  <2>4. TimeInv => TimeInv'
    BY <1>4, <1>5, <2>1 DEF TimeInv
  <2>q. QED
    BY <2>3, <2>4
<1>7. CASE Failover!try_Fails
  <2>1. /\ clock' \in {clock, clock + timeout} /\ todo' = Tail(todo) /\ failed' = TRUE
        /\ UNCHANGED <<uri, rpc>>
    BY <1>7 DEF Failover!try_Fails
  <2>2. clock' \in Nat /\ clock' <= clock + timeout
    BY <1>4, <2>1
  <2>3. /\ todo' \in Seq(Servers) /\ UNCHANGED <<Failover!Listed(machines), Failover!Listed(passes)>>
        /\ Failover!Listed(todo)' \subseteq Failover!Listed(passes)'
    BY <1>1, <1>2, <2>1 DEF FailoverInv, Failover!Listed
  <2>4. FailoverInv'
    BY <1>1, <2>1, <2>2, <2>3 DEF FailoverInv, Failover!FailureIsRemembered
  <2>5. ASSUME TimeInv PROVE TimeInv'
    <3>1. PICK r : r = Len(todo') * timeout'
      OBVIOUS
    <3>2. r = p - timeout
      <4>1. PICK n : n = Len(todo)
        OBVIOUS
      <4>2. r = (n - 1) * timeout /\ p = n * timeout /\ n \in Nat
        BY <1>1, <1>2, <1>3, <2>1, <3>1, <4>1
      <4>q. QED
        BY <1>4, <4>2
    <3>3. clock' + r <= 2 * ReadTimeout /\ clock' <= 3 * ReadTimeout
      <4>1. PICK x : x = clock'
        OBVIOUS
      <4>2. clock + p <= 2 * ReadTimeout
        BY <1>5, <2>5
      <4>3. x \in Nat /\ x <= clock + timeout
        BY <2>2, <4>1
      <4>4. x + r <= 2 * ReadTimeout /\ x <= 3 * ReadTimeout
        BY <1>4, <3>2, <4>2, <4>3
      <4>q. QED
        BY <4>1, <4>4
    <3>q. QED
      BY <1>1, <2>1, <3>1, <3>3 DEF TimeInv
  <2>q. QED
    BY <2>4, <2>5
<1>q. QED
  BY <1>6, <1>7

LEMMA RefreshKeeps ==
    ASSUME FailoverInv, Failover!refresh
    PROVE  FailoverInv' /\ (TimeInv => TimeInv')
<1>1. /\ rpc = "refresh" /\ rpc' = "ok"
      /\ Failover!ListAnswers(0) \/ Failover!ListFails
      /\ UNCHANGED <<client, update, todo, passes, count, timeout, failed>>
  BY DEF Failover!refresh
<1>2. /\ clock' \in Nat /\ clock' <= clock + ReadTimeout
      /\ machines' \in Seq(Servers) /\ Len(machines') \in 1..Cardinality(Servers)
      /\ uri' \in Servers
      /\ uri' \in Failover!Listed(machines)' \cup Failover!Listed(passes)'
  <2>1. CASE Failover!ListAnswers(0)
    BY <2>1, AnswersKeep, ClientsBounds DEF FailoverInv
  <2>2. CASE Failover!ListFails
    <3>1. uri \in Failover!Listed(passes) /\ UNCHANGED uri
      BY <1>1, <2>2, FailsKeep DEF FailoverInv
    <3>2. uri' \in Failover!Listed(passes)'
      BY <1>1, <3>1 DEF Failover!Listed
    <3>q. QED
      BY <2>2, <3>2, FailsKeep, ClientsBounds DEF FailoverInv
  <2>q. QED
    BY <1>1, <2>1, <2>2
<1>3. Failover!Listed(todo)' \subseteq Failover!Listed(passes)'
  BY <1>1 DEF FailoverInv, Failover!Listed
<1>4. FailoverInv'
  BY <1>1, <1>2, <1>3 DEF FailoverInv, Failover!FailureIsRemembered
<1>5. TimeInv => TimeInv'
  BY <1>1, <1>2, ClientsBounds DEF TimeInv, FailoverInv
<1>q. QED
  BY <1>4, <1>5

LEMMA ReloadServers ==
    ASSUME FailoverInv, Failover!reload
    PROVE  FailoverInv' /\ (TimeInv => TimeInv')
<1>1. /\ rpc = "pass" /\ todo = <<>> /\ rpc' = "retry"
      /\ UNCHANGED <<client, todo, timeout, failed>>
      /\ Failover!load_machines_cache \/ Failover!load_api_servers_cache
  BY DEF Failover!reload
<1>2. /\ clock' \in Nat /\ clock' <= clock + ReadTimeout /\ update' \in BOOLEAN
      /\ machines' \in Seq(Servers) /\ Len(machines') \in 1..Cardinality(Servers)
      /\ uri' \in Servers /\ uri' \in Failover!Listed(machines)'
      /\ passes' \in Seq(Servers) /\ count' \in 0..Cardinality(Servers)
  <2>0. uri \in Failover!Listed(machines) /\ clock \in Nat /\ ReadTimeout \in Nat
        /\ passes \in Seq(Servers) /\ count \in 0..Cardinality(Servers)
        /\ machines \in Seq(Servers) /\ Len(machines) \in 1..Cardinality(Servers)
        /\ uri \in Servers
    BY <1>1, ClientsBounds DEF FailoverInv
  <2>1. CASE /\ Failover!ListAnswers(0) /\ update' = FALSE
             /\ passes' = Failover!machines_cache'
             /\ count' = Len(machines') \/ UNCHANGED count
    <3>1. /\ clock' = clock + 0 /\ machines' \in Seq(Servers)
          /\ Len(machines') \in 1..Cardinality(Servers)
          /\ uri' \in Failover!Listed(machines)' /\ uri' \in Servers
      BY <2>1, AnswersKeep
    <3>2. passes' \in Seq(Servers)
      BY <2>1, <3>1, CacheProperty
    <3>3. count' \in 0..Cardinality(Servers)
      BY <2>0, <2>1, <3>1, ServersCount
    <3>4. clock' \in Nat /\ clock' <= clock + ReadTimeout
      BY <2>0, <3>1
    <3>q. QED
      BY <2>1, <3>1, <3>2, <3>3, <3>4
  <2>2. CASE /\ Failover!ListFails \/ UNCHANGED <<clock, machines, uri>>
             /\ UNCHANGED <<count, passes>> /\ update' \in BOOLEAN
    <3>1. UNCHANGED <<machines, uri>> /\ clock' \in Nat /\ clock' <= clock + ReadTimeout
      BY <2>0, <2>2, FailsKeep
    <3>2. uri' \in Failover!Listed(machines)'
      BY <2>0, <3>1 DEF Failover!Listed
    <3>q. QED
      BY <2>0, <2>2, <3>1, <3>2
  <2>q. QED
    BY <1>1, <2>1, <2>2 DEF Failover!load_machines_cache, Failover!load_api_servers_cache
<1>3. Failover!Listed(todo)' \subseteq Failover!Listed(passes)'
  BY <1>1 DEF Failover!Listed
<1>4. FailoverInv'
  BY <1>1, <1>2, <1>3 DEF FailoverInv, Failover!FailureIsRemembered
<1>5. ASSUME TimeInv PROVE TimeInv'
  <2>1. Len(todo) * timeout = 0
    <3>1. Len(todo) = 0 /\ timeout \in Nat
      BY <1>1, ClientsBounds DEF FailoverInv
    <3>q. QED
      BY <3>1
  <2>2. clock <= 2 * ReadTimeout /\ clock \in Nat /\ ReadTimeout \in Nat
    BY <1>1, <1>5, <2>1, ClientsBounds DEF TimeInv, FailoverInv
  <2>q. QED
    BY <1>1, <1>2, <2>2 DEF TimeInv
<1>q. QED
  BY <1>4, <1>5

LEMMA RetryKeeps ==
    ASSUME FailoverInv, Failover!retry
    PROVE  FailoverInv' /\ (TimeInv => TimeInv')
<1> DEFINE t == ReadTimeout - SleepTime - clock
<1>1. PICK c : c = Failover!calculate_timeouts(count, t)
  OBVIOUS
<1>2. /\ count \in Nat /\ t \in Int /\ clock \in Nat /\ ReadTimeout \in Nat /\ SleepTime \in Nat
      /\ passes \in Seq(Servers) /\ Len(passes) \in Nat
  BY ClientsBounds, ServersCount, LenProperties DEF FailoverInv
<1>3. /\ c.nodes \in 0..count /\ c.wait \in Nat
      /\ c.nodes > 0 => t > 0 /\ c.nodes * c.wait <= t /\ c.wait <= t
  <2> HIDE DEF t
  <2>q. QED
    BY <1>1, <1>2, TimeoutsProperty
<1>4. rpc = "retry" /\ uri \in Failover!Listed(machines)
      /\ UNCHANGED <<client, machines, uri, count, failed>>
  BY DEF Failover!retry, FailoverInv
<1>5. CASE c.nodes = 0
  <2>1. /\ update' = TRUE /\ rpc' = "error" /\ UNCHANGED <<clock, todo, passes, timeout>>
    BY <1>1, <1>5 DEF Failover!retry
  <2>2. FailoverInv'
    BY <1>4, <2>1 DEF FailoverInv, Failover!FailureIsRemembered, Failover!Listed
  <2>3. TimeInv => TimeInv'
    BY <2>1 DEF TimeInv
  <2>q. QED
    BY <2>2, <2>3
<1>6. CASE c.nodes > 0
  <2> DEFINE n == Failover!Least(c.nodes, Len(passes))
  <2>1. /\ clock' = clock + SleepTime /\ timeout' = c.wait
        /\ passes' = SubSeq(passes, 1, n) /\ todo' = passes'
        /\ rpc' = "pass" /\ UNCHANGED update
    BY <1>1, <1>6 DEF Failover!retry
  <2>2. n \in Nat /\ n <= c.nodes /\ n <= Len(passes)
    BY <1>2, <1>3 DEF Failover!Least
  <2> HIDE DEF n
  <2>3. passes' \in Seq(Servers) /\ Len(passes') = n
    <3>1. \A i \in 1..n : passes[i] \in Servers
      BY <1>2, <2>2, ElementOfSeq
    <3>2. n \in Int /\ 1 \in Int /\ Len(SubSeq(passes, 1, n)) = (IF 1 <= n THEN n - 1 + 1 ELSE 0)
          /\ SubSeq(passes, 1, n) \in Seq(Servers)
      BY <2>2, <3>1, SubSeqProperties
    <3>q. QED
      BY <2>1, <2>2, <3>2
  <2>4. /\ clock' \in Nat /\ timeout' \in 0..ReadTimeout
    BY <1>2, <1>3, <1>6, <2>1
  <2>5. /\ UNCHANGED Failover!Listed(machines)
        /\ Failover!Listed(todo)' \subseteq Failover!Listed(passes)'
    BY <1>4, <2>1 DEF Failover!Listed
  <2>6. FailoverInv'
    BY <1>4, <2>1, <2>3, <2>4, <2>5 DEF FailoverInv, Failover!FailureIsRemembered
  <2>7. TimeInv'
    <3>1. PICK p : p = Len(todo') * timeout'
      OBVIOUS
    <3>2. p = n * c.wait
      BY <2>1, <2>3, <3>1
    <3>3. p \in Nat /\ p <= t
      <4>1. PICK a, w, q : a = c.nodes /\ w = c.wait /\ q = c.nodes * c.wait
        OBVIOUS
      <4>2. a \in Nat /\ w \in Nat /\ q = a * w /\ q <= t /\ n <= a /\ n \in Nat /\ p = n * w
        BY <1>3, <1>6, <2>2, <3>2, <4>1, <1>2
      <4>3. n * w <= a * w /\ n * w \in Nat
        <5>1. PICK d : d = a - n
          OBVIOUS
        <5>2. d \in Nat /\ a = n + d
          BY <4>2, <5>1
        <5>3. a * w = n * w + d * w /\ d * w \in Nat /\ n * w \in Nat
          BY <4>2, <5>2
        <5>q. QED
          BY <5>3
      <4>q. QED
        BY <1>2, <4>2, <4>3
    <3>4. PICK x : x = clock'
      OBVIOUS
    <3>5. x + p <= 2 * ReadTimeout /\ x <= 3 * ReadTimeout
      <4>1. x = clock + SleepTime
        BY <2>1, <3>4
      <4>q. QED
        BY <1>2, <3>3, <4>1
    <3>q. QED
      BY <2>1, <3>1, <3>4, <3>5 DEF TimeInv
  <2>q. QED
    BY <2>6, <2>7
<1>q. QED
  BY <1>3, <1>2, <1>5, <1>6

LEMMA FailoverStep ==
    ASSUME FailoverInv, [Failover!Next]_failoverVars
    PROVE  /\ FailoverInv'
           /\ TimeInv /\ Cardinality(Servers) * 6 <= ReadTimeout => TimeInv'
<1>1. CASE UNCHANGED failoverVars
  BY <1>1 DEF FailoverInv, TimeInv, Failover!FailureIsRemembered, Failover!Listed,
     failoverVars
<1>2. CASE Failover!Done
  BY <1>2 DEF FailoverInv, TimeInv, Failover!FailureIsRemembered, Failover!Listed,
     Failover!Done, Failover!vars
<1>q. QED
  BY <1>1, <1>2, StartKeeps, TryKeeps, RefreshKeeps, ReloadServers, RetryKeeps
     DEF Failover!Next

-----------------------------------------------------------------------------
(* The clients of the DCS together *)

ClientsInv == MemberInv /\ WatchInv /\ Zoo!TypeOK /\ FailoverInv /\ NapInv

\* A step is one of a client, and leaves what belongs to the others alone.
LEMMA ClientsStep ==
    ASSUME [ClientsNext]_clientsVars
    PROVE  /\ [Member!Next]_memberVars /\ [Watch!Next]_watchVars /\ [Zoo!Next]_zooVars
           /\ [Failover!Next]_failoverVars /\ [Nap!Next]_napVars
<1>1. CASE InMember /\ Member!Next
  BY <1>1 DEF InMember
<1>2. CASE InWatch /\ Watch!Next
  BY <1>2 DEF InWatch
<1>3. CASE InZoo /\ Zoo!Next
  BY <1>3 DEF InZoo
<1>4. CASE InFailover /\ Failover!Next
  BY <1>4 DEF InFailover
<1>5. CASE InNap /\ Nap!Next
  BY <1>5 DEF InNap
<1>6. CASE UNCHANGED clientsVars
  BY <1>6 DEF clientsVars
<1>q. QED
  BY <1>1, <1>2, <1>3, <1>4, <1>5, <1>6 DEF ClientsNext

LEMMA ClientsInvariance == ClientsSpec => []ClientsInv
<1>1. ClientsInit => ClientsInv
  BY MemberInit, WatchInit, ZooInit, FailoverInit, NapInit DEF ClientsInit, ClientsInv
<1>2. ClientsInv /\ [ClientsNext]_clientsVars => ClientsInv'
  BY ClientsStep, MemberStep, WatchStep, ZooStep, FailoverStep, NapStep DEF ClientsInv
<1>q. QED
  BY <1>1, <1>2, PTL DEF ClientsSpec

(***************************************************************************)
(* The clients of the back ends, their caches and the loop that waits for  *)
(* them keep their variables within their types.                           *)
(***************************************************************************)
THEOREM ClientTypesHold == ClientsSpec => []ClientTypes
<1>1. ClientsInv => ClientTypes
  BY MemberTypes, FailoverTypes DEF ClientsInv, ClientTypes, WatchInv, NapInv
<1>q. QED
  BY <1>1, ClientsInvariance, PTL

(***************************************************************************)
(* KVCache and ObjectCache are never behind their stream, and the stream   *)
(* is never one of a server that set_base_uri has left, for any objects    *)
(* and any number of changes, breaks and moves; if no deletion overtakes   *)
(* the answer to the put before it.                                        *)
(***************************************************************************)
THEOREM CacheIsCurrentHolds ==
    ASSUME ~Overtaking PROVE ClientsSpec => []CacheIsCurrent
<1>1. ClientsInit => ObjectsInv
  BY WatchInit DEF ClientsInit
<1>2. ClientsInv /\ ObjectsInv /\ [ClientsNext]_clientsVars => ObjectsInv'
  BY ClientsStep, WatchStep DEF ClientsInv
<1>3. ClientsSpec => []ObjectsInv
  BY <1>1, <1>2, ClientsInvariance, PTL DEF ClientsSpec
<1>4. ClientsInv /\ ObjectsInv => CacheIsCurrent
  BY WatchSafe DEF ClientsInv, CacheIsCurrent
<1>q. QED
  BY <1>3, <1>4, ClientsInvariance, PTL

(***************************************************************************)
(* kill_stream and _do_watch: KVCache goes on to read a stream only if it  *)
(* is one of the server in use, or is about to be cut; this needs nothing  *)
(* of the order of answers and events.                                     *)
(***************************************************************************)
THEOREM StreamIsLeft == ClientsSpec => []Watch!StreamFollowsServer
<1>1. ClientsInv => Watch!StreamFollowsServer
  BY DEF ClientsInv, WatchInv, Watch!StreamFollowsServer, Followed
<1>q. QED
  BY <1>1, ClientsInvariance, PTL

(***************************************************************************)
(* api_execute and request: a request ends within three retry_timeouts, a  *)
(* failed one is remembered and a successful one leaves a server in use    *)
(* that is listed or has answered, for any cluster that retry_timeout has  *)
(* a second for each server of.                                            *)
(***************************************************************************)
THEOREM RequestIsBoundedHolds ==
    ASSUME Cardinality(Servers) * Failover!Second <= ReadTimeout
    PROVE  ClientsSpec => []RequestIsBounded
<1>1. Cardinality(Servers) * 6 <= ReadTimeout
  BY DEF Failover!Second
<1>2. ClientsInit => TimeInv
  BY FailoverInit DEF ClientsInit
<1>3. ClientsInv /\ TimeInv /\ [ClientsNext]_clientsVars => TimeInv'
  BY <1>1, ClientsStep, FailoverStep DEF ClientsInv
<1>4. ClientsSpec => []TimeInv
  BY <1>2, <1>3, ClientsInvariance, PTL DEF ClientsSpec
<1>5. ClientsInv /\ TimeInv => RequestIsBounded
  BY DEF ClientsInv, FailoverInv, TimeInv, RequestIsBounded, Failover!RequestIsBounded
<1>q. QED
  BY <1>4, <1>5, ClientsInvariance, PTL

(***************************************************************************)
(* api_execute and _update_machines_cache: after a request that has failed *)
(* the next one starts with the configured servers, one that has succeeded *)
(* leaves a server in use that is listed or has answered; in any cluster.  *)
(***************************************************************************)
THEOREM FailureIsRememberedHolds == ClientsSpec => []Failover!FailureIsRemembered
<1>1. ClientsInv => Failover!FailureIsRemembered
  BY DEF ClientsInv, FailoverInv
<1>q. QED
  BY <1>1, ClientsInvariance, PTL

(***************************************************************************)
(* AbstractDCS.watch and its overrides: the loop sleeps until its timeout  *)
(* only if no thread has called wakeup since the cluster was loaded and    *)
(* before the sleep, and the leader key it waits for has not changed.      *)
(***************************************************************************)
THEOREM NothingIsMissedHolds == ClientsSpec => Nap!NothingIsMissed
<1>1. ClientsInv /\ [ClientsNext]_clientsVars =>
         [Nap!TimesOut => IF npc = "leader" THEN leaderRev = viewRev
                          ELSE /\ ~early
                               /\ store = "event" => leaderRev = viewRev]_(Nap!vars)
  BY NapSafe DEF ClientsInv
<1>2. ClientsSpec => [][ClientsNext]_clientsVars
  BY PTL DEF ClientsSpec
<1>q. QED
  BY <1>1, <1>2, ClientsInvariance, PTL DEF Nap!NothingIsMissed

============================================================================
