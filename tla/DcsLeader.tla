------------------------------ MODULE DcsLeader ------------------------------
(***************************************************************************)
(* The leader key in the six back ends of patroni/dcs: how each of them    *)
(* creates, renews, deletes and expires it, and what it tells the HA loop. *)
(* The servers (etcd, Consul, ZooKeeper, the Kubernetes API, the Raft log) *)
(* are modelled by what the clients rely on.                               *)
(*                                                                         *)
(*   etcd        the key has a ttl, writes compare the previous value;     *)
(*   raft        the same on a replicated log, read from a local copy;     *)
(*   etcd3       the key hangs on a lease, read from a local cache;        *)
(*   consul      the key is locked by a session;                           *)
(*   zookeeper   the key is an ephemeral node of the client's session;     *)
(*   kubernetes  the key never goes away: the others take it over when     *)
(*               they have seen it unchanged for ttl seconds, and every    *)
(*               write compares the resource version.                      *)
(***************************************************************************)
EXTENDS Integers, FiniteSets

CONSTANTS
    Nodes, None,
    Backends,     \* the back ends of this instance
    Faults,       \* what may happen with each back end, see FaultKinds
    MaxIndex,     \* bound on the number of writes of the leader key
    MaxSessions,  \* bound on the number of sessions or leases
    MaxFaults     \* bound on the number of faults

AllBackends == {"etcd", "raft", "etcd3", "consul", "zookeeper", "kubernetes"}
Sessional == {"etcd3", "consul", "zookeeper"}
Cached == {"raft", "etcd3", "kubernetes"}

(***************************************************************************)
(*   "lapse"    a node that lives is too slow to renew in time;            *)
(*   "restart"  Patroni is restarted on a node;                            *)
(*   "ttl"      the dynamic configuration changes ttl;                     *)
(*   "lost"     the answer to a write is lost.                             *)
(***************************************************************************)
FaultKinds == {"lapse", "restart", "ttl", "lost"}

ASSUME DcsAssumption ==
    /\ None \notin Nodes
    /\ Backends \subseteq AllBackends
    /\ Faults \in [AllBackends -> SUBSET FaultKinds]
    /\ MaxIndex \in Nat /\ MaxSessions \in Nat /\ MaxFaults \in Nat

VARIABLES
    backend,   \* the one in use
    key,       \* the leader key on the server
    sessions,  \* the number of sessions ever created
    live,      \* those the server knows
    late,      \* the sessions that were not renewed for ttl seconds, with 0
               \* for the ttl of the key itself
    limb,      \* raft: the value whose expiry is in the log, or 0
    cache,     \* what each client's cache or local log says of the key
    mine,      \* the session or lease each client holds; with kubernetes the
               \* resource version a second attempt is made with
    view,      \* AbstractDCS._cluster.leader of each client
    aged,      \* kubernetes: the record seen unchanged for ttl seconds
    pc,        \* the call each HA loop is in
    told,      \* the answer of the last acquire or update of the cycle
    faults

vars == <<backend, key, sessions, live, late, limb, cache, mine, view, aged,
          pc, told, faults>>
serverVars == <<key, sessions, live, late, limb>>
clientVars == <<cache, mine, view, aged>>

PCs == {"idle", "disown", "touch", "decide", "acquire", "update", "take",
        "fallback", "reread", "again", "delete", "set_ttl"}
Records == [owner : Nodes \cup {None}, session : 0..MaxSessions,
            index : 0..MaxIndex]
NoKey == [owner |-> None, session |-> 0, index |-> 0]

TypeOK ==
    /\ backend \in Backends
    /\ key \in Records
    /\ sessions \in 0..MaxSessions
    /\ live \subseteq 1..MaxSessions
    /\ late \subseteq 0..MaxSessions
    /\ limb \in 0..MaxIndex
    /\ cache \in [Nodes -> Records]
    /\ mine \in [Nodes -> 0..(MaxSessions + MaxIndex)]
    /\ view \in [Nodes -> Records]
    /\ aged \in [Nodes -> 0..MaxIndex]
    /\ pc \in [Nodes -> PCs]
    /\ told \in [Nodes -> {"none", "yes", "no"}]
    /\ faults \in 0..MaxFaults

Init ==
    /\ backend \in Backends
    /\ key = NoKey
    /\ sessions = 0 /\ live = {} /\ late = {} /\ limb = 0
    /\ cache = [n \in Nodes |-> NoKey]
    /\ mine = [n \in Nodes |-> 0]
    /\ view = [n \in Nodes |-> NoKey]
    /\ aged = [n \in Nodes |-> 0]
    /\ pc = [n \in Nodes |-> "idle"]
    /\ told = [n \in Nodes |-> "none"]
    /\ faults = 0

-----------------------------------------------------------------------------
(* What the servers do *)

Fault(kind) ==
    /\ kind \in Faults[backend]
    /\ faults < MaxFaults
    /\ faults' = faults + 1

\* A write of the key: a new revision; the ttl of the key starts again.
Write(n, s) ==
    /\ key.index < MaxIndex
    /\ key' = [owner |-> n, session |-> s, index |-> key.index + 1]
    /\ late' = late \ {0}

Keep == UNCHANGED <<key, late>>

\* A plausible bug: the call is repeated although it has succeeded.
NewSession_Twice(n) ==
    /\ sessions < MaxSessions
    /\ sessions' = sessions + 2
    /\ live' = live \cup {sessions + 1, sessions + 2}
    /\ mine' = [mine EXCEPT ![n] = sessions + 2]

\* A new session or lease for n; its ttl starts now.
NewSession(n) ==
    /\ sessions < MaxSessions
    /\ sessions' = sessions + 1
    /\ live' = live \cup {sessions + 1}
    /\ mine' = [mine EXCEPT ![n] = sessions + 1]

Goto(n, step) == pc' = [pc EXCEPT ![n] = step]

(***************************************************************************)
(* The answer of a write reaches the client, or is lost: then the client   *)
(* repeats the call (Retry, api_execute) or gives it up at its deadline.   *)
(***************************************************************************)
Answer(n, a) ==
    \/ /\ told' = [told EXCEPT ![n] = a]
       /\ Goto(n, "idle")
       /\ UNCHANGED faults
    \/ /\ Fault("lost")
       /\ UNCHANGED <<told, pc>>
    \/ /\ Fault("lost")
       /\ told' = [told EXCEPT ![n] = "no"]
       /\ Goto(n, "idle")

(***************************************************************************)
(* ttl seconds go by without a renewal: of a session nobody holds any more *)
(* or whose holder is too slow; of the key.                                *)
(***************************************************************************)
TtlPasses(s) ==
    /\ s \in IF backend \in Sessional THEN live ELSE {0}
    /\ s \notin late
    /\ s = 0 => key.owner # None
    /\ \/ /\ s > 0 /\ \A n \in Nodes : mine[n] # s
          /\ UNCHANGED faults
       \/ Fault("lapse")
    /\ late' = late \cup {s}
    /\ UNCHANGED <<backend, key, sessions, live, limb, clientVars, pc, told>>

\* The server removes an expired session with its key, or the expired key.
Expire(s) ==
    /\ s \in late
    /\ backend \in Sessional \cup {"etcd"}
    /\ s = 0 \/ s \in live
    /\ live' = live \ {s}
    /\ IF key.owner # None /\ key.session = s THEN Write(None, 0) ELSE Keep
    /\ UNCHANGED <<backend, sessions, limb, clientVars, pc, told, faults>>

(***************************************************************************)
(* KVStoreTTL.__expire_keys on the leader of the log: the record that is   *)
(* over its ttl goes to limb and _expire to the log.                       *)
(***************************************************************************)
expire_keys ==
    /\ backend = "raft"
    /\ 0 \in late /\ key.owner # None
    /\ limb # key.index
    /\ limb' = key.index
    /\ UNCHANGED <<backend, key, sessions, live, late, clientVars, pc, told,
                   faults>>

\* A plausible bug: the entry removes whatever the key holds by now.
expire_Anything ==
    /\ limb > 0
    /\ limb' = 0
    /\ IF key.owner # None THEN Write(None, 0) ELSE Keep
    /\ UNCHANGED <<backend, sessions, live, clientVars, pc, told, faults>>

(***************************************************************************)
(* KVStoreTTL._expire is applied: it removes the key only if it still has  *)
(* the value that had expired.                                             *)
(***************************************************************************)
expire ==
    /\ limb > 0
    /\ limb' = 0
    /\ IF key.owner # None /\ key.index = limb THEN Write(None, 0) ELSE Keep
    /\ UNCHANGED <<backend, sessions, live, clientVars, pc, told, faults>>

\* The watch stream or the log brings n's copy up to date.
Deliver(n) ==
    /\ backend \in Cached
    /\ cache[n] # key
    /\ cache' = [cache EXCEPT ![n] = key]
    /\ UNCHANGED <<backend, serverVars, mine, view, aged, pc, told, faults>>

-----------------------------------------------------------------------------
(* One HA cycle: get_cluster, touch_member, then one call on the key *)

Loaded(n, record) ==
    /\ view' = [view EXCEPT ![n] = record]
    /\ told' = [told EXCEPT ![n] = "none"]

etcd_load_cluster(n) ==
    /\ backend = "etcd"
    /\ Loaded(n, key)
    /\ Goto(n, "touch")

etcd3_load_cluster(n) ==
    /\ backend = "etcd3"
    /\ Loaded(n, cache[n])
    /\ Goto(n, "touch")

raft_load_cluster(n) ==
    /\ backend = "raft"
    /\ Loaded(n, cache[n])
    /\ Goto(n, "touch")

\* The key has this node's name and another session: remove it.
consul_load_cluster(n) ==
    /\ backend = "consul"
    /\ Loaded(n, key)
    /\ Goto(n, IF key.owner = n /\ key.session # mine[n]
               THEN "disown" ELSE "touch")

\* From the server, or the last result while no watch has fired.
zookeeper_load_cluster(n) ==
    /\ backend = "zookeeper"
    /\ \/ /\ Loaded(n, key)
          /\ Goto(n, IF key.owner = n /\ mine[n] # 0 /\ key.session # mine[n]
                     THEN "disown" ELSE "touch")
       \/ /\ Loaded(n, view[n])
          /\ Goto(n, "touch")

\* A record that has not changed for ttl seconds has no leader.
kubernetes_load_cluster(n) ==
    /\ backend = "kubernetes"
    /\ Loaded(n, IF aged[n] > 0 /\ aged[n] = cache[n].index
                 THEN [cache[n] EXCEPT !.owner = None] ELSE cache[n])
    /\ Goto(n, "touch")

get_cluster(n) ==
    /\ pc[n] = "idle"
    /\ \/ etcd_load_cluster(n) \/ etcd3_load_cluster(n) \/ raft_load_cluster(n)
       \/ consul_load_cluster(n) \/ zookeeper_load_cluster(n)
       \/ kubernetes_load_cluster(n)
    /\ UNCHANGED <<backend, serverVars, cache, mine, aged, faults>>

(***************************************************************************)
(* Kubernetes: ttl seconds after n first saw its record.  If the record is *)
(* still the current one, its owner has not renewed it for as long.        *)
(***************************************************************************)
Age(n) ==
    /\ backend = "kubernetes"
    /\ view[n].index > 0 /\ aged[n] # view[n].index
    /\ view[n].index = key.index => 0 \in late \/ key.owner = None
    /\ aged' = [aged EXCEPT ![n] = view[n].index]
    /\ UNCHANGED <<backend, serverVars, cache, mine, view, pc, told, faults>>

\* "I am leader but not owner of the session. Removing leader node":
\* Consul compares the index, ZooKeeper nothing.
disown(n) ==
    /\ pc[n] = "disown"
    /\ IF key.owner # None /\ (backend = "consul" => key.index = view[n].index)
       THEN Write(None, 0) ELSE Keep
    /\ view' = [view EXCEPT ![n].owner = None]
    /\ Goto(n, "touch")
    /\ UNCHANGED <<backend, sessions, live, limb, cache, mine, aged, told,
                   faults>>

(***************************************************************************)
(* refresh_lease and refresh_session, called by touch_member: nothing      *)
(* within loop_wait of the last one; a renewal; or a new session when      *)
(* there is none or the server no longer knows it.                         *)
(***************************************************************************)
refresh_session(n) ==
    \/ /\ mine[n] # 0
       /\ UNCHANGED <<sessions, live, mine, late>>
    \/ /\ mine[n] \in live
       /\ late' = late \ {mine[n]}
       /\ UNCHANGED <<sessions, live, mine>>
    \/ /\ mine[n] \notin live
       /\ NewSession(n)
       /\ UNCHANGED late

touch_member(n) ==
    /\ pc[n] = "touch"
    /\ IF backend \in {"etcd3", "consul"} THEN refresh_session(n)
       ELSE UNCHANGED <<sessions, live, mine, late>>
    /\ Goto(n, "decide")
    /\ UNCHANGED <<backend, key, limb, cache, view, aged, told, faults>>

\* Kazoo's own thread: heartbeats, and a new session when the old one is gone.
kazoo(n) ==
    /\ backend = "zookeeper"
    /\ \/ /\ mine[n] \in live \cap late
          /\ late' = late \ {mine[n]}
          /\ UNCHANGED <<sessions, live, mine>>
       \/ /\ mine[n] \notin live
          /\ NewSession(n)
          /\ UNCHANGED late
    /\ UNCHANGED <<backend, key, limb, cache, view, aged, pc, told, faults>>

\* The HA loop: the leader renews or gives up, the others run for the key.
decide(n) ==
    /\ pc[n] = "decide"
    /\ \/ view[n].owner = n /\ (Goto(n, "update") \/ Goto(n, "delete"))
       \/ view[n].owner = None /\ (Goto(n, "acquire") \/ Goto(n, "idle"))
       \/ view[n].owner \notin {n, None} /\ Goto(n, "idle")
    /\ UNCHANGED <<backend, serverVars, clientVars, told, faults>>

-----------------------------------------------------------------------------
(* attempt_to_acquire_leader *)

SameSession == UNCHANGED <<sessions, live, mine>>

\* A plausible bug: a key that exists already is taken for one's own.
etcd_attempt_to_acquire_leader_AlreadyExist(n) ==
    /\ backend = "etcd"
    /\ IF key.owner = None THEN Write(n, 0) ELSE Keep
    /\ Answer(n, "yes")
    /\ SameSession /\ UNCHANGED cache

\* A write with prevExist=False.
etcd_attempt_to_acquire_leader(n) ==
    /\ backend = "etcd"
    /\ IF key.owner = None THEN Write(n, 0) /\ Answer(n, "yes")
                           ELSE Keep /\ Answer(n, "no")
    /\ SameSession /\ UNCHANGED cache

\* KVStoreTTL.set: the requirement is checked on the local copy first.
raft_attempt_to_acquire_leader(n) ==
    /\ backend = "raft"
    /\ IF cache[n].owner = None /\ key.owner = None
       THEN Write(n, 0) /\ Answer(n, "yes")
       ELSE Keep /\ Answer(n, "no")
    /\ SameSession /\ UNCHANGED cache

\* put with create_revision 0; a lease that has disappeared is replaced.
etcd3_attempt_to_acquire_leader(n) ==
    /\ backend = "etcd3"
    /\ \/ /\ key.owner # None
          /\ Keep /\ Answer(n, "no") /\ SameSession
       \/ /\ key.owner = None /\ mine[n] \in live
          /\ Write(n, mine[n]) /\ Answer(n, "yes") /\ SameSession
       \/ /\ key.owner = None /\ mine[n] \notin live
          /\ NewSession(n) /\ Keep /\ UNCHANGED <<told, pc, faults>>
    /\ UNCHANGED cache

\* put ?acquire=session; a session that has disappeared is replaced.
consul_attempt_to_acquire_leader(n) ==
    /\ backend = "consul"
    /\ \/ /\ mine[n] \in live /\ key.owner # None /\ key.session # mine[n]
          /\ Keep /\ Answer(n, "no") /\ SameSession
       \/ /\ mine[n] \in live /\ (key.owner = None \/ key.session = mine[n])
          /\ Write(n, mine[n]) /\ Answer(n, "yes") /\ SameSession
       \/ /\ mine[n] \notin live
          /\ NewSession(n) /\ Keep /\ UNCHANGED <<told, pc, faults>>
    /\ UNCHANGED cache

\* An ephemeral node of the client's session.
zookeeper_attempt_to_acquire_leader(n) ==
    /\ backend = "zookeeper"
    /\ IF key.owner = None /\ mine[n] \in live
       THEN Write(n, mine[n]) /\ Answer(n, "yes")
       ELSE Keep /\ Answer(n, "no")
    /\ SameSession /\ UNCHANGED cache

\* The object that Kubernetes returned goes to the cache.
CacheAnswer(n) ==
    cache' = IF told'[n] = "yes" THEN [cache EXCEPT ![n] = key'] ELSE cache

\* _patch_or_create with the resource version of the record that was judged.
kubernetes_attempt_to_acquire_leader(n) ==
    /\ backend = "kubernetes"
    /\ IF key.index = view[n].index
       THEN Write(n, 0) /\ Answer(n, "yes") /\ CacheAnswer(n)
       ELSE Keep /\ Answer(n, "no") /\ UNCHANGED cache
    /\ SameSession

attempt_to_acquire_leader(n) ==
    /\ pc[n] = "acquire"
    /\ \/ etcd_attempt_to_acquire_leader(n) \/ raft_attempt_to_acquire_leader(n)
       \/ etcd3_attempt_to_acquire_leader(n)
       \/ consul_attempt_to_acquire_leader(n)
       \/ zookeeper_attempt_to_acquire_leader(n)
       \/ kubernetes_attempt_to_acquire_leader(n)
    /\ UNCHANGED <<backend, limb, view, aged>>

-----------------------------------------------------------------------------
(* update_leader *)

\* A write with prevValue=name.
etcd_update_leader(n) ==
    /\ backend = "etcd"
    /\ IF key.owner = n THEN Write(n, 0) /\ Answer(n, "yes")
                        ELSE Keep /\ Answer(n, "no")
    /\ SameSession /\ UNCHANGED cache

\* The same through the log; when it fails, see raft_fallback.
raft_update_leader(n) ==
    /\ backend = "raft"
    /\ IF cache[n].owner = n /\ key.owner = n
       THEN Write(n, 0) /\ Answer(n, "yes")
       ELSE Keep /\ Goto(n, "fallback") /\ UNCHANGED <<told, faults>>
    /\ SameSession /\ UNCHANGED cache

\* A lease is granted if there is none; the answer to a keepalive for a lease
\* that has expired changes nothing.
etcd3_update_leader(n) ==
    /\ backend = "etcd3"
    /\ \/ mine[n] = 0 /\ NewSession(n) /\ UNCHANGED late
       \/ /\ mine[n] # 0 /\ SameSession
          /\ late' = IF mine[n] \in live THEN late \ {mine[n]} ELSE late
    /\ Goto(n, "take")
    /\ UNCHANGED <<key, cache, told, faults>>

\* session.renew; NotFound is an error.
consul_update_leader(n) ==
    /\ backend = "consul"
    /\ IF mine[n] \in live
       THEN late' = late \ {mine[n]} /\ UNCHANGED key /\ Answer(n, "yes")
       ELSE Keep /\ Answer(n, "no")
    /\ SameSession /\ UNCHANGED cache

\* Nothing is sent.
zookeeper_update_leader(n) ==
    /\ backend = "zookeeper"
    /\ told' = [told EXCEPT ![n] = "yes"]
    /\ Goto(n, "idle")
    /\ Keep /\ SameSession /\ UNCHANGED <<cache, faults>>

\* A patch of the cached resource version; a conflict is looked into.
kubernetes_update_leader(n) ==
    /\ backend = "kubernetes"
    /\ \/ /\ cache[n].index > 0 /\ cache[n].owner # n
          /\ Keep /\ Answer(n, "no") /\ UNCHANGED cache
       \/ /\ cache[n].index = 0 \/ cache[n].owner = n
          /\ IF cache[n].index = key.index
             THEN Write(n, 0) /\ Answer(n, "yes") /\ CacheAnswer(n)
             ELSE /\ Keep /\ Goto(n, "reread")
                  /\ UNCHANGED <<told, faults, cache>>
    /\ SameSession

update_leader(n) ==
    /\ pc[n] = "update"
    /\ \/ etcd_update_leader(n) \/ raft_update_leader(n) \/ etcd3_update_leader(n)
       \/ consul_update_leader(n) \/ zookeeper_update_leader(n)
       \/ kubernetes_update_leader(n)
    /\ UNCHANGED <<backend, limb, view, aged>>

\* Raft._update_leader: the key has gone from the local copy: acquire it.
raft_fallback(n) ==
    /\ pc[n] = "fallback"
    /\ \/ /\ cache[n].owner = None
          /\ Goto(n, "acquire")
          /\ UNCHANGED told
       \/ /\ cache[n].owner # None
          /\ told' = [told EXCEPT ![n] = "no"]
          /\ Goto(n, "idle")
    /\ UNCHANGED <<backend, serverVars, clientVars, faults>>

(***************************************************************************)
(* Etcd3.take_leader, from _update_leader when the cached leader has not   *)
(* this lease: put, without a comparison; that it failed is not looked at. *)
(***************************************************************************)
etcd3_take_leader(n) ==
    /\ pc[n] = "take"
    /\ IF view[n].session # mine[n] /\ mine[n] \in live
       THEN Write(n, mine[n]) ELSE Keep
    /\ Answer(n, "yes")
    /\ UNCHANGED <<backend, sessions, live, limb, clientVars>>

\* _update_leader_with_retry: read the object itself.
kubernetes_reread(n) ==
    /\ pc[n] = "reread"
    /\ cache' = [cache EXCEPT ![n] = key]
    /\ \/ /\ key.owner # n
          /\ told' = [told EXCEPT ![n] = "no"]
          /\ Goto(n, "idle")
          /\ UNCHANGED mine
       \/ /\ key.owner = n
          /\ mine' = [mine EXCEPT ![n] = key.index]
          /\ Goto(n, "again")
          /\ UNCHANGED told
    /\ UNCHANGED <<backend, serverVars, view, aged, faults>>

\* ... and try once more with its resource version.
kubernetes_again(n) ==
    /\ pc[n] = "again"
    /\ IF key.index = mine[n]
       THEN Write(n, 0) /\ Answer(n, "yes") /\ CacheAnswer(n)
       ELSE Keep /\ Answer(n, "no") /\ UNCHANGED cache
    /\ UNCHANGED <<backend, sessions, live, limb, mine, view, aged>>

-----------------------------------------------------------------------------
(* delete_leader *)

\* Each deletes the key only if it is n's: by value, by the index that the
\* cycle has loaded, or by the cached resource version.
etcd_delete_leader(n) == backend = "etcd" /\ key.owner = n

raft_delete_leader(n) == backend = "raft" /\ cache[n].owner = n /\ key.owner = n

etcd3_delete_leader(n) == backend = "etcd3" /\ key.index = view[n].index

consul_delete_leader(n) == backend = "consul" /\ key.index = view[n].index

kubernetes_delete_leader(n) ==
    /\ backend = "kubernetes"
    /\ cache[n].owner = n /\ cache[n].index = key.index

delete_leader(n) ==
    /\ pc[n] = "delete"
    /\ backend # "zookeeper"
    /\ IF key.owner # None /\ (etcd_delete_leader(n) \/ raft_delete_leader(n)
             \/ etcd3_delete_leader(n) \/ consul_delete_leader(n)
             \/ kubernetes_delete_leader(n))
       THEN Write(None, 0) ELSE Keep
    /\ Goto(n, "idle")
    /\ UNCHANGED <<backend, sessions, live, limb, clientVars, told, faults>>

\* client.restart(): the session is closed and its ephemeral nodes go.
zookeeper_restart(n) ==
    /\ live' = live \ {mine[n]}
    /\ IF key.owner # None /\ key.session = mine[n]
       THEN Write(None, 0) ELSE Keep
    /\ mine' = [mine EXCEPT ![n] = 0]

zookeeper_delete_leader(n) ==
    /\ pc[n] = "delete"
    /\ backend = "zookeeper"
    /\ zookeeper_restart(n)
    /\ Goto(n, "idle")
    /\ UNCHANGED <<backend, sessions, limb, cache, view, aged, told, faults>>

-----------------------------------------------------------------------------
(* The ttl is changed, the process is restarted *)

reload_config(n) ==
    /\ pc[n] = "idle" /\ backend \in Sessional
    /\ Fault("ttl")
    /\ Goto(n, "set_ttl")
    /\ UNCHANGED <<backend, serverVars, clientVars, told>>

\* etcd3 and Consul forget their session, ZooKeeper closes it.
set_ttl(n) ==
    /\ pc[n] = "set_ttl"
    /\ IF backend = "zookeeper" THEN zookeeper_restart(n)
       ELSE mine' = [mine EXCEPT ![n] = 0] /\ Keep /\ UNCHANGED live
    /\ Goto(n, "idle")
    /\ UNCHANGED <<backend, sessions, limb, cache, view, aged, told, faults>>

Restart(n) ==
    /\ Fault("restart")
    /\ Goto(n, "idle")
    /\ mine' = [mine EXCEPT ![n] = 0]
    /\ view' = [view EXCEPT ![n] = NoKey]
    /\ aged' = [aged EXCEPT ![n] = 0]
    /\ told' = [told EXCEPT ![n] = "none"]
    /\ UNCHANGED <<backend, serverVars, cache>>

Client(n) ==
    \/ get_cluster(n) \/ disown(n) \/ touch_member(n) \/ kazoo(n) \/ decide(n)
    \/ attempt_to_acquire_leader(n) \/ update_leader(n) \/ raft_fallback(n)
    \/ etcd3_take_leader(n) \/ kubernetes_reread(n) \/ kubernetes_again(n)
    \/ delete_leader(n) \/ zookeeper_delete_leader(n) \/ reload_config(n)
    \/ set_ttl(n) \/ Restart(n)

Next ==
    \/ \E n \in Nodes : Client(n) \/ Deliver(n) \/ Age(n)
    \/ \E s \in 0..MaxSessions : TtlPasses(s) \/ Expire(s)
    \/ expire_keys
    \/ expire

Spec == Init /\ [][Next]_vars

\* The HA loops go on.
FairSpec == Spec /\ \A n \in Nodes : WF_vars(Client(n))

-----------------------------------------------------------------------------
(* Properties *)

(***************************************************************************)
(* Every back end implements the contract of AbstractDCS: no step takes    *)
(* the key away from a node that has renewed it in time and has not asked  *)
(* for its removal, not even a late expiry, a repeated write or a node     *)
(* that acts on an old view.                                               *)
(***************************************************************************)
lapsed ==
    /\ key.owner # None
    /\ IF backend \in Sessional THEN key.session \in late ELSE 0 \in late

Abstract == INSTANCE LeaderKey WITH
    owner <- key.owner,
    lapsed <- lapsed,
    releasing <- {n \in Nodes : pc[n] \in {"delete", "disown", "set_ttl"}}

Contract == Abstract!Spec

(***************************************************************************)
(* A node that is told that it has acquired the leader key owns it at that *)
(* moment, and so does one that is told by a back end with compare-and-    *)
(* swap that it has renewed it.  The other three renew a session only: it  *)
(* may be a new one (touch_member has replaced the one that expired since  *)
(* the cycle was loaded), etcd3 does not look at the answers of keepalive  *)
(* and put, and ZooKeeper sends nothing.                                   *)
(***************************************************************************)
YesMeansOwner ==
    [][\A n \in Nodes :
         /\ told[n] # "yes" /\ told'[n] = "yes"
         /\ pc[n] = "acquire" \/ backend \notin Sessional
         => key'.owner = n]_vars

=============================================================================
