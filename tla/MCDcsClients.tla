---------------------------- MODULE MCDcsClients ----------------------------
(***************************************************************************)
(* The parts of the DCS clients that share no state with each other, in    *)
(* one run: component names the one that this behaviour is about.          *)
(***************************************************************************)
EXTENDS Integers, Sequences, FiniteSets

CONSTANTS
    MemberBackends, Sessions, MaxChanges, MemberFaults,     \* MemberKey
    Keys, Kinds, Overtaking, MaxRev, MaxBreaks, MaxMoves,   \* WatchCache
    MaxVersion,                                             \* ZooKeeperCache
    Servers, Clients, ReadTimeout, SleepTime,               \* ServerFailover
    Stores, MaxLeaderRev                                    \* LoopWatch

ASSUME ClientsAssumption ==
    /\ {MaxChanges, MemberFaults, MaxRev, MaxBreaks, MaxMoves, MaxLeaderRev} \subseteq Nat
    /\ MaxVersion \in Nat \ {0}
    /\ MemberBackends \subseteq
          {"etcd", "etcd3", "raft", "consul", "zookeeper", "kubernetes"}
    /\ 1 \in Sessions
    /\ IsFiniteSet(Servers) /\ Servers # {}
    /\ {ReadTimeout, SleepTime} \subseteq Nat

VARIABLES
    component,
    memberBackend, node, session, alive, memberKey, own, leads, peer, stale,
    service, lastResult, blind, step, snap, changes, memberFaults,
    kind, log, objects, ready, tpc, list, pos, stream, response, cut, base, mpc,
    wrote, breaks,
    nodeNames, data, optime, isLeader, fetchCluster, fetchOptime, event, zooView,
    nodes, armed, fired, lpc,
    client, clock, machines, uri, update, todo, passes, count, timeout, failed, rpc,
    store, leaderRev, viewRev, flag, doNotWatch, asked, early, since, npc

Member == INSTANCE MemberKey WITH
    Backends <- MemberBackends, MaxFaults <- MemberFaults,
    backend <- memberBackend,
    local <- node, key <- memberKey, seen <- own, faults <- memberFaults
Watch == INSTANCE WatchCache WITH cache <- objects, snap <- list, sent <- wrote
Zoo == INSTANCE ZooKeeperCache WITH children <- nodeNames, view <- zooView
Failover == INSTANCE ServerFailover WITH
    now <- clock, known <- machines, base <- uri
Nap == INSTANCE LoopWatch

memberVars == <<memberBackend, node, session, alive, memberKey, own, leads, peer,
                stale, service, lastResult, blind, step, snap, changes, memberFaults>>
watchVars == <<kind, log, objects, ready, tpc, list, pos, stream, response, cut,
               base, mpc, wrote, breaks>>
zooVars == <<nodeNames, data, optime, isLeader, fetchCluster, fetchOptime, event,
             zooView, nodes, armed, fired, lpc>>
failoverVars == <<client, clock, machines, uri, update, todo, passes, count,
                  timeout, failed, rpc>>
napVars == <<store, leaderRev, viewRev, flag, doNotWatch, asked, early, since, npc>>
clientsVars == <<component, memberVars, watchVars, zooVars, failoverVars, napVars>>

ClientsInit ==
    /\ component \in {"watch", "zoo", "failover", "member", "nap"}
    /\ Member!Init /\ Watch!Init /\ Zoo!Init /\ Failover!Init /\ Nap!Init
    /\ component # "watch" => kind = "etcd3"
    /\ component # "zoo" => ~isLeader /\ optime = 1
    /\ component # "failover" =>
          client = "etcd" /\ update = FALSE /\ Len(machines) = 1
          /\ uri = CHOOSE s \in Servers : TRUE
    /\ component # "member" => memberBackend = "etcd"
    /\ component # "nap" => store = "etcd"

InMember == component = "member" /\ UNCHANGED <<component, watchVars, zooVars, failoverVars, napVars>>
InWatch == component = "watch" /\ UNCHANGED <<component, memberVars, zooVars, failoverVars, napVars>>
InZoo == component = "zoo" /\ UNCHANGED <<component, memberVars, watchVars, failoverVars, napVars>>
InFailover == component = "failover" /\ UNCHANGED <<component, memberVars, watchVars, zooVars, napVars>>
InNap == component = "nap" /\ UNCHANGED <<component, memberVars, watchVars, zooVars, failoverVars>>

ClientsNext ==
    \/ InMember /\ Member!Next
    \/ InWatch /\ Watch!Next
    \/ InZoo /\ Zoo!Next
    \/ InFailover /\ Failover!Next
    \/ InNap /\ Nap!Next

(***************************************************************************)
(* The thread of the cache runs, its requests end, and a stream that was   *)
(* cut ends; a call of the HA loop returns.  Kazoo delivers its            *)
(* notifications, and the HA loops go on.  Servers need not be fair,       *)
(* except that sessions without a process end.                             *)
(***************************************************************************)
ClientsSpec ==
    /\ ClientsInit /\ [][ClientsNext]_clientsVars
    /\ WF_clientsVars(InWatch /\ Watch!FairThread)
    /\ WF_clientsVars(InWatch /\ Watch!kill_stream)
    /\ WF_clientsVars(InWatch /\ Watch!call_rpc_Answer)
    /\ WF_clientsVars(InZoo /\ Zoo!Kazoo)
    /\ WF_clientsVars(InZoo /\ Zoo!HaLoop)
    /\ WF_clientsVars(InMember /\ Member!get_cluster)
    /\ WF_clientsVars(InMember /\ Member!peer_get_cluster)
    /\ WF_clientsVars(InMember /\ Member!touch_member)
    /\ WF_clientsVars(InMember /\ Member!TouchStep)
    /\ WF_clientsVars(InMember /\ Member!OldSessionEnds)

-----------------------------------------------------------------------------

\* Every component keeps its variables within their types.
ClientTypes ==
    Member!TypeOK /\ Watch!TypeOK /\ Zoo!TypeOK /\ Failover!TypeOK /\ Nap!TypeOK

(***************************************************************************)
(* While KVCache and ObjectCache are in use they are never behind their    *)
(* stream, in whichever order own answers, events and new lists come in,   *)
(* and KVCache never goes on to read a stream of a server that             *)
(* set_base_uri has left.                                                  *)
(***************************************************************************)
CacheIsCurrent == Watch!CacheIsRecent /\ Watch!StreamFollowsServer

(***************************************************************************)
(* However the servers fail, a request ends within three retry_timeouts; a *)
(* failed one makes the next one start with the configured servers, a      *)
(* successful one leaves a server in use that has answered or is listed.   *)
(***************************************************************************)
RequestIsBounded == Failover!RequestIsBounded /\ Failover!FailureIsRemembered

(***************************************************************************)
(* News travel between the store and the HA loop, whatever was lost on the *)
(* way.  Once the changes stop, KVCache and ObjectCache equal the store; a *)
(* ZooKeeper cluster that is out of date is loaded again; the member key   *)
(* ends up with what the node is, the Consul service where the node is,    *)
(* and the tags known to the others (see MemberKey for the exceptions).    *)
(* And the loop does not sleep through a wakeup or a change of the leader  *)
(* key.                                                                    *)
(***************************************************************************)
NewsArrive ==
    /\ component = "watch" => Watch!CacheCatchesUp
    /\ component = "zoo" => Zoo!StaleViewIsReloaded
    /\ component = "member" => Member!MemberKeyFollows
    /\ Nap!NothingIsMissed

=============================================================================
