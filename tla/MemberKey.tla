------------------------------ MODULE MemberKey ------------------------------
(***************************************************************************)
(* The key under which a node publishes its state, role and tags, and, in  *)
(* Consul, the service that clients are sent to.  Ha.touch_member is       *)
(* called by the HA loop and by REST API threads, under one lock; every    *)
(* back end decides from the cluster that was loaded last whether to       *)
(* write, to create the key again for a new session, or to do nothing.     *)
(*                                                                         *)
(* Data is abstracted to role, state and tags.  The views of etcd3 and     *)
(* Kubernetes, which come from the watch caches of WatchCache, are taken   *)
(* as current when they are loaded.  In ZooKeeper the node is not a        *)
(* synchronous standby, whose data the leader watches.                     *)
(***************************************************************************)
EXTENDS Integers

CONSTANTS
    Backends,
    Sessions,       \* numbers of sessions and leases
    MaxChanges,     \* bound on the changes of the node
    MaxFaults       \* bound on failures

VARIABLES
    backend,
    local,          \* the node: role, leader, state, tags
    session,        \* the session or lease that the client uses, or 0
    alive,          \* the sessions that the DCS knows
    key,            \* the member key, {} or its content
    seen,           \* this node's entry in AbstractDCS._cluster
    leads,          \* this node is the leader in AbstractDCS._cluster
    peer,           \* this node's entry in the _cluster of another node
    stale,          \* who will load members again (ZooKeeper._fetch_cluster)
    service,        \* the role registered with the Consul agent, or "none"
    lastResult,     \* last_result of force_if_last_failed
    blind,          \* history: touch_member did not know the key's content
    step,           \* where the holder of _member_state_lock is
    snap,           \* its data, its member and create_member
    changes, faults

vars == <<backend, local, session, alive, key, seen, leads, peer, stale,
           service, lastResult, blind, step, snap, changes, faults>>
dcsVars == <<session, alive, key, stale>>
viewVars == <<seen, leads, peer>>
serviceVars == <<service, lastResult, blind>>

Data == [role : {"replica", "promoted", "master"},
         state : {"running", "stopped"}, tags : {0, 1}]
Labels == {"none", "replica", "promoted", "master", "popped"}
Entry == [data : Data, session : Sessions \cup {0}, label : Labels]
Locals == [role : {"replica", "master"}, leader : BOOLEAN,
           state : {"running", "stopped"}, tags : {0, 1}]

TypeOK ==
    /\ backend \in Backends /\ local \in Locals
    /\ session \in Sessions \cup {0} /\ alive \subseteq Sessions
    /\ \A e \in {key, seen, peer, snap.member} :
          e = {} \/ \E d \in e : e = {d} /\ d \in Entry
    /\ stale \subseteq {"own", "peer"}
    /\ service \in {"none", "replica", "master"}
    /\ lastResult \in {"none", "ok", "failed"}
    /\ {leads, blind, snap.created} \subseteq BOOLEAN /\ snap.data \in Data
    /\ step \in {"free", "session", "delete", "put", "service"}

\* The numbers of old sessions are used again when nobody remembers them.
FreshSessions ==
    Sessions \ (alive \cup {session}
                \cup {e.session : e \in key \cup seen \cup snap.member})
NewSession == CHOOSE s \in FreshSessions : TRUE

HasSession == {"etcd3", "consul", "zookeeper"}

NoSnap ==
    [data |-> [role |-> "replica", state |-> "running", tags |-> 0],
     member |-> {}, created |-> FALSE]

\* What touch_member publishes: a master without the key is "promoted".
Collected ==
    [role |-> IF local.role = "master" /\ ~local.leader THEN "promoted"
              ELSE local.role,
     state |-> local.state, tags |-> local.tags]

\* A plausible bug: the states are not compared.
deep_compare_NoState(d, e) == [d EXCEPT !.state = e.state] = e

deep_compare(d, e) == d = e

Init ==
    /\ backend \in Backends
    /\ local = [role |-> "replica", leader |-> FALSE, state |-> "running",
                tags |-> 0]
    /\ session = IF backend \in HasSession THEN 1 ELSE 0
    /\ alive = {session} \ {0}
    /\ key = {} /\ seen = {} /\ peer = {} /\ leads = FALSE
    /\ stale = IF backend = "zookeeper" THEN {"own", "peer"} ELSE {}
    /\ service = "none" /\ lastResult = "none" /\ blind = FALSE
    /\ step = "free"
    /\ snap = NoSnap
    /\ changes = 0 /\ faults = 0

Fault == faults < MaxFaults /\ faults' = faults + 1

\* Watches on the directory of members fire when a key comes or goes.
SetKey(entries) ==
    /\ key' = entries
    /\ stale' = IF backend = "zookeeper" /\ (key = {}) # (entries = {})
                THEN {"own", "peer"} ELSE stale

-----------------------------------------------------------------------------
(* The node and its sessions *)

Change ==
    /\ changes < MaxChanges
    /\ changes' = changes + 1
    /\ \/ \E role \in {"replica", "master"} : local' = [local EXCEPT !.role = role]
       \/ \E leader \in BOOLEAN : local' = [local EXCEPT !.leader = leader]
       \/ \E state \in {"running", "stopped"} : local' = [local EXCEPT !.state = state]
       \/ \E tags \in {0, 1} : local' = [local EXCEPT !.tags = tags]
    /\ local' # local
    /\ UNCHANGED <<backend, dcsVars, viewVars, serviceVars, step, snap, faults>>

\* A session ends, or a key without one; Kazoo opens another session.
Expire(s) ==
    /\ IF backend \in HasSession THEN s \in alive ELSE s = 0
    /\ backend # "kubernetes"
    /\ IF s = session THEN Fault ELSE UNCHANGED faults
    /\ SetKey({e \in key : e.session # s})
    /\ IF s = session /\ backend = "zookeeper"
       THEN /\ FreshSessions # {}
            /\ session' = NewSession /\ alive' = (alive \ {s}) \cup {NewSession}
       ELSE alive' = alive \ {s} /\ UNCHANGED session
    /\ UNCHANGED <<backend, local, viewVars, serviceVars, step, snap, changes>>

\* A new process has a new session; the old one lives until it expires.
Restart ==
    /\ Fault
    /\ IF backend \in HasSession
       THEN /\ FreshSessions # {}
            /\ session' = NewSession /\ alive' = alive \cup {NewSession}
       ELSE UNCHANGED <<session, alive>>
    /\ seen' = {} /\ leads' = FALSE
    /\ stale' = stale \cup (IF backend = "zookeeper" THEN {"own"} ELSE {})
    /\ lastResult' = "none"
    /\ step' = "free" /\ snap' = NoSnap
    /\ UNCHANGED <<backend, local, key, peer, service, blind, changes>>

\* ZooKeeper gives the cluster it has kept; an error drops it everywhere.
get_cluster ==
    /\ \/ /\ backend # "zookeeper" \/ "own" \in stale
          /\ seen' = key /\ leads' = (backend = "kubernetes" /\ local.leader)
          /\ stale' = stale \ {"own"}
          /\ UNCHANGED faults
       \/ /\ Fault
          /\ seen' = {} /\ leads' = FALSE
          /\ stale' = stale \cup (IF backend = "zookeeper" THEN {"own"} ELSE {})
    /\ UNCHANGED <<backend, local, session, alive, key, peer, serviceVars, step,
                   snap, changes>>

peer_get_cluster ==
    /\ "peer" \in stale
    /\ peer' = key
    /\ stale' = stale \ {"peer"}
    /\ UNCHANGED <<backend, local, session, alive, key, seen, leads, serviceVars,
                   step, snap, changes, faults>>

-----------------------------------------------------------------------------
(* touch_member *)

Goto(s, h) == step' = s /\ snap' = h
Done == Goto("free", NoSnap)

touch_member ==
    /\ step = "free"
    /\ Goto(CASE backend \in {"etcd3", "consul"} -> "session"
              [] backend = "zookeeper" -> "delete"
              [] OTHER -> "put",
            [data |-> Collected, member |-> seen, created |-> FALSE])
    /\ UNCHANGED <<backend, local, dcsVars, viewVars, serviceVars, changes, faults>>

\* A session that was refreshed less than loop_wait ago is not looked at.
refresh_session ==
    /\ step = "session"
    /\ \/ /\ session # 0
          /\ Goto(IF backend = "consul" THEN "delete" ELSE "put",
                  [snap EXCEPT !.member = IF backend = "etcd3" THEN seen ELSE @])
          /\ UNCHANGED <<session, alive, faults>>
       \/ /\ session \notin alive /\ FreshSessions # {}
          /\ session' = NewSession /\ alive' = alive \cup {NewSession}
          /\ Goto(IF backend = "consul" THEN "delete" ELSE "put",
                  [snap EXCEPT !.created = TRUE])
          /\ UNCHANGED faults
       \/ Fault /\ Done /\ UNCHANGED <<session, alive>>
    /\ UNCHANGED <<backend, local, key, stale, viewVars, serviceVars, changes>>

\* A plausible bug: only the session is compared.
MustRecreate_Session(m) ==
    m.session # session \/ (backend = "consul" /\ snap.created)

\* The key belongs to another session, or watchers must learn of its change.
MustRecreate(m) ==
    \/ m.session # session
    \/ backend = "consul" /\ snap.created
    \/ backend = "zookeeper" /\ m.data.tags # snap.data.tags

delete_member ==
    /\ step = "delete"
    /\ IF \E m \in snap.member : MustRecreate(m)
       THEN \/ /\ SetKey({})
               /\ Goto("put", [snap EXCEPT !.member = {}, !.created = TRUE])
               /\ UNCHANGED faults
            \/ /\ Fault
               /\ SetKey({}) \/ UNCHANGED <<key, stale>>
               /\ Done
       ELSE Goto("put", snap) /\ UNCHANGED <<key, stale, faults>>
    /\ UNCHANGED <<backend, local, session, alive, viewVars, serviceVars, changes>>

role_label ==
    CASE leads -> IF snap.data.role \in {"replica", "promoted"} THEN "promoted"
                  ELSE "master"
      [] ~leads /\ snap.data.state = "running" /\ snap.data.role # "master" ->
            snap.data.role
      [] OTHER -> "none"

NothingToWrite ==
    /\ backend \notin {"etcd", "raft"}
    /\ ~snap.created
    /\ \E m \in snap.member :
          /\ deep_compare(snap.data, m.data)
          /\ backend = "etcd3" => m.session = session
          /\ backend = "kubernetes" => m.label = role_label

\* What a write makes of the key: {} when the request is refused.
Writes ==
    LET new == [data |-> snap.data, session |-> session, label |-> "none"]
    IN CASE backend \in {"etcd", "raft"} -> {new}
         [] backend = "etcd3" -> IF session \in alive THEN {new} ELSE {}
         [] backend = "kubernetes" -> {[new EXCEPT !.label = role_label]}
         [] backend = "consul" ->     \* acquire: no other session has it
              IF session \notin alive THEN {}
              ELSE IF \A e \in key : e.session = session THEN {new} ELSE key
         [] backend = "zookeeper" ->  \* set keeps the owner of the node
              IF key # {} THEN {[e EXCEPT !.data = snap.data] : e \in key}
              ELSE IF snap.member = {} THEN {new} ELSE {}

\* pod_labels is popped from the view, which may be used again.
PopLabels ==
    seen' = IF backend = "kubernetes"
            THEN {[e EXCEPT !.label = "popped"] : e \in seen} ELSE seen

Tags(entries) == {e.data.tags : e \in entries}
Roles(entries) == {<<e.data.role, e.data.state>> : e \in entries}

\* The decision was taken on something else than what the key holds.
Unaware ==
    CASE backend = "consul" -> blind \/ Roles(snap.member) # Roles(key)
      [] backend = "zookeeper" -> key # {} /\ (blind \/ Tags(snap.member) # Tags(key))
      [] OTHER -> FALSE

put_member ==
    /\ step = "put"
    /\ PopLabels
    /\ \/ /\ NothingToWrite
          /\ Done
          /\ UNCHANGED <<key, stale, session, blind, faults>>
       \/ /\ ~NothingToWrite
          /\ IF Writes = {}
             THEN /\ session' = IF backend = "zookeeper" THEN session ELSE 0
                  /\ Done
                  /\ UNCHANGED <<key, stale, blind>>
             ELSE /\ SetKey(Writes)
                  /\ blind' = Unaware
                  /\ IF backend = "consul" THEN Goto("service", snap) ELSE Done
                  /\ UNCHANGED session
          /\ UNCHANGED faults
       \/ /\ ~NothingToWrite /\ Fault
          /\ \/ UNCHANGED <<key, stale, blind>>
             \/ /\ Writes # {} /\ SetKey(Writes)
                /\ blind' = (Unaware \/ backend = "consul")
          /\ Done
          /\ UNCHANGED session
    /\ UNCHANGED <<backend, local, alive, leads, peer, service, lastResult, changes>>

-----------------------------------------------------------------------------
(* The service of a Consul agent *)

\* A plausible bug: an update that failed is not repeated.
MustUpdate_NoForce ==
    Roles(snap.member) # {<<snap.data.role, snap.data.state>>}

MustUpdate ==
    \/ lastResult = "failed"
    \/ Roles(snap.member) # {<<snap.data.role, snap.data.state>>}

\* The service that _update_service asks for; other states change nothing.
Wanted ==
    CASE snap.data.state = "stopped" -> {"none"}
      [] snap.data.state = "running" -> {snap.data.role} \cap {"master", "replica"}
      [] OTHER -> {}

update_service ==
    /\ step = "service"
    /\ Done
    /\ \/ ~MustUpdate /\ lastResult' = "none" /\ UNCHANGED <<service, blind, faults>>
       \/ /\ MustUpdate
          /\ \/ /\ Wanted = {}
                /\ lastResult' = "none"
                /\ UNCHANGED <<service, faults>>
             \/ /\ service' \in Wanted
                /\ lastResult' = "ok"
                /\ UNCHANGED faults
             \/ /\ Wanted # {} /\ Fault
                /\ lastResult' = "failed"
                /\ service' \in Wanted \cup {service}
          /\ blind' = FALSE
    /\ UNCHANGED <<backend, local, dcsVars, viewVars, changes>>

OldSessionEnds == \E s \in Sessions : s # session /\ Expire(s)

TouchStep == refresh_session \/ delete_member \/ put_member \/ update_service

Next ==
    \/ Change \/ (\E s \in Sessions \cup {0} : Expire(s)) \/ Restart
    \/ get_cluster \/ peer_get_cluster
    \/ touch_member \/ TouchStep

\* Loops go on, and the sessions of former processes end.
Spec ==
    /\ Init /\ [][Next]_vars
    /\ WF_vars(get_cluster)
    /\ WF_vars(peer_get_cluster)
    /\ WF_vars(touch_member)
    /\ WF_vars(TouchStep)
    /\ WF_vars(OldSessionEnds)

-----------------------------------------------------------------------------

(***************************************************************************)
(* What the node publishes is what it is.  In ZooKeeper a node that has    *)
(* returned to what the kept cluster says of it does not write.            *)
(***************************************************************************)
Published ==
    \/ \E e \in key : e.data = Collected
    \/ backend = "zookeeper" /\ \E e \in seen : e.data = Collected

(***************************************************************************)
(* The Consul service is where the node is, unless the last attempt failed *)
(* (it is repeated with the next write), or update_service has compared    *)
(* with something other than what was published before.                    *)
(***************************************************************************)
ServiceIsRight ==
    backend = "consul" /\ lastResult # "failed" /\ ~blind =>
       CASE local.state = "stopped" -> service = "none"
         [] local.state = "running" /\ Collected.role # "promoted" ->
               service = local.role
         [] OTHER -> TRUE

(***************************************************************************)
(* The other nodes of a ZooKeeper cluster, who hear of members only when a *)
(* key is created or deleted, know the tags, unless the node did not know  *)
(* of its key or of its tags and has not deleted it.                       *)
(***************************************************************************)
TagsAreSeen ==
    backend = "zookeeper" /\ ~blind => \E e \in peer : e.data.tags = local.tags

(***************************************************************************)
(* Whichever sessions, answers and processes are lost, and whichever       *)
(* threads call touch_member in which cycle, the member key, the service   *)
(* of Consul and the views of the others catch up with the node.           *)
(***************************************************************************)
MemberKeyFollows == <>[](Published /\ ServiceIsRight /\ TagsAreSeen)

=============================================================================
