--------------------------- MODULE ZooKeeperCache ---------------------------
(***************************************************************************)
(* ZooKeeper keeps the last cluster it has loaded and reads it again only  *)
(* when a watch has fired.  Watches fire once, in Kazoo's thread, while    *)
(* the HA loop may be in the middle of a load; the flags _fetch_cluster,   *)
(* _fetch_optime and event carry the news from one thread to the other.    *)
(*                                                                         *)
(* The tree is abstracted to three versions: of the set of nodes (leader,  *)
(* failover... are created and removed), of the data of the watched nodes  *)
(* (config, sync...), and of /optime/leader, 0 while it does not exist.    *)
(***************************************************************************)
EXTENDS Integers

CONSTANTS MaxVersion  \* bound on each version

VARIABLES
    children, data, optime,  \* the versions on the server
    isLeader,       \* this node owns the leader key
    fetchCluster,   \* _fetch_cluster
    fetchOptime,    \* _fetch_optime
    event,          \* AbstractDCS.event
    view,           \* the versions in _cluster
    nodes,          \* what this load has seen: is there an /optime?
    armed,          \* the watches that are set
    fired,          \* the notifications on their way
    lpc             \* where the HA loop is

vars == <<children, data, optime, isLeader, fetchCluster, fetchOptime, event,
          view, nodes, armed, fired, lpc>>
serverVars == <<children, data, optime, isLeader>>
flags == <<fetchCluster, fetchOptime, event>>

Watches == {"children", "data", "optime"}

TypeOK ==
    /\ children \in 1..MaxVersion /\ data \in 1..MaxVersion
    /\ optime \in 0..MaxVersion
    /\ {isLeader, fetchCluster, fetchOptime, event, nodes} \subseteq BOOLEAN
    /\ view \in [children : 0..MaxVersion, data : 0..MaxVersion,
                 optime : 0..MaxVersion]
    /\ armed \subseteq Watches /\ fired \subseteq Watches
    /\ lpc \in {"load", "children", "data", "leader", "optime", "cycle"}

(***************************************************************************)
(* A leader that loads the cluster before anybody has written /optime is   *)
(* left out: there get_leader_optime does not clear _fetch_optime, and a   *)
(* watch that fires between get_children and the assignment to             *)
(* _fetch_cluster is forgotten (and event stays set).                      *)
(***************************************************************************)
Init ==
    /\ children = 1 /\ data = 1
    /\ isLeader \in BOOLEAN
    /\ optime \in IF isLeader THEN {1} ELSE {0, 1}
    /\ fetchCluster = TRUE /\ fetchOptime = TRUE /\ event = FALSE
    /\ view = [children |-> 0, data |-> 0, optime |-> 0]
    /\ nodes = FALSE
    /\ armed = {} /\ fired = {}
    /\ lpc = "load"

-----------------------------------------------------------------------------
(* The server and Kazoo's thread *)

Fire(w) ==
    /\ armed' = armed \ {w}
    /\ fired' = fired \cup (armed \cap {w})
    /\ UNCHANGED <<isLeader, flags, view, nodes, lpc>>

ChangeChildren ==
    /\ children < MaxVersion
    /\ children' = children + 1
    /\ Fire("children")
    /\ UNCHANGED <<data, optime>>

ChangeData ==
    /\ data < MaxVersion
    /\ data' = data + 1
    /\ Fire("data")
    /\ UNCHANGED <<children, optime>>

\* The first write of /optime/leader creates a node.
ChangeOptime ==
    /\ optime < MaxVersion
    /\ optime' = optime + 1
    /\ IF optime = 0 /\ children < MaxVersion
       THEN children' = children + 1 /\ Fire("children")
       ELSE optime > 0 /\ UNCHANGED children /\ Fire("optime")
    /\ UNCHANGED data

optime_watcher ==
    /\ "optime" \in fired
    /\ fired' = fired \ {"optime"}
    /\ fetchOptime' = TRUE
    /\ event' = TRUE
    /\ UNCHANGED <<serverVars, fetchCluster, view, nodes, armed, lpc>>

cluster_watcher(w) ==
    /\ w \in fired \ {"optime"}
    /\ fired' = fired \ {w}
    /\ fetchCluster' = TRUE
    /\ fetchOptime' = TRUE
    /\ event' = TRUE
    /\ UNCHANGED <<serverVars, view, nodes, armed, lpc>>

-----------------------------------------------------------------------------
(* _load_cluster *)

load_Begin ==
    /\ lpc = "load" /\ fetchCluster
    /\ fetchCluster' = FALSE
    /\ event' = FALSE
    /\ lpc' = "children"
    /\ UNCHANGED <<serverVars, fetchOptime, view, nodes, armed, fired>>

load_Children ==
    /\ lpc = "children"
    /\ view' = [view EXCEPT !.children = children]
    /\ nodes' = (optime > 0)
    /\ armed' = armed \cup {"children"}
    /\ lpc' = "data"
    /\ UNCHANGED <<serverVars, flags, fired>>

load_Data ==
    /\ lpc = "data"
    /\ view' = [view EXCEPT !.data = data]
    /\ armed' = armed \cup {"data"}
    /\ lpc' = "leader"
    /\ UNCHANGED <<serverVars, flags, nodes, fired>>

\* With a leader, _fetch_cluster becomes "the leader is no known member",
\* whatever a watch has set it to in the meantime.
load_Leader ==
    /\ lpc = "leader"
    /\ fetchCluster' \in BOOLEAN
    /\ lpc' = "optime"
    /\ UNCHANGED <<serverVars, fetchOptime, event, view, nodes, armed, fired>>

\* A plausible bug: the version of the node in place of its value.
get_leader_optime_Version ==
    /\ view' = [view EXCEPT !.optime = optime + 1]
    /\ armed' = IF isLeader THEN armed ELSE armed \cup {"optime"}
    /\ fetchOptime' = FALSE

get_leader_optime ==
    /\ view' = [view EXCEPT !.optime = optime]
    /\ armed' = IF isLeader THEN armed ELSE armed \cup {"optime"}
    /\ fetchOptime' = FALSE

load_Optime ==
    /\ lpc = "optime"
    /\ IF nodes THEN get_leader_optime ELSE UNCHANGED <<view, armed, fetchOptime>>
    /\ lpc' = "cycle"
    /\ UNCHANGED <<serverVars, fetchCluster, event, nodes, fired>>

\* Nothing new, or only the position of the leader.
load_Cached ==
    /\ lpc = "load" /\ ~fetchCluster
    /\ IF (fetchOptime \/ view.optime = 0) /\ ~isLeader
       THEN get_leader_optime ELSE UNCHANGED <<view, armed, fetchOptime>>
    /\ lpc' = "cycle"
    /\ UNCHANGED <<serverVars, fetchCluster, event, nodes, fired>>

\* A plausible bug: an event always means that the optime is to be read.
watch_OptimeOnly ==
    /\ lpc = "cycle"
    /\ lpc' = "load"
    /\ UNCHANGED <<serverVars, flags, view, nodes, armed, fired>>

\* watch: wait for event or the end of the cycle.  When event is set and no
\* optime is to be read, it is the cluster that has changed.
watch ==
    /\ lpc = "cycle"
    /\ fetchCluster' = (fetchCluster \/ (event /\ ~fetchOptime))
    /\ lpc' = "load"
    /\ UNCHANGED <<serverVars, fetchOptime, event, view, nodes, armed, fired>>

Kazoo == optime_watcher \/ \E w \in Watches : cluster_watcher(w)

HaLoop ==
    \/ load_Begin \/ load_Children \/ load_Data \/ load_Leader \/ load_Optime
    \/ load_Cached \/ watch

Next == ChangeChildren \/ ChangeData \/ ChangeOptime \/ Kazoo \/ HaLoop

-----------------------------------------------------------------------------
(* Properties *)

(***************************************************************************)
(* No change is missed for good: a loaded cluster that is out of date is   *)
(* loaded again, although load_Leader may wipe out the flag that a watch   *)
(* has just set.                                                           *)
(***************************************************************************)
StaleViewIsReloaded ==
    [](view.children # children \/ view.data # data
       => <>(view.children = children /\ view.data = data))

=============================================================================
