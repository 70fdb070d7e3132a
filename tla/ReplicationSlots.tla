-------------------------- MODULE ReplicationSlots --------------------------
(***************************************************************************)
(* SlotsHandler keeps the replication slots of a server equal to those     *)
(* that the cluster wants, and asks the server for the slots it has only   *)
(* when there is a reason to.  Slots are functions from names to types;    *)
(* the slot of a member has the name of the member.                        *)
(***************************************************************************)
EXTENDS Integers, FiniteSets

CONSTANTS
    Names,       \* the other members, and their slots
    Ignored,     \* names that ignore_slots matches
    MaxEvents    \* bound on changes of the cluster and events of the server

Types == {"none", "physical", "logical"}
NoSlots == [x \in Names |-> "none"]

VARIABLES
    role,        \* of this node
    leader,      \* the leader, if it is one of them
    from,        \* the members: absent, or what they replicate from
    permanent,   \* the permanent slots that are configured
    slots,       \* the slots of the server
    active,      \* those that are in use
    known,       \* _replication_slots
    schedule,    \* _schedule_load_slots
    moved,       \* the server has been restarted, and nobody has noticed yet
    pc, events

clusterVars == <<role, leader, from, permanent>>
vars == <<clusterVars, slots, active, known, schedule, moved, pc, events>>

TypeOK ==
    /\ role \in {"master", "replica"} /\ leader \in Names \cup {"none"}
    /\ from \in [Names -> {"absent", "default", "me", "other"}]
    /\ {permanent, slots, known} \subseteq [Names -> Types]
    /\ active \subseteq Names
    /\ {schedule, moved} \subseteq BOOLEAN
    /\ pc \in {"idle", "load", "sync"}
    /\ events \in 0..MaxEvents

Init ==
    /\ role = "replica" /\ leader \in Names
    /\ from = [x \in Names |-> "absent"] /\ permanent = NoSlots
    /\ slots \in [Names -> {"none", "physical"}] /\ active = {}
    /\ known = NoSlots /\ schedule = TRUE /\ moved = FALSE
    /\ pc = "idle" /\ events = 0

Event == events < MaxEvents /\ events' = events + 1

(***************************************************************************)
(* get_replication_slots.  A leader has a slot for each member that        *)
(* follows it, by default or by its tag replicatefrom, and the permanent   *)
(* ones; a physical slot of a member is not replaced by a logical one.  A  *)
(* replica has slots for those that want to follow it, but not for the     *)
(* leader.                                                                 *)
(***************************************************************************)
desired ==
    [x \in Names |->
       IF role = "master"
       THEN IF permanent[x] = "physical" \/ from[x] \in {"default", "me"} THEN "physical"
            ELSE permanent[x]
       ELSE IF from[x] = "me" /\ x # leader THEN "physical" ELSE "none"]

\* Without a leader, the leader's name cannot be compared: an exception.
Raises == role = "replica" /\ leader = "none" /\ \E x \in Names : from[x] = "me"

\* A cycle of the HA loop: is_running notices a new server.
is_running ==
    /\ pc = "idle"
    /\ schedule' = (schedule \/ moved) /\ moved' = FALSE
    /\ pc' = "load"
    /\ UNCHANGED <<clusterVars, slots, active, known, events>>

\* load_replication_slots; the query may raise, and so may the comparison.
load_replication_slots ==
    /\ pc = "load"
    /\ \/ /\ known' = IF schedule THEN slots ELSE known
          /\ schedule' = Raises
          /\ pc' = IF Raises THEN "idle" ELSE "sync"
          /\ UNCHANGED events
       \/ Event /\ schedule' = TRUE /\ pc' = "idle" /\ UNCHANGED known
    /\ UNCHANGED <<clusterVars, slots, active, moved>>

(***************************************************************************)
(* What has to go, because it is not wanted or because it is of another    *)
(* type.  The server refuses for a slot in use, or one that it does not    *)
(* have.                                                                   *)
(***************************************************************************)
Unwanted ==
    {x \in Names : known[x] # "none" /\ desired[x] = "none" /\ x \notin Ignored}
Changing == {x \in Names : desired[x] # "none" /\ known[x] \notin {"none", desired[x]}}
Droppable(x) == slots[x] # "none" /\ x \notin active

\* A plausible bug: a drop that is refused is not tried again.
Refused_Forgotten == {}

Refused == {x \in Unwanted \cup Changing : ~Droppable(x)}

\* The names to create, after the drops.
Missing ==
    {x \in Names : desired[x] # "none" /\ (known[x] = "none" \/ x \in Changing \ Refused)}

\* A slot of that name and another type, which is not known, is in the way.
Clash(x) ==
    slots[x] \notin {"none", desired[x]} /\ x \notin {y \in Changing : Droppable(y)}

(***************************************************************************)
(* sync_replication_slots: drop, create, and remember what is wanted.  A   *)
(* failure anywhere makes the next call ask the server again.              *)
(***************************************************************************)
sync_replication_slots ==
    /\ pc = "sync"
    /\ \E failed \in SUBSET Missing :
         LET dropped == {x \in Unwanted \cup Changing : Droppable(x)}
             refused == {x \in Missing : Clash(x)}
         IN  /\ IF failed = {} THEN UNCHANGED events ELSE Event
             /\ slots' = [x \in Names |->
                            IF x \in Missing \ (failed \cup refused) THEN desired[x]
                            ELSE IF x \in dropped THEN "none" ELSE slots[x]]
             /\ schedule' = (Refused \cup failed \cup refused # {})
    /\ known' = desired
    /\ active' = {x \in active : slots'[x] # "none"}
    /\ pc' = "idle"
    /\ UNCHANGED <<clusterVars, moved>>

\* Promotion and demotion, members that come and go, configuration.
Change ==
    /\ pc = "idle" /\ Event
    /\ \/ role' \in {"master", "replica"} /\ leader' \in Names \cup {"none"}
          /\ UNCHANGED <<from, permanent>>
       \/ \E x \in Names :
            /\ \/ /\ from' \in {[from EXCEPT ![x] = f] : f \in {"absent", "default", "me", "other"}}
                  /\ UNCHANGED permanent
               \/ /\ permanent' \in {[permanent EXCEPT ![x] = t] : t \in Types}
                  /\ UNCHANGED from
            /\ UNCHANGED <<role, leader>>
    /\ UNCHANGED <<slots, active, known, schedule, moved, pc>>

Connect(x) ==
    /\ slots[x] # "none" /\ Event
    /\ active' = IF x \in active THEN active \ {x} ELSE active \cup {x}
    /\ UNCHANGED <<clusterVars, slots, known, schedule, moved, pc>>

\* The server is restarted, perhaps with another data directory.
Restart ==
    /\ Event
    /\ slots' \in {slots, NoSlots}
    /\ active' = {} /\ moved' = TRUE
    /\ UNCHANGED <<clusterVars, known, schedule, pc>>

Next ==
    \/ is_running \/ load_replication_slots \/ sync_replication_slots
    \/ Change \/ Restart
    \/ \E x \in Names : Connect(x)

-----------------------------------------------------------------------------
(* Properties *)

(***************************************************************************)
(* What SlotsHandler believes is true: unless it is going to ask, or the   *)
(* server has been restarted meanwhile, the server has exactly the slots   *)
(* of the last synchronization, and those that are ignored.  Nothing else  *)
(* would ever bring back a slot that is missing, or remove one that keeps  *)
(* WAL for nobody.                                                         *)
(***************************************************************************)
KnownIsTrue ==
    pc = "idle" /\ ~schedule /\ ~moved
    => \A x \in Names : slots[x] = known[x] \/ (x \in Ignored /\ known[x] = "none")

=============================================================================
