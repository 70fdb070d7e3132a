----------------------------- MODULE MCServices -----------------------------
(***************************************************************************)
(* Services of one node that share no state with each other, in one run:   *)
(* part names the one that this behaviour is about.  The configuration,    *)
(* the logger, the replication slots, the callbacks and the answers of the *)
(* REST API.                                                               *)
(***************************************************************************)
EXTENDS Integers, Sequences, FiniteSets

CONSTANTS
    Environment, Bootstrap, ApiSettings, NewValues,
    MaxWrites, MaxEdits, ConfigFaults, \* DynamicConfig
    Sizes, MaxRecords, MaxReloads,     \* LogQueue
    Names, Ignored, MaxEvents,         \* ReplicationSlots
    Callers, MaxCalls,                 \* CallbackExecutor
    Nodes, Ttl, Delay, MaxTime         \* ApiLease

VARIABLES
    part,
    key, revision, leader, editor, view, shared, seen, dynamic, file, local, dirty,
    cache, sighup, watchdog, handler, dcs, server, pending, reloaded, pc, writes,
    edits, faults,
    queue, size, lost, thread, record, logHandler, old, closed, emitted, written,
    due, logMain, reloads,
    role, slotLeader, from, permanent, slots, active, known, loadSlots, moved,
    slotPc, events,
    caller, cmd, taken, callbackWorker, process, children, calls, started,
    now, owner, expires, dcsCall, answer, sent, leaderView, lease, held

Config == INSTANCE DynamicConfig WITH MaxFaults <- ConfigFaults
Log == INSTANCE LogQueue WITH handler <- logHandler, main <- logMain
Slots == INSTANCE ReplicationSlots WITH
    leader <- slotLeader, schedule <- loadSlots, pc <- slotPc
Callback == INSTANCE CallbackExecutor WITH worker <- callbackWorker
Lease == INSTANCE ApiLease WITH call <- dcsCall, view <- leaderView

configVars == <<key, revision, leader, editor, view, shared, seen, dynamic, file,
                local, dirty, cache, sighup, watchdog, handler, dcs, server,
                pending, reloaded, pc, writes, edits, faults>>
ASSUME ServicesAssumption ==
    /\ Environment \in 0..2 /\ Bootstrap \in Config!Datas /\ Config!Builds(Bootstrap)
    /\ NewValues \subseteq Config!Values /\ ApiSettings \subseteq Config!Settings
    /\ MaxWrites \in Nat /\ MaxEdits \in Nat /\ ConfigFaults \in Nat
    /\ Sizes \subseteq Nat /\ MaxRecords \in Nat /\ MaxReloads \in Nat
    /\ MaxEvents \in Nat
    /\ IsFiniteSet(Callers) /\ MaxCalls \in Nat
    /\ Lease!None \notin Nodes /\ Ttl \in Nat /\ Delay \in Nat /\ MaxTime \in Nat

logVars == <<queue, size, lost, thread, record, logHandler, old, closed, emitted,
             written, due, logMain, reloads>>
slotVars == <<role, slotLeader, from, permanent, slots, active, known, loadSlots,
              moved, slotPc, events>>
callbackVars == <<caller, cmd, taken, callbackWorker, process, children, calls,
                  started>>
leaseVars == <<now, owner, expires, dcsCall, answer, sent, leaderView, lease, held>>
serviceVars == <<part, configVars, logVars, slotVars, callbackVars, leaseVars>>

BootstrapDcs == [ttl |-> 1, pg |-> 1]

ServicesInit ==
    /\ part \in {"config", "log", "slots", "callback", "lease"}
    /\ Config!Init /\ Log!Init /\ Slots!Init /\ Callback!Init /\ Lease!Init
    /\ part # "config" => leader
    /\ part # "log" => size = 0
    /\ part # "slots" => slots = Slots!NoSlots /\ slotLeader = CHOOSE x \in Names : TRUE

InConfig ==
    part = "config" /\ UNCHANGED <<part, logVars, slotVars, callbackVars, leaseVars>>
InLog == part = "log" /\ UNCHANGED <<part, configVars, slotVars, callbackVars, leaseVars>>
InSlots == part = "slots" /\ UNCHANGED <<part, configVars, logVars, callbackVars, leaseVars>>
InCallback == part = "callback" /\ UNCHANGED <<part, configVars, logVars, slotVars, leaseVars>>
InLease == part = "lease" /\ UNCHANGED <<part, configVars, logVars, slotVars, callbackVars>>

ServicesNext ==
    \/ InConfig /\ Config!Next
    \/ InLog /\ Log!Next
    \/ InSlots /\ Slots!Next
    \/ InCallback /\ Callback!Next
    \/ InLease /\ Lease!Next

(***************************************************************************)
(* The main thread goes on, and so do a thread of the REST API and an      *)
(* editor in the middle of a change.                                       *)
(***************************************************************************)
ServicesSpec ==
    /\ ServicesInit /\ [][ServicesNext]_serviceVars
    /\ WF_serviceVars(InConfig /\ Config!Main)
    /\ WF_serviceVars(InConfig /\ (Config!get_cluster \/ Config!do_PATCH_config))
    /\ WF_serviceVars(InConfig /\ \E e \in Config!Editors : Config!edit_Write(e))

-----------------------------------------------------------------------------

\* Every part keeps its variables within their types.
ServiceTypes == Config!TypeOK /\ Log!TypeOK /\ Slots!TypeOK /\ Callback!TypeOK /\ Lease!TypeOK

(***************************************************************************)
(* An accepted change of the configuration is not lost to another one, and *)
(* when the changes stop, the watchdog, the database and the DCS client    *)
(* work with what /config and the local file say, unless a reload failed.  *)
(***************************************************************************)
ChangesArrive ==
    /\ Config!NoLostUpdate
    /\ part = "config" => Config!ConfigArrives

(***************************************************************************)
(* What the node says and remembers of itself is true: pending_restart,    *)
(* the cache file of the configuration, the slots that SlotsHandler knows  *)
(* (unless it is going to ask for them or the server has been restarted    *)
(* meanwhile), and the answer 200 at /master, except for a bounded time    *)
(* after the key has expired.                                              *)
(***************************************************************************)
ReportsAreTrue ==
    /\ Config!RestartIsAnnounced
    /\ Config!CacheFollows
    /\ Slots!KnownIsTrue
    /\ Lease!StaleMasterIsBrief

(***************************************************************************)
(* Nothing that a thread hands over to another is dropped, repeated or     *)
(* given to one that is gone: every log record is written, in the queue,   *)
(* or counted as lost, exactly once, never written with a closed handler,  *)
(* and written when PatroniLogger.shutdown returns; CallbackExecutor       *)
(* starts the callback that was called last, once, and not next to one     *)
(* that it has killed.                                                     *)
(***************************************************************************)
NothingIsDropped ==
    /\ Log!EveryRecordCounts
    /\ Log!HandlerIsOpen
    /\ Log!ShutdownDrains
    /\ Callback!LastCallIsMade
    /\ Callback!KilledIsGone

=============================================================================
