----------------------------- MODULE WatchCache -----------------------------
(***************************************************************************)
(* The caches that the HA loop reads the cluster from: KVCache of etcd3    *)
(* and ObjectCache of kubernetes.  A thread lists all objects, then        *)
(* applies the events of a watch stream; the HA loop adds the objects that *)
(* it has written itself, and cuts the stream when the client moves to     *)
(* another server.                                                         *)
(*                                                                         *)
(* The store is the log of its changes: the revision of a change is its    *)
(* place in the log, an object is known by the revision that wrote it.     *)
(* The waking of the HA loop by an event is left out.                      *)
(***************************************************************************)
EXTENDS Integers, Sequences, FiniteSets

CONSTANTS
    Keys,
    Kinds,      \* {"etcd3", "kubernetes"}
    Overtaking, \* a deletion by another node may be delivered before the
                \* answer to the put that it follows has been handled
    MaxRev,     \* bound on the number of changes
    MaxBreaks,  \* bound on the number of broken streams
    MaxMoves    \* bound on the number of moves to another server

VARIABLES
    kind,
    log,        \* the changes: [key, put]
    cache,      \* _object_cache: the revision of each object, 0 if absent
    ready,      \* _is_ready
    tpc,        \* where the thread is
    snap,       \* the revision of its last list
    pos,        \* the last revision that the stream has delivered
    stream,     \* the server that the stream was opened on
    response,   \* KVCache._response: "none", "false" or "open"
    cut,        \* the socket of the stream was shut down
    base,       \* _base_uri
    mpc,        \* where the HA loop is
    sent,       \* the revision of its last write
    breaks

vars == <<kind, log, cache, ready, tpc, snap, pos, stream, response, cut, base,
          mpc, sent, breaks>>
threadVars == <<tpc, snap, pos, stream, breaks>>
mainVars == <<mpc, sent, base>>

\* The object k of the store at revision r: 0, or the change that wrote it.
Touching(k, r) == {i \in 1..r : log[i].key = k}
MaxOf(S) == IF S = {} THEN 0 ELSE CHOOSE i \in S : \A j \in S : j <= i
StateAt(k, r) ==
    LET i == MaxOf(Touching(k, r)) IN IF i > 0 /\ log[i].put THEN i ELSE 0

TypeOK ==
    /\ kind \in Kinds
    /\ log \in Seq([key : Keys, put : BOOLEAN]) /\ Len(log) <= MaxRev
    /\ cache \in [Keys -> 0..MaxRev]
    /\ ready \in BOOLEAN /\ cut \in BOOLEAN
    /\ tpc \in {"list", "swap", "reset", "connect", "adopt", "read", "close"}
    /\ snap \in 0..MaxRev /\ pos \in 0..MaxRev
    /\ stream \in 0..MaxMoves /\ base \in 0..MaxMoves
    /\ response \in {"none", "false", "open"}
    /\ mpc \in {"idle", "answer", "kill"}
    /\ sent \in 0..MaxRev
    /\ breaks \in 0..MaxBreaks

Init ==
    /\ kind \in Kinds
    /\ log = <<>>
    /\ cache = [k \in Keys |-> 0]
    /\ ready = FALSE
    /\ tpc = "list" /\ snap = 0 /\ pos = 0
    /\ stream = 0 /\ response = "none" /\ cut = FALSE
    /\ base = 0 /\ mpc = "idle" /\ sent = 0 /\ breaks = 0

-----------------------------------------------------------------------------
(* The cache *)

\* A plausible bug: the revisions are not compared.
set_Always(k, r) == cache' = [cache EXCEPT ![k] = r]

\* KVCache.set, ObjectCache.set: only a newer object replaces an older one.
set(k, r) ==
    cache' = IF cache[k] = 0 \/ cache[k] < r THEN [cache EXCEPT ![k] = r]
                                             ELSE cache

\* delete: of an object that is older than the deletion.
delete(k, r) ==
    cache' = IF cache[k] < r THEN [cache EXCEPT ![k] = 0] ELSE cache

process_event(r) == IF log[r].put THEN set(log[r].key, r) ELSE delete(log[r].key, r)

-----------------------------------------------------------------------------
(* The thread *)

(***************************************************************************)
(* _build_cache: list everything.  The range request of etcd3 is           *)
(* serializable: a member that lags may answer it.                         *)
(***************************************************************************)
list ==
    /\ tpc = "list"
    /\ snap' \in IF kind = "etcd3" THEN 0..Len(log) ELSE {Len(log)}
    /\ tpc' = "swap"
    /\ UNCHANGED <<kind, log, cache, ready, pos, stream, response, cut,
                   mainVars, breaks>>

\* ... replace the whole cache and let the HA loop in.
swap ==
    /\ tpc = "swap"
    /\ cache' = [k \in Keys |-> StateAt(k, snap)]
    /\ ready' = TRUE
    /\ pos' = snap
    /\ tpc' = IF kind = "etcd3" THEN "reset" ELSE "connect"
    /\ UNCHANGED <<kind, log, snap, stream, response, cut, mainVars, breaks>>

reset ==
    /\ tpc = "reset"
    /\ response' = "none"
    /\ tpc' = "connect"
    /\ UNCHANGED <<kind, log, cache, ready, snap, pos, stream, cut, mainVars,
                   breaks>>

(***************************************************************************)
(* watchprefix from the revision of the list, which etcd delivers again;   *)
(* the watch of kubernetes starts after it.                                *)
(***************************************************************************)
connect ==
    /\ tpc = "connect"
    /\ stream' = base
    /\ cut' = FALSE
    /\ pos' = IF kind = "etcd3" /\ snap > 0 THEN snap - 1 ELSE snap
    /\ tpc' = IF kind = "etcd3" THEN "adopt" ELSE "read"
    /\ UNCHANGED <<kind, log, cache, ready, snap, response, mainVars, breaks>>

\* A plausible bug: a kill_stream that came too early is not noticed.
adopt_Always ==
    /\ tpc = "adopt"
    /\ response' = "open"
    /\ tpc' = "read"
    /\ UNCHANGED <<kind, log, cache, ready, snap, pos, stream, cut, mainVars,
                   breaks>>

\* _do_watch: unless kill_stream was called while the stream was opened.
adopt ==
    /\ tpc = "adopt"
    /\ response' = IF response = "none" THEN "open" ELSE response
    /\ tpc' = IF response = "none" THEN "read" ELSE "close"
    /\ UNCHANGED <<kind, log, cache, ready, snap, pos, stream, cut, mainVars,
                   breaks>>

\* The next event of the stream.
read ==
    /\ tpc = "read" /\ ~cut
    /\ pos < Len(log)
    /\ pos' = pos + 1
    /\ process_event(pos + 1)
    /\ UNCHANGED <<kind, log, ready, tpc, snap, stream, response, cut, mainVars,
                   breaks>>

\* The stream ends: it was cut, it broke, or the server has compacted (410).
read_Fails ==
    /\ tpc = "read"
    /\ \/ cut /\ UNCHANGED breaks
       \/ breaks < MaxBreaks /\ breaks' = breaks + 1
    /\ tpc' = "close"
    /\ UNCHANGED <<kind, log, cache, ready, snap, pos, stream, response, cut,
                   mainVars>>

\* A plausible bug: the thread ends with its stream.
close_Thread ==
    /\ tpc = "close"
    /\ ready' = FALSE
    /\ response' = "none"
    /\ UNCHANGED <<kind, log, cache, tpc, snap, pos, stream, cut, mainVars,
                   breaks>>

\* The finally clause of _build_cache, and run starts again.
close ==
    /\ tpc = "close"
    /\ ready' = FALSE
    /\ response' = "none"
    /\ tpc' = "list"
    /\ UNCHANGED <<kind, log, cache, snap, pos, stream, cut, mainVars, breaks>>

-----------------------------------------------------------------------------
(* The HA loop and the other nodes *)

Change(k, put) ==
    /\ Len(log) < MaxRev
    /\ put \/ StateAt(k, Len(log)) > 0
    /\ log' = Append(log, [key |-> k, put |-> put])

\* There are no tombstones: the late answer to a put would bring an object
\* back that is deleted already, for as long as the stream lives.
Others(k) ==
    /\ \E put \in BOOLEAN :
          /\ Change(k, put)
          /\ ~put /\ ~Overtaking /\ mpc = "answer"
             => ~(log[sent].key = k /\ log[sent].put)
    /\ UNCHANGED <<kind, cache, ready, threadVars, response, cut, mainVars>>

\* A write of the HA loop; kubernetes objects are patched, never deleted.
call_rpc(k) ==
    /\ mpc = "idle"
    /\ \E put \in BOOLEAN : (kind = "kubernetes" => put) /\ Change(k, put)
    /\ sent' = Len(log) + 1
    /\ mpc' = "answer"
    /\ UNCHANGED <<kind, cache, ready, threadVars, response, cut, base>>

\* PatroniEtcd3Client.call_rpc, _patch_or_create: cache what was written;
\* when the answer was lost, nothing.
call_rpc_Answer ==
    /\ mpc = "answer"
    /\ process_event(sent) \/ UNCHANGED cache
    /\ mpc' = "idle"
    /\ UNCHANGED <<kind, log, ready, threadVars, response, cut, sent, base>>

set_base_uri ==
    /\ mpc = "idle" /\ kind = "etcd3"
    /\ base < MaxMoves
    /\ base' = base + 1
    /\ mpc' = "kill"
    /\ UNCHANGED <<kind, log, cache, ready, threadVars, response, cut, sent>>

kill_stream ==
    /\ mpc = "kill"
    /\ IF response = "open" THEN cut' = TRUE /\ UNCHANGED response
                            ELSE response' = "false" /\ UNCHANGED cut
    /\ mpc' = "idle"
    /\ UNCHANGED <<kind, log, cache, ready, threadVars, sent, base>>

Thread == list \/ swap \/ reset \/ connect \/ adopt \/ read \/ read_Fails \/ close

\* What the thread does in the end; a stream need not break by itself.
FairThread ==
    \/ list \/ swap \/ reset \/ connect \/ adopt \/ read \/ close
    \/ cut /\ read_Fails

Next ==
    \/ Thread
    \/ \E k \in Keys : Others(k) \/ call_rpc(k)
    \/ call_rpc_Answer
    \/ set_base_uri
    \/ kill_stream

-----------------------------------------------------------------------------
(* Properties *)

(***************************************************************************)
(* While the HA loop may read it, the cache is never behind the stream: it *)
(* holds of each object the version at the last delivered revision or a    *)
(* later one, whatever the order in which the answers to own writes, the   *)
(* events and a new list come in.  So when all events are delivered the    *)
(* cache is the store.                                                     *)
(***************************************************************************)
CacheIsRecent ==
    ready => \A k \in Keys : \A i \in Touching(k, pos) :
        IF cache[k] > 0 THEN cache[k] >= i
        ELSE \E j \in i..Len(log) : log[j].key = k /\ ~log[j].put

(***************************************************************************)
(* The thread never goes on to read a stream of a server that the client   *)
(* has left, however set_base_uri and kill_stream fall between the steps   *)
(* that open the stream.                                                   *)
(***************************************************************************)
StreamFollowsServer ==
    tpc = "read" /\ ~cut => stream = base \/ mpc = "kill"

(***************************************************************************)
(* Once the changes stop, the cache ends up equal to the store and ready.  *)
(***************************************************************************)
CacheCatchesUp ==
    <>[](ready /\ \A k \in Keys : cache[k] = StateAt(k, Len(log)))

=============================================================================
