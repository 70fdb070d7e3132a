---------------------------- MODULE DynamicConfig ----------------------------
(***************************************************************************)
(* The dynamic configuration: the /config key of the DCS, its editors (the *)
(* REST API of this node, which runs in its own threads, and patronictl),  *)
(* the local configuration, the cache file, and the main thread of one     *)
(* node, which merges them and hands the result to the watchdog, to the    *)
(* database and to the DCS client.                                         *)
(*                                                                         *)
(* Two settings stand for the two kinds: "ttl" is a number at the top      *)
(* level that only the dynamic configuration may set; "pg" is a server     *)
(* parameter that needs a restart, is nested (postgresql.parameters) and   *)
(* may be overridden locally.  0 means absent; Bad is no number.           *)
(***************************************************************************)
EXTENDS Integers

CONSTANTS
    Environment,   \* the value of "pg" in the environment of the process, or 0
    Bootstrap,     \* the section bootstrap.dcs
    ApiSettings,   \* the settings that are patched by way of the REST API
    NewValues,     \* the values that are asked for
    MaxWrites,     \* bound on requests
    MaxEdits,      \* bound on edits of the local file and on signals
    MaxFaults      \* bound on faults, restarts and losses of the key

Settings == {"ttl", "pg"}
Bad == 3
Values == 0..Bad
Empty == [s \in Settings |-> 0]
NoKey == [index |-> 0, data |-> Empty]
Editors == {"api", "ctl"}

VARIABLES
    key,        \* /config
    revision,   \* the index of the last change in the DCS
    leader,     \* this node has the leader key
    editor,     \* what the two editors are doing
    view,       \* dcs.cluster.config
    shared,     \* which of "view" and "dynamic" is the object the API works on
    seen,       \* _modify_index
    dynamic,    \* _dynamic_configuration
    file,       \* the value of "pg" in the local file
    local,      \* ... in _local_configuration
    dirty,      \* _cache_needs_saving
    cache,      \* patroni.dynamic.json, Empty if there is none
    sighup,     \* _received_sighup
    watchdog, handler, dcs,   \* the configuration that each of them works with
    server,     \* the value of "pg" that the server was started with
    pending,    \* _pending_restart
    reloaded,   \* how handler came about: "ok", "failed", "joined"
    pc, writes, edits, faults

editVars == <<key, revision, editor, view, shared>>
applied == <<watchdog, handler, dcs, server, pending, reloaded>>
vars == <<editVars, leader, seen, dynamic, file, local, dirty, cache, sighup,
          applied, pc, writes, edits, faults>>

Datas == [Settings -> Values]
Keys == [index : Nat, data : Datas]
Effectives == [ttl : 1..2, pg : 1..Bad]

TypeOK ==
    /\ key \in Keys /\ view \in Keys
    /\ revision \in Nat
    /\ editor \in [Editors -> [pc : {"idle", "publish", "merge", "write"},
                               setting : Settings, value : Values, read : Keys]]
    /\ shared \subseteq {"view", "dynamic"}
    /\ seen \in Nat \cup {-1}
    /\ dynamic \in Datas /\ cache \in Datas
    /\ file \in 0..2 /\ local \in 0..2
    /\ {leader, dirty, sighup, pending} \subseteq BOOLEAN
    /\ {watchdog, handler, dcs} \subseteq Effectives
    /\ server \in 1..Bad
    /\ reloaded \in {"ok", "failed", "joined"}
    /\ pc \in {"top", "load", "apply", "save"}
    /\ writes \in 0..MaxWrites /\ edits \in 0..MaxEdits /\ faults \in 0..MaxFaults

-----------------------------------------------------------------------------
(* Merging *)

\* A plausible bug: the value is taken as it is.
Builds_Always(d) == TRUE

\* _safe_copy_dynamic_configuration: int(value) raises.
Builds(d) == d["ttl"] # Bad

\* _build_effective_configuration: the defaults, the dynamic configuration, and
\* over them the local one where it is allowed.
build_effective_configuration(d, l) ==
    [ttl |-> IF d["ttl"] = 0 THEN 1 ELSE d["ttl"],
     pg |-> IF l # 0 THEN l ELSE IF d["pg"] = 0 THEN 1 ELSE d["pg"]]

effective == build_effective_configuration(dynamic, local)

\* _load_config_file: the environment wins over the file.
load_config_file == IF Environment # 0 THEN Environment ELSE file

Idle == [pc |-> "idle", setting |-> "ttl", value |-> 0, read |-> NoKey]

Init ==
    /\ key = [index |-> 1, data |-> Bootstrap]
    /\ revision = 1
    /\ leader \in BOOLEAN
    /\ editor = [e \in Editors |-> Idle]
    /\ view = key /\ shared = {} /\ seen = 1
    /\ dynamic = Bootstrap
    /\ file = 0 /\ local = load_config_file
    /\ dirty = TRUE /\ cache = Empty
    /\ sighup = FALSE
    /\ watchdog = effective /\ handler = effective /\ dcs = effective
    /\ server = effective.pg /\ pending = FALSE /\ reloaded = "joined"
    /\ pc = "top" /\ writes = 0 /\ edits = 0 /\ faults = 0

Fault == faults < MaxFaults /\ faults' = faults + 1

HasData(k) == k.index > 0 /\ k.data # Empty

-----------------------------------------------------------------------------
(* The editors *)

Put(d) ==
    /\ revision' = revision + 1
    /\ key' = [index |-> revision + 1, data |-> d]

patch_config(d, e) == [d EXCEPT ![editor[e].setting] = editor[e].value]

\* do_PATCH_config and edit_config: read the key ...
edit_Load(e, s, v) ==
    /\ editor[e].pc = "idle" /\ writes < MaxWrites
    /\ key.index > 0
    /\ e = "api" => s \in ApiSettings
    /\ editor' = [editor EXCEPT ![e] =
                    [pc |-> IF e = "api" THEN "publish" ELSE "write",
                     setting |-> s, value |-> v, read |-> key]]
    /\ writes' = writes + 1
    /\ UNCHANGED <<key, revision, leader, view, shared, seen, dynamic, file, local,
                   dirty, cache, sighup, applied, pc, edits, faults>>

\* get_cluster in a thread of the REST API replaces the view of the node.
get_cluster ==
    /\ editor["api"].pc = "publish"
    /\ view' = editor["api"].read
    /\ shared' = {"view"}
    /\ editor' = [editor EXCEPT !["api"].pc = "merge"]
    /\ UNCHANGED <<key, revision, leader, seen, dynamic, file, local, dirty, cache,
                   sighup, applied, pc, writes, edits, faults>>

(***************************************************************************)
(* The copy of cluster.config.data is shallow: patch_config changes what   *)
(* is nested in place, in the view and in whoever has taken it over.       *)
(***************************************************************************)
do_PATCH_config ==
    /\ editor["api"].pc = "merge"
    /\ LET nested == editor["api"].setting = "pg" IN
       /\ view' = IF nested /\ "view" \in shared
                  THEN [view EXCEPT !.data = patch_config(@, "api")] ELSE view
       /\ dynamic' = IF nested /\ "dynamic" \in shared
                     THEN patch_config(dynamic, "api") ELSE dynamic
    /\ LET read == editor["api"].read.data IN
       editor' = [editor EXCEPT !["api"].pc =
                    IF patch_config(read, "api") = read THEN "idle" ELSE "write"]
    /\ shared' = {}
    /\ UNCHANGED <<key, revision, leader, seen, file, local, dirty, cache, sighup,
                   applied, pc, writes, edits, faults>>

\* A plausible bug: the index is not compared.
set_config_value_Blind(e) == Put(patch_config(editor[e].read.data, e))

\* set_config_value with an index: compare and set; 409 otherwise.
set_config_value(e) ==
    IF editor[e].read.index = key.index
    THEN Put(patch_config(editor[e].read.data, e)) ELSE UNCHANGED <<key, revision>>

\* ... and write it back; the DCS may fail.
edit_Write(e) ==
    /\ editor[e].pc = "write"
    /\ \/ set_config_value(e) /\ UNCHANGED faults
       \/ Fault /\ UNCHANGED <<key, revision>>
    /\ editor' = [editor EXCEPT ![e] = Idle]
    /\ UNCHANGED <<leader, view, shared, seen, dynamic, file, local, dirty, cache,
                   sighup, applied, pc, writes, edits>>

\* Replaces everything, whatever the key holds by then.
do_PUT_config(d) ==
    /\ writes < MaxWrites
    /\ key.index > 0 /\ d # key.data
    /\ view' = key /\ shared' = shared \ {"view"}
    /\ Put(d)
    /\ writes' = writes + 1
    /\ UNCHANGED <<editor, leader, seen, dynamic, file, local, dirty, cache, sighup,
                   applied, pc, edits, faults>>

\* patronictl remove, or a DCS that has lost its data.
Wipe ==
    /\ key.index > 0 /\ Fault
    /\ key' = NoKey
    /\ UNCHANGED <<revision, editor, view, shared, leader, seen, dynamic, file,
                   local, dirty, cache, sighup, applied, pc, writes, edits>>

-----------------------------------------------------------------------------
(* The main thread *)

\* A plausible bug: the DCS client is not told.
reload_config_NotDcs(new) ==
    /\ watchdog' = new /\ handler' = new
    /\ pending' = (server # new.pg)
    /\ reloaded' = "ok"
    /\ UNCHANGED <<dcs, faults>>

\* A plausible bug: the new value is compared with the configured one.
reload_config_Configured(new) ==
    /\ watchdog' = new /\ handler' = new /\ dcs' = new
    /\ pending' = (handler.pg # new.pg)
    /\ reloaded' = "ok"
    /\ UNCHANGED faults

(***************************************************************************)
(* Patroni.reload_config: the watchdog, the database, the DCS client.  The *)
(* query of pg_settings may raise; the exception is caught, and the rest   *)
(* is left out.                                                            *)
(***************************************************************************)
reload_config(new) ==
    /\ watchdog' = new
    /\ \/ /\ handler' = new /\ dcs' = new
          /\ pending' = (server # new.pg)
          /\ reloaded' = "ok"
          /\ UNCHANGED faults
       \/ /\ Fault
          /\ reloaded' = "failed"
          /\ UNCHANGED <<handler, dcs, pending>>

\* do_POST_reload, or a signal: only a flag is set.
sighup_handler ==
    /\ edits < MaxEdits /\ edits' = edits + 1
    /\ sighup' = TRUE
    /\ file' \in NewValues \ {Bad}
    /\ UNCHANGED <<editVars, leader, seen, dynamic, local, dirty, cache, applied, pc,
                   writes, faults>>

\* The top of run: reload_local_configuration, then reload everything.
run ==
    /\ pc = "top"
    /\ pc' = "load"
    /\ sighup' = FALSE
    /\ IF sighup
       THEN /\ local' = load_config_file
            /\ reload_config(build_effective_configuration(dynamic, local'))
       ELSE UNCHANGED <<local, watchdog, handler, dcs, pending, reloaded, faults>>
    /\ UNCHANGED <<editVars, leader, seen, dynamic, file, dirty, cache, server,
                   writes, edits>>

(***************************************************************************)
(* load_cluster_from_dcs.  A leader that finds no configuration, or an     *)
(* empty one, writes its own.                                              *)
(***************************************************************************)
load_cluster ==
    /\ pc = "load"
    /\ shared' = shared \ {"view"}
    /\ \/ /\ IF leader /\ ~HasData(key)
             THEN Put(dynamic) /\ view' = key'
             ELSE view' = key /\ UNCHANGED <<key, revision>>
          /\ UNCHANGED faults
       \/ Fault /\ view' = NoKey /\ UNCHANGED <<key, revision>>
    /\ pc' = "apply"
    /\ UNCHANGED <<editor, leader, seen, dynamic, file, local, dirty, cache, sighup,
                   applied, writes, edits>>

(***************************************************************************)
(* Patroni._run_cycle: set_dynamic_configuration notes the index first and *)
(* keeps what it has if the new value is the same or does not build.       *)
(***************************************************************************)
set_dynamic_configuration ==
    /\ pc = "apply"
    /\ pc' = "save"
    /\ seen' = IF HasData(view) THEN view.index ELSE seen
    /\ IF HasData(view) /\ seen # view.index /\ dynamic # view.data /\ Builds(view.data)
       THEN /\ dynamic' = view.data
            /\ shared' = IF "view" \in shared THEN {"view", "dynamic"} ELSE {}
            /\ dirty' = TRUE
            /\ reload_config(build_effective_configuration(view.data, local))
       ELSE UNCHANGED <<dynamic, shared, dirty, watchdog, handler, dcs, pending,
                        reloaded, faults>>
    /\ UNCHANGED <<key, revision, editor, view, leader, file, local, cache, sighup,
                   server, writes, edits>>

\* A plausible bug: the flag is cleared before the file is in place.
save_cache_Early ==
    /\ pc = "save"
    /\ pc' = "top"
    /\ dirty' = FALSE
    /\ \/ cache' = (IF dirty THEN dynamic ELSE cache) /\ UNCHANGED faults
       \/ dirty /\ Fault /\ UNCHANGED cache
    /\ UNCHANGED <<editVars, leader, seen, dynamic, file, local, sighup, applied,
                   writes, edits>>

\* A temporary file is moved over the old one; that may fail.
save_cache ==
    /\ pc = "save"
    /\ pc' = "top"
    /\ \/ /\ cache' = (IF dirty THEN dynamic ELSE cache)
          /\ dirty' = FALSE
          /\ UNCHANGED faults
       \/ dirty /\ Fault /\ UNCHANGED <<cache, dirty>>
    /\ UNCHANGED <<editVars, leader, seen, dynamic, file, local, sighup, applied,
                   writes, edits>>

-----------------------------------------------------------------------------

\* The database is restarted with the configuration that handler has.
RestartDatabase ==
    /\ pending
    /\ server' = handler.pg
    /\ pending' = FALSE
    /\ UNCHANGED <<editVars, leader, seen, dynamic, file, local, dirty, cache, sighup,
                   watchdog, handler, dcs, reloaded, pc, writes, edits, faults>>

(***************************************************************************)
(* Patroni is restarted next to a running database: Config.__init__ with   *)
(* _load_cache, then load_dynamic_configuration from the DCS or, when      *)
(* nobody has any, from the section bootstrap (the watchdog is not told    *)
(* then), then Postgresql.__init__.                                        *)
(***************************************************************************)
load_dynamic_configuration ==
    /\ Fault
    /\ local' = load_config_file
    /\ LET differs == HasData(key) /\ key.data # cache /\ Builds(key.data)
           starts == ~HasData(key) /\ cache = Empty
       IN  /\ dynamic' = IF differs THEN key.data
                         ELSE IF starts THEN Bootstrap ELSE cache
           /\ dirty' = (differs \/ starts)
           /\ watchdog' = build_effective_configuration(
                            IF starts THEN Empty ELSE dynamic', local')
    /\ seen' = IF HasData(key) THEN key.index ELSE -1
    /\ handler' = build_effective_configuration(dynamic', local') /\ dcs' = handler'
    /\ pending' = FALSE /\ reloaded' = "joined"
    /\ editor' = [editor EXCEPT !["api"] = Idle]
    /\ view' = key /\ shared' = {} /\ sighup' = FALSE /\ pc' = "top"
    /\ UNCHANGED <<key, revision, leader, file, cache, server, writes, edits>>

Main == run \/ load_cluster \/ set_dynamic_configuration \/ save_cache

Next ==
    \/ \E e \in Editors, s \in Settings, v \in NewValues :
          edit_Load(e, s, v) /\ (s = "pg" => v # Bad)
    \/ get_cluster \/ do_PATCH_config
    \/ \E e \in Editors : edit_Write(e)
    \/ do_PUT_config([ttl |-> 2, pg |-> 2])
    \/ Wipe
    \/ Main
    \/ sighup_handler
    \/ RestartDatabase
    \/ load_dynamic_configuration

-----------------------------------------------------------------------------
(* Properties *)

(***************************************************************************)
(* No accepted change is lost: a PATCH or an edit that is written changes  *)
(* nothing but the setting it is about, however old the configuration is   *)
(* that it was made from.                                                  *)
(***************************************************************************)
NoLostUpdate ==
    [][\A e \in Editors :
         editor[e].pc = "write" /\ editor'[e].pc = "idle" /\ key' # key
         => \A s \in Settings \ {editor[e].setting} : key'.data[s] = key.data[s]]_vars

(***************************************************************************)
(* After a successful reload pending_restart tells whether the server runs *)
(* with another value than it would after a restart, also when a change    *)
(* has been taken back and when the database has been restarted.           *)
(***************************************************************************)
RestartIsAnnounced == reloaded = "ok" => pending = (server # handler.pg)

(***************************************************************************)
(* When nothing has to be saved, a restart finds in the cache file what    *)
(* the node works with.                                                    *)
(***************************************************************************)
CacheFollows == ~dirty => cache = dynamic

(***************************************************************************)
(* When the changes stop, the watchdog, the database and the DCS client    *)
(* all work with what /config and the local file say, unless a reload has  *)
(* failed since: that one is not repeated.                                 *)
(***************************************************************************)
ConfigArrives ==
    <>[](HasData(key) /\ Builds(key.data) /\ reloaded # "failed"
         => {watchdog, handler, dcs}
              = {build_effective_configuration(key.data, local)})

=============================================================================
