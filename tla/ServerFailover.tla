--------------------------- MODULE ServerFailover ---------------------------
(***************************************************************************)
(* One request of the etcd client (api_execute) or of the Kubernetes       *)
(* client (request) to a cluster of servers: how the time that is left is  *)
(* divided between the servers, when the list of servers is read again and *)
(* when the request is given up.                                           *)
(*                                                                         *)
(* Time is counted in sixths of a second, so that it can be divided by one *)
(* to three servers.  A server answers at once, refuses at once or is      *)
(* silent until the timeout.                                               *)
(***************************************************************************)
EXTENDS Integers, Sequences, FiniteSets

CONSTANTS
    Servers,
    Clients,      \* {"etcd", "kubernetes"}
    ReadTimeout,  \* retry_timeout, in sixths of a second
    SleepTime     \* the delay of the Retry object

Second == 6

VARIABLES
    client,
    now,
    known,     \* _machines_cache, _api_servers_cache
    base,      \* _base_uri
    update,    \* _update_machines_cache, _update_api_servers_cache
    todo,      \* the servers still to be tried in this pass
    passes,    \* the list that this pass started with
    count,     \* the number of servers the timeouts are computed for
    timeout,   \* how long a silent server is waited for, its retries included
    failed,    \* some_request_failed
    rpc        \* where the call is; "ok" or "error" at its end

vars == <<client, now, known, base, update, todo, passes, count, timeout,
          failed, rpc>>

Least(a, b) == IF a < b THEN a ELSE b
Largest(S) == CHOOSE i \in S : \A j \in S : j <= i

Listed(s) == {s[i] : i \in DOMAIN s}

\* The lists of servers that a server may give: nobody is on a list twice.
Lists ==
    {s \in UNION {[1..n -> Servers] : n \in 1..Cardinality(Servers)} :
       \A i, j \in DOMAIN s : s[i] = s[j] => i = j}

\* The servers to ask in this order: the one in use first, if it is listed.
machines_cache ==
    [j \in DOMAIN known |->
       IF base \notin {known[i] : i \in j..Len(known)} THEN known[j]
       ELSE IF j = 1 THEN base ELSE known[j - 1]]

TypeOK ==
    /\ client \in Clients
    /\ now \in Nat
    /\ Listed(known) \subseteq Servers /\ Listed(todo) \subseteq Servers
    /\ base \in Servers
    /\ {update, failed} \subseteq BOOLEAN
    /\ count \in 0..Cardinality(Servers)
    /\ timeout \in 0..ReadTimeout
    /\ rpc \in {"start", "pass", "refresh", "reload", "retry", "ok", "error"}

-----------------------------------------------------------------------------
(* _calculate_timeouts *)

\* A plausible bug: every server is given the whole time.
calculate_timeouts_Whole(n, t) ==
    IF t < n * Second THEN [nodes |-> 0, wait |-> 0] ELSE [nodes |-> n, wait |-> t]

\* How often each server may be tried when there is time for all of them.
max_retries(n) ==
    IF client = "etcd" THEN 4 - Least(n, 3) ELSE 3 - Least(n, 2)

(***************************************************************************)
(* As many servers as can be given a second each, and for a small cluster  *)
(* several tries on each.  What a silent server can take is the share of   *)
(* one server, whatever the number of tries it is divided into.            *)
(***************************************************************************)
calculate_timeouts(n, t) ==
    LET fits == {m \in 1..n : t >= m * Second}
        nodes == IF fits = {} THEN 0 ELSE Largest(fits)
        max == IF nodes < n THEN 1 ELSE max_retries(n)
        tries == Largest({1} \cup {r \in 1..max : t >= nodes * r * Second})
    IN  IF nodes = 0 THEN [nodes |-> 0, wait |-> 0]
        ELSE [nodes |-> nodes, wait |-> tries * (t \div (nodes * tries))]

-----------------------------------------------------------------------------

Init ==
    /\ client \in Clients
    /\ now = 0
    /\ known \in Lists
    /\ base = known[1]
    /\ update \in BOOLEAN
    /\ todo = <<>> /\ passes = <<>> /\ count = 0 /\ timeout = 0 /\ failed = FALSE
    /\ rpc = "start"

\* The whole list is asked for its members: one answers, or all are silent.
ListAnswers(spent) ==
    /\ spent \in 0..ReadTimeout
    /\ now' = now + spent
    /\ \E s \in Lists :
          /\ known' = s
          /\ base' = IF base \in Listed(s) THEN base ELSE s[1]
ListFails ==
    /\ now' = now + ReadTimeout
    /\ UNCHANGED <<known, base>>

ListLoads ==
    /\ \E spent \in {0, ReadTimeout} : ListAnswers(spent)
    /\ update' = FALSE
    /\ rpc' = "pass"

\* After a failure the list is loaded from the configuration, after its ttl it
\* is read again; only the first of the two ends the request when it fails.
start_Etcd ==
    /\ client = "etcd"
    /\ \/ ListLoads
       \/ ListFails /\ UNCHANGED update /\ rpc' = IF update THEN "error" ELSE "pass"
       \/ ~update /\ rpc' = "pass" /\ UNCHANGED <<now, known, base, update>>

\* The same, but an old list is read again elsewhere (_load_cluster).
start_Kubernetes ==
    /\ client = "kubernetes"
    /\ IF update
       THEN ListLoads \/ (ListFails /\ UNCHANGED update /\ rpc' = "error")
       ELSE rpc' = "pass" /\ UNCHANGED <<now, known, base, update>>

\* The head of api_execute and of request.
start ==
    /\ rpc = "start"
    /\ start_Etcd \/ start_Kubernetes
    /\ LET cache == machines_cache' IN
       /\ passes' = cache /\ todo' = cache
       /\ count' = Len(cache)
       /\ timeout' = calculate_timeouts(Len(cache), ReadTimeout).wait
    /\ UNCHANGED <<client, failed>>

\* _do_http_request: the next server answers ...
try_Answers ==
    /\ rpc = "pass" /\ todo # <<>>
    /\ base' = IF failed THEN todo[1] ELSE base
    /\ rpc' = IF failed THEN "refresh" ELSE "ok"
    /\ UNCHANGED <<client, now, known, update, todo, passes, count, timeout,
                   failed>>

\* ... refuses or is silent: the next one.
try_Fails ==
    /\ rpc = "pass" /\ todo # <<>>
    /\ now' \in {now, now + timeout}
    /\ todo' = Tail(todo)
    /\ failed' = TRUE
    /\ UNCHANGED <<client, known, base, update, passes, count, timeout, rpc>>

\* After a change of server the list is read again.
refresh ==
    /\ rpc = "refresh"
    /\ ListAnswers(0) \/ ListFails
    /\ rpc' = "ok"
    /\ UNCHANGED <<client, update, todo, passes, count, timeout, failed>>

\* _load_machines_cache: nothing new while the configured names are the same.
load_machines_cache ==
    /\ client = "etcd"
    /\ \/ /\ update' = FALSE
          /\ UNCHANGED <<now, known, base, count, passes>>
       \/ /\ ListAnswers(0) /\ update' = FALSE
          /\ passes' = machines_cache'
          /\ count' = Len(known')
       \/ /\ ListFails /\ update' = TRUE
          /\ UNCHANGED <<count, passes>>

\* _load_api_servers_cache asks the configured server; the old number of
\* servers is kept (len is called on a number, the error is caught).
load_api_servers_cache ==
    /\ client = "kubernetes"
    /\ \/ /\ ListAnswers(0) /\ update' = FALSE
          /\ passes' = machines_cache'
       \/ /\ ListFails /\ update' = TRUE
          /\ UNCHANGED passes
    /\ UNCHANGED count

\* All servers have failed: load the list from the configuration.
reload ==
    /\ rpc = "pass" /\ todo = <<>>
    /\ load_machines_cache \/ load_api_servers_cache
    /\ rpc' = "retry"
    /\ UNCHANGED <<client, todo, timeout, failed>>

\* A plausible bug: a request that is given up leaves no trace.
retry_Forgets ==
    /\ rpc = "retry"
    /\ LET c == calculate_timeouts(count, ReadTimeout - SleepTime - now) IN
       \/ /\ c.nodes = 0
          /\ rpc' = "error"
          /\ UNCHANGED <<now, todo, passes, timeout>>
       \/ /\ c.nodes > 0
          /\ now' = now + SleepTime
          /\ timeout' = c.wait
          /\ passes' = SubSeq(passes, 1, Least(c.nodes, Len(passes)))
          /\ todo' = passes'
          /\ rpc' = "pass"
    /\ UNCHANGED <<client, known, base, update, count, failed>>

\* Is there a second left for any server?  Then sleep and start a pass.
retry ==
    /\ rpc = "retry"
    /\ LET c == calculate_timeouts(count, ReadTimeout - SleepTime - now) IN
       \/ /\ c.nodes = 0
          /\ update' = TRUE
          /\ rpc' = "error"
          /\ UNCHANGED <<now, todo, passes, timeout>>
       \/ /\ c.nodes > 0
          /\ now' = now + SleepTime
          /\ timeout' = c.wait
          /\ passes' = SubSeq(passes, 1, Least(c.nodes, Len(passes)))
          /\ todo' = passes'
          /\ rpc' = "pass"
          /\ UNCHANGED update
    /\ UNCHANGED <<client, known, base, count, failed>>

Done == rpc \in {"ok", "error"} /\ UNCHANGED vars

Next ==
    \/ start \/ try_Answers \/ try_Fails \/ refresh \/ reload \/ retry
    \/ Done

-----------------------------------------------------------------------------
(* Properties *)

(***************************************************************************)
(* A request is bounded: at most one retry_timeout each for the list at    *)
(* its start, for the request itself and for the list after a failure or a *)
(* change of server; however the servers fail and the list changes.  (With *)
(* more servers than retry_timeout has seconds it does not hold: the first *)
(* pass tries them all.)                                                   *)
(***************************************************************************)
RequestIsBounded == now <= 3 * ReadTimeout

(***************************************************************************)
(* A request that has failed leaves a client that starts with the servers  *)
(* of its configuration the next time, one that has succeeded has a server *)
(* in use that is on the list or has just answered.                        *)
(***************************************************************************)
FailureIsRemembered ==
    /\ rpc = "error" => update
    /\ rpc = "ok" => base \in Listed(known) \cup Listed(passes)

=============================================================================
