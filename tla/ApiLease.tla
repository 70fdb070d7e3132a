------------------------------ MODULE ApiLease ------------------------------
(***************************************************************************)
(* What the REST API tells load balancers.  /master is answered from a     *)
(* local lease, which the HA loop sets when it hears from the DCS; the     *)
(* leader key itself lives for ttl from the moment at which the DCS wrote  *)
(* it.  Requests and answers take time.                                    *)
(***************************************************************************)
EXTENDS Integers

CONSTANTS
    Nodes,
    Ttl,
    Delay,       \* the longest time a request may take, retries included
    MaxTime      \* bound on the clock

None == "none"
NoAnswer == "no answer"

VARIABLES
    now,
    owner, expires,   \* the leader key, and when it goes
    call,             \* the call of the DCS that the HA loop waits for
    answer,           \* what the DCS has said to it
    sent,             \* when it began
    view,             \* the leader in Ha.cluster
    lease,            \* _is_leader
    held              \* when the node's last key was to expire

vars == <<now, owner, expires, call, answer, sent, view, lease, held>>

TypeOK ==
    /\ now \in 0..MaxTime
    /\ owner \in Nodes \cup {None} /\ expires \in 0..(MaxTime + Ttl)
    /\ call \in [Nodes -> {"none", "get_cluster", "acquire", "update", "delete"}]
    /\ answer \in [Nodes -> {NoAnswer, "yes", "no", None} \cup Nodes]
    /\ sent \in [Nodes -> 0..MaxTime]
    /\ view \in [Nodes -> Nodes \cup {None}]
    /\ lease \in [Nodes -> 0..(MaxTime + Ttl)] /\ held \in [Nodes -> 0..(MaxTime + Ttl)]

Init ==
    /\ now = 0 /\ owner = None /\ expires = 0
    /\ call = [n \in Nodes |-> "none"] /\ answer = [n \in Nodes |-> NoAnswer]
    /\ sent = [n \in Nodes |-> 0]
    /\ view = [n \in Nodes |-> None]
    /\ lease = [n \in Nodes |-> 0] /\ held = [n \in Nodes |-> 0]

Set(f, n, v) == [f EXCEPT ![n] = v]

Holder == IF now < expires THEN owner ELSE None

-----------------------------------------------------------------------------
(* The HA loop *)

Send(n, c) ==
    /\ call' = Set(call, n, c)
    /\ sent' = Set(sent, n, now)
    /\ answer' = Set(answer, n, NoAnswer)

Return(n) ==
    /\ call' = Set(call, n, "none")
    /\ sent' = Set(sent, n, 0)
    /\ answer' = Set(answer, n, NoAnswer)

\* load_cluster_from_dcs, and then, depending on the view, one more call.
get_cluster(n) ==
    /\ call[n] = "none"
    /\ Send(n, "get_cluster")
    /\ UNCHANGED <<now, owner, expires, view, lease, held>>

\* load_cluster_from_dcs: no lock, no lease.
Loaded(n) == IF answer[n] # n THEN Set(lease, n, 0) ELSE lease

load_cluster_from_dcs(n) ==
    /\ call[n] = "get_cluster" /\ answer[n] # NoAnswer
    /\ view' = Set(view, n, answer[n])
    /\ lease' = Loaded(n)
    /\ IF answer[n] \in {n, None}
       THEN Send(n, IF answer[n] = n THEN "update" ELSE "acquire")
       ELSE Return(n)
    /\ UNCHANGED <<now, owner, expires, held>>

\* A plausible bug: the lease is longer than the key.
Lease_Doubled(value) == IF value THEN now + 2 * Ttl ELSE 0

\* set_is_leader
Lease(value) == IF value THEN now + Ttl ELSE 0

\* acquire_lock and update_lock.
set_is_leader(n) ==
    /\ call[n] \in {"acquire", "update"} /\ answer[n] # NoAnswer
    /\ lease' = Set(lease, n, Lease(answer[n] = "yes"))
    /\ Return(n)
    /\ UNCHANGED <<now, owner, expires, view, held>>

\* demote: stop, and _delete_leader, which ends the lease before the key goes.
delete_leader(n) ==
    /\ call[n] = "none" /\ view[n] = n
    /\ lease' = Set(lease, n, 0)
    /\ Send(n, "delete")
    /\ UNCHANGED <<now, owner, expires, view, held>>

deleted(n) ==
    /\ call[n] = "delete" /\ answer[n] # NoAnswer
    /\ Return(n)
    /\ UNCHANGED <<now, owner, expires, view, lease, held>>

-----------------------------------------------------------------------------
(* The DCS and time *)

\* The DCS executes a call.
Execute(n) ==
    /\ call[n] # "none" /\ answer[n] = NoAnswer
    /\ LET granted == \/ call[n] = "acquire" /\ Holder = None
                      \/ call[n] = "update" /\ Holder = n
       IN  /\ answer' = Set(answer, n, IF call[n] = "get_cluster" THEN Holder
                                       ELSE IF granted THEN "yes" ELSE "no")
           /\ IF granted THEN owner' = n /\ expires' = now + Ttl /\ held' = Set(held, n, expires')
              ELSE /\ owner' = IF call[n] = "delete" /\ owner = n THEN None ELSE owner
                   /\ UNCHANGED <<expires, held>>
    /\ UNCHANGED <<now, call, sent, view, lease>>

\* A call fails.  acquire_lock and update_lock are False then; get_cluster raises
\* an error, upon which a primary demotes itself and keeps its lease.
Fail(n) ==
    /\ call[n] # "none" /\ now = sent[n] + Delay
    /\ Return(n)
    /\ lease' = IF call[n] \in {"acquire", "update"} THEN Set(lease, n, 0) ELSE lease
    /\ UNCHANGED <<now, owner, expires, view, held>>

Tick ==
    /\ now < MaxTime
    /\ \A n \in Nodes : call[n] # "none" => now < sent[n] + Delay
    /\ now' = now + 1
    /\ UNCHANGED <<owner, expires, call, answer, sent, view, lease, held>>

Next ==
    \/ \E n \in Nodes :
         \/ get_cluster(n) \/ load_cluster_from_dcs(n) \/ set_is_leader(n)
         \/ delete_leader(n) \/ deleted(n)
         \/ Execute(n) \/ Fail(n)
    \/ Tick

-----------------------------------------------------------------------------
(* The REST API *)

is_leader(n) == lease[n] > now

\* do_GET for the path /master, outside of pause mode and standby clusters.
primary_status_code(n) == IF is_leader(n) THEN 200 ELSE 503

(* Properties *)

(***************************************************************************)
(* A node without the key answers 200 at /master only if its key has       *)
(* expired (not after it has given the key up), and no longer than for the *)
(* time that a request to the DCS may take.                                *)
(***************************************************************************)
StaleMasterIsBrief ==
    \A n \in Nodes :
       primary_status_code(n) = 200 /\ Holder # n
       => held[n] <= now /\ now < held[n] + Delay

=============================================================================
