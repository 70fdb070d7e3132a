------------------------------ MODULE LogQueue ------------------------------
(***************************************************************************)
(* Logging: any thread puts its records into a bounded queue, the logger   *)
(* thread writes them.  Records that find the queue full are counted, and  *)
(* the count is reported in a record of its own when there is room again.  *)
(* In the queue 0 is a record, n > 0 the report of n lost records and End  *)
(* the request to stop.                                                    *)
(***************************************************************************)
EXTENDS Integers, Sequences, FiniteSets

CONSTANTS
    Sizes,         \* values of max_queue_size; 0 is unbounded
    MaxRecords,    \* bound on records
    MaxReloads     \* bound on changes of the configuration

End == -1

VARIABLES
    queue, size,      \* QueueHandler.queue and its maxsize
    lost,             \* _records_lost
    thread,           \* the logger thread
    record,           \* the record it has taken
    handler,          \* log_handler: a number, a new one for each
    old, closed,      \* _old_handlers, and those that are closed
    emitted, written, \* records so far, and those written or reported
    due,              \* ... that have to be written when shutdown returns
    main,             \* what becomes of the main thread
    reloads

vars == <<queue, size, lost, thread, record, handler, old, closed, emitted, written,
          due, main, reloads>>

TypeOK ==
    /\ \A i \in DOMAIN queue : queue[i] \in End..MaxRecords
    /\ size \in Sizes
    /\ thread \in {"new", "close", "get", "handle", "stopped"}
    /\ record \in End..MaxRecords
    /\ handler \in 0..MaxReloads /\ old \subseteq 0..MaxReloads /\ closed \subseteq 0..MaxReloads
    /\ {lost, emitted, written, due} \subseteq 0..MaxRecords
    /\ main \in {"runs", "joins", "ended", "broken"}
    /\ reloads \in 0..MaxReloads

Init ==
    /\ queue = <<>> /\ size \in Sizes /\ lost = 0
    /\ thread = "new" /\ record = 0
    /\ handler = 0 /\ old = {} /\ closed = {}
    /\ emitted = 0 /\ written = 0 /\ due = 0
    /\ main = "runs" /\ reloads = 0

Room(q) == size = 0 \/ Len(q) < size

\* What an element of the queue stands for.
Records(item) == IF item = 0 THEN 1 ELSE IF item = End THEN 0 ELSE item

\* The records that the first n elements of q stand for.
Waiting(q, n) == {p \in (1..n) \X (1..MaxRecords) : p[2] <= Records(q[p[1]])}

Queued == Cardinality(Waiting(queue, Len(queue)))

\* A plausible bug: the counter is reset although the report did not fit.
try_to_report_lost_records_Resets(q) ==
    /\ queue' = IF lost > 0 /\ Room(q) THEN Append(q, lost) ELSE q
    /\ lost' = 0

\* _try_to_report_lost_records, after q has taken the record itself.
try_to_report_lost_records(q) ==
    IF lost > 0 /\ Room(q)
    THEN queue' = Append(q, lost) /\ lost' = 0
    ELSE queue' = q /\ UNCHANGED lost

(***************************************************************************)
(* A thread logs.  Before the logger thread runs, ProxyHandler writes at   *)
(* once; then QueueHandler.emit, under the lock of the handler.            *)
(***************************************************************************)
emit ==
    /\ emitted < MaxRecords /\ main # "ended" /\ main # "broken"
    /\ emitted' = emitted + 1
    /\ IF thread = "new"
       THEN written' = written + 1 /\ UNCHANGED <<queue, lost>>
       ELSE /\ IF Room(queue) THEN try_to_report_lost_records(Append(queue, 0))
               ELSE lost' = lost + 1 /\ UNCHANGED queue
            /\ UNCHANGED written
    /\ UNCHANGED <<size, thread, record, handler, old, closed, due, main, reloads>>

\* reload_config: another limit, and perhaps another handler.
reload_config ==
    /\ main = "runs" /\ reloads < MaxReloads
    /\ reloads' = reloads + 1
    /\ size' \in Sizes
    /\ \/ handler' = reloads' /\ old' = old \cup {handler}
       \/ UNCHANGED <<handler, old>>
    /\ UNCHANGED <<queue, lost, thread, record, closed, emitted, written, due, main>>

\* The thread starts: from now on the queue is used.
start ==
    /\ thread = "new" /\ main = "runs"
    /\ thread' = "close"
    /\ UNCHANGED <<queue, size, lost, record, handler, old, closed, emitted, written,
                   due, main, reloads>>

\* A plausible bug: the handler in use is closed as well.
close_old_handlers_All ==
    /\ thread = "close"
    /\ closed' = closed \cup old \cup IF old # {} THEN {handler} ELSE {}
    /\ old' = {} /\ thread' = "get"
    /\ UNCHANGED <<queue, size, lost, record, handler, emitted, written, due, main,
                   reloads>>

\* _close_old_handlers, one after the other.
close_old_handlers ==
    /\ thread = "close"
    /\ \/ \E h \in old : old' = old \ {h} /\ closed' = closed \cup {h} /\ UNCHANGED thread
       \/ old = {} /\ thread' = "get" /\ UNCHANGED <<old, closed>>
    /\ UNCHANGED <<queue, size, lost, record, handler, emitted, written, due, main,
                   reloads>>

\* queue.get, which waits for a record.
get ==
    /\ thread = "get" /\ queue # <<>>
    /\ record' = Head(queue) /\ queue' = Tail(queue)
    /\ thread' = IF Head(queue) = End THEN "stopped" ELSE "handle"
    /\ UNCHANGED <<size, lost, handler, old, closed, emitted, written, due, main, reloads>>

\* log_handler.handle
handle ==
    /\ thread = "handle"
    /\ written' = written + Records(record)
    /\ thread' = "close"
    /\ UNCHANGED <<queue, size, lost, record, handler, old, closed, emitted, due, main,
                   reloads>>

\* A plausible bug: the request to stop goes ahead of the records.
shutdown_Ahead ==
    /\ main = "runs" /\ thread # "new"
    /\ queue' = <<End>> \o queue /\ main' = "joins" /\ due' = emitted - lost
    /\ UNCHANGED <<size, lost, thread, record, handler, old, closed, emitted, written,
                   reloads>>

\* shutdown: behind all records, or the process ends with exit code 5.
shutdown ==
    /\ main = "runs" /\ thread # "new"
    /\ IF Room(queue) THEN queue' = Append(queue, End) /\ main' = "joins"
       ELSE main' = "broken" /\ UNCHANGED queue
    /\ due' = emitted - lost
    /\ UNCHANGED <<size, lost, thread, record, handler, old, closed, emitted, written,
                   reloads>>

join ==
    /\ main = "joins" /\ thread = "stopped"
    /\ main' = "ended"
    /\ UNCHANGED <<queue, size, lost, thread, record, handler, old, closed, emitted,
                   written, due, reloads>>

Next ==
    \/ emit \/ reload_config \/ start
    \/ close_old_handlers \/ get \/ handle
    \/ shutdown \/ join

-----------------------------------------------------------------------------
(* Properties *)

(***************************************************************************)
(* Every record is written, in the queue, or counted as lost exactly once, *)
(* whatever the limit becomes while the queue is in use.                   *)
(***************************************************************************)
EveryRecordCounts ==
    emitted = written + Queued + lost + (IF thread = "handle" THEN Records(record) ELSE 0)

\* The thread never writes with a handler that has been closed.
HandlerIsOpen == thread = "handle" => handler \notin closed

(***************************************************************************)
(* When shutdown returns, what was logged before it has been written;      *)
(* except for records that were counted as lost.                           *)
(***************************************************************************)
ShutdownDrains == main = "ended" => written >= due

=============================================================================
