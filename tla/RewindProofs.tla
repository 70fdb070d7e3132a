---------------------------- MODULE RewindProofs ----------------------------
(***************************************************************************)
(* Proofs about Rewind, for any number of nodes, records, timelines and    *)
(* faults: the two verdicts of class Rewind are right.  The argument is    *)
(* about the timelines: a promotion takes a number that nobody has used,   *)
(* and only the server that was promoted, until it is started again as a   *)
(* replica, writes records of that timeline.  So two WALs that have a      *)
(* record of the same timeline agree up to the earlier of the two records, *)
(* and it is enough to compare the last records.                           *)
(***************************************************************************)
EXTENDS MCRewind, TLAPS

-----------------------------------------------------------------------------
(* WALs *)

(***************************************************************************)
(* The timelines of a WAL do not decrease, and before a record of another  *)
(* timeline there is a switch point.                                       *)
(***************************************************************************)
Orderly(w) ==
    \A i, j \in 1..Len(w) :
        i <= j => /\ w[i] <= w[j]
                  /\ w[i] # w[j] => \E k \in i..(j - 1) : w[k] = w[i] /\ w[k + 1] # w[i]

\* A record of v that is in w, at this place or later, has the same past in both.
Agree(v, w) ==
    \A i \in 1..Len(v), j \in 1..Len(w) :
        v[i] = w[j] /\ i <= j => \A k \in 1..i : v[k] = w[k]

WALs == Seq(Nat) \ {<<>>}

\* w begins with v.
LEMMA PrefixMeans ==
    ASSUME NEW v \in Seq(Nat), NEW w \in Seq(Nat)
    PROVE  IsPrefix(v, w) <=> Len(v) <= Len(w) /\ \A k \in 1..Len(v) : v[k] = w[k]
<1>1. ASSUME IsPrefix(v, w), NEW k \in 1..Len(v)
      PROVE  v[k] = w[k]
  <2>1. SubSeq(v, 1, Len(v))[k] = v[k] /\ SubSeq(w, 1, Len(v))[k] = w[k]
    BY <1>1 DEF IsPrefix
  <2> QED
    BY <1>1, <2>1 DEF IsPrefix
<1>2. ASSUME Len(v) <= Len(w), \A k \in 1..Len(v) : v[k] = w[k]
      PROVE  SubSeq(v, 1, Len(v)) = SubSeq(w, 1, Len(v))
  BY <1>2
<1> QED
  BY <1>1, <1>2 DEF IsPrefix

\* A strict prefix is shorter.
LEMMA StrictPrefixMeans ==
    ASSUME NEW v \in Seq(Nat), NEW w \in Seq(Nat), IsStrictPrefix(v, w)
    PROVE  Len(v) < Len(w) /\ \A k \in 1..Len(v) : v[k] = w[k]
<1>1. Len(v) <= Len(w) /\ \A k \in 1..Len(v) : v[k] = w[k]
  BY PrefixMeans DEF IsStrictPrefix
<1>2. CASE Len(v) = Len(w)
  <2>1. v = w
    BY SMTT(60), <1>1, <1>2
  <2> QED
    BY <2>1 DEF IsStrictPrefix
<1> QED
  BY <1>1, <1>2

\* What a record at the end changes.
LEMMA AppendMeans ==
    ASSUME NEW w \in Seq(Nat), NEW x \in Nat
    PROVE  /\ Append(w, x) \in WALs
           /\ Len(Append(w, x)) = Len(w) + 1
           /\ \A k \in 1..Len(w) : Append(w, x)[k] = w[k]
           /\ Append(w, x)[Len(w) + 1] = x
           /\ Last(Append(w, x)) = x
  BY DEF WALs, Last

\* A WAL has a last record.
LEMMA LastMeans ==
    ASSUME NEW w \in WALs
    PROVE  Len(w) \in Nat \ {0} /\ Last(w) \in Nat /\ Last(w) = w[Len(w)]
  BY DEF WALs, Last

\* A record of the same or a later timeline keeps a WAL in order.
LEMMA OrderlyAppend ==
    ASSUME NEW w \in WALs, NEW x \in Nat, Orderly(w), Last(w) <= x
    PROVE  Orderly(Append(w, x))
<1> DEFINE u == Append(w, x)
           p == Len(w)
<1> w \in Seq(Nat) /\ p \in Nat \ {0} /\ w[p] = Last(w)
  BY LastMeans DEF WALs
<1>1. /\ u \in WALs /\ Len(u) = p + 1 /\ u[p + 1] = x
      /\ \A k \in 1..p : u[k] = w[k] /\ w[k] \in Nat
  BY AppendMeans
<1> HIDE DEF u, p
<1> SUFFICES ASSUME NEW i \in 1..Len(u), NEW j \in 1..Len(u), i <= j
             PROVE  /\ u[i] <= u[j]
                    /\ u[i] # u[j] =>
                          \E k \in i..(j - 1) : u[k] = u[i] /\ u[k + 1] # u[i]
  BY DEF Orderly, u
<1>2. CASE j <= p
  <2>1. /\ w[i] <= w[j]
        /\ w[i] # w[j] => \E k \in i..(j - 1) : w[k] = w[i] /\ w[k + 1] # w[i]
    BY <1>1, <1>2 DEF Orderly, p
  <2> QED
    BY <1>1, <1>2, <2>1
<1>3. CASE j = p + 1 /\ i = p + 1
  BY <1>1, <1>3
<1>4. CASE j = p + 1 /\ i <= p
  <2>1. /\ w[i] <= w[p]
        /\ w[i] # w[p] => \E k \in i..(p - 1) : w[k] = w[i] /\ w[k + 1] # w[i]
    BY <1>1, <1>4 DEF Orderly, p
  <2>2. u[i] <= u[j]
    BY <1>1, <1>4, <2>1
  <2>3. ASSUME u[i] # u[j]
        PROVE  \E k \in i..(j - 1) : u[k] = u[i] /\ u[k + 1] # u[i]
    <3>1. CASE w[i] = w[p]
      BY <1>1, <1>4, <2>3, <3>1
    <3>2. CASE w[i] # w[p]
      BY <1>1, <1>4, <2>1, <3>2
    <3> QED
      BY <3>1, <3>2
  <2> QED
    BY <2>2, <2>3
<1> QED
  BY <1>1, <1>2, <1>3, <1>4

\* v is a beginning of w, and not empty.
Begins(v, w) == Len(v) <= Len(w) /\ \A k \in 1..Len(v) : v[k] = w[k]

LEMMA OrderlyPrefix ==
    ASSUME NEW v \in WALs, NEW w \in WALs, Begins(v, w), Orderly(w)
    PROVE  Orderly(v)
<1> v \in Seq(Nat) /\ w \in Seq(Nat) /\ Len(v) \in Nat /\ Len(w) \in Nat
  BY DEF WALs
<1> SUFFICES ASSUME NEW i \in 1..Len(v), NEW j \in 1..Len(v), i <= j
             PROVE  /\ v[i] <= v[j]
                    /\ v[i] # v[j] =>
                          \E k \in i..(j - 1) : v[k] = v[i] /\ v[k + 1] # v[i]
  BY DEF Orderly
<1>1. /\ Len(v) <= Len(w) /\ \A k \in 1..Len(v) : v[k] = w[k]
      /\ i \in 1..Len(w) /\ j \in 1..Len(w)
  BY DEF Begins
<1>2. /\ w[i] <= w[j]
      /\ w[i] # w[j] => \E k \in i..(j - 1) : w[k] = w[i] /\ w[k + 1] # w[i]
  BY <1>1 DEF Orderly
<1>3. \A k \in i..(j - 1) : v[k] = w[k] /\ v[k + 1] = w[k + 1]
  BY <1>1
<1> QED
  BY <1>1, <1>2, <1>3

\* A beginning of w agrees with whatever w agrees with.
LEMMA AgreePrefix ==
    ASSUME NEW v \in WALs, NEW w \in WALs, NEW u \in WALs, Begins(v, w)
    PROVE  /\ Agree(w, u) => Agree(v, u)
           /\ Agree(u, w) => Agree(u, v)
<1> /\ v \in Seq(Nat) /\ w \in Seq(Nat) /\ u \in Seq(Nat)
    /\ Len(v) \in Nat /\ Len(w) \in Nat /\ Len(u) \in Nat
  BY DEF WALs
<1>1. /\ Len(v) <= Len(w) /\ \A k \in 1..Len(v) : v[k] = w[k]
      /\ \A k \in 1..Len(v) : k \in 1..Len(w)
  BY DEF Begins
<1>2. ASSUME Agree(w, u), NEW i \in 1..Len(v), NEW j \in 1..Len(u), v[i] = u[j], i <= j
      PROVE  \A k \in 1..i : v[k] = u[k]
  <2>1. \A k \in 1..i : w[k] = u[k]
    BY <1>1, <1>2 DEF Agree
  <2> QED
    BY <1>1, <2>1
<1>3. ASSUME Agree(u, w), NEW i \in 1..Len(u), NEW j \in 1..Len(v), u[i] = v[j], i <= j
      PROVE  \A k \in 1..i : u[k] = v[k]
  <2>1. \A k \in 1..i : u[k] = w[k]
    BY <1>1, <1>3 DEF Agree
  <2>2. \A k \in 1..i : k \in 1..Len(v)
    BY <1>3
  <2> QED
    BY <1>1, <2>1, <2>2
<1> QED
  BY <1>2, <1>3 DEF Agree

LEMMA AgreeSelf == ASSUME NEW w PROVE Agree(w, w)
  BY DEF Agree

(***************************************************************************)
(* A record of x at the end of v, if the records of x that w has are not   *)
(* further on than the end of v, where x is the last timeline of v or one  *)
(* that w does not have.                                                   *)
(***************************************************************************)
LEMMA AgreeAppend ==
    ASSUME NEW v \in WALs, NEW w \in WALs, NEW x \in Nat,
           Agree(v, w), Agree(w, v),
           \A j \in 1..Len(w) : w[j] = x => j <= Len(v) /\ x = Last(v)
    PROVE  Agree(Append(v, x), w) /\ Agree(w, Append(v, x))
<1> DEFINE u == Append(v, x)
           p == Len(v)
<1> v \in Seq(Nat) /\ w \in Seq(Nat) /\ p \in Nat \ {0} /\ v[p] = Last(v)
  BY LastMeans DEF WALs
<1>1. Len(u) = p + 1 /\ u[p + 1] = x /\ \A k \in 1..p : u[k] = v[k]
  BY AppendMeans
<1>2. \A j \in 1..Len(w) : w[j] = x => j <= p /\ x = v[p]
  OBVIOUS
<1>3. /\ \A i \in 1..p, j \in 1..Len(w) :
            v[i] = w[j] /\ i <= j => \A k \in 1..i : v[k] = w[k]
      /\ \A i \in 1..Len(w), j \in 1..p :
            w[i] = v[j] /\ i <= j => \A k \in 1..i : w[k] = v[k]
  BY DEF Agree
<1> Len(w) \in Nat
  OBVIOUS
<1> HIDE DEF u, p
<1>4. ASSUME NEW i \in 1..(p + 1), NEW j \in 1..Len(w), u[i] = w[j], i <= j
      PROVE  \A k \in 1..i : u[k] = w[k]
  <2>1. i # p + 1
    BY <1>1, <1>2, <1>4
  <2> QED
    BY <1>1, <1>3, <1>4, <2>1
<1>5. ASSUME NEW i \in 1..Len(w), NEW j \in 1..(p + 1), w[i] = u[j], i <= j
      PROVE  \A k \in 1..i : w[k] = u[k]
  <2>1. CASE j = p + 1
    <3>1. i <= p /\ w[i] = v[p]
      BY <1>1, <1>2, <1>5, <2>1
    <3> QED
      BY <1>1, <1>3, <3>1
  <2>2. CASE j # p + 1
    BY <1>1, <1>3, <1>5, <2>2
  <2> QED
    BY <2>1, <2>2
<1> QED
  BY <1>1, <1>4, <1>5 DEF Agree, u

-----------------------------------------------------------------------------
(* Types *)

Jobs == {"idle", "promote", "on_success", "crash_recovery", "rewind", "copy", "clone",
         "start"}

LoopType ==
    /\ config \in Configs
    /\ pc \in [Nodes -> {"load", "act"}]
    /\ job \in [Nodes -> Jobs]
    /\ state \in [Nodes -> States]
    /\ task \in [Nodes -> {"none", "running", "true", "false"}]
    /\ crashRecovery \in [Nodes -> BOOLEAN]
    /\ role \in [Nodes -> {"master", "replica", "demoted"}]
    /\ pg \in [Nodes -> {"primary", "replica"} \cup Stopped]
    /\ unchecked \subseteq Nodes

KeyType ==
    /\ leader \in Nodes \cup {None}
    /\ claim \in [Nodes -> Claims]
    /\ view \in [Nodes -> Clusters] /\ source \in [Nodes -> Clusters]

WalType ==
    /\ wal \in [Nodes -> Seq(1..MaxTimeline) \ {<<>>}]
    /\ \A n \in Nodes : Len(wal[n]) <= MaxRecords
    /\ control \in [Nodes -> 1..MaxTimeline]
    /\ timelines \in 1..MaxTimeline

FaultType == faults \in 0..MaxFaults[config]

LEMMA TypeParts == TypeOK <=> LoopType /\ KeyType /\ WalType /\ FaultType
  BY DEF TypeOK, Jobs, LoopType, KeyType, WalType, FaultType

(***************************************************************************)
(* What the background does goes with the state of the server and with the *)
(* leader that it was scheduled for.                                       *)
(***************************************************************************)
JobAt(n) ==
    /\ job[n] = "crash_recovery" => pg[n] = "in production"
    /\ job[n] \in {"rewind", "copy", "clone"} => source[n].leader \in Nodes
    /\ job[n] = "copy" => source[n].claim.role = "master"

JobInv == \A n \in Nodes : JobAt(n)

\* The states of class Rewind after a check.
LEMMA CheckedType ==
    ASSUME NEW n, NEW s \in States, NEW end
    PROVE  /\ CheckedState(n, s, end) \in States
           /\ trigger_check_diverged_lsn(s) \in States
           /\ CheckedState(n, s, end) # s => CheckedState(n, s, end) \in {"NEED", "NOT_NEED"}
  BY DEF CheckedState, check_timeline_and_lsn, trigger_check_diverged_lsn,
         States

\* The states and jobs that _handle_rewind_or_reinitialize leads to.
LEMMA HandleType ==
    ASSUME LoopType, NEW n \in Nodes, NEW s \in States, NEW j \in {"idle", "start"},
           handle_rewind_or_reinitialize(n, s, j)
    PROVE  state' \in [Nodes -> States] /\ job' \in [Nodes -> Jobs]
<1>1. PICK end \in {0, Len(wal[n])} :
         /\ state' = Set(state, n, CheckedState(n, s, end))
         /\ \E k \in {j, "rewind", "clone"} : job' = Set(job, n, k)
  BY Zenon DEF handle_rewind_or_reinitialize
<1> QED
  BY <1>1, CheckedType DEF LoopType, Jobs, Set

\* The types of what the loop, the jobs and the server do.
LEMMA LoopTypeStep ==
    ASSUME LoopType, [Next]_vars
    PROVE  LoopType'
<1>1. ASSUME NEW n \in Nodes, load_cluster_from_dcs(n) PROVE LoopType'
  BY <1>1 DEF load_cluster_from_dcs, LoopType, Jobs, States, pgVars,
              rewindVars, Set, Stopped
<1>2. ASSUME NEW n \in Nodes, handle_long_action_in_progress(n) PROVE LoopType'
  <2>1. trigger_check_diverged_lsn(state[n]) \in States
    BY CheckedType DEF LoopType
  <2>2. state' \in [Nodes -> States]
    BY <1>2, <2>1 DEF handle_long_action_in_progress, LoopType, Set
  <2>3. job' \in [Nodes -> Jobs]
    BY <1>2 DEF handle_long_action_in_progress, LoopType, Jobs, Set
  <2>4. /\ role' \in [Nodes -> {"master", "replica", "demoted"}]
        /\ pg' \in [Nodes -> {"primary", "replica"} \cup Stopped]
    BY <1>2 DEF handle_long_action_in_progress, LoopType, Stopped, Set
  <2>5. /\ pc' \in [Nodes -> {"load", "act"}]
        /\ UNCHANGED <<config, task, crashRecovery, unchecked>>
    BY <1>2 DEF handle_long_action_in_progress, EndCycle, LoopType, Set
  <2> QED
    BY <2>2, <2>3, <2>4, <2>5 DEF LoopType
<1>3. ASSUME NEW n \in Nodes, recover(n) PROVE LoopType'
  <2>1. state[n] \in States /\ trigger_check_diverged_lsn(state[n]) \in States
    BY CheckedType DEF LoopType
  <2>2. state' \in [Nodes -> States] /\ job' \in [Nodes -> Jobs]
    <3>1. CASE \E s \in States : handle_rewind_or_reinitialize(n, s, "start")
      BY <3>1, HandleType
    <3>2. CASE UNCHANGED state /\ \E j \in Jobs : job' = Set(job, n, j)
      BY <3>2 DEF LoopType, Set
    <3> QED
      BY <1>3, <2>1, <3>1, <3>2 DEF recover, Jobs
  <2>3. /\ pc' \in [Nodes -> {"load", "act"}]
        /\ crashRecovery' \in [Nodes -> BOOLEAN] /\ unchecked' \subseteq Nodes
        /\ UNCHANGED <<config, task, role, pg>>
    BY <1>3 DEF recover, EndCycle, LoopType, Set, pgVars
  <2> QED
    BY <2>2, <2>3 DEF LoopType
<1>4. ASSUME NEW n \in Nodes, bootstrap(n) PROVE LoopType'
  BY <1>4 DEF bootstrap, EndCycle, Idle, LoopType, Jobs, States, pgVars,
              rewindVars, Set, Stopped
<1>5. ASSUME NEW n \in Nodes, lead(n) PROVE LoopType'
  BY <1>5 DEF lead, EndCycle, Idle, ensure_checkpoint_after_promote, LoopType,
              Jobs, States, pgVars, rewindVars, Set, Stopped
<1>6. ASSUME NEW n \in Nodes, process_unhealthy_cluster(n) PROVE LoopType'
  BY <1>6 DEF process_unhealthy_cluster, EndCycle, Idle, LoopType, Jobs,
              States, pgVars, rewindVars, Set, Stopped
<1>7. ASSUME NEW n \in Nodes, demote(n) PROVE LoopType'
  BY ZenonT(90), <1>7, CheckedType DEF demote, EndCycle, Idle, LoopType, Jobs, States,
                           pgVars, rewindVars, Set, Stopped
<1>8. ASSUME NEW n \in Nodes, follow(n) PROVE LoopType'
  <2>1. state[n] \in States
    BY DEF LoopType
  <2>2. state' \in [Nodes -> States] /\ job' \in [Nodes -> Jobs]
    <3>1. CASE handle_rewind_or_reinitialize(n, state[n], "idle")
      BY <2>1, <3>1, HandleType
    <3>2. CASE /\ UNCHANGED state \/ \E s \in States : state' = Set(state, n, s)
               /\ UNCHANGED job \/ \E j \in Jobs : job' = Set(job, n, j)
      BY <3>2 DEF LoopType, Set
    <3>3. /\ trigger_check_diverged_lsn(state[n]) \in States
          /\ trigger_check_diverged_lsn(CheckedState(n, state[n], Len(wal[n]))) \in States
      BY <2>1, CheckedType
    <3> QED
      BY <1>8, <3>1, <3>2, <3>3 DEF follow, Jobs
  <2>3. /\ pc' \in [Nodes -> {"load", "act"}] /\ unchecked' \subseteq Nodes
        /\ UNCHANGED <<config, task, crashRecovery, role, pg>>
    BY <1>8 DEF follow, EndCycle, LoopType, Set, pgVars
  <2> QED
    BY <2>2, <2>3 DEF LoopType
<1>9. ASSUME NEW n \in Nodes, rebuild(n) PROVE LoopType'
  BY ZenonT(90), <1>9, CheckedType DEF rebuild, EndCycle, Idle, LoopType, Jobs, States,
                           pgVars, rewindVars, Set, Stopped
<1>10. ASSUME NEW n \in Nodes, promote(n) PROVE LoopType'
  BY ZenonT(90), <1>10 DEF promote, LoopType, Jobs, States, pgVars, rewindVars, Set,
               Stopped
<1>11. ASSUME NEW n \in Nodes, on_success(n) PROVE LoopType'
  BY <1>11 DEF on_success, LoopType, Jobs, States, pgVars, rewindVars, Set,
               Stopped
<1>12. ASSUME NEW n \in Nodes, ensure_clean_shutdown(n) PROVE LoopType'
  BY <1>12 DEF ensure_clean_shutdown, LoopType, Jobs, States, pgVars,
               rewindVars, Set, Stopped
<1>13. ASSUME NEW n \in Nodes, start(n) PROVE LoopType'
  BY <1>13 DEF start, LoopType, Jobs, States, pgVars, rewindVars, Set, Stopped
<1>14. ASSUME NEW n \in Nodes, execute(n) PROVE LoopType'
  BY <1>14 DEF execute, LoopType, Jobs, States, pgVars, rewindVars, Set,
               Stopped
<1>15. ASSUME NEW n \in Nodes, pg_rewind(n) PROVE LoopType'
  <2>1. \E s \in States : state' = Set(state, n, s) \/ state' = state
    BY <1>15 DEF pg_rewind, States
  <2>2. \E p \in Stopped : pg' = Set(pg, n, p) \/ pg' = pg
    BY <1>15 DEF pg_rewind, Stopped
  <2>3. job' = Set(job, n, "idle") /\ UNCHANGED <<config, pc, task, crashRecovery, role,
                                                 unchecked>>
    BY <1>15 DEF pg_rewind
  <2> QED
    BY <2>1, <2>2, <2>3 DEF LoopType, Jobs, Set
<1>16. ASSUME NEW n \in Nodes, clone(n) PROVE LoopType'
  BY <1>16 DEF clone, LoopType, Jobs, States, pgVars, rewindVars, Set, Stopped
<1>17. ASSUME NEW n \in Nodes, demote_graceful(n) PROVE LoopType'
  BY ZenonT(90), <1>17, CheckedType DEF demote_graceful, EndCycle, Idle, LoopType, Jobs,
                            States, pgVars, rewindVars, Set, Stopped
<1>18. ASSUME NEW n \in Nodes, checkpoint(n) PROVE LoopType'
  BY <1>18 DEF checkpoint, LoopType, Jobs, States, pgVars, rewindVars, Set,
               Stopped
<1>19. ASSUME NEW n \in Nodes, server_checkpoint(n) PROVE LoopType'
  BY <1>19 DEF server_checkpoint, LoopType, Jobs, States, pgVars, rewindVars,
               Set, Stopped
<1>20. ASSUME NEW n \in Nodes, Write(n) PROVE LoopType'
  BY <1>20 DEF Write, LoopType, Jobs, States, pgVars, rewindVars, Set, Stopped
<1>21. ASSUME NEW n \in Nodes, Stream(n) PROVE LoopType'
  BY <1>21 DEF Stream, LoopType, Jobs, States, pgVars, rewindVars, Set, Stopped
<1>22. ASSUME NEW n \in Nodes, Crash(n) PROVE LoopType'
  BY <1>22 DEF Crash, LoopType, Jobs, States, pgVars, rewindVars, Set, Stopped
<1>23. ASSUME LoseKey PROVE LoopType'
  BY <1>23 DEF LoseKey, Fault, LoopType, Jobs, States, pgVars, rewindVars,
               Set, Stopped
<1>24. ASSUME UNCHANGED vars PROVE LoopType'
  BY <1>24 DEF vars, LoopType, Jobs, States, pgVars, rewindVars, Set, Stopped
<1> QED
  BY <1>1, <1>2, <1>3, <1>4, <1>5, <1>6, <1>7, <1>8, <1>9, <1>10, <1>11,
     <1>12, <1>13, <1>14, <1>15, <1>16, <1>17, <1>18, <1>19, <1>20, <1>21,
     <1>22, <1>23, <1>24 DEF Next, Loop, Work

\* What a promotion of n changes in what was read: nothing that was read about others.
LEMMA OutdatedMeans ==
    ASSUME NEW f \in [Nodes -> Clusters], NEW n \in Nodes
    PROVE  /\ Outdated(f, n) \in [Nodes -> Clusters]
           /\ \A m \in Nodes :
                 /\ Outdated(f, n)[m].leader = f[m].leader
                 /\ Outdated(f, n)[m].claim.role = f[m].claim.role
                 /\ f[m].leader # n => Outdated(f, n)[m] = f[m]
                 /\ f[m].leader = n => Outdated(f, n)[m].claim.checkpoint # "made"
<1> SUFFICES ASSUME NEW m \in Nodes
             PROVE  /\ Outdated(f, n)[m] \in Clusters
                    /\ Outdated(f, n)[m].leader = f[m].leader
                    /\ Outdated(f, n)[m].claim.role = f[m].claim.role
                    /\ f[m].leader # n => Outdated(f, n)[m] = f[m]
                    /\ f[m].leader = n => Outdated(f, n)[m].claim.checkpoint # "made"
  BY DEF Outdated
<1>1. f[m] \in Clusters /\ f[m].claim \in Claims
  BY DEF Clusters
<1>2. Outdated(f, n)[m] = IF f[m].leader = n /\ f[m].claim.checkpoint = "made"
                          THEN [f[m] EXCEPT !.claim.checkpoint = "left over"] ELSE f[m]
  BY DEF Outdated
<1>3. CASE f[m].leader = n /\ f[m].claim.checkpoint = "made"
  <2> DEFINE c == [role |-> f[m].claim.role, checkpoint |-> "left over"]
  <2>1. c \in Claims /\ c.role = f[m].claim.role /\ c.checkpoint = "left over"
    BY <1>1 DEF Claims
  <2>2. Outdated(f, n)[m] = [leader |-> f[m].leader, claim |-> c]
    BY <1>1, <1>2, <1>3 DEF Clusters, Claims
  <2>3. f[m].leader \in Nodes \cup {None}
    BY <1>1 DEF Clusters
  <2> HIDE DEF c
  <2>4. PICK o : o = [leader |-> f[m].leader, claim |-> c]
    OBVIOUS
  <2>5. o \in Clusters /\ o.leader = f[m].leader /\ o.claim = c
    BY <2>1, <2>3, <2>4 DEF Clusters
  <2> QED
    BY <1>3, <2>1, <2>2, <2>4, <2>5
<1>4. CASE ~(f[m].leader = n /\ f[m].claim.checkpoint = "made")
  BY <1>1, <1>2, <1>4
<1> QED
  BY <1>3, <1>4

\* What touch_member publishes.
LEMMA PublishedType ==
    ASSUME KeyType, NEW n \in Nodes, EndCycle(n)
    PROVE  \E c \in Claims : claim' = Set(claim, n, c)
<1> DEFINE mine == view'[n].leader = n
           c == [role |-> IF mine /\ role'[n] = "master" THEN "master" ELSE "replica",
                 checkpoint |-> IF mine /\ ~checkpoint_after_promote(state'[n])
                                THEN "awaited"
                                ELSE IF job[n] = "on_success" THEN "left over"
                                ELSE "made"]
<1>1. c \in Claims
  BY DEF Claims
<1>2. claim' = Set(claim, n, c)
  BY DEF EndCycle
<1> QED
  BY <1>1, <1>2

\* The types of what is in the DCS, and of what was read of it.
LEMMA KeyTypeStep ==
    ASSUME LoopType, KeyType, JobInv, [Next]_vars
    PROVE  KeyType'
<1>1. ASSUME NEW n \in Nodes, load_cluster_from_dcs(n) PROVE KeyType'
  BY <1>1 DEF load_cluster_from_dcs, LoopType, KeyType, Clusters, Claims,
              NoLeader, rewindVars, pgVars, Set
<1>2. ASSUME NEW n \in Nodes, handle_long_action_in_progress(n) PROVE KeyType'
  BY <1>2 DEF handle_long_action_in_progress, EndCycle, LoopType, KeyType,
              Clusters, Claims, NoLeader, rewindVars, pgVars, Set
<1>3. ASSUME NEW n \in Nodes, recover(n) PROVE KeyType'
  <2>1. claim' \in [Nodes -> Claims]
    BY <1>3, PublishedType DEF recover, KeyType, Set
  <2>2. UNCHANGED source \/ source' = Set(source, n, view[n])
    BY <1>3 DEF recover, handle_rewind_or_reinitialize
  <2>3. UNCHANGED <<leader, view>>
    BY <1>3 DEF recover
  <2> QED
    BY <2>1, <2>2, <2>3 DEF KeyType, Set
<1>4. ASSUME NEW n \in Nodes, bootstrap(n) PROVE KeyType'
  <2>1. claim' \in [Nodes -> Claims]
    BY <1>4, PublishedType DEF bootstrap, KeyType, Set
  <2>2. UNCHANGED source \/ source' = Set(source, n, view[n])
    BY <1>4 DEF bootstrap
  <2>3. leader' \in {leader, None} /\ UNCHANGED view
    BY <1>4 DEF bootstrap
  <2> QED
    BY <2>1, <2>2, <2>3 DEF KeyType, Set
<1>5. ASSUME NEW n \in Nodes, lead(n) PROVE KeyType'
  BY <1>5 DEF lead, EndCycle, Idle, ensure_checkpoint_after_promote, LoopType,
              KeyType, Clusters, Claims, NoLeader, rewindVars, pgVars, Set
<1>6. ASSUME NEW n \in Nodes, process_unhealthy_cluster(n) PROVE KeyType'
  BY <1>6 DEF process_unhealthy_cluster, EndCycle, Idle, LoopType, KeyType,
              Clusters, Claims, NoLeader, rewindVars, pgVars, Set
<1>7. ASSUME NEW n \in Nodes, demote(n) PROVE KeyType'
  BY <1>7 DEF demote, EndCycle, Idle, LoopType, KeyType, Clusters, Claims,
              NoLeader, rewindVars, pgVars, Set
<1>8. ASSUME NEW n \in Nodes, follow(n) PROVE KeyType'
  <2>1. claim' \in [Nodes -> Claims]
    BY <1>8, PublishedType DEF follow, KeyType, Set
  <2>2. UNCHANGED source \/ source' = Set(source, n, view[n])
    BY <1>8 DEF follow, handle_rewind_or_reinitialize
  <2>3. /\ leader' \in {leader, n}
        /\ UNCHANGED view \/ view' = Set(view, n, [leader |-> n, claim |-> claim[n]])
    BY <1>8 DEF follow
  <2> QED
    BY <2>1, <2>2, <2>3 DEF KeyType, Clusters, Set
<1>9. ASSUME NEW n \in Nodes, rebuild(n) PROVE KeyType'
  BY <1>9 DEF rebuild, EndCycle, Idle, LoopType, KeyType, Clusters, Claims,
              NoLeader, rewindVars, pgVars, Set
<1>10. ASSUME NEW n \in Nodes, promote(n) PROVE KeyType'
  <2>1. ASSUME NEW f \in [Nodes -> Clusters]
        PROVE  Outdated(f, n) \in [Nodes -> Clusters]
    BY OutdatedMeans
  <2>2. claim' \in [Nodes -> Claims]
    BY <1>10 DEF promote, KeyType, Claims
  <2>3. /\ view' \in {view, Outdated(view, n)} /\ source' \in {source, Outdated(source, n)}
        /\ UNCHANGED leader
    BY <1>10 DEF promote
  <2> QED
    BY <2>1, <2>2, <2>3 DEF KeyType
<1>11. ASSUME NEW n \in Nodes, on_success(n) PROVE KeyType'
  BY <1>11 DEF on_success, LoopType, KeyType, Clusters, Claims, NoLeader,
               rewindVars, pgVars, Set
<1>12. ASSUME NEW n \in Nodes, ensure_clean_shutdown(n) PROVE KeyType'
  BY <1>12 DEF ensure_clean_shutdown, LoopType, KeyType, Clusters, Claims,
               NoLeader, rewindVars, pgVars, Set
<1>13. ASSUME NEW n \in Nodes, start(n) PROVE KeyType'
  BY <1>13 DEF start, LoopType, KeyType, Clusters, Claims, NoLeader,
               rewindVars, pgVars, Set
<1>14. ASSUME NEW n \in Nodes, execute(n) PROVE KeyType'
  BY <1>14 DEF execute, LoopType, KeyType, Clusters, Claims, NoLeader,
               rewindVars, pgVars, Set
<1>15. ASSUME NEW n \in Nodes, pg_rewind(n) PROVE KeyType'
  BY <1>15 DEF pg_rewind, LoopType, KeyType, Clusters, Claims, NoLeader,
               rewindVars, pgVars, Set
<1>16. ASSUME NEW n \in Nodes, clone(n) PROVE KeyType'
  BY <1>16 DEF clone, LoopType, KeyType, Clusters, Claims, NoLeader,
               rewindVars, pgVars, Set
<1>17. ASSUME NEW n \in Nodes, demote_graceful(n) PROVE KeyType'
  BY <1>17 DEF demote_graceful, EndCycle, Idle, LoopType, KeyType, Clusters,
               Claims, NoLeader, rewindVars, pgVars, Set
<1>18. ASSUME NEW n \in Nodes, checkpoint(n) PROVE KeyType'
  BY <1>18 DEF checkpoint, LoopType, KeyType, Clusters, Claims, NoLeader,
               rewindVars, pgVars, Set
<1>19. ASSUME NEW n \in Nodes, server_checkpoint(n) PROVE KeyType'
  BY <1>19 DEF server_checkpoint, LoopType, KeyType, Clusters, Claims,
               NoLeader, rewindVars, pgVars, Set
<1>20. ASSUME NEW n \in Nodes, Write(n) PROVE KeyType'
  BY <1>20 DEF Write, LoopType, KeyType, Clusters, Claims, NoLeader,
               rewindVars, pgVars, Set
<1>21. ASSUME NEW n \in Nodes, Stream(n) PROVE KeyType'
  BY <1>21 DEF Stream, LoopType, KeyType, Clusters, Claims, NoLeader,
               rewindVars, pgVars, Set
<1>22. ASSUME NEW n \in Nodes, Crash(n) PROVE KeyType'
  BY <1>22 DEF Crash, LoopType, KeyType, Clusters, Claims, NoLeader,
               rewindVars, pgVars, Set
<1>23. ASSUME LoseKey PROVE KeyType'
  BY <1>23 DEF LoseKey, Fault, LoopType, KeyType, Clusters, Claims, NoLeader,
               rewindVars, pgVars, Set
<1>24. ASSUME UNCHANGED vars PROVE KeyType'
  BY <1>24 DEF vars, LoopType, KeyType, Clusters, Claims, NoLeader,
               rewindVars, pgVars, Set
<1> QED
  BY <1>1, <1>2, <1>3, <1>4, <1>5, <1>6, <1>7, <1>8, <1>9, <1>10, <1>11,
     <1>12, <1>13, <1>14, <1>15, <1>16, <1>17, <1>18, <1>19, <1>20, <1>21,
     <1>22, <1>23, <1>24 DEF Next, Loop, Work

\* The job that _handle_rewind_or_reinitialize starts has a leader to work with.
LEMMA HandleJob ==
    ASSUME LoopType, KeyType, NEW n \in Nodes, NEW s, NEW j \in {"idle", "start"},
           handle_rewind_or_reinitialize(n, s, j)
    PROVE  /\ \/ job'[n] = j
              \/ /\ job'[n] \in {"rewind", "clone"}
                 /\ source'[n] = view[n] /\ view[n].leader \in Nodes
           /\ \A m \in Nodes \ {n} : job'[m] = job[m] /\ source'[m] = source[m]
<1>1. PICK end \in {0, Len(wal[n])} :
         LET checked == CheckedState(n, s, end) IN
         /\ job' = Set(job, n, IF ~Needed(n, checked) THEN j
                               ELSE IF can_rewind THEN "rewind" ELSE "clone")
         /\ source' = IF Needed(n, checked) THEN Set(source, n, view[n]) ELSE source
  BY Zenon DEF handle_rewind_or_reinitialize
<1>2. CASE Needed(n, CheckedState(n, s, end))
  <2>1. view[n].leader \in Nodes
    BY <1>2 DEF Needed, KeyType, Clusters
  <2>2. /\ \E k \in {"rewind", "clone"} : job' = Set(job, n, k)
        /\ source' = Set(source, n, view[n])
    BY <1>1, <1>2
  <2> QED
    BY <2>1, <2>2 DEF LoopType, KeyType, Set
<1>3. CASE ~Needed(n, CheckedState(n, s, end))
  <2>1. job' = Set(job, n, j) /\ source' = source
    BY <1>1, <1>3
  <2> QED
    BY <2>1 DEF LoopType, Set
<1> QED
  BY <1>2, <1>3

\* JobInv is kept.
LEMMA JobStep ==
    ASSUME LoopType, KeyType, JobInv, [Next]_vars
    PROVE  JobInv'
<1>1. ASSUME NEW n \in Nodes, load_cluster_from_dcs(n) PROVE JobInv'
  BY <1>1 DEF load_cluster_from_dcs, LoopType, KeyType, JobInv, JobAt,
              Clusters, Claims, NoLeader, rewindVars, pgVars, Set
<1>2. ASSUME NEW n \in Nodes, handle_long_action_in_progress(n) PROVE JobInv'
  <2> SUFFICES ASSUME NEW m \in Nodes PROVE JobAt(m)'
    BY DEF JobInv
  <2>1. JobAt(m) /\ JobAt(n)
    BY DEF JobInv
  <2>2. CASE m = n
    BY <1>2, <2>1, <2>2 DEF handle_long_action_in_progress, LoopType, KeyType,
                            JobAt, Clusters, Set, pgVars
  <2>3. CASE m # n
    BY <1>2, <2>1, <2>3 DEF handle_long_action_in_progress, LoopType, KeyType,
                            JobAt, Clusters, Set, pgVars
  <2> QED
    BY <2>2, <2>3
<1>3. ASSUME NEW n \in Nodes, recover(n) PROVE JobInv'
  <2> SUFFICES ASSUME NEW m \in Nodes PROVE JobAt(m)'
    BY DEF JobInv
  <2>1. JobAt(m) /\ JobAt(n) /\ pg' = pg
    BY <1>3 DEF recover, JobInv, pgVars
  <2>2. CASE \E s, j : j \in {"idle", "start"} /\ handle_rewind_or_reinitialize(n, s, j)
    BY <2>1, <2>2, HandleJob DEF JobAt
  <2>3. CASE /\ UNCHANGED source
             /\ \/ UNCHANGED job
                \/ \E j \in {"start", "promote"} : job' = Set(job, n, j)
                \/ pg[n] = "in production" /\ job' = Set(job, n, "crash_recovery")
    <3>1. CASE UNCHANGED job
      BY <2>1, <2>3, <3>1 DEF JobAt
    <3>2. CASE ~UNCHANGED job
      BY <2>1, <2>3, <3>2 DEF JobAt, Set, LoopType
    <3> QED
      BY <3>1, <3>2
  <2> QED
    BY <1>3, <2>2, <2>3 DEF recover
<1>4. ASSUME NEW n \in Nodes, bootstrap(n) PROVE JobInv'
  <2> SUFFICES ASSUME NEW m \in Nodes PROVE JobAt(m)'
    BY DEF JobInv
  <2>1. JobAt(m) /\ JobAt(n)
    BY DEF JobInv
  <2>2. CASE m = n
    BY <1>4, <2>1, <2>2 DEF bootstrap, Idle, LoopType, KeyType, JobAt,
                            Clusters, Set, pgVars
  <2>3. CASE m # n
    BY <1>4, <2>1, <2>3 DEF bootstrap, Idle, LoopType, KeyType, JobAt,
                            Clusters, Set, pgVars
  <2> QED
    BY <2>2, <2>3
<1>5. ASSUME NEW n \in Nodes, lead(n) PROVE JobInv'
  BY <1>5 DEF lead, Idle, ensure_checkpoint_after_promote, LoopType, KeyType,
              JobInv, JobAt, Clusters, Claims, NoLeader, rewindVars, pgVars,
              Set
<1>6. ASSUME NEW n \in Nodes, process_unhealthy_cluster(n) PROVE JobInv'
  BY <1>6 DEF process_unhealthy_cluster, Idle, LoopType, KeyType, JobInv,
              JobAt, Clusters, Claims, NoLeader, rewindVars, pgVars, Set
<1>7. ASSUME NEW n \in Nodes, demote(n) PROVE JobInv'
  BY ZenonT(90), <1>7 DEF demote, Idle, LoopType, KeyType, JobInv, JobAt, Clusters,
              Claims, NoLeader, rewindVars, pgVars, Set
<1>8. ASSUME NEW n \in Nodes, follow(n) PROVE JobInv'
  <2> SUFFICES ASSUME NEW m \in Nodes PROVE JobAt(m)'
    BY DEF JobInv
  <2>1. JobAt(m) /\ JobAt(n) /\ pg' = pg
    BY <1>8 DEF follow, JobInv, pgVars
  <2>2. CASE \E s, j : j \in {"idle", "start"} /\ handle_rewind_or_reinitialize(n, s, j)
    BY <2>1, <2>2, HandleJob DEF JobAt
  <2>3. CASE /\ UNCHANGED source
             /\ \/ UNCHANGED job
                \/ \E j \in {"start", "promote"} : job' = Set(job, n, j)
                \/ pg[n] = "in production" /\ job' = Set(job, n, "crash_recovery")
    <3>1. CASE UNCHANGED job
      BY <2>1, <2>3, <3>1 DEF JobAt
    <3>2. CASE ~UNCHANGED job
      BY <2>1, <2>3, <3>2 DEF JobAt, Set, LoopType
    <3> QED
      BY <3>1, <3>2
  <2> QED
    BY <1>8, <2>2, <2>3 DEF follow
<1>9. ASSUME NEW n \in Nodes, rebuild(n) PROVE JobInv'
  BY <1>9 DEF rebuild, Idle, LoopType, KeyType, JobInv, JobAt, Clusters,
              Claims, NoLeader, rewindVars, pgVars, Set
<1>10. ASSUME NEW n \in Nodes, promote(n) PROVE JobInv'
  <2> SUFFICES ASSUME NEW m \in Nodes PROVE JobAt(m)'
    BY DEF JobInv
  <2>1. JobAt(m) /\ JobAt(n)
    BY DEF JobInv
  <2>2. CASE m = n
    BY <1>10, <2>1, <2>2 DEF promote, Outdated, LoopType, KeyType, JobAt,
                             Clusters, Set, pgVars
  <2>3. CASE m # n
    <3>1. /\ source'[m].leader = source[m].leader
          /\ source'[m].claim.role = source[m].claim.role
      <4>1. source' \in {source, Outdated(source, n)}
        BY <1>10 DEF promote
      <4> QED
        BY <4>1, OutdatedMeans DEF KeyType
    <3> QED
      BY <1>10, <2>1, <2>3, <3>1 DEF promote, LoopType, KeyType, JobAt,
                                     Clusters, Set, pgVars
  <2> QED
    BY <2>2, <2>3
<1>11. ASSUME NEW n \in Nodes, on_success(n) PROVE JobInv'
  BY ZenonT(90), <1>11 DEF on_success, LoopType, KeyType, JobInv, JobAt, Clusters, Claims,
               NoLeader, rewindVars, pgVars, Set
<1>12. ASSUME NEW n \in Nodes, ensure_clean_shutdown(n) PROVE JobInv'
  <2> SUFFICES ASSUME NEW m \in Nodes PROVE JobAt(m)'
    BY DEF JobInv
  <2>1. JobAt(m) /\ JobAt(n)
    BY DEF JobInv
  <2>2. CASE m = n
    BY <1>12, <2>1, <2>2 DEF ensure_clean_shutdown, LoopType, KeyType, JobAt,
                             Clusters, Set, pgVars
  <2>3. CASE m # n
    BY <1>12, <2>1, <2>3 DEF ensure_clean_shutdown, LoopType, KeyType, JobAt,
                             Clusters, Set, pgVars
  <2> QED
    BY <2>2, <2>3
<1>13. ASSUME NEW n \in Nodes, start(n) PROVE JobInv'
  BY ZenonT(90), <1>13 DEF start, LoopType, KeyType, JobInv, JobAt, Clusters, Claims,
               NoLeader, rewindVars, pgVars, Set
<1>14. ASSUME NEW n \in Nodes, execute(n) PROVE JobInv'
  <2> SUFFICES ASSUME NEW m \in Nodes PROVE JobAt(m)'
    BY DEF JobInv
  <2>1. JobAt(m) /\ job[n] = "rewind"
    BY <1>14 DEF JobInv, execute
  <2>2. \/ /\ job' = Set(job, n, "copy") /\ source' = source
           /\ source[n].claim.role = "master"
        \/ job' = Set(job, n, "idle") /\ source' \in {source, Set(source, n, NoLeader)}
    BY <1>14 DEF execute
  <2>3. CASE m = n
    BY <2>1, <2>2, <2>3 DEF JobAt, Set, LoopType
  <2>4. CASE m # n
    <3>1. job'[m] = job[m] /\ source'[m] = source[m]
      BY <2>2, <2>4 DEF Set, LoopType, KeyType
    <3>2. pg'[m] = pg[m]
      BY <1>14, <2>4 DEF execute, Set, LoopType
    <3> QED
      BY <2>1, <3>1, <3>2 DEF JobAt
  <2> QED
    BY <2>3, <2>4
<1>15. ASSUME NEW n \in Nodes, pg_rewind(n) PROVE JobInv'
  <2> SUFFICES ASSUME NEW m \in Nodes PROVE JobAt(m)'
    BY DEF JobInv
  <2>1. JobAt(m) /\ JobAt(n)
    BY DEF JobInv
  <2>2. CASE m = n
    BY <1>15, <2>1, <2>2 DEF pg_rewind, LoopType, KeyType, JobAt, Clusters,
                             Set, pgVars
  <2>3. CASE m # n
    BY ZenonT(90), <1>15, <2>1, <2>3 DEF pg_rewind, LoopType, KeyType, JobAt, Clusters,
                             Set, pgVars
  <2> QED
    BY <2>2, <2>3
<1>16. ASSUME NEW n \in Nodes, clone(n) PROVE JobInv'
  <2> SUFFICES ASSUME NEW m \in Nodes PROVE JobAt(m)'
    BY DEF JobInv
  <2>1. JobAt(m) /\ JobAt(n)
    BY DEF JobInv
  <2>2. CASE m = n
    BY <1>16, <2>1, <2>2 DEF clone, LoopType, KeyType, JobAt, Clusters, Set,
                             pgVars
  <2>3. CASE m # n
    BY <1>16, <2>1, <2>3 DEF clone, LoopType, KeyType, JobAt, Clusters, Set,
                             pgVars
  <2> QED
    BY <2>2, <2>3
<1>17. ASSUME NEW n \in Nodes, demote_graceful(n) PROVE JobInv'
  BY ZenonT(90), <1>17 DEF demote_graceful, Idle, LoopType, KeyType, JobInv, JobAt,
               Clusters, Claims, NoLeader, rewindVars, pgVars, Set
<1>18. ASSUME NEW n \in Nodes, checkpoint(n) PROVE JobInv'
  BY <1>18 DEF checkpoint, LoopType, KeyType, JobInv, JobAt, Clusters, Claims,
               NoLeader, rewindVars, pgVars, Set
<1>19. ASSUME NEW n \in Nodes, server_checkpoint(n) PROVE JobInv'
  BY <1>19 DEF server_checkpoint, LoopType, KeyType, JobInv, JobAt, Clusters,
               Claims, NoLeader, rewindVars, pgVars, Set
<1>20. ASSUME NEW n \in Nodes, Write(n) PROVE JobInv'
  BY <1>20 DEF Write, LoopType, KeyType, JobInv, JobAt, Clusters, Claims,
               NoLeader, rewindVars, pgVars, Set
<1>21. ASSUME NEW n \in Nodes, Stream(n) PROVE JobInv'
  BY <1>21 DEF Stream, LoopType, KeyType, JobInv, JobAt, Clusters, Claims,
               NoLeader, rewindVars, pgVars, Set
<1>22. ASSUME NEW n \in Nodes, Crash(n) PROVE JobInv'
  <2> SUFFICES ASSUME NEW m \in Nodes PROVE JobAt(m)'
    BY DEF JobInv
  <2>1. JobAt(m) /\ JobAt(n)
    BY DEF JobInv
  <2>2. CASE m = n
    BY <1>22, <2>1, <2>2 DEF Crash, Running, LoopType, KeyType, JobAt,
                             Clusters, Set, pgVars
  <2>3. CASE m # n
    BY <1>22, <2>1, <2>3 DEF Crash, Running, LoopType, KeyType, JobAt,
                             Clusters, Set, pgVars
  <2> QED
    BY <2>2, <2>3
<1>23. ASSUME LoseKey PROVE JobInv'
  BY <1>23 DEF LoseKey, Fault, LoopType, KeyType, JobInv, JobAt, Clusters,
               Claims, NoLeader, rewindVars, pgVars, Set
<1>24. ASSUME UNCHANGED vars PROVE JobInv'
  BY <1>24 DEF vars, LoopType, KeyType, JobInv, JobAt, Clusters, Claims,
               NoLeader, rewindVars, pgVars, Set
<1> QED
  BY <1>1, <1>2, <1>3, <1>4, <1>5, <1>6, <1>7, <1>8, <1>9, <1>10, <1>11,
     <1>12, <1>13, <1>14, <1>15, <1>16, <1>17, <1>18, <1>19, <1>20, <1>21,
     <1>22, <1>23, <1>24 DEF Next, Loop, Work

-----------------------------------------------------------------------------
(* What a step does to the WALs *)

\* A server that was promoted, and was not started again since.
Writes(n) == pg[n] \in {"primary", "in production"}

\* Nothing is written, and nobody is promoted.
Quiet ==
    /\ UNCHANGED <<wal, timelines>>
    /\ \A m \in Nodes : Writes(m)' => Writes(m)
    /\ \A m \in Nodes : pg'[m] = "primary" => pg[m] = "primary"
    /\ control' = [m \in Nodes |-> control'[m]]
    /\ \A m \in Nodes : control'[m] \in {control[m], Timeline(m)}

\* n writes a record, and the other servers in s receive it.
Appends(n, s) ==
    /\ n \in s /\ Writes(n) /\ Len(wal[n]) < MaxRecords
    /\ \A m \in s : wal[m] = wal[n]
    /\ wal' = [m \in Nodes |-> IF m \in s THEN Append(wal[m], Timeline(n)) ELSE wal[m]]
    /\ UNCHANGED timelines
    /\ \A m \in Nodes : Writes(m)' => Writes(m) /\ (m \in s => m = n)
    /\ \A m \in Nodes : pg'[m] = "primary" => pg[m] = "primary"
    /\ control' = [m \in Nodes |-> control'[m]]
    /\ \A m \in Nodes : control'[m] \in {control[m], Timeline(m)}

\* n, which does not write, gets v, with which the WAL of l begins.
Copies(n, l, v) ==
    /\ wal' = [wal EXCEPT ![n] = v] /\ Begins(v, wal[l])
    /\ \/ control' = control /\ Begins(wal[n], v)
       \/ control' = [control EXCEPT ![n] = control[l]] /\ v = wal[l]
    /\ UNCHANGED timelines
    /\ ~Writes(n)' /\ \A m \in Nodes \ {n} : pg'[m] = pg[m]

\* n is promoted.
Promotes(n) ==
    /\ timelines < MaxTimeline /\ timelines' = timelines + 1
    /\ Len(wal[n]) < MaxRecords
    /\ wal' = [wal EXCEPT ![n] = Append(wal[n], timelines + 1)]
    /\ UNCHANGED control
    /\ pg[n] = "replica" /\ pg' = [pg EXCEPT ![n] = "primary"]

WalStep ==
    \/ Quiet
    \/ \E n \in Nodes, s \in SUBSET Nodes : Appends(n, s)
    \/ \E n, l \in Nodes, v \in WALs : Copies(n, l, v)
    \/ \E n \in Nodes : Promotes(n)

\* The WALs are sequences of numbers.
LEMMA WalMeans ==
    ASSUME WalType, NEW n \in Nodes
    PROVE  /\ wal[n] \in WALs /\ wal[n] \in Seq(Nat) /\ Len(wal[n]) \in Nat \ {0}
           /\ Timeline(n) \in Nat /\ Timeline(n) \in 1..MaxTimeline
           /\ Timeline(n) = wal[n][Len(wal[n])]
           /\ \A i \in 1..Len(wal[n]) : wal[n][i] \in Nat
           /\ Begins(wal[n], wal[n])
<1>1. wal[n] \in Seq(1..MaxTimeline) /\ wal[n] # <<>> /\ MaxTimeline \in Nat
  BY RewindAssumption DEF WalType
<1>2. wal[n] \in Seq(Nat)
  BY <1>1
<1> QED
  BY <1>1, <1>2 DEF WALs, Timeline, Last, Begins

\* Every step is one of these.
LEMMA EveryWalStep ==
    ASSUME LoopType, KeyType, WalType, JobInv, [Next]_vars
    PROVE  WalStep
<1>1. ASSUME NEW n \in Nodes, load_cluster_from_dcs(n) PROVE WalStep
  BY <1>1 DEF load_cluster_from_dcs, LoopType, WalType, Quiet, Writes, Set,
              pgVars, rewindVars, WalStep
<1>2. ASSUME NEW n \in Nodes, handle_long_action_in_progress(n) PROVE WalStep
  BY <1>2 DEF handle_long_action_in_progress, LoopType, WalType, Quiet,
              Writes, Set, pgVars, rewindVars, WalStep
<1>3. ASSUME NEW n \in Nodes, recover(n) PROVE WalStep
  BY <1>3 DEF recover, Idle, Stopped, LoopType, WalType, Quiet, Writes, Set,
              pgVars, rewindVars, WalStep
<1>4. ASSUME NEW n \in Nodes, bootstrap(n) PROVE WalStep
  BY <1>4 DEF bootstrap, Idle, LoopType, WalType, Quiet, Writes, Set, pgVars,
              rewindVars, WalStep
<1>5. ASSUME NEW n \in Nodes, lead(n) PROVE WalStep
  BY <1>5 DEF lead, Idle, LoopType, WalType, Quiet, Writes, Set, pgVars,
              rewindVars, WalStep
<1>6. ASSUME NEW n \in Nodes, process_unhealthy_cluster(n) PROVE WalStep
  BY <1>6 DEF process_unhealthy_cluster, Idle, LoopType, WalType, Quiet,
              Writes, Set, pgVars, rewindVars, WalStep
<1>7. ASSUME NEW n \in Nodes, demote(n) PROVE WalStep
  BY <1>7 DEF demote, Idle, LoopType, WalType, Quiet, Writes, Set, pgVars,
              rewindVars, WalStep
<1>8. ASSUME NEW n \in Nodes, follow(n) PROVE WalStep
  BY <1>8 DEF follow, Idle, LoopType, WalType, Quiet, Writes, Set, pgVars,
              rewindVars, WalStep
<1>9. ASSUME NEW n \in Nodes, rebuild(n) PROVE WalStep
  <2>1. PICK l \in Nodes : /\ wal' = Set(wal, n, wal[l])
                           /\ control' = Set(control, n, control[l])
    BY <1>9 DEF rebuild, KeyType, Clusters
  <2>2. pg[n] = "replica" /\ UNCHANGED <<pg, timelines>>
    BY <1>9 DEF rebuild
  <2>3. Copies(n, l, wal[l])
    BY <2>1, <2>2, WalMeans DEF Copies, Writes, Set
  <2> QED
    BY <2>3, WalMeans DEF WalStep
<1>10. ASSUME NEW n \in Nodes, promote(n) PROVE WalStep
  <2>1. CASE UNCHANGED <<timelines, wal, pg, control>>
    BY <2>1 DEF WalStep, Quiet, Writes, WalType
  <2>2. CASE ~UNCHANGED <<timelines, wal, pg, control>>
    BY <1>10, <2>2 DEF promote, Promotes, WalStep, Set
  <2> QED
    BY <2>1, <2>2
<1>11. ASSUME NEW n \in Nodes, on_success(n) PROVE WalStep
  BY <1>11 DEF on_success, LoopType, WalType, Quiet, Writes, Set, pgVars,
               rewindVars, WalStep
<1>12. ASSUME NEW n \in Nodes, ensure_clean_shutdown(n) PROVE WalStep
  <2>1. CASE UNCHANGED <<wal, control, pg>>
    BY <1>12, <2>1 DEF ensure_clean_shutdown, WalStep, Quiet, Writes, WalType
  <2>2. CASE ~UNCHANGED <<wal, control, pg>>
    <3>1. Writes(n)
      BY <1>12 DEF ensure_clean_shutdown, JobInv, JobAt, Writes
    <3>2. /\ Len(wal[n]) < MaxRecords /\ wal' = Set(wal, n, Append(wal[n], Timeline(n)))
          /\ control' = Set(control, n, Timeline(n)) /\ pg' = Set(pg, n, "clean")
          /\ UNCHANGED timelines
      BY <1>12, <2>2 DEF ensure_clean_shutdown
    <3>3. Appends(n, {n})
      BY <3>1, <3>2 DEF Appends, Writes, Set, LoopType, WalType
    <3> QED
      BY <3>3 DEF WalStep
  <2> QED
    BY <2>1, <2>2
<1>13. ASSUME NEW n \in Nodes, start(n) PROVE WalStep
  BY <1>13 DEF start, Stopped, LoopType, WalType, Quiet, Writes, Set, pgVars,
               rewindVars, WalStep
<1>14. ASSUME NEW n \in Nodes, execute(n) PROVE WalStep
  BY <1>14 DEF execute, LoopType, WalType, Quiet, Writes, Set, pgVars,
               rewindVars, WalStep
<1>15. ASSUME NEW n \in Nodes, pg_rewind(n) PROVE WalStep
  <2> DEFINE l == source[n].leader
  <2>1. l \in Nodes
    BY <1>15 DEF pg_rewind, JobInv, JobAt
  <2>2. CASE UNCHANGED <<wal, control>>
    <3>1. /\ UNCHANGED pg \/ \E p \in {"removed", "shut down in recovery"} : pg' = Set(pg, n, p)
          /\ UNCHANGED timelines
      BY <1>15 DEF pg_rewind
    <3> QED
      BY <2>2, <3>1 DEF WalStep, Quiet, Writes, Set, LoopType, WalType
  <2>3. CASE ~UNCHANGED <<wal, control>>
    <3>1. /\ wal' = Set(wal, n, wal[l]) /\ control' = Set(control, n, control[l])
          /\ pg' = Set(pg, n, "shut down in recovery") /\ UNCHANGED timelines
      BY <1>15, <2>3 DEF pg_rewind
    <3>2. Copies(n, l, wal[l])
      BY <2>1, <3>1, WalMeans DEF Copies, Writes, Set, LoopType
    <3> QED
      BY <2>1, <3>2, WalMeans DEF WalStep
  <2> QED
    BY <2>2, <2>3
<1>16. ASSUME NEW n \in Nodes, clone(n) PROVE WalStep
  <2> DEFINE l == source[n].leader
  <2>1. l \in Nodes
    BY <1>16 DEF clone, JobInv, JobAt
  <2>2. CASE UNCHANGED <<wal, control>> /\ pg' = Set(pg, n, "removed")
    BY <1>16, <2>2 DEF clone, WalStep, Quiet, Writes, Set, LoopType, WalType
  <2>3. CASE ~(UNCHANGED <<wal, control>> /\ pg' = Set(pg, n, "removed"))
    <3>1. /\ wal' = Set(wal, n, wal[l]) /\ control' = Set(control, n, control[l])
          /\ pg' = Set(pg, n, "replica") /\ UNCHANGED timelines
      BY <1>16, <2>3 DEF clone
    <3>2. Copies(n, l, wal[l])
      BY <2>1, <3>1, WalMeans DEF Copies, Writes, Set, LoopType
    <3> QED
      BY <2>1, <3>2, WalMeans DEF WalStep
  <2> QED
    BY <2>2, <2>3
<1>17. ASSUME NEW n \in Nodes, demote_graceful(n) PROVE WalStep
  <2>1. PICK s \in SUBSET {m \in Nodes : pg[m] = "replica" /\ wal[m] = wal[n]} :
           wal' = [m \in Nodes |-> IF m \in s \cup {n} THEN Append(wal[m], Timeline(n))
                                   ELSE wal[m]]
    BY <1>17 DEF demote_graceful
  <2>2. /\ pg[n] = "primary" /\ Len(wal[n]) < MaxRecords
        /\ control' = Set(control, n, Timeline(n)) /\ pg' = Set(pg, n, "clean")
        /\ UNCHANGED timelines
    BY <1>17 DEF demote_graceful, Idle
  <2>3. Appends(n, s \cup {n})
    BY <2>1, <2>2 DEF Appends, Writes, Set, LoopType, WalType
  <2> QED
    BY <2>3 DEF WalStep
<1>18. ASSUME NEW n \in Nodes, checkpoint(n) PROVE WalStep
  <2>1. /\ control' = control \/ control' = Set(control, n, Timeline(n))
        /\ UNCHANGED <<wal, timelines, pg>>
    BY <1>18 DEF checkpoint
  <2> QED
    BY <2>1 DEF WalStep, Quiet, Writes, Set, WalType
<1>19. ASSUME NEW n \in Nodes, server_checkpoint(n) PROVE WalStep
  BY <1>19 DEF server_checkpoint, LoopType, WalType, Quiet, Writes, Set,
               pgVars, rewindVars, WalStep
<1>20. ASSUME NEW n \in Nodes, Write(n) PROVE WalStep
  <2>1. Appends(n, {n})
    BY <1>20 DEF Write, Appends, Writes, Set, LoopType, WalType, pgVars
  <2> QED
    BY <2>1 DEF WalStep
<1>21. ASSUME NEW n \in Nodes, Stream(n) PROVE WalStep
  <2> DEFINE v == Append(wal[n], wal[leader][Len(wal[n]) + 1])
  <2>1. leader \in Nodes /\ Len(wal[n]) < Len(wal[leader]) /\ Begins(wal[n], wal[leader])
    <3>1. leader \in Nodes /\ IsStrictPrefix(wal[n], wal[leader])
      BY <1>21 DEF Stream, KeyType
    <3>2. wal[n] \in Seq(Nat) /\ wal[leader] \in Seq(Nat)
      BY <3>1, WalMeans
    <3> QED
      BY <3>1, <3>2, StrictPrefixMeans DEF Begins
  <2>2. v \in WALs /\ Begins(v, wal[leader]) /\ Begins(wal[n], v)
    <3>1. /\ wal[n] \in Seq(Nat) /\ wal[leader] \in Seq(Nat)
          /\ Len(wal[n]) \in Nat /\ Len(wal[leader]) \in Nat
          /\ wal[leader][Len(wal[n]) + 1] \in Nat
      BY <2>1, WalMeans
    <3> QED
      BY SMTT(60), <2>1, <3>1, AppendMeans DEF Begins
  <2>3. Copies(n, leader, v)
    BY <1>21, <2>2 DEF Stream, Copies, Writes, Set, pgVars, rewindVars
  <2> QED
    BY <2>1, <2>2, <2>3 DEF WalStep
<1>22. ASSUME NEW n \in Nodes, Crash(n) PROVE WalStep
  BY <1>22 DEF Crash, Running, LoopType, WalType, Quiet, Writes, Set, pgVars,
               rewindVars, WalStep
<1>23. ASSUME LoseKey PROVE WalStep
  BY <1>23 DEF LoseKey, LoopType, WalType, Quiet, Writes, Set, pgVars,
               rewindVars, WalStep
<1>24. ASSUME UNCHANGED vars PROVE WalStep
  BY <1>24 DEF vars, LoopType, WalType, Quiet, Writes, Set, pgVars,
               rewindVars, WalStep
<1> QED
  BY <1>1, <1>2, <1>3, <1>4, <1>5, <1>6, <1>7, <1>8, <1>9, <1>10, <1>11,
     <1>12, <1>13, <1>14, <1>15, <1>16, <1>17, <1>18, <1>19, <1>20, <1>21,
     <1>22, <1>23, <1>24 DEF Next, Loop, Work

(***************************************************************************)
(* The invariants of the WALs.  First, each WAL for itself.                *)
(***************************************************************************)
WalInv ==
    \A n \in Nodes :
        /\ Orderly(wal[n])
        /\ Timeline(n) <= timelines
        /\ control[n] <= Timeline(n)

\* Two WALs with a record of the same timeline have the same past.
HistoryInv == \A n, m \in Nodes : Agree(wal[n], wal[m])

(***************************************************************************)
(* Nobody has a record of the timeline of a server that writes further on  *)
(* than this server is itself, and two that write have timelines of their  *)
(* own.                                                                    *)
(***************************************************************************)
WriterInv ==
    \A n \in Nodes : Writes(n) =>
        \A m \in Nodes :
            /\ \A i \in 1..Len(wal[m]) : wal[m][i] = Timeline(n) => i <= Len(wal[n])
            /\ m # n /\ Writes(m) => Timeline(m) # Timeline(n)

LEMMA AppendTyped ==
    ASSUME NEW S, NEW w \in Seq(S), NEW x \in S
    PROVE  /\ Append(w, x) \in Seq(S) /\ Append(w, x) # <<>>
           /\ Len(Append(w, x)) = Len(w) + 1
  BY SMTT(60)

\* The types of the WALs.
LEMMA WalTypeStep ==
    ASSUME WalType, WalStep
    PROVE  WalType'
<1> MaxRecords \in Nat /\ MaxTimeline \in Nat
  BY RewindAssumption
<1>0. \A n \in Nodes : /\ wal[n] \in WALs /\ Timeline(n) \in 1..MaxTimeline
                       /\ Len(wal[n]) \in Nat \ {0} /\ Len(wal[n]) <= MaxRecords
                       /\ wal[n] \in Seq(1..MaxTimeline)
  BY WalMeans DEF WalType
<1>1. CASE Quiet
  BY <1>0, <1>1 DEF Quiet, WalType
<1>2. ASSUME NEW n \in Nodes, NEW s \in SUBSET Nodes, Appends(n, s)
      PROVE  WalType'
  <2>1. ASSUME NEW m \in s
        PROVE  /\ Append(wal[m], Timeline(n)) \in Seq(1..MaxTimeline)
               /\ Append(wal[m], Timeline(n)) # <<>>
               /\ Len(Append(wal[m], Timeline(n))) <= MaxRecords
    <3>1. wal[m] = wal[n] /\ Len(wal[n]) < MaxRecords
      BY <1>2 DEF Appends
    <3> QED
      BY <1>0, <3>1, AppendTyped
  <2>2. /\ wal' \in [Nodes -> Seq(1..MaxTimeline) \ {<<>>}]
        /\ \A m \in Nodes : Len(wal'[m]) <= MaxRecords
    BY <1>0, <1>2, <2>1 DEF Appends, WalType
  <2>3. control' \in [Nodes -> 1..MaxTimeline] /\ timelines' = timelines
    BY <1>0, <1>2 DEF Appends, WalType
  <2> QED
    BY <2>2, <2>3 DEF WalType
<1>3. ASSUME NEW n \in Nodes, NEW l \in Nodes, NEW v \in WALs, Copies(n, l, v)
      PROVE  WalType'
  <2>1. v \in Seq(1..MaxTimeline) /\ v # <<>> /\ Len(v) <= MaxRecords
    <3>1. /\ v \in Seq(Nat) /\ v # <<>> /\ Len(v) <= Len(wal[l])
          /\ \A k \in 1..Len(v) : v[k] = wal[l][k]
      BY <1>3 DEF Copies, Begins, WALs
    <3>2. \A k \in 1..Len(v) : v[k] \in 1..MaxTimeline
      <4>1. wal[l] \in Seq(1..MaxTimeline) /\ Len(wal[l]) \in Nat /\ Len(v) \in Nat
        BY <1>0, <3>1
      <4>2. \A k \in 1..Len(wal[l]) : wal[l][k] \in 1..MaxTimeline
        BY <4>1
      <4>3. \A k \in 1..Len(v) : k \in 1..Len(wal[l]) /\ v[k] = wal[l][k]
        BY <3>1, <4>1
      <4> QED
        BY <4>2, <4>3
    <3>3. v \in Seq(1..MaxTimeline)
      BY <3>1, <3>2
    <3> QED
      BY <1>0, <3>1, <3>3
  <2>2. /\ wal' \in [Nodes -> Seq(1..MaxTimeline) \ {<<>>}]
        /\ \A m \in Nodes : Len(wal'[m]) <= MaxRecords
    BY <1>0, <1>3, <2>1 DEF Copies, WalType
  <2>3. control' \in [Nodes -> 1..MaxTimeline] /\ timelines' = timelines
    BY <1>3 DEF Copies, WalType
  <2> QED
    BY <2>2, <2>3 DEF WalType
<1>4. ASSUME NEW n \in Nodes, Promotes(n)
      PROVE  WalType'
  <2>1. timelines + 1 \in 1..MaxTimeline
    BY <1>4 DEF Promotes, WalType
  <2>2. /\ Append(wal[n], timelines + 1) \in Seq(1..MaxTimeline)
        /\ Append(wal[n], timelines + 1) # <<>>
        /\ Len(Append(wal[n], timelines + 1)) <= MaxRecords
    <3>1. Len(wal[n]) < MaxRecords
      BY <1>4 DEF Promotes
    <3> QED
      BY <1>0, <2>1, <3>1, AppendTyped
  <2>3. /\ wal' \in [Nodes -> Seq(1..MaxTimeline) \ {<<>>}]
        /\ \A m \in Nodes : Len(wal'[m]) <= MaxRecords
    BY <1>0, <1>4, <2>2 DEF Promotes, WalType
  <2> QED
    BY <1>4, <2>1, <2>3 DEF Promotes, WalType
<1> QED
  BY <1>1, <1>2, <1>3, <1>4 DEF WalStep

\* Each WAL stays in order.
LEMMA WalInvStep ==
    ASSUME WalType, WalInv, WalStep
    PROVE  WalInv'
<1>0. \A n \in Nodes : /\ wal[n] \in WALs /\ Timeline(n) \in Nat /\ Last(wal[n]) = Timeline(n)
                       /\ control[n] \in Nat /\ timelines \in Nat
                       /\ Orderly(wal[n]) /\ Timeline(n) <= timelines
                       /\ control[n] <= Timeline(n)
  BY WalMeans DEF WalType, WalInv, Timeline
<1>1. CASE Quiet
  BY <1>0, <1>1 DEF Quiet, WalInv, Timeline
<1>2. ASSUME NEW n \in Nodes, NEW s \in SUBSET Nodes, Appends(n, s), NEW m \in Nodes
      PROVE  /\ Orderly(wal'[m]) /\ Last(wal'[m]) <= timelines'
             /\ control'[m] <= Last(wal'[m])
  <2>1. CASE m \in s
    <3>1. /\ wal'[m] = Append(wal[m], Timeline(m)) /\ timelines' = timelines
          /\ control'[m] \in {control[m], Timeline(m)}
      BY <1>2, <2>1 DEF Appends, Timeline
    <3>2. /\ Orderly(Append(wal[m], Timeline(m)))
          /\ Last(Append(wal[m], Timeline(m))) = Timeline(m)
      <4>1. Last(wal[m]) <= Timeline(m) /\ wal[m] \in Seq(Nat)
        BY <1>0 DEF WALs
      <4> QED
        BY <1>0, <4>1, OrderlyAppend, AppendMeans
    <3> QED
      BY <1>0, <3>1, <3>2
  <2>2. CASE m \notin s
    <3>1. /\ wal'[m] = wal[m] /\ timelines' = timelines
          /\ control'[m] \in {control[m], Timeline(m)}
      BY <1>2, <2>2 DEF Appends
    <3> QED
      BY <1>0, <3>1
  <2> QED
    BY <2>1, <2>2
<1>3. ASSUME NEW n \in Nodes, NEW l \in Nodes, NEW v \in WALs, Copies(n, l, v),
             NEW m \in Nodes
      PROVE  /\ Orderly(wal'[m]) /\ Last(wal'[m]) <= timelines'
             /\ control'[m] <= Last(wal'[m])
  <2>1. CASE m = n
    <3>1. /\ wal'[m] = v /\ timelines' = timelines /\ Begins(v, wal[l])
          /\ \/ control'[m] = control[n] /\ Begins(wal[n], v)
             \/ control'[m] = control[l] /\ v = wal[l]
      BY <1>3, <2>1 DEF Copies, WalType
    <3>2. Orderly(v)
      BY <1>0, <3>1, OrderlyPrefix
    <3>3. Last(v) <= Timeline(l)
      <4>1. /\ Len(v) \in Nat \ {0} /\ Last(v) = v[Len(v)] /\ Len(v) <= Len(wal[l])
            /\ v[Len(v)] = wal[l][Len(v)] /\ Len(wal[l]) \in Nat \ {0}
            /\ Timeline(l) = wal[l][Len(wal[l])]
        BY <3>1, LastMeans, WalMeans DEF Begins
      <4>2. wal[l][Len(v)] <= wal[l][Len(wal[l])]
        BY <1>0, <4>1 DEF Orderly
      <4> QED
        BY <4>1, <4>2
    <3>4. ASSUME Begins(wal[n], v)
          PROVE  Timeline(n) <= Last(v)
      <4>1. /\ Len(v) \in Nat \ {0} /\ Last(v) = v[Len(v)] /\ Len(wal[n]) <= Len(v)
            /\ wal[n][Len(wal[n])] = v[Len(wal[n])] /\ Len(wal[n]) \in Nat \ {0}
            /\ Timeline(n) = wal[n][Len(wal[n])]
        <5>1. Len(wal[n]) \in Nat \ {0} /\ Timeline(n) = wal[n][Len(wal[n])]
          BY WalMeans
        <5>2. Len(v) \in Nat \ {0} /\ Last(v) = v[Len(v)]
          BY LastMeans
        <5> QED
          BY <3>4, <5>1, <5>2 DEF Begins
      <4>2. v[Len(wal[n])] <= v[Len(v)]
        BY <3>2, <4>1 DEF Orderly
      <4> QED
        BY <4>1, <4>2
    <3>5. Last(v) \in Nat
      BY LastMeans
    <3>6. CASE control'[m] = control[n] /\ Begins(wal[n], v)
      BY <1>0, <3>1, <3>2, <3>3, <3>4, <3>5, <3>6
    <3>7. CASE control'[m] = control[l] /\ v = wal[l]
      BY <1>0, <3>1, <3>2, <3>3, <3>7
    <3> QED
      BY <3>1, <3>6, <3>7
  <2>2. CASE m # n
    <3>1. wal'[m] = wal[m] /\ timelines' = timelines /\ control'[m] = control[m]
      BY <1>3, <2>2 DEF Copies, WalType
    <3> QED
      BY <1>0, <3>1
  <2> QED
    BY <2>1, <2>2
<1>4. ASSUME NEW n \in Nodes, Promotes(n), NEW m \in Nodes
      PROVE  /\ Orderly(wal'[m]) /\ Last(wal'[m]) <= timelines'
             /\ control'[m] <= Last(wal'[m])
  <2>1. timelines' = timelines + 1 /\ control'[m] = control[m]
    BY <1>4 DEF Promotes
  <2>2. CASE m = n
    <3>1. wal'[m] = Append(wal[m], timelines + 1)
      BY <1>4, <2>2 DEF Promotes, WalType
    <3>2. /\ Orderly(Append(wal[m], timelines + 1))
          /\ Last(Append(wal[m], timelines + 1)) = timelines + 1
      <4>1. Last(wal[m]) <= timelines + 1 /\ timelines + 1 \in Nat /\ wal[m] \in Seq(Nat)
        BY <1>0 DEF WALs
      <4> QED
        BY <1>0, <4>1, OrderlyAppend, AppendMeans
    <3> QED
      BY <1>0, <2>1, <3>1, <3>2
  <2>3. CASE m # n
    <3>1. wal'[m] = wal[m]
      BY <1>4, <2>3 DEF Promotes, WalType
    <3> QED
      BY <1>0, <2>1, <3>1
  <2> QED
    BY <2>2, <2>3
<1>5. CASE \E n \in Nodes, s \in SUBSET Nodes : Appends(n, s)
  BY <1>2, <1>5 DEF WalInv, Timeline
<1>6. CASE \E n, l \in Nodes, v \in WALs : Copies(n, l, v)
  BY <1>3, <1>6 DEF WalInv, Timeline
<1>7. CASE \E n \in Nodes : Promotes(n)
  BY <1>4, <1>7 DEF WalInv, Timeline
<1> QED
  BY <1>1, <1>5, <1>6, <1>7 DEF WalStep

\* No record is of a later timeline than the latest.
LEMMA RecordsMeans ==
    ASSUME WalType, WalInv, NEW n \in Nodes, NEW i \in 1..Len(wal[n])
    PROVE  wal[n][i] \in Nat /\ wal[n][i] <= timelines /\ wal[n][i] <= Timeline(n)
<1>1. /\ Len(wal[n]) \in Nat \ {0} /\ Timeline(n) = wal[n][Len(wal[n])] /\ wal[n][i] \in Nat
      /\ Timeline(n) \in Nat
  BY WalMeans
<1>2. Orderly(wal[n]) /\ Timeline(n) <= timelines /\ timelines \in Nat
  BY DEF WalInv, WalType
<1>3. wal[n][i] <= wal[n][Len(wal[n])]
  BY <1>1, <1>2 DEF Orderly
<1> QED
  BY <1>1, <1>2, <1>3

\* The histories stay compatible.
LEMMA HistoryStep ==
    ASSUME WalType, WalInv, WriterInv, HistoryInv, WalStep
    PROVE  HistoryInv'
<1>0. \A n \in Nodes : wal[n] \in WALs
  BY WalMeans
<1>1. CASE Quiet
  BY <1>1 DEF Quiet, HistoryInv
<1>2. ASSUME NEW n \in Nodes, NEW s \in SUBSET Nodes, Appends(n, s)
      PROVE  HistoryInv'
  <2> DEFINE t == Timeline(n)
             u == Append(wal[n], t)
  <2>1. \A m \in Nodes : wal'[m] = IF m \in s THEN u ELSE wal[m]
    BY <1>2 DEF Appends
  <2>2. ASSUME NEW m \in Nodes
        PROVE  Agree(u, wal[m]) /\ Agree(wal[m], u)
    <3>1. \A j \in 1..Len(wal[m]) : wal[m][j] = t => j <= Len(wal[n]) /\ t = Last(wal[n])
      BY <1>2 DEF Appends, WriterInv, Timeline
    <3>2. t \in Nat /\ Agree(wal[n], wal[m]) /\ Agree(wal[m], wal[n])
      BY WalMeans DEF HistoryInv
    <3> QED
      BY <1>0, <3>1, <3>2, AgreeAppend
  <2> HIDE DEF u
  <2> SUFFICES ASSUME NEW a \in Nodes, NEW b \in Nodes
               PROVE  Agree(wal'[a], wal'[b])
    BY DEF HistoryInv
  <2>3. Agree(u, u) /\ Agree(wal[a], wal[b])
    BY AgreeSelf DEF HistoryInv
  <2> QED
    BY <2>1, <2>2, <2>3
<1>3. ASSUME NEW n \in Nodes, NEW l \in Nodes, NEW v \in WALs, Copies(n, l, v)
      PROVE  HistoryInv'
  <2>1. Begins(v, wal[l]) /\ \A m \in Nodes : wal'[m] = IF m = n THEN v ELSE wal[m]
    BY <1>3 DEF Copies, WalType
  <2>2. ASSUME NEW m \in Nodes
        PROVE  Agree(v, wal[m]) /\ Agree(wal[m], v)
    BY <1>0, <2>1, AgreePrefix DEF HistoryInv
  <2> SUFFICES ASSUME NEW a \in Nodes, NEW b \in Nodes
               PROVE  Agree(wal'[a], wal'[b])
    BY DEF HistoryInv
  <2>3. Agree(v, v) /\ Agree(wal[a], wal[b])
    BY AgreeSelf DEF HistoryInv
  <2> QED
    BY <2>1, <2>2, <2>3
<1>4. ASSUME NEW n \in Nodes, Promotes(n)
      PROVE  HistoryInv'
  <2> DEFINE u == Append(wal[n], timelines + 1)
  <2>1. \A m \in Nodes : wal'[m] = IF m = n THEN u ELSE wal[m]
    BY <1>4 DEF Promotes, WalType
  <2>2. ASSUME NEW m \in Nodes
        PROVE  Agree(u, wal[m]) /\ Agree(wal[m], u)
    <3>1. timelines \in Nat /\ timelines + 1 \in Nat
      BY DEF WalType
    <3>2. \A j \in 1..Len(wal[m]) : wal[m][j] # timelines + 1
      BY <3>1, RecordsMeans
    <3>3. Agree(wal[n], wal[m]) /\ Agree(wal[m], wal[n])
      BY DEF HistoryInv
    <3> QED
      BY <1>0, <3>1, <3>2, <3>3, AgreeAppend
  <2> HIDE DEF u
  <2> SUFFICES ASSUME NEW a \in Nodes, NEW b \in Nodes
               PROVE  Agree(wal'[a], wal'[b])
    BY DEF HistoryInv
  <2>3. Agree(u, u) /\ Agree(wal[a], wal[b])
    BY AgreeSelf DEF HistoryInv
  <2> QED
    BY <2>1, <2>2, <2>3
<1> QED
  BY <1>1, <1>2, <1>3, <1>4 DEF WalStep

(***************************************************************************)
(* WriterInv for two nodes, of which the first one writes, as a formula    *)
(* about their WALs.                                                       *)
(***************************************************************************)
Heads(v, w) == \A i \in 1..Len(w) : w[i] = Last(v) => i <= Len(v)

LEMMA WriterMeans ==
    ASSUME NEW a \in Nodes, NEW m \in Nodes, WriterInv, Writes(a)
    PROVE  /\ Heads(wal[a], wal[m])
           /\ m # a /\ Writes(m) => Last(wal[m]) # Last(wal[a])
  BY DEF WriterInv, Heads, Timeline

\* One more record of the writer, for itself and for somebody else.
LEMMA HeadsAppend ==
    ASSUME NEW v \in WALs, NEW w \in WALs, NEW x \in Nat
    PROVE  /\ Heads(v, v)
           /\ Heads(v, w) /\ x = Last(v) => Heads(Append(v, x), w)
           /\ Heads(v, w) /\ x # Last(v) => Heads(v, Append(w, x))
           /\ (\A i \in 1..Len(w) : w[i] # x) => Heads(Append(v, x), w)
<1>1. /\ v \in Seq(Nat) /\ w \in Seq(Nat) /\ Len(v) \in Nat /\ Len(w) \in Nat
  BY DEF WALs
<1>2. /\ Len(Append(v, x)) = Len(v) + 1 /\ Last(Append(v, x)) = x
      /\ Len(Append(w, x)) = Len(w) + 1 /\ Append(w, x)[Len(w) + 1] = x
      /\ \A k \in 1..Len(w) : Append(w, x)[k] = w[k]
  BY <1>1, AppendMeans
<1>3. Heads(v, v)
  BY <1>1 DEF Heads
<1>4. ASSUME Heads(v, w), x = Last(v)
      PROVE  Heads(Append(v, x), w)
  BY <1>1, <1>2, <1>4 DEF Heads
<1>5. ASSUME Heads(v, w), x # Last(v)
      PROVE  Heads(v, Append(w, x))
  <2> SUFFICES ASSUME NEW i \in 1..(Len(w) + 1), Append(w, x)[i] = Last(v)
               PROVE  i <= Len(v)
    BY <1>2 DEF Heads
  <2>1. i \in 1..Len(w) /\ w[i] = Last(v)
    BY <1>1, <1>2, <1>5
  <2> QED
    BY <1>5, <2>1 DEF Heads
<1>6. ASSUME \A i \in 1..Len(w) : w[i] # x
      PROVE  Heads(Append(v, x), w)
  BY <1>2, <1>6 DEF Heads
<1> QED
  BY <1>3, <1>4, <1>5, <1>6

\* Nobody gets ahead of a server that writes, on its own timeline.
LEMMA WriterStep ==
    ASSUME LoopType, WalType, WalInv, WriterInv, WalStep
    PROVE  WriterInv'
<1>0. \A n \in Nodes : /\ wal[n] \in WALs /\ Last(wal[n]) = Timeline(n) /\ Timeline(n) \in Nat
                       /\ Timeline(n) <= timelines /\ timelines \in Nat
  BY WalMeans DEF Timeline, WalInv, WalType
<1> SUFFICES ASSUME NEW a \in Nodes, NEW m \in Nodes, Writes(a)'
             PROVE  /\ Heads(wal'[a], wal'[m])
                    /\ m # a /\ Writes(m)' => Last(wal'[m]) # Last(wal'[a])
  BY DEF WriterInv, Heads, Timeline
<1>1. CASE Quiet
  <2>1. wal' = wal /\ Writes(a) /\ (Writes(m)' => Writes(m))
    BY <1>1 DEF Quiet
  <2> QED
    BY <2>1, WriterMeans
<1>2. ASSUME NEW n \in Nodes, NEW s \in SUBSET Nodes, Appends(n, s)
      PROVE  /\ Heads(wal'[a], wal'[m])
             /\ m # a /\ Writes(m)' => Last(wal'[m]) # Last(wal'[a])
  <2> DEFINE t == Timeline(n)
             u == Append(wal[n], t)
  <2>1. /\ \A b \in Nodes : wal'[b] = IF b \in s THEN u ELSE wal[b]
        /\ n \in s /\ Writes(n) /\ Writes(a) /\ (a \in s => a = n)
        /\ Writes(m)' => Writes(m) /\ (m \in s => m = n)
    BY <1>2 DEF Appends
  <2>2. /\ Heads(wal[a], wal[m]) /\ Heads(wal[a], wal[n])
        /\ m # a /\ Writes(m) => Last(wal[m]) # Last(wal[a])
        /\ a # n => Last(wal[n]) # Last(wal[a])
    BY <2>1, WriterMeans
  <2>3. Last(u) = Last(wal[n]) /\ u \in WALs /\ t = Last(wal[n]) /\ t \in Nat
    <3>1. wal[n] \in Seq(Nat) /\ t \in Nat /\ t = Last(wal[n])
      BY <1>0 DEF WALs
    <3> QED
      BY <3>1, AppendMeans
  <2>4. Heads(u, u) /\ (a = n => Heads(u, wal[m])) /\ (a # n => Heads(wal[a], u))
    <3>1. Heads(u, u)
      BY <2>3, HeadsAppend
    <3>2. a = n => Heads(u, wal[m])
      BY <1>0, <2>2, <2>3, HeadsAppend
    <3>3. a # n => Heads(wal[a], u)
      BY <1>0, <2>2, <2>3, HeadsAppend
    <3> QED
      BY <3>1, <3>2, <3>3
  <2> HIDE DEF u, t
  <2>5. Heads(wal'[a], wal'[m])
    BY <2>1, <2>2, <2>4
  <2>6. ASSUME m # a, Writes(m)'
        PROVE  Last(wal'[m]) # Last(wal'[a])
    <3>1. Last(wal'[m]) = Last(wal[m]) /\ Last(wal'[a]) = Last(wal[a])
      BY <2>1, <2>3, <2>6
    <3> QED
      BY <2>1, <2>2, <2>6, <3>1
  <2> QED
    BY <2>5, <2>6
<1>3. ASSUME NEW n \in Nodes, NEW l \in Nodes, NEW v \in WALs, Copies(n, l, v)
      PROVE  /\ Heads(wal'[a], wal'[m])
             /\ m # a /\ Writes(m)' => Last(wal'[m]) # Last(wal'[a])
  <2>1. /\ Begins(v, wal[l]) /\ \A b \in Nodes : wal'[b] = IF b = n THEN v ELSE wal[b]
        /\ ~Writes(n)' /\ \A b \in Nodes \ {n} : Writes(b)' => Writes(b)
    BY <1>3 DEF Copies, WalType, Writes
  <2>2. a # n /\ Writes(a)
    BY <2>1
  <2>3. /\ Heads(wal[a], wal[m]) /\ Heads(wal[a], wal[l])
        /\ m # a /\ Writes(m) => Last(wal[m]) # Last(wal[a])
    BY <2>2, WriterMeans
  <2>4. Heads(wal[a], v)
    <3>1. /\ \A k \in 1..Len(v) : v[k] = wal[l][k] /\ k \in 1..Len(wal[l])
      <4>1. Len(v) \in Nat /\ Len(wal[l]) \in Nat /\ Len(v) <= Len(wal[l])
        BY <1>0, <2>1, LastMeans DEF Begins
      <4> QED
        BY <2>1, <4>1 DEF Begins
    <3> QED
      BY <2>3, <3>1 DEF Heads
  <2> QED
    BY <2>1, <2>2, <2>3, <2>4
<1>4. ASSUME NEW n \in Nodes, Promotes(n)
      PROVE  /\ Heads(wal'[a], wal'[m])
             /\ m # a /\ Writes(m)' => Last(wal'[m]) # Last(wal'[a])
  <2> DEFINE t == timelines + 1
             u == Append(wal[n], t)
  <2>1. /\ \A b \in Nodes : wal'[b] = IF b = n THEN u ELSE wal[b]
        /\ \A b \in Nodes \ {n} : Writes(b)' => Writes(b)
    BY <1>4 DEF Promotes, WalType, LoopType, Writes
  <2>2. t \in Nat /\ \A b \in Nodes : /\ Last(wal[b]) # t
                                      /\ \A i \in 1..Len(wal[b]) : wal[b][i] # t
    BY <1>0, RecordsMeans
  <2>3. Last(u) = t /\ u \in WALs
    <3>1. wal[n] \in Seq(Nat) /\ t \in Nat
      BY <1>0, <2>2 DEF WALs
    <3> QED
      BY <3>1, AppendMeans
  <2>4. Heads(u, u) /\ Heads(u, wal[m])
    BY <1>0, <2>2, <2>3, HeadsAppend
  <2>5. ASSUME a # n
        PROVE  /\ Heads(wal[a], wal[m]) /\ Heads(wal[a], u)
               /\ m # a /\ Writes(m) => Last(wal[m]) # Last(wal[a])
    <3>1. /\ Heads(wal[a], wal[m]) /\ Heads(wal[a], wal[n])
          /\ m # a /\ Writes(m) => Last(wal[m]) # Last(wal[a])
      BY <2>1, <2>5, WriterMeans
    <3> QED
      BY <1>0, <2>2, <3>1, HeadsAppend
  <2> HIDE DEF u, t
  <2>6. CASE a = n
    BY <2>1, <2>2, <2>3, <2>4, <2>6
  <2>7. CASE a # n
    BY <2>1, <2>2, <2>3, <2>5, <2>7
  <2> QED
    BY <2>6, <2>7
<1> QED
  BY <1>1, <1>2, <1>3, <1>4 DEF WalStep

-----------------------------------------------------------------------------
(* Checkpoints and claims *)

(***************************************************************************)
(* What the state of a primary says of its checkpoint is true, except      *)
(* between the end of the promotion and reset_state.                       *)
(***************************************************************************)
ReadyAt(n) ==
    pg[n] = "primary" /\ job[n] # "on_success" =>
        \/ control[n] = Timeline(n)
        \/ state[n] # "CHECKPOINT" /\ ~(state[n] = "INITIAL" /\ task[n] = "true")

ReadyInv == \A n \in Nodes : ReadyAt(n)

\* What c says of l is true.
Honest(c, l) ==
    c.role = "master" /\ c.checkpoint = "made" /\ pg[l] = "primary" =>
        control[l] = Timeline(l)

ClaimInv ==
    \A n \in Nodes :
        /\ Honest(claim[n], n)
        /\ view[n].leader \in Nodes => Honest(view[n].claim, view[n].leader)
        /\ source[n].leader \in Nodes => Honest(source[n].claim, source[n].leader)

\* What a step does to the state of class Rewind.
StateStep(m) ==
    \/ state'[m] = state[m]
    \/ state'[m] \in {"INITIAL", "CHECKPOINT", "CHECK", "NEED"}
    \/ pg_rewind(m)
    \/ /\ state'[m] = "NOT_NEED"
       /\ \E s \in States, end \in {0, Len(wal[m])} :
             s # "NOT_NEED" /\ CheckedState(m, s, end) = "NOT_NEED"

\* A check leads to NEED or NOT_NEED, or changes nothing; a trigger leads to CHECK.
LEMMA VerdictMeans ==
    ASSUME NEW n \in Nodes, NEW s \in States, NEW end
    PROVE  /\ CheckedState(n, s, end) \in {s, "CHECK", "NEED", "NOT_NEED"}
           /\ trigger_check_diverged_lsn(s) \in {s, "CHECK"}
  BY DEF CheckedState, check_timeline_and_lsn, trigger_check_diverged_lsn

LEMMA HandleState ==
    ASSUME LoopType, NEW n \in Nodes, NEW j,
           NEW s \in {state[n], "CHECK"}, handle_rewind_or_reinitialize(n, s, j)
    PROVE  \A m \in Nodes : StateStep(m)
<1>0. s \in States
  BY DEF LoopType, States
<1>1. PICK end \in {0, Len(wal[n])} : state' = Set(state, n, CheckedState(n, s, end))
  BY Zenon DEF handle_rewind_or_reinitialize
<1>2. CheckedState(n, s, end) \in {s, "CHECK", "NEED", "NOT_NEED"}
  BY <1>0, VerdictMeans
<1> SUFFICES ASSUME NEW m \in Nodes PROVE StateStep(m)
  OBVIOUS
<1>3. CASE m = n
  <2>1. state'[m] = CheckedState(n, s, end)
    BY <1>1, <1>3 DEF Set, LoopType
  <2>2. CASE s = "NOT_NEED"
    BY <1>2, <1>3, <2>1, <2>2 DEF StateStep
  <2>3. CASE s # "NOT_NEED"
    BY <1>0, <1>2, <1>3, <2>1, <2>3 DEF StateStep
  <2> QED
    BY <2>2, <2>3
<1>4. CASE m # n
  BY <1>1, <1>4 DEF Set, LoopType, StateStep
<1> QED
  BY <1>3, <1>4

\* Every step is one of these.
LEMMA EveryStateStep ==
    ASSUME LoopType, [Next]_vars
    PROVE  \A m \in Nodes : StateStep(m)
<1>1. ASSUME NEW n \in Nodes, load_cluster_from_dcs(n)
      PROVE  \A m \in Nodes : StateStep(m)
  BY <1>1 DEF load_cluster_from_dcs, LoopType, StateStep, rewindVars, Set
<1>2. ASSUME NEW n \in Nodes, handle_long_action_in_progress(n)
      PROVE  \A m \in Nodes : StateStep(m)
  <2>1. trigger_check_diverged_lsn(state[n]) \in {state[n], "CHECK"}
    BY VerdictMeans DEF LoopType
  <2>2. UNCHANGED state \/ state' = Set(state, n, trigger_check_diverged_lsn(state[n]))
    BY <1>2 DEF handle_long_action_in_progress
  <2> QED
    BY <2>1, <2>2 DEF Set, LoopType, StateStep
<1>3. ASSUME NEW n \in Nodes, recover(n) PROVE \A m \in Nodes : StateStep(m)
  <2>1. state[n] \in States /\ trigger_check_diverged_lsn(state[n]) \in {state[n], "CHECK"}
    BY VerdictMeans DEF LoopType
  <2>2. CASE UNCHANGED state
    BY <2>2 DEF StateStep
  <2>3. CASE ~UNCHANGED state
    <3>1. \/ handle_rewind_or_reinitialize(n, state[n], "start")
          \/ handle_rewind_or_reinitialize(n, trigger_check_diverged_lsn(state[n]), "start")
      BY <1>3, <2>3, Zenon DEF recover
    <3> QED
      BY <2>1, <3>1, HandleState
  <2> QED
    BY <2>2, <2>3
<1>4. ASSUME NEW n \in Nodes, bootstrap(n) PROVE \A m \in Nodes : StateStep(m)
  BY <1>4 DEF bootstrap, LoopType, StateStep, rewindVars, Set
<1>5. ASSUME NEW n \in Nodes, lead(n) PROVE \A m \in Nodes : StateStep(m)
  BY <1>5 DEF lead, ensure_checkpoint_after_promote, LoopType, StateStep,
              rewindVars, Set
<1>6. ASSUME NEW n \in Nodes, process_unhealthy_cluster(n)
      PROVE  \A m \in Nodes : StateStep(m)
  BY <1>6 DEF process_unhealthy_cluster, LoopType, StateStep, rewindVars, Set
<1>7. ASSUME NEW n \in Nodes, demote(n) PROVE \A m \in Nodes : StateStep(m)
  <2>1. trigger_check_diverged_lsn(state[n]) \in {state[n], "CHECK"}
    BY VerdictMeans DEF LoopType
  <2>2. UNCHANGED state \/ state' = Set(state, n, trigger_check_diverged_lsn(state[n]))
    BY <1>7 DEF demote
  <2> QED
    BY <2>1, <2>2 DEF Set, LoopType, StateStep
<1>8. ASSUME NEW n \in Nodes, follow(n) PROVE \A m \in Nodes : StateStep(m)
  <2>1. CASE UNCHANGED state
    BY <2>1 DEF StateStep
  <2>2. CASE state' = Set(state, n, trigger_check_diverged_lsn(state[n]))
    <3>1. trigger_check_diverged_lsn(state[n]) \in {state[n], "CHECK"}
      BY VerdictMeans DEF LoopType
    <3> QED
      BY <2>2, <3>1 DEF Set, LoopType, StateStep
  <2>3. CASE handle_rewind_or_reinitialize(n, state[n], "idle")
    BY <2>3, HandleState
  <2>4. CASE state' = Set(state, n, trigger_check_diverged_lsn(
                                       CheckedState(n, state[n], Len(wal[n]))))
    <3> DEFINE checked == CheckedState(n, state[n], Len(wal[n]))
    <3>1. checked \in {state[n], "CHECK", "NEED", "NOT_NEED"} /\ state[n] \in States
      BY VerdictMeans DEF LoopType
    <3>2. checked \in States /\ trigger_check_diverged_lsn(checked) \in {checked, "CHECK"}
      BY <3>1, VerdictMeans DEF States
    <3>3. state'[n] = trigger_check_diverged_lsn(checked)
      BY <2>4 DEF Set, LoopType
    <3>4. \A m \in Nodes \ {n} : state'[m] = state[m]
      BY <2>4 DEF Set, LoopType
    <3>5. StateStep(n)
      <4>1. state[n] # "NOT_NEED" /\ checked = "NOT_NEED" =>
               \E s \in States, end \in {0, Len(wal[n])} :
                  s # "NOT_NEED" /\ CheckedState(n, s, end) = "NOT_NEED"
        BY <3>1
      <4> HIDE DEF checked
      <4> QED
        BY <3>1, <3>2, <3>3, <4>1 DEF StateStep
    <3> QED
      BY <3>4, <3>5 DEF StateStep
  <2> QED
    BY <1>8, <2>1, <2>2, <2>3, <2>4, Zenon DEF follow
<1>9. ASSUME NEW n \in Nodes, rebuild(n) PROVE \A m \in Nodes : StateStep(m)
  <2>1. state' = Set(state, n, CheckedState(n, state[n], Len(wal[n])))
    BY <1>9 DEF rebuild
  <2> DEFINE checked == CheckedState(n, state[n], Len(wal[n]))
  <2>2. checked \in {state[n], "CHECK", "NEED", "NOT_NEED"} /\ state[n] \in States
    BY VerdictMeans DEF LoopType
  <2>3. checked \in States /\ trigger_check_diverged_lsn(checked) \in {checked, "CHECK"}
    BY <2>2, VerdictMeans DEF States
  <2>4. state'[n] = checked /\ \A m \in Nodes \ {n} : state'[m] = state[m]
    BY <2>1 DEF Set, LoopType
  <2>5. StateStep(n)
    <3>1. state[n] # "NOT_NEED" /\ checked = "NOT_NEED" =>
             \E s \in States, end \in {0, Len(wal[n])} :
                s # "NOT_NEED" /\ CheckedState(n, s, end) = "NOT_NEED"
      BY <2>2
    <3> HIDE DEF checked
    <3> QED
      BY <2>2, <2>4, <3>1 DEF StateStep
  <2> QED
    BY <2>4, <2>5 DEF StateStep
<1>10. ASSUME NEW n \in Nodes, promote(n) PROVE \A m \in Nodes : StateStep(m)
  BY <1>10 DEF promote, LoopType, StateStep, rewindVars, Set
<1>11. ASSUME NEW n \in Nodes, on_success(n)
       PROVE  \A m \in Nodes : StateStep(m)
  BY <1>11 DEF on_success, LoopType, StateStep, rewindVars, Set
<1>12. ASSUME NEW n \in Nodes, ensure_clean_shutdown(n)
       PROVE  \A m \in Nodes : StateStep(m)
  BY <1>12 DEF ensure_clean_shutdown, LoopType, StateStep, rewindVars, Set
<1>13. ASSUME NEW n \in Nodes, start(n) PROVE \A m \in Nodes : StateStep(m)
  BY <1>13 DEF start, LoopType, StateStep, rewindVars, Set
<1>14. ASSUME NEW n \in Nodes, execute(n) PROVE \A m \in Nodes : StateStep(m)
  BY <1>14 DEF execute, LoopType, StateStep, rewindVars, Set
<1>15. ASSUME NEW n \in Nodes, pg_rewind(n) PROVE \A m \in Nodes : StateStep(m)
  <2>1. \A m \in Nodes \ {n} : state'[m] = state[m]
    BY <1>15 DEF pg_rewind, Set, LoopType
  <2> QED
    BY <1>15, <2>1 DEF StateStep
<1>16. ASSUME NEW n \in Nodes, clone(n) PROVE \A m \in Nodes : StateStep(m)
  BY <1>16 DEF clone, LoopType, StateStep, rewindVars, Set
<1>17. ASSUME NEW n \in Nodes, demote_graceful(n)
       PROVE  \A m \in Nodes : StateStep(m)
  <2>1. trigger_check_diverged_lsn(state[n]) \in {state[n], "CHECK"}
    BY VerdictMeans DEF LoopType
  <2>2. UNCHANGED state \/ state' = Set(state, n, trigger_check_diverged_lsn(state[n]))
    BY <1>17 DEF demote_graceful
  <2> QED
    BY <2>1, <2>2 DEF Set, LoopType, StateStep
<1>18. ASSUME NEW n \in Nodes, checkpoint(n)
       PROVE  \A m \in Nodes : StateStep(m)
  BY <1>18 DEF checkpoint, LoopType, StateStep, rewindVars, Set
<1>19. ASSUME NEW n \in Nodes, server_checkpoint(n)
       PROVE  \A m \in Nodes : StateStep(m)
  BY <1>19 DEF server_checkpoint, LoopType, StateStep, rewindVars, Set
<1>20. ASSUME NEW n \in Nodes, Write(n) PROVE \A m \in Nodes : StateStep(m)
  BY <1>20 DEF Write, LoopType, StateStep, rewindVars, Set
<1>21. ASSUME NEW n \in Nodes, Stream(n) PROVE \A m \in Nodes : StateStep(m)
  BY <1>21 DEF Stream, LoopType, StateStep, rewindVars, Set
<1>22. ASSUME NEW n \in Nodes, Crash(n) PROVE \A m \in Nodes : StateStep(m)
  BY <1>22 DEF Crash, LoopType, StateStep, rewindVars, Set
<1>23. ASSUME LoseKey PROVE \A m \in Nodes : StateStep(m)
  BY <1>23 DEF LoseKey, LoopType, StateStep, rewindVars, Set
<1>24. ASSUME UNCHANGED vars PROVE \A m \in Nodes : StateStep(m)
  BY <1>24 DEF vars, LoopType, StateStep, rewindVars, Set
<1> QED
  BY <1>1, <1>2, <1>3, <1>4, <1>5, <1>6, <1>7, <1>8, <1>9, <1>10, <1>11,
     <1>12, <1>13, <1>14, <1>15, <1>16, <1>17, <1>18, <1>19, <1>20, <1>21,
     <1>22, <1>23, <1>24 DEF Next, Loop, Work

\* The states stay true.
LEMMA ReadyStep ==
    ASSUME LoopType, WalType, ReadyInv, [Next]_vars
    PROVE  ReadyInv'
<1>1. ASSUME NEW n \in Nodes, load_cluster_from_dcs(n) PROVE ReadyInv'
  <2> SUFFICES ASSUME NEW m \in Nodes PROVE ReadyAt(m)'
    BY DEF ReadyInv
  <2>1. ReadyAt(m)
    BY DEF ReadyInv
  <2>2. CASE m = n
    BY <1>1, <2>1, <2>2 DEF load_cluster_from_dcs, LoopType, WalType, ReadyAt,
                            Timeline, Set, pgVars, rewindVars
  <2>3. CASE m # n
    BY <1>1, <2>1, <2>3 DEF load_cluster_from_dcs, LoopType, WalType, ReadyAt,
                            Timeline, Set, pgVars, rewindVars
  <2> QED
    BY <2>2, <2>3
<1>2. ASSUME NEW n \in Nodes, handle_long_action_in_progress(n) PROVE ReadyInv'
  <2> SUFFICES ASSUME NEW m \in Nodes PROVE ReadyAt(m)'
    BY DEF ReadyInv
  <2>1. ReadyAt(m)
    BY DEF ReadyInv
  <2>2. CASE m = n
    BY <1>2, <2>1, <2>2 DEF handle_long_action_in_progress,
                            trigger_check_diverged_lsn, LoopType, WalType,
                            ReadyAt, Timeline, Set, pgVars, rewindVars
  <2>3. CASE m # n
    BY <1>2, <2>1, <2>3 DEF handle_long_action_in_progress,
                            trigger_check_diverged_lsn, LoopType, WalType,
                            ReadyAt, Timeline, Set, pgVars, rewindVars
  <2> QED
    BY <2>2, <2>3
<1>3. ASSUME NEW n \in Nodes, recover(n) PROVE ReadyInv'
  <2> SUFFICES ASSUME NEW m \in Nodes PROVE ReadyAt(m)'
    BY DEF ReadyInv
  <2>1. ReadyAt(m)
    BY DEF ReadyInv
  <2>2. pg[n] # "primary" /\ pg' = pg
    BY <1>3 DEF recover, Stopped, pgVars
  <2>3. ASSUME m # n
        PROVE  /\ state'[m] = state[m] /\ task'[m] = task[m]
               /\ job'[m] = job[m] /\ wal'[m] = wal[m] /\ control'[m] = control[m]
    BY <1>3, <2>3 DEF recover, handle_rewind_or_reinitialize, LoopType,
                      WalType, Set, pgVars
  <2> QED
    BY <2>1, <2>2, <2>3 DEF ReadyAt, Timeline
<1>4. ASSUME NEW n \in Nodes, bootstrap(n) PROVE ReadyInv'
  <2> SUFFICES ASSUME NEW m \in Nodes PROVE ReadyAt(m)'
    BY DEF ReadyInv
  <2>1. ReadyAt(m)
    BY DEF ReadyInv
  <2>2. CASE m = n
    BY <1>4, <2>1, <2>2 DEF bootstrap, Idle, LoopType, WalType, ReadyAt,
                            Timeline, Set, pgVars, rewindVars
  <2>3. CASE m # n
    BY <1>4, <2>1, <2>3 DEF bootstrap, Idle, LoopType, WalType, ReadyAt,
                            Timeline, Set, pgVars, rewindVars
  <2> QED
    BY <2>2, <2>3
<1>5. ASSUME NEW n \in Nodes, lead(n) PROVE ReadyInv'
  <2> SUFFICES ASSUME NEW m \in Nodes PROVE ReadyAt(m)'
    BY DEF ReadyInv
  <2>1. ReadyAt(m)
    BY DEF ReadyInv
  <2>2. CASE m = n
    BY <1>5, <2>1, <2>2 DEF lead, Idle, ensure_checkpoint_after_promote,
                            LoopType, WalType, ReadyAt, Timeline, Set, pgVars,
                            rewindVars
  <2>3. CASE m # n
    BY <1>5, <2>1, <2>3 DEF lead, Idle, ensure_checkpoint_after_promote,
                            LoopType, WalType, ReadyAt, Timeline, Set, pgVars,
                            rewindVars
  <2> QED
    BY <2>2, <2>3
<1>6. ASSUME NEW n \in Nodes, process_unhealthy_cluster(n) PROVE ReadyInv'
  <2> SUFFICES ASSUME NEW m \in Nodes PROVE ReadyAt(m)'
    BY DEF ReadyInv
  <2>1. ReadyAt(m)
    BY DEF ReadyInv
  <2>2. CASE m = n
    BY <1>6, <2>1, <2>2 DEF process_unhealthy_cluster, Idle, LoopType,
                            WalType, ReadyAt, Timeline, Set, pgVars,
                            rewindVars
  <2>3. CASE m # n
    BY <1>6, <2>1, <2>3 DEF process_unhealthy_cluster, Idle, LoopType,
                            WalType, ReadyAt, Timeline, Set, pgVars,
                            rewindVars
  <2> QED
    BY <2>2, <2>3
<1>7. ASSUME NEW n \in Nodes, demote(n) PROVE ReadyInv'
  <2> SUFFICES ASSUME NEW m \in Nodes PROVE ReadyAt(m)'
    BY DEF ReadyInv
  <2>1. ReadyAt(m)
    BY DEF ReadyInv
  <2>2. CASE m = n
    BY <1>7, <2>1, <2>2 DEF demote, Idle, trigger_check_diverged_lsn,
                            LoopType, WalType, ReadyAt, Timeline, Set, pgVars,
                            rewindVars
  <2>3. CASE m # n
    BY <1>7, <2>1, <2>3 DEF demote, Idle, trigger_check_diverged_lsn,
                            LoopType, WalType, ReadyAt, Timeline, Set, pgVars,
                            rewindVars
  <2> QED
    BY <2>2, <2>3
<1>8. ASSUME NEW n \in Nodes, follow(n) PROVE ReadyInv'
  <2> SUFFICES ASSUME NEW m \in Nodes PROVE ReadyAt(m)'
    BY DEF ReadyInv
  <2>1. ReadyAt(m)
    BY DEF ReadyInv
  <2>2. pg[n] # "primary" /\ pg' = pg
    BY <1>8 DEF follow, Stopped, pgVars
  <2>3. ASSUME m # n
        PROVE  /\ state'[m] = state[m] /\ task'[m] = task[m]
               /\ job'[m] = job[m] /\ wal'[m] = wal[m] /\ control'[m] = control[m]
    BY <1>8, <2>3 DEF follow, handle_rewind_or_reinitialize, LoopType,
                      WalType, Set, pgVars
  <2> QED
    BY <2>1, <2>2, <2>3 DEF ReadyAt, Timeline
<1>9. ASSUME NEW n \in Nodes, rebuild(n) PROVE ReadyInv'
  <2> SUFFICES ASSUME NEW m \in Nodes PROVE ReadyAt(m)'
    BY DEF ReadyInv
  <2>1. ReadyAt(m)
    BY DEF ReadyInv
  <2>2. pg[n] # "primary" /\ pg' = pg
    BY <1>9 DEF rebuild, Stopped, pgVars
  <2>3. ASSUME m # n
        PROVE  /\ state'[m] = state[m] /\ task'[m] = task[m]
               /\ job'[m] = job[m] /\ wal'[m] = wal[m] /\ control'[m] = control[m]
    BY <1>9, <2>3 DEF rebuild, handle_rewind_or_reinitialize, LoopType,
                      WalType, Set, pgVars
  <2> QED
    BY <2>1, <2>2, <2>3 DEF ReadyAt, Timeline
<1>10. ASSUME NEW n \in Nodes, promote(n) PROVE ReadyInv'
  <2> SUFFICES ASSUME NEW m \in Nodes PROVE ReadyAt(m)'
    BY DEF ReadyInv
  <2>1. ReadyAt(m)
    BY DEF ReadyInv
  <2>2. CASE m = n
    BY <1>10, <2>1, <2>2 DEF promote, LoopType, WalType, ReadyAt, Timeline,
                             Set, pgVars, rewindVars
  <2>3. CASE m # n
    BY <1>10, <2>1, <2>3 DEF promote, LoopType, WalType, ReadyAt, Timeline,
                             Set, pgVars, rewindVars
  <2> QED
    BY <2>2, <2>3
<1>11. ASSUME NEW n \in Nodes, on_success(n) PROVE ReadyInv'
  <2> SUFFICES ASSUME NEW m \in Nodes PROVE ReadyAt(m)'
    BY DEF ReadyInv
  <2>1. ReadyAt(m)
    BY DEF ReadyInv
  <2>2. CASE m = n
    BY <1>11, <2>1, <2>2 DEF on_success, LoopType, WalType, ReadyAt, Timeline,
                             Set, pgVars, rewindVars
  <2>3. CASE m # n
    BY <1>11, <2>1, <2>3 DEF on_success, LoopType, WalType, ReadyAt, Timeline,
                             Set, pgVars, rewindVars
  <2> QED
    BY <2>2, <2>3
<1>12. ASSUME NEW n \in Nodes, ensure_clean_shutdown(n) PROVE ReadyInv'
  <2> SUFFICES ASSUME NEW m \in Nodes PROVE ReadyAt(m)'
    BY DEF ReadyInv
  <2>1. ReadyAt(m)
    BY DEF ReadyInv
  <2>2. CASE m = n
    BY <1>12, <2>1, <2>2 DEF ensure_clean_shutdown, LoopType, WalType,
                             ReadyAt, Timeline, Set, pgVars, rewindVars
  <2>3. CASE m # n
    BY <1>12, <2>1, <2>3 DEF ensure_clean_shutdown, LoopType, WalType,
                             ReadyAt, Timeline, Set, pgVars, rewindVars
  <2> QED
    BY <2>2, <2>3
<1>13. ASSUME NEW n \in Nodes, start(n) PROVE ReadyInv'
  <2> SUFFICES ASSUME NEW m \in Nodes PROVE ReadyAt(m)'
    BY DEF ReadyInv
  <2>1. ReadyAt(m)
    BY DEF ReadyInv
  <2>2. CASE m = n
    BY <1>13, <2>1, <2>2 DEF start, Stopped, LoopType, WalType, ReadyAt,
                             Timeline, Set, pgVars, rewindVars
  <2>3. CASE m # n
    BY <1>13, <2>1, <2>3 DEF start, Stopped, LoopType, WalType, ReadyAt,
                             Timeline, Set, pgVars, rewindVars
  <2> QED
    BY <2>2, <2>3
<1>14. ASSUME NEW n \in Nodes, execute(n) PROVE ReadyInv'
  <2> SUFFICES ASSUME NEW m \in Nodes PROVE ReadyAt(m)'
    BY DEF ReadyInv
  <2>1. ReadyAt(m)
    BY DEF ReadyInv
  <2>2. CASE m = n
    BY <1>14, <2>1, <2>2 DEF execute, LoopType, WalType, ReadyAt, Timeline,
                             Set, pgVars, rewindVars
  <2>3. CASE m # n
    BY <1>14, <2>1, <2>3 DEF execute, LoopType, WalType, ReadyAt, Timeline,
                             Set, pgVars, rewindVars
  <2> QED
    BY <2>2, <2>3
<1>15. ASSUME NEW n \in Nodes, pg_rewind(n) PROVE ReadyInv'
  <2> SUFFICES ASSUME NEW m \in Nodes PROVE ReadyAt(m)'
    BY DEF ReadyInv
  <2>1. ReadyAt(m)
    BY DEF ReadyInv
  <2>2. CASE m = n
    BY <1>15, <2>1, <2>2 DEF pg_rewind, LoopType, WalType, ReadyAt, Timeline,
                             Set, pgVars, rewindVars
  <2>3. CASE m # n
    BY ZenonT(90), <1>15, <2>1, <2>3 DEF pg_rewind, LoopType, WalType, ReadyAt, Timeline,
                             Set, pgVars, rewindVars
  <2> QED
    BY <2>2, <2>3
<1>16. ASSUME NEW n \in Nodes, clone(n) PROVE ReadyInv'
  <2> SUFFICES ASSUME NEW m \in Nodes PROVE ReadyAt(m)'
    BY DEF ReadyInv
  <2>1. ReadyAt(m)
    BY DEF ReadyInv
  <2>2. CASE m = n
    BY <1>16, <2>1, <2>2 DEF clone, LoopType, WalType, ReadyAt, Timeline, Set,
                             pgVars, rewindVars
  <2>3. CASE m # n
    BY <1>16, <2>1, <2>3 DEF clone, LoopType, WalType, ReadyAt, Timeline, Set,
                             pgVars, rewindVars
  <2> QED
    BY <2>2, <2>3
<1>17. ASSUME NEW n \in Nodes, demote_graceful(n) PROVE ReadyInv'
  <2> SUFFICES ASSUME NEW m \in Nodes PROVE ReadyAt(m)'
    BY DEF ReadyInv
  <2>1. ReadyAt(m)
    BY DEF ReadyInv
  <2>2. CASE m = n
    BY <1>17, <2>1, <2>2 DEF demote_graceful, Idle,
                             trigger_check_diverged_lsn, LoopType, WalType,
                             ReadyAt, Timeline, Set, pgVars, rewindVars
  <2>3. CASE m # n
    BY <1>17, <2>1, <2>3 DEF demote_graceful, Idle,
                             trigger_check_diverged_lsn, LoopType, WalType,
                             ReadyAt, Timeline, Set, pgVars, rewindVars
  <2> QED
    BY <2>2, <2>3
<1>18. ASSUME NEW n \in Nodes, checkpoint(n) PROVE ReadyInv'
  <2> SUFFICES ASSUME NEW m \in Nodes PROVE ReadyAt(m)'
    BY DEF ReadyInv
  <2>1. ReadyAt(m)
    BY DEF ReadyInv
  <2>2. CASE m = n
    BY <1>18, <2>1, <2>2 DEF checkpoint, LoopType, WalType, ReadyAt, Timeline,
                             Set, pgVars, rewindVars
  <2>3. CASE m # n
    BY <1>18, <2>1, <2>3 DEF checkpoint, LoopType, WalType, ReadyAt, Timeline,
                             Set, pgVars, rewindVars
  <2> QED
    BY <2>2, <2>3
<1>19. ASSUME NEW n \in Nodes, server_checkpoint(n) PROVE ReadyInv'
  <2> SUFFICES ASSUME NEW m \in Nodes PROVE ReadyAt(m)'
    BY DEF ReadyInv
  <2>1. ReadyAt(m)
    BY DEF ReadyInv
  <2>2. CASE m = n
    BY <1>19, <2>1, <2>2 DEF server_checkpoint, LoopType, WalType, ReadyAt,
                             Timeline, Set, pgVars, rewindVars
  <2>3. CASE m # n
    BY <1>19, <2>1, <2>3 DEF server_checkpoint, LoopType, WalType, ReadyAt,
                             Timeline, Set, pgVars, rewindVars
  <2> QED
    BY <2>2, <2>3
<1>20. ASSUME NEW n \in Nodes, Write(n) PROVE ReadyInv'
  <2> SUFFICES ASSUME NEW m \in Nodes PROVE ReadyAt(m)'
    BY DEF ReadyInv
  <2>1. ReadyAt(m)
    BY DEF ReadyInv
  <2>2. Last(Append(wal[n], Timeline(n))) = Timeline(n)
    BY WalMeans, AppendMeans
  <2>3. Last(wal'[m]) = Timeline(m)
    BY <1>20, <2>2 DEF Write, Set, WalType, Timeline
  <2> QED
    BY <1>20, <2>1, <2>3 DEF Write, ReadyAt, Timeline, pgVars, rewindVars
<1>21. ASSUME NEW n \in Nodes, Stream(n) PROVE ReadyInv'
  <2> SUFFICES ASSUME NEW m \in Nodes PROVE ReadyAt(m)'
    BY DEF ReadyInv
  <2>1. ReadyAt(m)
    BY DEF ReadyInv
  <2>2. m = n \/ wal'[m] = wal[m]
    BY <1>21 DEF Stream, Set, WalType
  <2> QED
    BY <1>21, <2>1, <2>2 DEF Stream, ReadyAt, Timeline, pgVars, rewindVars
<1>22. ASSUME NEW n \in Nodes, Crash(n) PROVE ReadyInv'
  <2> SUFFICES ASSUME NEW m \in Nodes PROVE ReadyAt(m)'
    BY DEF ReadyInv
  <2>1. ReadyAt(m)
    BY DEF ReadyInv
  <2>2. CASE m = n
    BY <1>22, <2>1, <2>2 DEF Crash, Running, LoopType, WalType, ReadyAt,
                             Timeline, Set, pgVars, rewindVars
  <2>3. CASE m # n
    BY <1>22, <2>1, <2>3 DEF Crash, Running, LoopType, WalType, ReadyAt,
                             Timeline, Set, pgVars, rewindVars
  <2> QED
    BY <2>2, <2>3
<1>23. ASSUME LoseKey PROVE ReadyInv'
  BY <1>23 DEF LoseKey, ReadyInv, ReadyAt, Timeline, pgVars, rewindVars
<1>24. ASSUME UNCHANGED vars PROVE ReadyInv'
  BY <1>24 DEF vars, ReadyInv, ReadyAt, Timeline, pgVars, rewindVars
<1> QED
  BY <1>1, <1>2, <1>3, <1>4, <1>5, <1>6, <1>7, <1>8, <1>9, <1>10, <1>11,
     <1>12, <1>13, <1>14, <1>15, <1>16, <1>17, <1>18, <1>19, <1>20, <1>21,
     <1>22, <1>23, <1>24 DEF Next, Loop, Work

(***************************************************************************)
(* What a step does to the claims: they are read, published and forgotten, *)
(* or a promotion makes them outdated.                                     *)
(***************************************************************************)
Passes ==
    /\ \A m \in Nodes : claim'[m] = claim[m] \/ EndCycle(m)
    /\ \A m \in Nodes :
          \/ view'[m] = view[m]
          \/ view'[m].leader \in Nodes => view'[m].claim = claim[view'[m].leader]
    /\ \A m \in Nodes : source'[m] \in {source[m], view[m], NoLeader}
    /\ \A m \in Nodes : /\ pg'[m] = "primary" => pg[m] = "primary"
                        /\ job'[m] = "on_success" => job[m] = "on_success"

Outdates(n) ==
    /\ \A m \in Nodes \ {n} : claim'[m] = claim[m]
    /\ claim'[n].checkpoint # "made"
    /\ view' = Outdated(view, n) /\ source' = Outdated(source, n)
    /\ \A m \in Nodes \ {n} : pg'[m] = pg[m]

\* Every step is one of these.
LEMMA EveryClaimStep ==
    ASSUME LoopType, KeyType, JobInv, [Next]_vars
    PROVE  Passes \/ \E i \in Nodes : Outdates(i)
<1>1. ASSUME NEW n \in Nodes, load_cluster_from_dcs(n)
      PROVE  Passes \/ \E i \in Nodes : Outdates(i)
  <2>1. \A m \in Nodes :
           \/ view'[m] = view[m]
           \/ view'[m].leader \in Nodes => view'[m].claim = claim[view'[m].leader]
    <3>1. NoLeader.leader \notin Nodes
      BY RewindAssumption DEF NoLeader
    <3> QED
      BY <1>1, <3>1 DEF load_cluster_from_dcs, KeyType, Set
  <2> QED
    BY <1>1, <2>1 DEF load_cluster_from_dcs, Passes, pgVars, rewindVars
<1>2. ASSUME NEW n \in Nodes, handle_long_action_in_progress(n)
      PROVE  Passes \/ \E i \in Nodes : Outdates(i)
  <2>1. \A m \in Nodes \ {n} : claim'[m] = claim[m]
    <3>1. EndCycle(n)
      BY <1>2 DEF handle_long_action_in_progress
    <3> QED
      BY <3>1 DEF EndCycle, Set, KeyType
  <2>2. EndCycle(n)
    BY <1>2 DEF handle_long_action_in_progress
  <2>3. \A m \in Nodes : claim'[m] = claim[m] \/ EndCycle(m)
    BY <2>1, <2>2
  <2>4. \A m \in Nodes :
           \/ view'[m] = view[m]
           \/ view'[m].leader \in Nodes => view'[m].claim = claim[view'[m].leader]
    BY <1>2 DEF handle_long_action_in_progress, KeyType, Set
  <2>5. \A m \in Nodes : source'[m] \in {source[m], view[m], NoLeader}
    BY <1>2 DEF handle_long_action_in_progress, trigger_check_diverged_lsn,
                KeyType, Set
  <2>6. \A m \in Nodes : /\ pg'[m] = "primary" => pg[m] = "primary"
                         /\ job'[m] = "on_success" => job[m] = "on_success"
    BY <1>2 DEF handle_long_action_in_progress, trigger_check_diverged_lsn,
                LoopType, Set, pgVars
  <2> QED
    BY <2>3, <2>4, <2>5, <2>6 DEF Passes
<1>3. ASSUME NEW n \in Nodes, recover(n)
      PROVE  Passes \/ \E i \in Nodes : Outdates(i)
  <2>1. \A m \in Nodes \ {n} : claim'[m] = claim[m]
    <3>1. EndCycle(n)
      BY <1>3 DEF recover
    <3> QED
      BY <3>1 DEF EndCycle, Set, KeyType
  <2>2. EndCycle(n)
    BY <1>3 DEF recover
  <2>3. \A m \in Nodes : claim'[m] = claim[m] \/ EndCycle(m)
    BY <2>1, <2>2
  <2>4. \A m \in Nodes :
           \/ view'[m] = view[m]
           \/ view'[m].leader \in Nodes => view'[m].claim = claim[view'[m].leader]
    BY <1>3 DEF recover, KeyType, Set
  <2>5. \A m \in Nodes : source'[m] \in {source[m], view[m], NoLeader}
    BY <1>3 DEF recover, Idle, handle_rewind_or_reinitialize,
                trigger_check_diverged_lsn, Stopped, KeyType, Set
  <2>6. \A m \in Nodes : /\ pg'[m] = "primary" => pg[m] = "primary"
                         /\ job'[m] = "on_success" => job[m] = "on_success"
    BY <1>3 DEF recover, Idle, handle_rewind_or_reinitialize,
                trigger_check_diverged_lsn, Stopped, LoopType, Set, pgVars
  <2> QED
    BY <2>3, <2>4, <2>5, <2>6 DEF Passes
<1>4. ASSUME NEW n \in Nodes, bootstrap(n)
      PROVE  Passes \/ \E i \in Nodes : Outdates(i)
  <2>1. \A m \in Nodes \ {n} : claim'[m] = claim[m]
    <3>1. EndCycle(n)
      BY <1>4 DEF bootstrap
    <3> QED
      BY <3>1 DEF EndCycle, Set, KeyType
  <2>2. EndCycle(n)
    BY <1>4 DEF bootstrap
  <2>3. \A m \in Nodes : claim'[m] = claim[m] \/ EndCycle(m)
    BY <2>1, <2>2
  <2>4. \A m \in Nodes :
           \/ view'[m] = view[m]
           \/ view'[m].leader \in Nodes => view'[m].claim = claim[view'[m].leader]
    BY <1>4 DEF bootstrap, KeyType, Set
  <2>5. \A m \in Nodes : source'[m] \in {source[m], view[m], NoLeader}
    BY <1>4 DEF bootstrap, Idle, KeyType, Set
  <2>6. \A m \in Nodes : /\ pg'[m] = "primary" => pg[m] = "primary"
                         /\ job'[m] = "on_success" => job[m] = "on_success"
    BY <1>4 DEF bootstrap, Idle, LoopType, Set, pgVars
  <2> QED
    BY <2>3, <2>4, <2>5, <2>6 DEF Passes
<1>5. ASSUME NEW n \in Nodes, lead(n)
      PROVE  Passes \/ \E i \in Nodes : Outdates(i)
  <2>1. \A m \in Nodes \ {n} : claim'[m] = claim[m]
    <3>1. EndCycle(n)
      BY <1>5 DEF lead
    <3> QED
      BY <3>1 DEF EndCycle, Set, KeyType
  <2>2. EndCycle(n)
    BY <1>5 DEF lead
  <2>3. \A m \in Nodes : claim'[m] = claim[m] \/ EndCycle(m)
    BY <2>1, <2>2
  <2>4. \A m \in Nodes :
           \/ view'[m] = view[m]
           \/ view'[m].leader \in Nodes => view'[m].claim = claim[view'[m].leader]
    BY <1>5 DEF lead, KeyType, Set
  <2>5. \A m \in Nodes : source'[m] \in {source[m], view[m], NoLeader}
    BY <1>5 DEF lead, Idle, ensure_checkpoint_after_promote, KeyType, Set
  <2>6. \A m \in Nodes : /\ pg'[m] = "primary" => pg[m] = "primary"
                         /\ job'[m] = "on_success" => job[m] = "on_success"
    BY <1>5 DEF lead, Idle, ensure_checkpoint_after_promote, LoopType, Set,
                pgVars
  <2> QED
    BY <2>3, <2>4, <2>5, <2>6 DEF Passes
<1>6. ASSUME NEW n \in Nodes, process_unhealthy_cluster(n)
      PROVE  Passes \/ \E i \in Nodes : Outdates(i)
  <2>1. \A m \in Nodes \ {n} : claim'[m] = claim[m]
    <3>1. EndCycle(n)
      BY <1>6 DEF process_unhealthy_cluster
    <3> QED
      BY <3>1 DEF EndCycle, Set, KeyType
  <2>2. EndCycle(n)
    BY <1>6 DEF process_unhealthy_cluster
  <2>3. \A m \in Nodes : claim'[m] = claim[m] \/ EndCycle(m)
    BY <2>1, <2>2
  <2>4. \A m \in Nodes :
           \/ view'[m] = view[m]
           \/ view'[m].leader \in Nodes => view'[m].claim = claim[view'[m].leader]
    BY <1>6 DEF process_unhealthy_cluster, KeyType, Set
  <2>5. \A m \in Nodes : source'[m] \in {source[m], view[m], NoLeader}
    BY <1>6 DEF process_unhealthy_cluster, Idle, KeyType, Set
  <2>6. \A m \in Nodes : /\ pg'[m] = "primary" => pg[m] = "primary"
                         /\ job'[m] = "on_success" => job[m] = "on_success"
    BY <1>6 DEF process_unhealthy_cluster, Idle, LoopType, Set, pgVars
  <2> QED
    BY <2>3, <2>4, <2>5, <2>6 DEF Passes
<1>7. ASSUME NEW n \in Nodes, demote(n)
      PROVE  Passes \/ \E i \in Nodes : Outdates(i)
  <2>1. \A m \in Nodes \ {n} : claim'[m] = claim[m]
    <3>1. EndCycle(n)
      BY <1>7 DEF demote
    <3> QED
      BY <3>1 DEF EndCycle, Set, KeyType
  <2>2. EndCycle(n)
    BY <1>7 DEF demote
  <2>3. \A m \in Nodes : claim'[m] = claim[m] \/ EndCycle(m)
    BY <2>1, <2>2
  <2>4. \A m \in Nodes :
           \/ view'[m] = view[m]
           \/ view'[m].leader \in Nodes => view'[m].claim = claim[view'[m].leader]
    BY <1>7 DEF demote, KeyType, Set
  <2>5. \A m \in Nodes : source'[m] \in {source[m], view[m], NoLeader}
    BY <1>7 DEF demote, Idle, trigger_check_diverged_lsn, KeyType, Set
  <2>6. \A m \in Nodes : /\ pg'[m] = "primary" => pg[m] = "primary"
                         /\ job'[m] = "on_success" => job[m] = "on_success"
    BY <1>7 DEF demote, Idle, trigger_check_diverged_lsn, LoopType, Set, pgVars
  <2> QED
    BY <2>3, <2>4, <2>5, <2>6 DEF Passes
<1>8. ASSUME NEW n \in Nodes, follow(n)
      PROVE  Passes \/ \E i \in Nodes : Outdates(i)
  <2>1. \A m \in Nodes \ {n} : claim'[m] = claim[m]
    <3>1. EndCycle(n)
      BY <1>8 DEF follow
    <3> QED
      BY <3>1 DEF EndCycle, Set, KeyType
  <2>2. EndCycle(n)
    BY <1>8 DEF follow
  <2>3. \A m \in Nodes : claim'[m] = claim[m] \/ EndCycle(m)
    BY <2>1, <2>2
  <2>4. \A m \in Nodes :
           \/ view'[m] = view[m]
           \/ view'[m].leader \in Nodes => view'[m].claim = claim[view'[m].leader]
    BY <1>8 DEF follow, KeyType, Set
  <2>5. \A m \in Nodes : source'[m] \in {source[m], view[m], NoLeader}
    BY <1>8 DEF follow, Idle, handle_rewind_or_reinitialize,
                trigger_check_diverged_lsn, KeyType, Set
  <2>6. \A m \in Nodes : /\ pg'[m] = "primary" => pg[m] = "primary"
                         /\ job'[m] = "on_success" => job[m] = "on_success"
    BY <1>8 DEF follow, Idle, handle_rewind_or_reinitialize,
                trigger_check_diverged_lsn, LoopType, Set, pgVars
  <2> QED
    BY <2>3, <2>4, <2>5, <2>6 DEF Passes
<1>9. ASSUME NEW n \in Nodes, rebuild(n)
      PROVE  Passes \/ \E i \in Nodes : Outdates(i)
  <2>1. \A m \in Nodes \ {n} : claim'[m] = claim[m]
    <3>1. EndCycle(n)
      BY <1>9 DEF rebuild
    <3> QED
      BY <3>1 DEF EndCycle, Set, KeyType
  <2>2. EndCycle(n)
    BY <1>9 DEF rebuild
  <2>3. \A m \in Nodes : claim'[m] = claim[m] \/ EndCycle(m)
    BY <2>1, <2>2
  <2>4. \A m \in Nodes :
           \/ view'[m] = view[m]
           \/ view'[m].leader \in Nodes => view'[m].claim = claim[view'[m].leader]
    BY <1>9 DEF rebuild, KeyType, Set
  <2>5. \A m \in Nodes : source'[m] \in {source[m], view[m], NoLeader}
    BY <1>9 DEF rebuild, Idle, KeyType, Set
  <2>6. \A m \in Nodes : /\ pg'[m] = "primary" => pg[m] = "primary"
                         /\ job'[m] = "on_success" => job[m] = "on_success"
    BY <1>9 DEF rebuild, Idle, LoopType, Set, pgVars
  <2> QED
    BY <2>3, <2>4, <2>5, <2>6 DEF Passes
<1>10. ASSUME NEW n \in Nodes, promote(n)
       PROVE  Passes \/ \E i \in Nodes : Outdates(i)
  <2>1. CASE UNCHANGED <<claim, view, source, pg>>
    BY <1>10, <2>1 DEF promote, Passes, LoopType, Set
  <2>2. CASE ~UNCHANGED <<claim, view, source, pg>>
    <3>1. /\ claim' = IF claim[n].checkpoint = "made"
                      THEN [claim EXCEPT ![n].checkpoint = "left over"] ELSE claim
          /\ view' = Outdated(view, n) /\ source' = Outdated(source, n)
          /\ pg' = Set(pg, n, "primary")
      BY <1>10, <2>2 DEF promote
    <3>2. claim'[n].checkpoint # "made" /\ \A m \in Nodes \ {n} : claim'[m] = claim[m]
      <4>1. claim[n] \in Claims
        BY DEF KeyType
      <4> QED
        BY <3>1, <4>1 DEF KeyType, Claims
    <3> QED
      BY <3>1, <3>2 DEF Outdates, Set, LoopType
  <2> QED
    BY <2>1, <2>2
<1>11. ASSUME NEW n \in Nodes, on_success(n)
       PROVE  Passes \/ \E i \in Nodes : Outdates(i)
  BY <1>11 DEF on_success, Passes, LoopType, KeyType, Set, pgVars, rewindVars
<1>12. ASSUME NEW n \in Nodes, ensure_clean_shutdown(n)
       PROVE  Passes \/ \E i \in Nodes : Outdates(i)
  BY <1>12 DEF ensure_clean_shutdown, Passes, LoopType, KeyType, Set, pgVars,
               rewindVars
<1>13. ASSUME NEW n \in Nodes, start(n)
       PROVE  Passes \/ \E i \in Nodes : Outdates(i)
  BY <1>13 DEF start, Stopped, Passes, LoopType, KeyType, Set, pgVars,
               rewindVars
<1>14. ASSUME NEW n \in Nodes, execute(n)
       PROVE  Passes \/ \E i \in Nodes : Outdates(i)
  BY <1>14 DEF execute, Passes, LoopType, KeyType, Set, pgVars, rewindVars
<1>15. ASSUME NEW n \in Nodes, pg_rewind(n)
       PROVE  Passes \/ \E i \in Nodes : Outdates(i)
  BY ZenonT(90), <1>15 DEF pg_rewind, Passes, LoopType, KeyType, Set, pgVars, rewindVars
<1>16. ASSUME NEW n \in Nodes, clone(n)
       PROVE  Passes \/ \E i \in Nodes : Outdates(i)
  BY <1>16 DEF clone, Passes, LoopType, KeyType, Set, pgVars, rewindVars
<1>17. ASSUME NEW n \in Nodes, demote_graceful(n)
       PROVE  Passes \/ \E i \in Nodes : Outdates(i)
  <2>1. \A m \in Nodes \ {n} : claim'[m] = claim[m]
    <3>1. EndCycle(n)
      BY <1>17 DEF demote_graceful
    <3> QED
      BY <3>1 DEF EndCycle, Set, KeyType
  <2>2. EndCycle(n)
    BY <1>17 DEF demote_graceful
  <2>3. \A m \in Nodes : claim'[m] = claim[m] \/ EndCycle(m)
    BY <2>1, <2>2
  <2>4. \A m \in Nodes :
           \/ view'[m] = view[m]
           \/ view'[m].leader \in Nodes => view'[m].claim = claim[view'[m].leader]
    BY <1>17 DEF demote_graceful, KeyType, Set
  <2>5. \A m \in Nodes : source'[m] \in {source[m], view[m], NoLeader}
    BY <1>17 DEF demote_graceful, Idle, trigger_check_diverged_lsn, KeyType,
                 Set
  <2>6. \A m \in Nodes : /\ pg'[m] = "primary" => pg[m] = "primary"
                         /\ job'[m] = "on_success" => job[m] = "on_success"
    BY <1>17 DEF demote_graceful, Idle, trigger_check_diverged_lsn, LoopType,
                 Set, pgVars
  <2> QED
    BY <2>3, <2>4, <2>5, <2>6 DEF Passes
<1>18. ASSUME NEW n \in Nodes, checkpoint(n)
       PROVE  Passes \/ \E i \in Nodes : Outdates(i)
  BY <1>18 DEF checkpoint, Passes, LoopType, KeyType, Set, pgVars, rewindVars
<1>19. ASSUME NEW n \in Nodes, server_checkpoint(n)
       PROVE  Passes \/ \E i \in Nodes : Outdates(i)
  BY <1>19 DEF server_checkpoint, Passes, LoopType, KeyType, Set, pgVars,
               rewindVars
<1>20. ASSUME NEW n \in Nodes, Write(n)
       PROVE  Passes \/ \E i \in Nodes : Outdates(i)
  BY <1>20 DEF Write, Passes, LoopType, KeyType, Set, pgVars, rewindVars
<1>21. ASSUME NEW n \in Nodes, Stream(n)
       PROVE  Passes \/ \E i \in Nodes : Outdates(i)
  BY <1>21 DEF Stream, Passes, LoopType, KeyType, Set, pgVars, rewindVars
<1>22. ASSUME NEW n \in Nodes, Crash(n)
       PROVE  Passes \/ \E i \in Nodes : Outdates(i)
  BY <1>22 DEF Crash, Running, Passes, LoopType, KeyType, Set, pgVars,
               rewindVars
<1>23. ASSUME LoseKey PROVE Passes \/ \E i \in Nodes : Outdates(i)
  BY <1>23 DEF LoseKey, Passes, pgVars, rewindVars
<1>24. ASSUME UNCHANGED vars PROVE Passes \/ \E i \in Nodes : Outdates(i)
  BY <1>24 DEF vars, Passes, pgVars, rewindVars
<1> QED
  BY <1>1, <1>2, <1>3, <1>4, <1>5, <1>6, <1>7, <1>8, <1>9, <1>10, <1>11,
     <1>12, <1>13, <1>14, <1>15, <1>16, <1>17, <1>18, <1>19, <1>20, <1>21,
     <1>22, <1>23, <1>24 DEF Next, Loop, Work

\* What c, which stays as it is, says of l is true after the step.
StillHonest(c, l) ==
    c.role = "master" /\ c.checkpoint = "made" /\ pg'[l] = "primary" =>
        control'[l] = Last(wal'[l])

\* What is true of l stays true, unless l is promoted.
LEMMA HonestStep ==
    ASSUME LoopType, WalType, WalStep, NEW l \in Nodes, NEW c, Honest(c, l),
           pg'[l] = "primary" => pg[l] = "primary"
    PROVE  StillHonest(c, l)
<1> SUFFICES ASSUME pg'[l] = "primary", pg[l] = "primary", control[l] = Timeline(l)
             PROVE  control'[l] = Last(wal'[l])
  BY DEF Honest, StillHonest, Timeline
<1>1. CASE Quiet
  BY <1>1 DEF Quiet, Timeline
<1>2. ASSUME NEW n \in Nodes, NEW s \in SUBSET Nodes, Appends(n, s)
      PROVE  control'[l] = Last(wal'[l])
  <2>1. control'[l] = Timeline(l)
    BY <1>2 DEF Appends
  <2>2. CASE l \in s
    <3>1. l = n /\ wal'[l] = Append(wal[l], Timeline(l))
      BY <1>2, <2>2 DEF Appends, Writes
    <3>2. Last(Append(wal[l], Timeline(l))) = Timeline(l)
      BY WalMeans, AppendMeans
    <3> QED
      BY <2>1, <3>1, <3>2
  <2>3. CASE l \notin s
    BY <1>2, <2>1, <2>3 DEF Appends, Timeline
  <2> QED
    BY <2>2, <2>3
<1>3. ASSUME NEW n \in Nodes, NEW i \in Nodes, NEW v \in WALs, Copies(n, i, v)
      PROVE  control'[l] = Last(wal'[l])
  <2>1. l # n
    BY <1>3 DEF Copies, Writes
  <2> QED
    BY <1>3, <2>1 DEF Copies, WalType, Timeline
<1>4. ASSUME NEW n \in Nodes, Promotes(n)
      PROVE  control'[l] = Last(wal'[l])
  BY <1>4 DEF Promotes, WalType, Timeline
<1> QED
  BY <1>1, <1>2, <1>3, <1>4 DEF WalStep

\* The claims stay true.
LEMMA ClaimStep ==
    ASSUME LoopType, KeyType, WalType, JobInv, ReadyInv', ClaimInv, [Next]_vars
    PROVE  ClaimInv'
<1>1. WalStep
  BY EveryWalStep
<1>2. ASSUME NEW c, NEW l \in Nodes, Honest(c, l), pg'[l] = "primary" => pg[l] = "primary"
      PROVE  StillHonest(c, l)
  BY <1>1, <1>2, HonestStep
<1>3. ASSUME Passes, NEW m \in Nodes
      PROVE  /\ StillHonest(claim'[m], m)
             /\ view'[m].leader \in Nodes => StillHonest(view'[m].claim, view'[m].leader)
             /\ source'[m].leader \in Nodes => StillHonest(source'[m].claim, source'[m].leader)
  <2>1. \A l \in Nodes : pg'[l] = "primary" => pg[l] = "primary"
    BY <1>3 DEF Passes
  <2>2. StillHonest(claim[m], m)
    BY <1>2, <2>1 DEF ClaimInv
  <2>3. ASSUME EndCycle(m)
        PROVE  StillHonest(claim'[m], m)
    <3>1. claim'[m].role = "master" /\ claim'[m].checkpoint = "made" =>
             state'[m] = "CHECKPOINT" /\ job[m] # "on_success"
      BY <2>3 DEF EndCycle, KeyType, Set, checkpoint_after_promote
    <3>2. job'[m] = "on_success" => job[m] = "on_success"
      BY <1>3 DEF Passes
    <3>3. ReadyAt(m)'
      BY DEF ReadyInv
    <3> QED
      BY <3>1, <3>2, <3>3 DEF ReadyAt, StillHonest, Timeline
  <2>4. StillHonest(claim'[m], m)
    BY <1>3, <2>2, <2>3 DEF Passes
  <2>5. ASSUME view'[m].leader \in Nodes
        PROVE  StillHonest(view'[m].claim, view'[m].leader)
    <3>1. CASE view'[m] = view[m]
      BY <1>2, <2>1, <2>5, <3>1 DEF ClaimInv
    <3>2. CASE view'[m].claim = claim[view'[m].leader]
      BY <1>2, <2>1, <2>5, <3>2 DEF ClaimInv
    <3> QED
      BY <1>3, <2>5, <3>1, <3>2 DEF Passes
  <2>6. ASSUME source'[m].leader \in Nodes
        PROVE  StillHonest(source'[m].claim, source'[m].leader)
    <3>1. CASE source'[m] = source[m]
      BY <1>2, <2>1, <2>6, <3>1 DEF ClaimInv
    <3>2. CASE source'[m] = view[m]
      BY <1>2, <2>1, <2>6, <3>2 DEF ClaimInv
    <3>3. NoLeader.leader \notin Nodes
      BY RewindAssumption DEF NoLeader
    <3> QED
      BY <1>3, <2>6, <3>1, <3>2, <3>3 DEF Passes
  <2> QED
    BY <2>4, <2>5, <2>6
<1>4. ASSUME NEW n \in Nodes, Outdates(n), NEW m \in Nodes
      PROVE  /\ StillHonest(claim'[m], m)
             /\ view'[m].leader \in Nodes => StillHonest(view'[m].claim, view'[m].leader)
             /\ source'[m].leader \in Nodes => StillHonest(source'[m].claim, source'[m].leader)
  <2>1. \A l \in Nodes \ {n} : pg'[l] = pg[l]
    BY <1>4 DEF Outdates
  <2>2. StillHonest(claim'[m], m)
    <3>1. CASE m = n
      BY <1>4, <3>1 DEF Outdates, StillHonest
    <3>2. CASE m # n
      BY <1>2, <1>4, <2>1, <3>2 DEF Outdates, ClaimInv
    <3> QED
      BY <3>1, <3>2
  <2>3. ASSUME NEW f \in [Nodes -> Clusters],
               f[m].leader \in Nodes => Honest(f[m].claim, f[m].leader),
               Outdated(f, n)[m].leader \in Nodes
        PROVE  StillHonest(Outdated(f, n)[m].claim, Outdated(f, n)[m].leader)
    <3>1. CASE f[m].leader = n
      <4>1. Outdated(f, n)[m].claim.checkpoint # "made"
        BY <3>1, OutdatedMeans
      <4> QED
        BY <4>1 DEF StillHonest
    <3>2. CASE f[m].leader # n
      <4>1. Outdated(f, n)[m] = f[m]
        BY <3>2, OutdatedMeans
      <4> QED
        BY <1>2, <2>1, <2>3, <3>2, <4>1
    <3> QED
      BY <3>1, <3>2
  <2> QED
    BY <1>4, <2>2, <2>3 DEF Outdates, ClaimInv, KeyType
<1>5. \A m \in Nodes :
         /\ StillHonest(claim'[m], m)
         /\ view'[m].leader \in Nodes => StillHonest(view'[m].claim, view'[m].leader)
         /\ source'[m].leader \in Nodes => StillHonest(source'[m].claim, source'[m].leader)
  BY <1>3, <1>4, EveryClaimStep
<1> QED
  BY <1>5 DEF ClaimInv, Honest, StillHonest, Timeline

-----------------------------------------------------------------------------
(* The inductive invariant *)

\* Faults are counted.
LEMMA EveryFault ==
    ASSUME [Next]_vars
    PROVE  config' = config /\ (faults' = faults \/ Fault)
<1>1. ASSUME NEW n \in Nodes, load_cluster_from_dcs(n)
      PROVE  config' = config /\ (faults' = faults \/ Fault)
  BY <1>1, Zenon DEF load_cluster_from_dcs
<1>2. ASSUME NEW n \in Nodes, handle_long_action_in_progress(n)
      PROVE  config' = config /\ (faults' = faults \/ Fault)
  BY <1>2, Zenon DEF handle_long_action_in_progress
<1>3. ASSUME NEW n \in Nodes, recover(n)
      PROVE  config' = config /\ (faults' = faults \/ Fault)
  <2>1. config' = config
    BY <1>3 DEF recover
  <2>2. CASE UNCHANGED faults
    BY <2>1, <2>2
  <2>3. CASE ~UNCHANGED faults
    <3>1. \E s, j : handle_rewind_or_reinitialize(n, s, j)
      BY <1>3, <2>3, Zenon DEF recover
    <3> QED
      BY <2>1, <2>3, <3>1 DEF handle_rewind_or_reinitialize
  <2> QED
    BY <2>2, <2>3
<1>4. ASSUME NEW n \in Nodes, bootstrap(n)
      PROVE  config' = config /\ (faults' = faults \/ Fault)
  BY <1>4, Zenon DEF bootstrap
<1>5. ASSUME NEW n \in Nodes, lead(n)
      PROVE  config' = config /\ (faults' = faults \/ Fault)
  BY <1>5, Zenon DEF lead
<1>6. ASSUME NEW n \in Nodes, process_unhealthy_cluster(n)
      PROVE  config' = config /\ (faults' = faults \/ Fault)
  BY <1>6, Zenon DEF process_unhealthy_cluster
<1>7. ASSUME NEW n \in Nodes, demote(n)
      PROVE  config' = config /\ (faults' = faults \/ Fault)
  BY <1>7, Zenon DEF demote
<1>8. ASSUME NEW n \in Nodes, follow(n)
      PROVE  config' = config /\ (faults' = faults \/ Fault)
  BY <1>8, Zenon DEF follow, handle_rewind_or_reinitialize
<1>9. ASSUME NEW n \in Nodes, rebuild(n)
      PROVE  config' = config /\ (faults' = faults \/ Fault)
  BY <1>9, Zenon DEF rebuild
<1>10. ASSUME NEW n \in Nodes, promote(n)
       PROVE  config' = config /\ (faults' = faults \/ Fault)
  BY <1>10, Zenon DEF promote
<1>11. ASSUME NEW n \in Nodes, on_success(n)
       PROVE  config' = config /\ (faults' = faults \/ Fault)
  BY <1>11, Zenon DEF on_success
<1>12. ASSUME NEW n \in Nodes, ensure_clean_shutdown(n)
       PROVE  config' = config /\ (faults' = faults \/ Fault)
  BY <1>12, Zenon DEF ensure_clean_shutdown
<1>13. ASSUME NEW n \in Nodes, start(n)
       PROVE  config' = config /\ (faults' = faults \/ Fault)
  BY <1>13, Zenon DEF start
<1>14. ASSUME NEW n \in Nodes, execute(n)
       PROVE  config' = config /\ (faults' = faults \/ Fault)
  BY <1>14, Zenon DEF execute
<1>15. ASSUME NEW n \in Nodes, pg_rewind(n)
       PROVE  config' = config /\ (faults' = faults \/ Fault)
  BY <1>15, Zenon DEF pg_rewind
<1>16. ASSUME NEW n \in Nodes, clone(n)
       PROVE  config' = config /\ (faults' = faults \/ Fault)
  BY <1>16, Zenon DEF clone
<1>17. ASSUME NEW n \in Nodes, demote_graceful(n)
       PROVE  config' = config /\ (faults' = faults \/ Fault)
  BY <1>17, Zenon DEF demote_graceful
<1>18. ASSUME NEW n \in Nodes, checkpoint(n)
       PROVE  config' = config /\ (faults' = faults \/ Fault)
  BY <1>18, Zenon DEF checkpoint
<1>19. ASSUME NEW n \in Nodes, server_checkpoint(n)
       PROVE  config' = config /\ (faults' = faults \/ Fault)
  BY <1>19, Zenon DEF server_checkpoint
<1>20. ASSUME NEW n \in Nodes, Write(n)
       PROVE  config' = config /\ (faults' = faults \/ Fault)
  BY <1>20, Zenon DEF Write
<1>21. ASSUME NEW n \in Nodes, Stream(n)
       PROVE  config' = config /\ (faults' = faults \/ Fault)
  BY <1>21, Zenon DEF Stream
<1>22. ASSUME NEW n \in Nodes, Crash(n)
       PROVE  config' = config /\ (faults' = faults \/ Fault)
  BY <1>22, Zenon DEF Crash
<1>23. ASSUME LoseKey PROVE config' = config /\ (faults' = faults \/ Fault)
  BY <1>23 DEF LoseKey
<1>24. ASSUME UNCHANGED vars
       PROVE  config' = config /\ (faults' = faults \/ Fault)
  BY <1>24 DEF vars
<1> QED
  BY <1>1, <1>2, <1>3, <1>4, <1>5, <1>6, <1>7, <1>8, <1>9, <1>10, <1>11,
     <1>12, <1>13, <1>14, <1>15, <1>16, <1>17, <1>18, <1>19, <1>20, <1>21,
     <1>22, <1>23, <1>24 DEF Next, Loop, Work

LEMMA FaultTypeStep ==
    ASSUME LoopType, FaultType, [Next]_vars
    PROVE  FaultType'
<1>1. MaxFaults[config] \in Nat
  BY RewindAssumption DEF LoopType
<1>2. config' = config /\ (faults' = faults \/ (faults < MaxFaults[config] /\ faults' = faults + 1))
  BY EveryFault DEF Fault
<1> QED
  BY <1>1, <1>2 DEF FaultType

IInv ==
    /\ LoopType /\ KeyType /\ WalType /\ FaultType
    /\ JobInv /\ WalInv /\ HistoryInv /\ WriterInv /\ ReadyInv /\ ClaimInv

LEMMA InvInit == Init => IInv
<1> SUFFICES ASSUME Init PROVE IInv
  OBVIOUS
<1>1. leader \in Nodes
  BY RewindAssumption DEF Init
<1>2. MaxRecords \in Nat \ {0} /\ MaxTimeline \in Nat \ {0} /\ MaxFaults[config] \in Nat
  BY RewindAssumption DEF Init
<1>3. LoopType
  BY <1>1 DEF Init, LoopType, Jobs, States, Stopped
<1>4. KeyType
  BY <1>1 DEF Init, KeyType, Clusters, Claims, NoLeader
<1>5. WalType /\ FaultType
  BY <1>2 DEF Init, WalType, FaultType
<1>6. JobInv
  BY DEF Init, JobInv, JobAt
<1>7. \A n \in Nodes : /\ wal[n] = <<1>> /\ Timeline(n) = 1 /\ control[n] = 1 /\ timelines = 1
                       /\ Len(wal[n]) = 1
  BY DEF Init, Timeline, Last
<1>8. WalInv
  BY <1>7 DEF WalInv, Orderly
<1>9. HistoryInv
  BY <1>7, AgreeSelf DEF HistoryInv
<1>10. WriterInv
  <2>1. \A n, m \in Nodes : Writes(n) /\ Writes(m) => n = m
    BY DEF Init, Writes
  <2> QED
    BY <1>7, <2>1 DEF WriterInv
<1>11. ReadyInv /\ ClaimInv
  BY <1>1, <1>7 DEF ReadyInv, ReadyAt, ClaimInv, Honest, Init
<1> QED
  BY <1>3, <1>4, <1>5, <1>6, <1>8, <1>9, <1>10, <1>11 DEF IInv

LEMMA InvStep == IInv /\ [Next]_vars => IInv'
<1> SUFFICES ASSUME IInv, [Next]_vars PROVE IInv'
  OBVIOUS
<1>1. /\ LoopType /\ KeyType /\ WalType /\ FaultType
      /\ JobInv /\ WalInv /\ HistoryInv /\ WriterInv /\ ReadyInv /\ ClaimInv
  BY DEF IInv
<1>2. WalStep
  BY <1>1, EveryWalStep
<1>3. LoopType' /\ KeyType' /\ WalType' /\ FaultType'
  BY <1>1, <1>2, LoopTypeStep, KeyTypeStep, WalTypeStep, FaultTypeStep
<1>4. JobInv' /\ WalInv' /\ HistoryInv' /\ WriterInv' /\ ReadyInv'
  BY <1>1, <1>2, JobStep, WalInvStep, HistoryStep, WriterStep, ReadyStep
<1>5. ClaimInv'
  BY <1>1, <1>4, ClaimStep
<1> QED
  BY <1>3, <1>4, <1>5 DEF IInv

\* The specification of the run, without its fairness, has the invariant.
LEMMA Invariant == Spec => []IInv
  BY InvInit, InvStep, PTL DEF Spec

(***************************************************************************)
(* The variables have their types: no WAL and no timeline goes beyond its  *)
(* bound, and the leader of which a job makes use is a node.               *)
(***************************************************************************)
THEOREM TypeCorrect == Spec => []TypeOK
<1>1. IInv => TypeOK
  BY TypeParts DEF IInv
<1> QED
  BY <1>1, Invariant, PTL

-----------------------------------------------------------------------------
(* The verdicts *)

\* A node whose last record is of the timeline of l, and that is not longer, is not ahead.
LEMMA SameTimeline ==
    ASSUME WalType, HistoryInv, NEW n \in Nodes, NEW l \in Nodes,
           NEW j \in 1..Len(wal[l]), Timeline(n) = wal[l][j], Len(wal[n]) <= j
    PROVE  IsPrefix(wal[n], wal[l])
<1>1. /\ wal[n] \in Seq(Nat) /\ Len(wal[n]) \in Nat \ {0} /\ Timeline(n) = wal[n][Len(wal[n])]
      /\ wal[l] \in Seq(Nat) /\ Len(wal[l]) \in Nat
  BY WalMeans
<1>2. \A k \in 1..Len(wal[n]) : wal[n][k] = wal[l][k]
  <2>1. Agree(wal[n], wal[l]) /\ Len(wal[n]) \in 1..Len(wal[n]) /\ wal[n][Len(wal[n])] = wal[l][j]
    BY <1>1 DEF HistoryInv
  <2> QED
    BY <2>1 DEF Agree
<1> QED
  BY SMTT(60), <1>1, <1>2, PrefixMeans

LEMMA SuccessStep ==
    ASSUME IInv, [Next]_vars, NEW n \in Nodes,
           state[n] # "SUCCESS", state'[n] = "SUCCESS",
           source[n].claim.checkpoint = "made",
           Timeline(n) <= Timeline(source[n].leader)
    PROVE  IsPrefix(wal'[n], wal[source[n].leader])
<1> DEFINE l == source[n].leader
<1>0. LoopType /\ KeyType /\ WalType /\ JobInv /\ WalInv /\ HistoryInv /\ WriterInv /\ ClaimInv
  BY DEF IInv
<1>1. pg_rewind(n)
  BY <1>0, EveryStateStep DEF StateStep
<1>2. l \in Nodes /\ source[n].claim.role = "master"
  BY <1>0, <1>1 DEF pg_rewind, JobInv, JobAt
<1>3. /\ pg[l] = "primary"
      /\ \/ UNCHANGED wal /\ control[l] = control[n]
         \/ wal' = Set(wal, n, wal[l])
  BY <1>0, <1>1 DEF pg_rewind, Set, LoopType
<1>4. CASE wal' = Set(wal, n, wal[l])
  <2>1. wal'[n] = wal[l] /\ wal[l] \in Seq(Nat)
    BY <1>0, <1>2, <1>4, WalMeans DEF Set, WalType
  <2> QED
    BY <2>1, PrefixMeans
<1>5. CASE UNCHANGED wal /\ control[l] = control[n]
  <2>1. control[l] = Timeline(l)
    BY <1>0, <1>2, <1>3 DEF ClaimInv, Honest
  <2>2. control[n] <= Timeline(n)
    BY <1>0 DEF WalInv
  <2>3. Timeline(n) \in Nat /\ Timeline(l) \in Nat
    BY <1>0, <1>2, WalMeans
  <2>4. Timeline(n) = Timeline(l)
    BY <1>5, <2>1, <2>2, <2>3
  <2>5. Len(wal[n]) <= Len(wal[l])
    <3>1. Len(wal[n]) \in 1..Len(wal[n]) /\ wal[n][Len(wal[n])] = Timeline(l)
      BY <1>0, <2>4, WalMeans
    <3> QED
      BY <1>0, <1>2, <1>3, <3>1 DEF WriterInv, Writes
  <2>6. Len(wal[l]) \in 1..Len(wal[l]) /\ Timeline(n) = wal[l][Len(wal[l])]
    BY <1>0, <1>2, <2>4, WalMeans
  <2>7. IsPrefix(wal[n], wal[l])
    BY <1>0, <1>2, <2>5, <2>6, SameTimeline
  <2> QED
    BY <1>5, <2>7
<1> QED
  BY <1>3, <1>4, <1>5

\* A check that ends with NOT_NEED is right.
LEMMA NotNeedMeans ==
    ASSUME IInv, NEW n \in Nodes, NEW s \in States, NEW end \in {0, Len(wal[n])},
           s # "NOT_NEED", CheckedState(n, s, end) = "NOT_NEED", InHistory(n)
    PROVE  \/ IsPrefix(wal[n], wal[view[n].leader])
           \/ /\ pg[view[n].leader] = "replica"
              /\ IsPrefix(wal[view[n].leader], wal[n])
<1> DEFINE l == view[n].leader
           t == Timeline(n)
<1>0. LoopType /\ KeyType /\ WalType /\ WalInv /\ HistoryInv /\ WriterInv
  BY DEF IInv
<1>1. l \in Nodes /\ Running(l) /\ ~need_rewind(n, l, end)
  BY <1>0 DEF CheckedState, check_timeline_and_lsn, KeyType, Clusters
<1>2. PICK i \in 1..Len(wal[l]) : wal[l][i] = t
  BY DEF InHistory
<1>3. /\ Len(wal[l]) \in Nat \ {0} /\ Timeline(l) = wal[l][Len(wal[l])] /\ Timeline(l) \in Nat
      /\ Len(wal[n]) \in Nat \ {0} /\ t = wal[n][Len(wal[n])] /\ t \in Nat
      /\ wal[n] \in Seq(Nat) /\ wal[l] \in Seq(Nat)
      /\ \A k \in 1..Len(wal[l]) : wal[l][k] \in Nat
  BY <1>0, <1>1, WalMeans
<1>4. t <= Timeline(l)
  <2>1. ~(t > Timeline(l))
    BY <1>1 DEF need_rewind
  <2>2. \A x, y \in Nat : ~(x > y) => x <= y
    OBVIOUS
  <2> HIDE DEF t, l
  <2> QED
    BY <1>3, <2>1, <2>2
<1>5. CASE t = Timeline(l)
  <2>1. CASE Len(wal[n]) <= Len(wal[l])
    <3>1. Len(wal[l]) \in 1..Len(wal[l])
      BY <1>3
    <3> QED
      BY <1>0, <1>1, <1>3, <1>5, <2>1, <3>1, SameTimeline
  <2>2. CASE Len(wal[l]) < Len(wal[n])
    <3>1. Len(wal[n]) \in 1..Len(wal[n]) /\ wal[n][Len(wal[n])] = Timeline(l)
      BY <1>3, <1>5
    <3>2. pg[l] = "replica"
      <4>1. ~Writes(l)
        <5>1. Writes(l) => \A k \in 1..Len(wal[n]) : wal[n][k] = Timeline(l) => k <= Len(wal[l])
          BY <1>0, <1>1 DEF WriterInv
        <5>2. ~(Len(wal[n]) <= Len(wal[l]))
          BY <1>3, <2>2
        <5> QED
          BY <3>1, <5>1, <5>2
      <4> QED
        BY <1>1, <4>1 DEF Running, Writes
    <3>3. IsPrefix(wal[l], wal[n])
      <4>1. Timeline(l) = wal[n][Len(wal[n])] /\ Len(wal[l]) <= Len(wal[n])
        BY <1>3, <2>2, <3>1
      <4>2. \A j \in 1..Len(wal[n]) : Timeline(l) = wal[n][j] /\ Len(wal[l]) <= j
                                     => IsPrefix(wal[l], wal[n])
        BY <1>0, <1>1, SameTimeline
      <4> QED
        BY <3>1, <4>1, <4>2
    <3> QED
      BY <3>2, <3>3
  <2> QED
    BY <1>3, <2>1, <2>2
<1>6. CASE t < Timeline(l)
  <2>1. PICK at \in i..(Len(wal[l]) - 1) : wal[l][at] = t /\ wal[l][at + 1] # t
    <3>1. /\ Orderly(wal[l]) /\ Len(wal[l]) \in 1..Len(wal[l]) /\ i <= Len(wal[l])
          /\ wal[l][i] # wal[l][Len(wal[l])]
      BY <1>0, <1>1, <1>2, <1>3, <1>6 DEF WalInv
    <3>2. \E k \in i..(Len(wal[l]) - 1) : wal[l][k] = wal[l][i] /\ wal[l][k + 1] # wal[l][i]
      BY <3>1 DEF Orderly
    <3> QED
      BY <1>2, <3>2
  <2>2. at \in 1..Len(wal[l]) /\ at \in SwitchPoints(l, t)
    <3>1. at \in 1..(Len(wal[l]) - 1) /\ at \in 1..Len(wal[l])
      BY <1>2, <1>3, <2>1
    <3> QED
      BY <2>1, <3>1 DEF SwitchPoints
  <2>3. ~diverged(n, at, end)
    BY <1>1, <1>6, <2>2 DEF need_rewind
  <2>4. Len(wal[n]) <= at
    BY <1>3, <2>1, <2>2, <2>3 DEF diverged, local_lsn
  <2> QED
    BY <1>0, <1>1, <2>1, <2>2, <2>4, SameTimeline
<1>7. t = Timeline(l) \/ t < Timeline(l)
  <2>1. \A x, y \in Nat : x <= y => x = y \/ x < y
    OBVIOUS
  <2> HIDE DEF t, l
  <2> QED
    BY <1>3, <1>4, <2>1
<1> QED
  BY <1>5, <1>6, <1>7

(***************************************************************************)
(* The verdicts of class Rewind are right, in every step.                  *)
(***************************************************************************)
THEOREM VerdictsAreRightHolds == Spec => VerdictsAreRight
<1>1. IInv /\ [Next]_vars =>
         [\A n \in Nodes :
            LET l == source[n].leader IN
            /\ state[n] # "SUCCESS" /\ state'[n] = "SUCCESS"
            /\ source[n].claim.checkpoint = "made" /\ Timeline(n) <= Timeline(l)
            => IsPrefix(wal'[n], wal[l])]_vars
  BY SuccessStep
<1>2. IInv /\ [Next]_vars =>
         [\A n \in Nodes :
            LET l == view[n].leader IN
            Decides(n, "NOT_NEED") /\ InHistory(n)
            => \/ IsPrefix(wal[n], wal[l])
               \/ pg[l] = "replica" /\ IsPrefix(wal[l], wal[n])]_vars
  <2> SUFFICES ASSUME IInv, [Next]_vars, NEW n \in Nodes, Decides(n, "NOT_NEED"), InHistory(n)
               PROVE  \/ IsPrefix(wal[n], wal[view[n].leader])
                      \/ /\ pg[view[n].leader] = "replica"
                         /\ IsPrefix(wal[view[n].leader], wal[n])
    OBVIOUS
  <2>1. state[n] # "NOT_NEED" /\ state'[n] = "NOT_NEED"
    BY DEF Decides
  <2>2. StateStep(n) /\ ~pg_rewind(n)
    <3>1. LoopType
      BY DEF IInv
    <3>2. StateStep(n)
      BY <3>1, EveryStateStep
    <3>3. ~pg_rewind(n)
      BY <2>1, <3>1 DEF pg_rewind, Set, LoopType
    <3> QED
      BY <3>2, <3>3
  <2>3. PICK s \in States, end \in {0, Len(wal[n])} :
           s # "NOT_NEED" /\ CheckedState(n, s, end) = "NOT_NEED"
    BY <2>1, <2>2 DEF StateStep
  <2> QED
    BY <2>3, NotNeedMeans
<1> QED
  BY <1>1, <1>2, Invariant, PTL DEF Spec, VerdictsAreRight, SuccessIsRewound,
                                    DivergenceIsFound

=============================================================================
