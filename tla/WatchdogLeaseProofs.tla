------------------------- MODULE WatchdogLeaseProofs -------------------------
(***************************************************************************)
(* The watchdog's guarantees for every ttl, safety margin and loop_wait    *)
(* that Watchdog.activate accepts, and without a bound on the time.        *)
(***************************************************************************)
EXTENDS WatchdogLease, TLAPS

(***************************************************************************)
(* What is assumed of delays: the watchdog is activated within the margin  *)
(* after the key was written; and so are keepalives sent, unless the       *)
(* margin is half of the TTL.                                              *)
(***************************************************************************)
DelaysCovered ==
    /\ "activate" \in Prompt
    /\ SafetyMargin = -1 \/ "renew" \in Prompt

-----------------------------------------------------------------------------
LEMMA TimeoutFacts ==
    /\ timeout \in Nat /\ timeout > 0 /\ timeout <= TTL
    /\ Margin \in Nat /\ timeout + Margin = TTL
    /\ SafetyMargin = -1 => timeout + timeout <= TTL
<1>1. TTL \div 2 \in Nat /\ (TTL \div 2) + (TTL \div 2) <= TTL
  BY WatchdogAssumption
<1> QED
  BY <1>1, WatchdogAssumption DEF timeout, timing_slack, Margin

-----------------------------------------------------------------------------
(* The relations between the instants, when the delays are covered *)

Instants ==
    /\ DelaysCovered
    /\ applied <= now
    /\ Running => now <= wd /\ wd <= now + timeout /\ wd <= applied + TTL
    /\ pc = "updated" /\ Running =>
          /\ wd <= applied + timeout
          /\ "renew" \in Prompt => now <= applied + Margin
    /\ pc \in {"updated", "enforce"} /\ ~Running => now <= applied + Margin

LEMMA InitInv == Init => TypeOK /\ (DelaysCovered => Instants)
BY DEF Init, TypeOK, PgStates, PromoteStates, PCs, Instants, Running

LEMMA NextType == TypeOK /\ [Next]_vars => TypeOK'
<1> SUFFICES ASSUME TypeOK, [Next]_vars PROVE TypeOK'
  OBVIOUS
<1> USE WatchdogAssumption, TimeoutFacts
    DEF TypeOK, PgStates, PromoteStates, PCs
<1>1. CASE Tick
  BY <1>1 DEF Tick
<1>2. CASE Reset
  BY <1>2 DEF Reset
<1>3. CASE PgDies
  BY <1>3 DEF PgDies
<1>4. CASE load_cluster_from_dcs
  BY <1>4 DEF load_cluster_from_dcs
<1>5. CASE recover
  BY <1>5 DEF recover, WriteKey
<1>6. CASE update_lock
  BY <1>6 DEF update_lock, NotLeader, WriteKey
<1>7. CASE update_lock_Reply
  BY <1>7 DEF update_lock_Reply, keepalive
<1>8. CASE acquire_lock
  BY <1>8 DEF acquire_lock, NotLeader, WriteKey
<1>9. CASE follow
  BY <1>9 DEF follow, NotLeader
<1>10. CASE enforce_master_role
  BY <1>10 DEF enforce_master_role, activate
<1>11. CASE demote_Stop
  BY <1>11 DEF demote_Stop
<1>12. CASE demote_Safepoint
  BY <1>12 DEF demote_Safepoint
<1>13. CASE promote_Task
  BY <1>13 DEF promote_Task
<1>14. CASE promote_Failover
  BY <1>14 DEF promote_Failover
<1>15. CASE promote_End
  BY <1>15 DEF promote_End
<1>16. CASE UNCHANGED vars
  BY <1>16 DEF vars
<1> QED
  BY <1>1, <1>2, <1>3, <1>4, <1>5, <1>6, <1>7, <1>8, <1>9, <1>10, <1>11, <1>12,
     <1>13, <1>14, <1>15, <1>16 DEF Next

(***************************************************************************)
(* The type invariant of WatchdogLease (Ha's lease, Watchdog's deadline).  *)
(***************************************************************************)
THEOREM TypeCorrect == Spec => []TypeOK
<1>1. Init => TypeOK
  BY InitInv
<1> QED
  BY <1>1, NextType, PTL DEF Spec

LEMMA NextInstants == TypeOK /\ Instants /\ [Next]_vars => Instants'
<1> SUFFICES ASSUME TypeOK, Instants, [Next]_vars PROVE Instants'
  OBVIOUS
<1> USE WatchdogAssumption, TimeoutFacts
    DEF TypeOK, PgStates, PromoteStates, PCs, Instants, Running, DelaysCovered
<1>1. CASE Tick
  BY <1>1 DEF Tick
<1>2. CASE Reset
  BY <1>2 DEF Reset
<1>3. CASE PgDies
  BY <1>3 DEF PgDies
<1>4. CASE load_cluster_from_dcs
  BY <1>4 DEF load_cluster_from_dcs
<1>5. CASE recover
  BY <1>5 DEF recover, WriteKey
<1>6. CASE update_lock
  BY <1>6 DEF update_lock, NotLeader, WriteKey
<1>7. CASE update_lock_Reply
  BY <1>7 DEF update_lock_Reply, keepalive
<1>8. CASE acquire_lock
  BY <1>8 DEF acquire_lock, NotLeader, WriteKey
<1>9. CASE follow
  BY <1>9 DEF follow, NotLeader
<1>10. CASE enforce_master_role
  BY <1>10 DEF enforce_master_role, activate
<1>11. CASE demote_Stop
  BY <1>11 DEF demote_Stop
<1>12. CASE demote_Safepoint
  BY <1>12 DEF demote_Safepoint
<1>13. CASE promote_Task \/ promote_Failover \/ promote_End
  BY <1>13 DEF promote_Task, promote_Failover, promote_End
<1>14. CASE UNCHANGED vars
  BY <1>14 DEF vars
<1> QED
  BY <1>1, <1>2, <1>3, <1>4, <1>5, <1>6, <1>7, <1>8, <1>9, <1>10, <1>11, <1>12,
     <1>13, <1>14 DEF Next

(***************************************************************************)
(* A primary under an armed watchdog never outlives the leader key it      *)
(* wrote last (Ha.update_lock, Watchdog.keepalive), for every ttl: with a  *)
(* margin of half of the TTL this needs no bound on how long a renewal     *)
(* takes, only that the first activation is prompt.                        *)
(***************************************************************************)
THEOREM WatchdogBeatsExpiryHolds ==
    DelaysCovered /\ Spec => []WatchdogBeatsExpiry
<1>1. DelaysCovered /\ Init => TypeOK /\ Instants
  BY InitInv
<1>2. TypeOK /\ Instants /\ [Next]_vars => (TypeOK /\ Instants)'
  BY NextType, NextInstants
<1>3. TypeOK /\ Instants => WatchdogBeatsExpiry
  BY WatchdogAssumption DEF TypeOK, Instants, WatchdogBeatsExpiry
<1> QED
  BY <1>1, <1>2, <1>3, PTL DEF Spec

-----------------------------------------------------------------------------
(* Promotion and demotion, as long as no dead database was started *)

\* The database is primary, or nothing can keep it from becoming primary.
Committed == pg = "primary" \/ promoting \in {"scheduled", "committed"}

Guarded ==
    /\ restarts = 0 /\ Committed => Running /\ key = applied + TTL
    /\ pc \in {"updated", "enforce"} => key = applied + TTL
    /\ pc = "enforce" => ~busy
    /\ restarts = 0 /\ pg = "primary" => promoting \in {"no", "ending"}
    /\ restarts = 0 /\ pc \in {"demote", "safepoint"} => promoting \in {"no", "ending"}
    /\ restarts = 0 /\ pc = "safepoint" => pg /= "primary"

LEMMA NextGuarded == TypeOK /\ Guarded /\ [Next]_vars => Guarded'
<1> SUFFICES ASSUME TypeOK, Guarded, [Next]_vars PROVE Guarded'
  OBVIOUS
<1> USE WatchdogAssumption, TimeoutFacts
    DEF TypeOK, PgStates, PromoteStates, PCs, Guarded, Committed, Running, busy,
        MustRecover
<1>1. CASE Tick
  BY <1>1 DEF Tick
<1>2. CASE Reset
  BY <1>2 DEF Reset
<1>3. CASE PgDies
  BY <1>3 DEF PgDies
<1>4. CASE load_cluster_from_dcs
  BY <1>4 DEF load_cluster_from_dcs
<1>5. CASE recover
  BY <1>5 DEF recover, WriteKey
<1>6. CASE update_lock
  BY <1>6 DEF update_lock, NotLeader, WriteKey
<1>7. CASE update_lock_Reply
  BY <1>7 DEF update_lock_Reply, keepalive
<1>8. CASE acquire_lock
  BY <1>8 DEF acquire_lock, NotLeader, WriteKey
<1>9. CASE follow
  BY <1>9 DEF follow, NotLeader
<1>10. CASE enforce_master_role
  BY <1>10 DEF enforce_master_role, activate
<1>11. CASE demote_Stop
  BY <1>11 DEF demote_Stop
<1>12. CASE demote_Safepoint
  BY <1>12 DEF demote_Safepoint
<1>13. CASE promote_Task
  BY <1>13 DEF promote_Task
<1>14. CASE promote_Failover
  BY <1>14 DEF promote_Failover
<1>15. CASE promote_End
  BY <1>15 DEF promote_End
<1>16. CASE UNCHANGED vars
  BY <1>16 DEF vars
<1> QED
  BY <1>1, <1>2, <1>3, <1>4, <1>5, <1>6, <1>7, <1>8, <1>9, <1>10, <1>11, <1>12,
     <1>13, <1>14, <1>15, <1>16 DEF Next

(***************************************************************************)
(* Until Patroni starts a dead database, a primary runs under an armed     *)
(* watchdog (Ha.enforce_master_role, Ha.demote), whatever the delays.      *)
(***************************************************************************)
THEOREM PrimaryIsGuardedHolds == Spec => []PrimaryIsGuarded
<1>1. Init => TypeOK /\ Guarded
  BY InitInv, WatchdogAssumption DEF Init, Guarded, Committed
<1>2. TypeOK /\ Guarded /\ [Next]_vars => (TypeOK /\ Guarded)'
  BY NextType, NextGuarded
<1>3. Guarded => PrimaryIsGuarded
  BY DEF Guarded, Committed, PrimaryIsGuarded
<1> QED
  BY <1>1, <1>2, <1>3, PTL DEF Spec

(***************************************************************************)
(* Until Patroni starts a dead database, and with covered delays, no       *)
(* transaction commits after the leader key has expired                    *)
(* (docs/watchdog.rst), for every ttl and margin.                          *)
(***************************************************************************)
THEOREM NoCommitAfterExpiryHolds ==
    DelaysCovered /\ Spec => []NoCommitAfterExpiry
<1> DEFINE IInv == TypeOK /\ Instants /\ Guarded
<1>1. DelaysCovered /\ Init => IInv
  BY InitInv DEF Init, Guarded, Committed
<1>2. IInv /\ [Next]_vars => IInv'
  BY NextType, NextInstants, NextGuarded
<1>3. IInv => NoCommitAfterExpiry
  BY WatchdogAssumption, TimeoutFacts
     DEF TypeOK, Instants, Guarded, Committed, NoCommitAfterExpiry
<1> HIDE DEF IInv
<1> QED
  BY <1>1, <1>2, <1>3, PTL DEF Spec

=============================================================================
