--------------------------- MODULE MCWatchdogLease ---------------------------
(***************************************************************************)
(* Instances of WatchdogLease with a TTL of a few ticks, so that the half  *)
(* of the TTL, the margin and several renewals fit under the horizon.      *)
(***************************************************************************)
EXTENDS WatchdogLease

\* The value that asks for half of the TTL.
HalfOfTTL == -1

=============================================================================
