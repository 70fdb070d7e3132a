----------------------------- MODULE MCDcsLeader -----------------------------
(***************************************************************************)
(* Two nodes on each back end.  MCFaults leaves out what breaks the        *)
(* contract: an etcd3 lease that is lost while its client lives on, and a  *)
(* ZooKeeper session that outlives its client (README, known divergences); *)
(* with AllFaults in its place TLC shows how.                              *)
(***************************************************************************)
EXTENDS DcsLeader, TLC

MCFaults ==
    [b \in AllBackends |->
        CASE b = "etcd3" -> {"lost"}
          [] b = "zookeeper" -> {"lapse", "ttl", "lost"}
          [] b = "consul" -> FaultKinds
          [] OTHER -> {"lapse", "restart", "lost"}]

AllFaults == [b \in AllBackends |-> FaultKinds]

NodeSymmetry == Permutations(Nodes)

=============================================================================
