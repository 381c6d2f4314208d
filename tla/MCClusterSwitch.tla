-------------------------- MODULE MCClusterSwitch --------------------------
(***************************************************************************)
(* ClusterSwitch with the two configurations of the repository, a second   *)
(* one of the first cluster and a file safe_load refuses.                  *)
(***************************************************************************)
EXTENDS ClusterSwitch, TLC

MCContextName == [gg |-> "gke", gg2 |-> "gke", tricot |-> "juju", draft |-> "juju"]
MCProxyPort == [gg |-> 8001, gg2 |-> 8001, tricot |-> 8002, draft |-> 8002]
MCConf == DOMAIN MCContextName
MCValid == {"gg", "gg2", "tricot"}
MCCtx == {"gke", "juju"}
MCPort == {8001, 8002}

Symmetry == Permutations(Task)
=============================================================================
