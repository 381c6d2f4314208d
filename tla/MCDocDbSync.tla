---------------------------- MODULE MCDocDbSync ----------------------------
(***************************************************************************)
(* DocDbSync on small instances; the namespaces are those in which the     *)
(* configuration of tricot_infra_config.py deploys DocDb.                  *)
(***************************************************************************)
EXTENDS DocDbSync, Catalogue

DocDbNamespaces == NamespacesOf("docdb")

Symmetry == Permutations(Sync)
=============================================================================
