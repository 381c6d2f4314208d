-------------------------- MODULE MCLocalTableSync --------------------------
(***************************************************************************)
(* LocalTableSync on three documents: two of one key, of different owners  *)
(* and content, and one of another key.                                    *)
(***************************************************************************)
EXTENDS LocalTableSync, TLC

CONSTANTS k1, k2, o1, o2, o3, v1, v2, v3

MCDoc == {[key |-> k1, owner |-> o1, val |-> v1],
          [key |-> k1, owner |-> o2, val |-> v2],
          [key |-> k2, owner |-> o3, val |-> v3]}

(* The two documents of k1 play the same part. *)
Swap == o1 :> o2 @@ o2 :> o1 @@ v1 :> v2 @@ v2 :> v1

Symmetry == Permutations(Writer) \cup Permutations(Sync) \cup {Swap}
=============================================================================
