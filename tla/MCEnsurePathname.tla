-------------------------- MODULE MCEnsurePathname --------------------------
(***************************************************************************)
(* EnsurePathname for two callers of one pathname, a folder of a drive.    *)
(***************************************************************************)
EXTENDS EnsurePathname

CONSTANTS c1, c2, g, drive, folder

MCGoal == [c \in {c1, c2} |-> <<g, drive, folder>>]
=============================================================================
