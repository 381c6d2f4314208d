------------------------------ MODULE PathTree ------------------------------
(***************************************************************************)
(* What ensure_pathname promises: the folders of the groups form a tree of *)
(* pathnames, to which one is added at a time, below one that is there,    *)
(* and a caller is given its pathname when the tree has it.                *)
(***************************************************************************)
EXTENDS Sequences

CONSTANTS
    Caller,
    Group,
    Name,
    Goal     \* Caller -> the pathname it asks for, its group first

VARIABLES
    paths,   \* the pathnames of the tree
    given    \* the callers whose last call gave them their folder

vars == <<paths, given>>

Roots == {<<g>> : g \in Group}

Init == paths = Roots /\ given = {}

Below(q) == {Append(q, name) : name \in Name}

Ask(c) ==
    /\ given' = given \ {c}
    /\ UNCHANGED paths

(* A pathname is added, perhaps one that is there already. *)
Add(q, p) ==
    /\ q \in paths
    /\ p \in Below(q)
    /\ paths' = paths \cup {p}
    /\ \E C \in SUBSET {c \in Caller : Goal[c] = p} : given' = given \cup C

Give(c) ==
    /\ Goal[c] \in paths
    /\ given' = given \cup {c}
    /\ UNCHANGED paths

(* Others remove folders with all there is below: no orphan is left. *)
Prune ==
    /\ Roots \subseteq paths'
    /\ paths' \subseteq paths
    /\ \A p \in paths' \ Roots : \E q \in paths' : p \in Below(q)
    /\ UNCHANGED given

Next ==
    \/ \E c \in Caller : Ask(c) \/ Give(c)
    \/ \E q \in paths : \E p \in Below(q) : Add(q, p)
    \/ Prune

Spec == Init /\ [][Next]_vars
=============================================================================
