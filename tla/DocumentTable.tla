--------------------------- MODULE DocumentTable ---------------------------
(***************************************************************************)
(* What a table of documents promises to its callers: it holds at most one *)
(* document per key, and it changes by the calls that write it, one at a   *)
(* time.  A table that is no longer trusted promises nothing until it is   *)
(* emptied: it has been written by two processes at once, or by one that   *)
(* was stopped in the middle.                                              *)
(***************************************************************************)
CONSTANTS
    Key,
    Doc      \* records with the fields key, owner and val

VARIABLES
    table,   \* Key -> {}, or the set of its one document
    trusted

vars == <<table, trusted>>

Empty == [k \in Key |-> {}]

Init == table = Empty /\ trusted = TRUE

(* The primary key tells documents apart, whoever owns them. *)
Put(d) ==
    /\ trusted
    /\ table' = [table EXCEPT ![d.key] = {d}]
    /\ UNCHANGED trusted

(* A document is taken away for its owner only. *)
Remove(d) ==
    /\ trusted
    /\ table' = [table EXCEPT ![d.key] = {e \in @ : e.owner # d.owner}]
    /\ UNCHANGED trusted

Reset == table' = Empty /\ trusted' = TRUE

Lose ==
    /\ table' \in [Key -> SUBSET Doc]
    /\ trusted' = FALSE

Next == (\E d \in Doc : Put(d) \/ Remove(d)) \/ Reset \/ Lose

Spec == Init /\ [][Next]_vars
=============================================================================
