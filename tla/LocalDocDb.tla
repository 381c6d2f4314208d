----------------------------- MODULE LocalDocDb -----------------------------
(***************************************************************************)
(* local_docdb.py: a table of documents kept in one file, data.json, by    *)
(* the processes that share its folder.                                    *)
(*                                                                         *)
(* A call that writes reads the whole file and computes its new content,   *)
(* then opens the file with mode 'w', which truncates it, and writes the   *)
(* content when the file object goes away.  Nothing awaits in between, so  *)
(* the coroutines of one process do not interleave, but those of two       *)
(* processes do, and a process may be stopped between any two steps.       *)
(***************************************************************************)
CONSTANTS
    Writer,   \* the processes that use the folder
    Key,      \* primary keys: the partition and clustering columns
    Owner,
    Val,      \* the other columns
    Doc       \* the documents that are written

ASSUME DocAssumption == Doc \subseteq [key : Key, owner : Owner, val : Val]

VARIABLES
    file,     \* the folder and the file; docs: its last complete content
    call,     \* Writer -> the call in flight
    trusted   \* history: no write was lost or mixed since the table was empty

tableVars == <<file, call, trusted>>

(***************************************************************************)
(* The age of the content a call is about to write: "fresh" when it was    *)
(* computed from what the file holds, "stale" when the file has another    *)
(* content since, "overlaid" when another process has written the file     *)
(* since this call truncated it, "orphan" when the file it has open has    *)
(* been removed.                                                           *)
(***************************************************************************)
Age == {"fresh", "stale", "overlaid", "orphan"}

CallType ==
    [pc : {"idle", "write", "flush"},
     next : SUBSET Doc,
     blind : BOOLEAN,   \* the content does not depend on what the file holds
     age : Age]

Idle == [pc |-> "idle", next |-> {}, blind |-> FALSE, age |-> "fresh"]

TableTypeOK ==
    /\ file \in [state : {"nodir", "nofile", "torn", "written"},
                 docs : SUBSET Doc]
    /\ call \in [Writer -> CallType]
    /\ trusted \in BOOLEAN

TableInit ==
    /\ file = [state |-> "nodir", docs |-> {}]
    /\ call = [w \in Writer |-> Idle]
    /\ trusted = TRUE

(***************************************************************************)
(* The new content: update_document replaces the document of the same key, *)
(* when there is one, and appends otherwise; delete_document also looks at *)
(* the owner.                                                              *)
(***************************************************************************)
(* Seeded fault: the owner is part of the key. *)
SameOwned(docs, d) == {e \in docs : e.key = d.key /\ e.owner = d.owner}

Same(docs, d) == {e \in docs : e.key = d.key}

(* Seeded fault: the default owner is not looked up. *)
UpdatedUnowned(docs, d) ==
    (docs \ Same(docs, d)) \cup {[d EXCEPT !.owner = "none"]}

Updated(docs, d) ==
    IF \E e \in docs : Same(docs, d) = {e}
    THEN (docs \ Same(docs, d)) \cup {d}
    ELSE docs \cup {d}

Removed(docs, d) == {e \in docs : ~ (e.key = d.key /\ e.owner = d.owner)}

Write(w, docs, blind) ==
    call' = [call EXCEPT ![w] = [pc |-> "write", next |-> docs,
                                 blind |-> blind, age |-> "fresh"]]

(* Seeded fault: the file is opened for writing, and then read: that raises. *)
UpdateOpensFirst(w, d) ==
    /\ call[w].pc = "idle"
    /\ file.state # "nodir"
    /\ file' = [file EXCEPT !.state = "torn"]
    /\ UNCHANGED <<call, trusted>>

(* A file that cannot be read or parsed raises: the call changes nothing. *)
UpdateDocument(w, d) ==
    /\ call[w].pc = "idle"
    /\ file.state # "torn"
    /\ Write(w, Updated(file.docs, d), FALSE)
    /\ UNCHANGED <<file, trusted>>

DeleteDocument(w, d) ==
    /\ call[w].pc = "idle"
    /\ file.state = "written"
    /\ Write(w, Removed(file.docs, d), FALSE)
    /\ UNCHANGED <<file, trusted>>

ClearData(w) ==
    /\ call[w].pc = "idle"
    /\ Write(w, {}, TRUE)
    /\ UNCHANGED <<file, trusted>>

(* Seeded fault: the file is written whether it exists or not. *)
EnsureAlways(w) ==
    /\ call[w].pc = "idle"
    /\ file' = [file EXCEPT !.state = IF @ = "nodir" THEN "nofile" ELSE @]
    /\ Write(w, {}, FALSE)
    /\ UNCHANGED trusted

(* A file that exists is left as it is, whatever is in it. *)
EnsureTable(w) ==
    /\ call[w].pc = "idle"
    /\ file.state \in {"nodir", "nofile"}
    /\ file' = [file EXCEPT !.state = "nofile"]
    /\ Write(w, {}, FALSE)
    /\ UNCHANGED trusted

(***************************************************************************)
(* The calls of the other processes, once w has written docs or removed    *)
(* the folder.                                                             *)
(***************************************************************************)
Aged(c, docs, removed) ==
    CASE c.pc = "write" /\ ~ c.blind /\ docs # file.docs
                                 -> [c EXCEPT !.age = "stale"]
      [] c.pc = "flush" /\ removed
                                 -> [c EXCEPT !.age = "orphan", !.next = {}]
      [] c.pc = "flush" /\ c.age # "orphan" /\ ~ removed
                                 -> [c EXCEPT !.age = "overlaid"]
      [] OTHER                   -> c

Others(w, docs, removed) ==
    call' = [v \in Writer |->
                IF v = w THEN Idle ELSE Aged(call[v], docs, removed)]

(* rmtree; stopped half way it leaves the folder. *)
DeleteTable(w) ==
    /\ call[w].pc = "idle"
    /\ file.state # "nodir"
    /\ \E s \in {"nodir", "nofile"} : file' = [state |-> s, docs |-> {}]
    /\ Others(w, {}, TRUE)
    /\ trusted' = TRUE

(* open('w'): without its folder it raises. *)
Truncate(w) ==
    /\ call[w].pc = "write"
    /\ IF file.state = "nodir"
       THEN /\ call' = [call EXCEPT ![w] = Idle]
            /\ UNCHANGED file
       ELSE /\ call' = [call EXCEPT ![w].pc = "flush"]
            /\ file' = [file EXCEPT !.state = "torn"]
    /\ UNCHANGED trusted

(* The content reaches the file, and the call is answered. *)
FlushWhole(w) ==
    /\ call[w].pc = "flush"
    /\ call[w].age # "orphan"
    /\ file' = [state |-> "written", docs |-> call[w].next]
    /\ Others(w, call[w].next, FALSE)
    /\ trusted' = (call[w].blind \/ (trusted /\ call[w].age = "fresh"))

(* It covers a part of a longer one: the file is a mix of the two. *)
FlushMixed(w) ==
    /\ call[w].pc = "flush"
    /\ call[w].age = "overlaid"
    /\ file' = [file EXCEPT !.state = "torn"]
    /\ Others(w, file.docs, FALSE)
    /\ trusted' = FALSE

FlushOrphan(w) ==
    /\ call[w].pc = "flush"
    /\ call[w].age = "orphan"
    /\ call' = [call EXCEPT ![w] = Idle]
    /\ UNCHANGED <<file, trusted>>

Flush(w) == FlushWhole(w) \/ FlushMixed(w) \/ FlushOrphan(w)

(* The process is stopped: what it has not written is lost. *)
Stop(w) ==
    /\ call[w].pc # "idle"
    /\ call' = [call EXCEPT ![w] = Idle]
    /\ trusted' = (trusted /\ ~ (/\ call[w].pc = "flush"
                                 /\ call[w].age # "orphan"
                                 /\ file.state = "torn"))
    /\ UNCHANGED file

(* The steps that leave the content of the table as it is. *)
QuietStep(w) ==
    \/ \E d \in Doc : UpdateDocument(w, d) \/ DeleteDocument(w, d)
    \/ ClearData(w) \/ EnsureTable(w) \/ Truncate(w)
    \/ FlushMixed(w) \/ FlushOrphan(w) \/ Stop(w)

TableStep(w) == QuietStep(w) \/ DeleteTable(w) \/ FlushWhole(w)
=============================================================================
