--------------------------- MODULE EnsurePathname ---------------------------
(***************************************************************************)
(* treedb_utils.py: ensure_pathname walks down a drive and its folders. At *)
(* each level it asks for the children, takes one that has the name, or    *)
(* creates it; the next call of another process may come in between.       *)
(*                                                                         *)
(* The tree database is external: it gives each folder an id of its own,   *)
(* accepts any number of folders of one name, lists them in any order, and *)
(* answers with an error about a folder that is no longer there.           *)
(***************************************************************************)
EXTENDS Integers, Sequences

CONSTANTS
    Caller,     \* the processes that call ensure_pathname
    Group,
    Name,       \* the names of drives and folders
    Goal,       \* Caller -> <<group_id, drive_name>> \o folders_name
    MaxFaults,  \* bound on the calls that fail without a reason
    MaxRemoves  \* bound on the folders that others remove

ASSUME PathnameAssumption ==
    /\ \A c \in Caller :
          /\ Goal[c] \in Seq(Group \cup Name)
          /\ Len(Goal[c]) >= 2
          /\ Goal[c][1] \in Group
          /\ \A i \in 2..Len(Goal[c]) : Goal[c][i] \in Name
    /\ \A g \in Group : g \notin Nat
    /\ MaxFaults \in Nat
    /\ MaxRemoves \in Nat

VARIABLES
    tree,     \* the drives and folders
    made,     \* the number of ids given
    caller,   \* Caller -> its call
    late,     \* creations received from calls that failed, not handled yet
    raced,    \* history: a call has started while another one, or a late
              \* creation, was on its way
    faults, removes

vars == <<tree, made, caller, late, raced, faults, removes>>

Id == Nat \cup Group

(***************************************************************************)
(* A group stands for a node of its own, above its drives. above and path  *)
(* are what the server keeps of the ancestors: their ids and their names.  *)
(***************************************************************************)
NodeType ==
    [id : Id, parent : Id, name : Group \cup Name, above : SUBSET Id,
     path : Seq(Group \cup Name)]

Root(g) == [id |-> g, parent |-> g, name |-> g, above |-> {}, path |-> <<g>>]

CallType ==
    [pc : {"idle", "look", "make", "done", "failed"},
     depth : Nat,   \* how much of Goal the call has found or made
     at : Id]       \* parent_folder_id

TypeOK ==
    /\ tree \in SUBSET NodeType
    /\ made \in Nat
    /\ caller \in [Caller -> CallType]
    /\ late \in SUBSET [no : Nat, parent : Id, name : Name]
    /\ raced \in BOOLEAN
    /\ faults \in 0..MaxFaults
    /\ removes \in 0..MaxRemoves

Init ==
    /\ tree = {Root(g) : g \in Group}
    /\ made = 0
    /\ caller = [c \in Caller |-> [pc |-> "idle", depth |-> 1,
                                   at |-> Goal[c][1]]]
    /\ late = {}
    /\ raced = FALSE
    /\ faults = 0
    /\ removes = 0

InFlight(c) == caller[c].pc \in {"look", "make"}

Ids == {n.id : n \in tree}

(* Seeded fault: the names are counted from the group. *)
WantedBefore(c) == Goal[c][caller[c].depth]

Wanted(c) == Goal[c][caller[c].depth + 1]

(* get_drives, get_children. *)
Children(id) == {n \in tree : n.parent = id /\ n.id # id}

(* Seeded fault: the list is one that was read before the last creation. *)
NamedIfAlone(id, name) ==
    {n \in Children(id) : n.name = name /\ n.id # made}

Named(id, name) == {n \in Children(id) : n.name = name}

(* Seeded fault: parent_folder_id is not moved. *)
ReachedInPlace(c, id) ==
    LET depth == caller[c].depth + 1
    IN  caller' = [caller EXCEPT ![c].depth = depth,
           ![c].pc = IF depth = Len(Goal[c]) THEN "done" ELSE "look"]

Reached(c, id) ==
    LET depth == caller[c].depth + 1
    IN  caller' = [caller EXCEPT ![c] =
           [pc |-> IF depth = Len(Goal[c]) THEN "done" ELSE "look",
            depth |-> depth, at |-> id]]

Failed(c) == caller' = [caller EXCEPT ![c].pc = "failed"]

(* create_drive, create_folder, handled below a parent that is there. *)
Child(m, name) ==
    [id |-> made + 1, parent |-> m.id, name |-> name,
     above |-> m.above \cup {m.id}, path |-> Append(m.path, name)]

Created(id, name) ==
    /\ \E m \in tree : m.id = id /\ tree' = tree \cup {Child(m, name)}
    /\ made' = made + 1

Call(c) ==
    /\ ~ InFlight(c)
    /\ caller' = [caller EXCEPT ![c] = [pc |-> "look", depth |-> 1,
                                        at |-> Goal[c][1]]]
    /\ raced' = (raced \/ late # {} \/ \E b \in Caller : InFlight(b))
    /\ UNCHANGED <<tree, made, late, faults, removes>>

(* next(d for d in ... if d['name'] == ...), or None. *)
Find(c) ==
    /\ caller[c].pc = "look"
    /\ caller[c].at \in Ids
    /\ \E n \in Named(caller[c].at, Wanted(c)) : Reached(c, n.id)
    /\ UNCHANGED <<tree, made, late, raced, faults, removes>>

(* Seeded fault: a name that is missing is looked for again. *)
LookAgain(c) ==
    /\ caller[c].pc = "look"
    /\ caller[c].at \in Ids
    /\ Named(caller[c].at, Wanted(c)) = {}
    /\ UNCHANGED vars

Miss(c) ==
    /\ caller[c].pc = "look"
    /\ caller[c].at \in Ids
    /\ Named(caller[c].at, Wanted(c)) = {}
    /\ caller' = [caller EXCEPT ![c].pc = "make"]
    /\ UNCHANGED <<tree, made, late, raced, faults, removes>>

(* Seeded fault: what is missing is made in the group. *)
MakeInGroup(c) ==
    /\ caller[c].pc = "make"
    /\ Created(Goal[c][1], Wanted(c))
    /\ Reached(c, made + 1)
    /\ UNCHANGED <<late, raced, faults, removes>>

Make(c) ==
    /\ caller[c].pc = "make"
    /\ Created(caller[c].at, Wanted(c))
    /\ Reached(c, made + 1)
    /\ UNCHANGED <<late, raced, faults, removes>>

(* raise_exception_from_response: the folder is gone. *)
Gone(c) ==
    /\ InFlight(c)
    /\ caller[c].at \notin Ids
    /\ Failed(c)
    /\ UNCHANGED <<tree, made, late, raced, faults, removes>>

(***************************************************************************)
(* A request fails or its answer is lost.  A creation may have reached the *)
(* server, which handles it then, or later.                                *)
(***************************************************************************)
RequestFails(c) ==
    /\ InFlight(c)
    /\ faults < MaxFaults
    /\ faults' = faults + 1
    /\ Failed(c)
    /\ \/ UNCHANGED late
       \/ /\ caller[c].pc = "make"
          /\ late' = late \cup {[no |-> faults, parent |-> caller[c].at,
                                 name |-> Wanted(c)]}
    /\ UNCHANGED <<tree, made, raced, removes>>

(* The server handles it, or refuses it when the parent is gone. *)
LateCreation(l) ==
    /\ \/ Created(l.parent, l.name)
       \/ l.parent \notin Ids /\ UNCHANGED <<tree, made>>
    /\ late' = late \ {l}
    /\ UNCHANGED <<caller, raced, faults, removes>>

(* delete_drive, remove_folder by somebody else. *)
Remove(n) ==
    /\ n.id \notin Group
    /\ removes < MaxRemoves
    /\ removes' = removes + 1
    /\ tree' = {m \in tree : m.id # n.id /\ n.id \notin m.above}
    /\ UNCHANGED <<made, caller, late, raced, faults>>

CallStep(c) == Find(c) \/ Miss(c) \/ Make(c) \/ Gone(c)

Next ==
    \/ \E c \in Caller : Call(c) \/ CallStep(c) \/ RequestFails(c)
    \/ \E l \in late : LateCreation(l)
    \/ \E n \in tree : Remove(n)

Spec == Init /\ [][Next]_vars

(* The event loop runs the coroutines; nobody is bound to call or remove. *)
FairSpec == Spec /\ \A c \in Caller : WF_vars(CallStep(c))

-----------------------------------------------------------------------------
Prefix(c) == SubSeq(Goal[c], 1, caller[c].depth)

(***************************************************************************)
(* A call returns the folder of its pathname: whoever else creates or      *)
(* removes folders meanwhile, the folder it holds, if it is still there,   *)
(* is reached from its group by the names that were asked for.             *)
(***************************************************************************)
FolderIsAtPath ==
    \A c \in Caller : caller[c].pc = "done" =>
        \A n \in tree : n.id = caller[c].at => n.path = Goal[c]

(***************************************************************************)
(* Calls that do not overlap never make a second folder of a pathname, in  *)
(* whatever order they come, and however they failed or folders were       *)
(* removed: two callers of one pathname hold one folder.                   *)
(***************************************************************************)
OneFolderPerPath == ~ raced => \A n, m \in tree : n.path = m.path => n = m

(***************************************************************************)
(* The inductive invariant: nodes have their own ids and hang below their  *)
(* parents, a call is at a folder of the part of its pathname it has gone  *)
(* through, and what an undisturbed call or a late creation is about to    *)
(* make is not there.                                                      *)
(***************************************************************************)
HangsBelow(n, m) ==
    /\ n.parent = m.id
    /\ n.above = m.above \cup {m.id}
    /\ n.path = Append(m.path, n.name)

TreeSound ==
    /\ \A n, m \in tree : n.id = m.id => n = m
    /\ \A g \in Group : Root(g) \in tree
    /\ \A n \in tree : Len(n.path) > 0
    /\ \A n \in tree :
          \/ n.id \in Group /\ n = Root(n.id)
          \/ /\ n.id \in 1..made
             /\ n.name \in Name
             /\ \E m \in tree : HangsBelow(n, m)

DepthSound ==
    \A c \in Caller :
        /\ caller[c].depth \in 1..Len(Goal[c])
        /\ InFlight(c) => caller[c].depth < Len(Goal[c])
        /\ caller[c].pc = "done" => caller[c].depth = Len(Goal[c])

CallsSound ==
    \A c \in Caller :
        /\ caller[c].at \in 1..made \cup Group
        /\ \A n \in tree : n.id = caller[c].at => n.path = Prefix(c)

LateSound == \A l \in late : l.parent \in 1..made \cup Group

AloneSound ==
    ~ raced =>
        /\ \A b, c \in Caller : InFlight(b) /\ InFlight(c) => b = c
        /\ late # {} => \A c \in Caller : ~ InFlight(c)
        /\ \A k, l \in late : k = l
        /\ \A c \in Caller : caller[c].pc = "make" =>
              Named(caller[c].at, Wanted(c)) = {}
        /\ \A l \in late : Named(l.parent, l.name) = {}

IInv ==
    /\ DepthSound
    /\ TreeSound
    /\ CallsSound
    /\ LateSound
    /\ AloneSound
    /\ OneFolderPerPath

(***************************************************************************)
(* The folders are a tree of pathnames in the sense of PathTree: one is    *)
(* added below another that is there, and a call ends with its pathname in *)
(* the tree.                                                               *)
(***************************************************************************)
Paths ==
    INSTANCE PathTree WITH
        paths <- {n.path : n \in tree},
        given <- {c \in Caller : caller[c].pc = "done"}

ImplementsPathTree == Paths!Spec

(* A call ends, with its folder or with an error. *)
CallsEnd ==
    \A c \in Caller : InFlight(c) ~> caller[c].pc \in {"done", "failed"}
=============================================================================
