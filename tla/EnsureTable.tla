---------------------------- MODULE EnsureTable ----------------------------
(***************************************************************************)
(* DocDbClient.ensure_table and delete_table of youwol_utils: the services *)
(* that share a table of DocDb make sure it exists when they start, each   *)
(* with the version it was written for.                                    *)
(*                                                                         *)
(* A call is a sequence of HTTP requests to DocDb, with nothing that keeps *)
(* two services apart: what a request read may be stale when the next one  *)
(* is sent.  DocDb refuses to create what exists.  A service whose call    *)
(* raises is started again, and calls ensure_table again.                  *)
(***************************************************************************)
EXTENDS Integers

CONSTANTS
    Client,     \* the services
    Major,      \* Client -> i of its version_table 'i.j'
    Minor,      \* Client -> j
    Indexes,    \* the number of secondary indexes of the table
    NoTable,    \* the table does not exist
    MaxFaults,  \* bound on requests that fail and answers that are lost
    MaxDeletes  \* bound on calls of delete_table

Version == Nat \X Nat

ASSUME TableAssumption ==
    /\ Major \in [Client -> Nat] /\ Minor \in [Client -> Nat]
    /\ Indexes \in Nat
    /\ NoTable \notin Version
    /\ MaxFaults \in Nat /\ MaxDeletes \in Nat

VARIABLES
    keyspace, \* does the keyspace exist?
    table,    \* the version in the comment of the table
    indexes,  \* the secondary indexes of the table
    client,   \* Client -> the call in flight, or the outcome of the last one
    faults,
    deletes   \* tables deleted so far

docdb == <<keyspace, table, indexes>>
vars == <<docdb, client, faults, deletes>>

VersionOf(c) == <<Major[c], Minor[c]>>

Deleting == {"delete: keyspaces", "delete: tables", "delete table"}
InFlight == {"keyspaces", "post keyspace", "tables", "get table",
             "post table", "post index"} \cup Deleting
Outcome == {"idle", "up-to-date", "created", "deleted", "raised",
            "major update", "minor update"}

(* at: the index to create next. *)
ClientType == [pc : InFlight \cup Outcome, at : 1..(Indexes + 1)]

TypeOK ==
    /\ keyspace \in BOOLEAN
    /\ table \in Version \cup {NoTable}
    /\ indexes \in SUBSET (1..Indexes)
    /\ client \in [Client -> ClientType]
    /\ \A c \in Client : client[c].pc = "post index" => client[c].at <= Indexes
    /\ faults \in 0..MaxFaults
    /\ deletes \in 0..MaxDeletes

Init ==
    /\ keyspace \in BOOLEAN
    /\ table = NoTable
    /\ indexes = {}
    /\ client = [c \in Client |-> [pc |-> "idle", at |-> 1]]
    /\ faults = 0
    /\ deletes = 0

Fault == faults < MaxFaults /\ faults' = faults + 1
NoFault == faults' = faults

Goto(c, label) == client' = [client EXCEPT ![c].pc = label]

(* The answer arrives, or is lost and the call raises. *)
Answered(c, label) ==
    \/ NoFault /\ Goto(c, label)
    \/ Fault /\ Goto(c, "raised")

Is(c, label) == client[c].pc = label

(***************************************************************************)
(* A service starts, or starts again.                                      *)
(***************************************************************************)
Ensure(c) ==
    /\ client[c].pc \in Outcome
    /\ Goto(c, "keyspaces")
    /\ UNCHANGED <<docdb, faults, deletes>>

(* Seeded fault: the keyspace is looked for in the list of another service. *)
KeyspaceUnseen(c) ==
    /\ Is(c, "keyspaces")
    /\ Answered(c, "post keyspace")
    /\ UNCHANGED <<docdb, deletes>>

(* _keyspace_exists *)
KeyspaceExists(c) ==
    /\ Is(c, "keyspaces")
    /\ Answered(c, IF keyspace THEN "tables" ELSE "post keyspace")
    /\ UNCHANGED <<docdb, deletes>>

(* _create_keyspace: the one of another service in between is an error. *)
CreateKeyspace(c) ==
    /\ Is(c, "post keyspace")
    /\ keyspace' = TRUE
    /\ IF keyspace THEN NoFault /\ Goto(c, "raised") ELSE Answered(c, "tables")
    /\ UNCHANGED <<table, indexes, deletes>>

(* _table_exists *)
TableExists(c) ==
    /\ Is(c, "tables")
    /\ Answered(c, IF table = NoTable THEN "post table" ELSE "get table")
    /\ UNCHANGED <<docdb, deletes>>

(* Seeded fault: only the major versions are compared. *)
UpdateOfMajor(c) ==
    IF table[1] = Major[c] THEN "up-to-date" ELSE "major update"

(* get_update_description: NONE, MAJOR_UPDATE or MINOR_UPDATE. *)
Update(c) ==
    IF table = VersionOf(c) THEN "up-to-date"
    ELSE IF table[1] # Major[c] THEN "major update" ELSE "minor update"

(* get_table, then the two updates raise; a table deleted since does too. *)
GetTable(c) ==
    /\ Is(c, "get table")
    /\ IF table = NoTable THEN NoFault /\ Goto(c, "raised")
                          ELSE Answered(c, Update(c))
    /\ UNCHANGED <<docdb, deletes>>

(* Seeded fault: the loop stops before the last index. *)
LastIndexEarly == Indexes - 1

(* Seeded fault: the loop goes on after the last index. *)
LastIndexLate == Indexes + 1

LastIndex == Indexes

(* The loop on secondary_indexes, about to create the i-th. *)
AtIndex(c, i) ==
    client' = [client EXCEPT ![c] =
                  [pc |-> IF i > LastIndex THEN "created" ELSE "post index",
                   at |-> i]]

(* Seeded fault: a table that exists already is as good as a new one. *)
RefusalIgnored(c) == AtIndex(c, 1)

(* raise_exception, on any status but 201. *)
Refused(c) == Goto(c, "raised")

(* _create_table, with the version in the comment. *)
CreateTable(c) ==
    /\ Is(c, "post table")
    /\ IF ~keyspace \/ table # NoTable
       THEN /\ NoFault /\ Refused(c)
            /\ UNCHANGED <<table, indexes>>
       ELSE /\ table' = VersionOf(c)
            /\ indexes' = {}
            /\ \/ NoFault /\ AtIndex(c, 1)
               \/ Fault /\ Goto(c, "raised")
    /\ UNCHANGED <<keyspace, deletes>>

(* _create_index, one after the other in the order of secondary_indexes. *)
CreateIndex(c) ==
    LET i == client[c].at
    IN  /\ Is(c, "post index")
        /\ IF table = NoTable \/ i \in indexes
           THEN /\ NoFault /\ Goto(c, "raised")
                /\ UNCHANGED indexes
           ELSE /\ indexes' = indexes \cup {i}
                /\ \/ NoFault /\ AtIndex(c, i + 1)
                   \/ Fault /\ Goto(c, "raised")
        /\ UNCHANGED <<keyspace, table, deletes>>

(* Any request may fail before it has an effect. *)
RequestFails(c) ==
    /\ client[c].pc \in InFlight
    /\ Fault
    /\ Goto(c, "raised")
    /\ UNCHANGED <<docdb, deletes>>

-----------------------------------------------------------------------------
(* ---- delete_table ---- *)

Delete(c) ==
    /\ deletes < MaxDeletes
    /\ deletes' = deletes + 1
    /\ client[c].pc \in Outcome
    /\ Goto(c, "delete: keyspaces")
    /\ UNCHANGED <<docdb, faults>>

DeleteKeyspaceExists(c) ==
    /\ Is(c, "delete: keyspaces")
    /\ Answered(c, IF keyspace THEN "delete: tables" ELSE "deleted")
    /\ UNCHANGED <<docdb, deletes>>

DeleteTableExists(c) ==
    /\ Is(c, "delete: tables")
    /\ Answered(c, IF table = NoTable THEN "deleted" ELSE "delete table")
    /\ UNCHANGED <<docdb, deletes>>

DeleteTable(c) ==
    /\ Is(c, "delete table")
    /\ table' = NoTable
    /\ indexes' = {}
    /\ IF table = NoTable THEN NoFault /\ Goto(c, "raised")
                          ELSE Answered(c, "deleted")
    /\ UNCHANGED <<keyspace, deletes>>

-----------------------------------------------------------------------------
EnsureStep(c) ==
    \/ KeyspaceExists(c) \/ CreateKeyspace(c)
    \/ TableExists(c) \/ GetTable(c) \/ CreateTable(c) \/ CreateIndex(c)

DeleteStep(c) ==
    \/ DeleteKeyspaceExists(c) \/ DeleteTableExists(c) \/ DeleteTable(c)

Next ==
    \E c \in Client :
        \/ Ensure(c) \/ EnsureStep(c) \/ RequestFails(c)
        \/ Delete(c) \/ DeleteStep(c)

Spec == Init /\ [][Next]_vars

(* Requests are answered, and a service that raised is started again. *)
Starts(c) == client[c].pc \in {"idle", "raised"} /\ Ensure(c)

FairSpec ==
    /\ Spec
    /\ \A c \in Client : /\ WF_vars(Starts(c))
                         /\ WF_vars(EnsureStep(c) \/ DeleteStep(c))

-----------------------------------------------------------------------------
Ensured(c) == client[c].pc \in {"up-to-date", "created"}

(***************************************************************************)
(* As long as no table is deleted, at most one service is creating the     *)
(* indexes of the table: it is the one whose table DocDb accepted, it has  *)
(* its version, and no index it is about to create is there already.       *)
(***************************************************************************)
OneCreator ==
    deletes = 0 =>
        /\ \A c, d \in Client :
              Is(c, "post index") /\ Is(d, "post index") => c = d
        /\ \A c \in Client : Is(c, "post index") =>
              table = VersionOf(c) /\ client[c].at \notin indexes

(***************************************************************************)
(* As long as no table is deleted, a service that ensured its table runs   *)
(* on a table of its own version, however its requests and those of the    *)
(* others interleaved and whichever answers were lost.                     *)
(***************************************************************************)
EnsuredIsOfItsVersion ==
    deletes = 0 =>
        \A c \in Client : Ensured(c) => table = VersionOf(c)

(***************************************************************************)
(* The inductive invariant behind the two: no service deletes, the ones    *)
(* past the creation of the table have its version, and the one that       *)
(* creates the indexes has created those before the next.                  *)
(***************************************************************************)
PastTable == {"post index", "created", "up-to-date"}

IInv ==
    deletes = 0 =>
        /\ \A c \in Client : client[c].pc \notin Deleting
        /\ \A c \in Client : client[c].pc \in PastTable => table = VersionOf(c)
        /\ \A c \in Client : Is(c, "post index") =>
              \A i \in indexes : i < client[c].at
        /\ \A c, d \in Client :
              Is(c, "post index") /\ Is(d, "post index") => c = d

(***************************************************************************)
(* When no request fails, the services that end leave a table with all its *)
(* indexes: the ones that lost a race do not stop the one that won it.     *)
(***************************************************************************)
SettledHasIndexes ==
    /\ deletes = 0 /\ faults = 0
    /\ \A c \in Client : client[c].pc \notin InFlight
    /\ table # NoTable
    => indexes = 1..Indexes

(***************************************************************************)
(* As long as no table is deleted, every service ends with its table       *)
(* ensured, or refused by the table of another version: a race lost or an  *)
(* answer lost is repaired by the next start.                              *)
(***************************************************************************)
RefusedByVersion(c) ==
    client[c].pc \in {"major update", "minor update"} /\ table # VersionOf(c)

EnsureConverges ==
    \A c \in Client : <>(Ensured(c) \/ RefusedByVersion(c) \/ deletes > 0)

(***************************************************************************)
(* What ensure_table prints, "schema up-to-date": the table has all its    *)
(* secondary indexes.                                                      *)
(***************************************************************************)
UpToDateHasIndexes ==
    \A c \in Client : Is(c, "up-to-date") => indexes = 1..Indexes
=============================================================================
