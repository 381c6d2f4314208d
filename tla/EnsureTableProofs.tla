------------------------- MODULE EnsureTableProofs -------------------------
(***************************************************************************)
(* EnsureTable, for every set of services, versions and number of indexes: *)
(* as long as no table is deleted, the services that ensured their table   *)
(* run on their own version, and one at a time creates the indexes.        *)
(***************************************************************************)
EXTENDS EnsureTable, TLAPS

(* The version of a service is one a table may have. *)
LEMMA VersionsAreVersions ==
    \A c \in Client : VersionOf(c) \in Version /\ VersionOf(c) # NoTable
BY TableAssumption DEF VersionOf, Version

LEMMA BoundsAreNaturals ==
    Indexes \in Nat /\ MaxFaults \in Nat /\ MaxDeletes \in Nat
BY TableAssumption

(* Counting a fault keeps the bound. *)
LEMMA FaultTypes ==
    ASSUME TypeOK, NoFault \/ Fault
    PROVE  faults' \in 0..MaxFaults
<1>1. faults \in 0..MaxFaults
    BY DEF TypeOK
<1> QED
    BY <1>1, BoundsAreNaturals DEF Fault, NoFault

(* The part of TypeOK about the calls. *)
ClientOK ==
    /\ client \in [Client -> ClientType]
    /\ \A c \in Client : client[c].pc = "post index" => client[c].at <= Indexes

(* The places of a call other than the loop on the indexes. *)
Label == (InFlight \cup Outcome) \ {"post index"}

(* Moving a call to such a place leaves the other calls and its index. *)
LEMMA GotoTypes ==
    ASSUME ClientOK, NEW c \in Client, NEW label \in Label, Goto(c, label)
    PROVE  ClientOK'
BY DEF ClientOK, Goto, ClientType, Label

LEMMA AnsweredTypes ==
    ASSUME TypeOK, NEW c \in Client, NEW label \in Label, Answered(c, label)
    PROVE  ClientOK' /\ faults' \in 0..MaxFaults
<1>1. "raised" \in Label
    BY DEF Outcome, Label
<1> QED
    BY <1>1, GotoTypes, FaultTypes DEF TypeOK, ClientOK, Answered

(* The loop on the indexes stays within them, or has ended. *)
LEMMA AtIndexTypes ==
    ASSUME ClientOK, NEW c \in Client, NEW i \in 1..(Indexes + 1),
           AtIndex(c, i)
    PROVE  ClientOK'
<1> USE BoundsAreNaturals
<1>1. [pc |-> IF i > LastIndex THEN "created" ELSE "post index", at |-> i]
      \in ClientType
    BY DEF ClientType, InFlight, Outcome
<1>2. client' \in [Client -> ClientType]
    BY <1>1 DEF ClientOK, AtIndex
<1>3. ASSUME NEW d \in Client, client'[d].pc = "post index"
      PROVE  client'[d].at <= Indexes
    <2>1. CASE d = c
        <3>1. /\ client'[c].at = i
              /\ client'[c].pc = IF i > LastIndex THEN "created" ELSE "post index"
            BY DEF ClientOK, AtIndex
        <3>2. ~(i > Indexes)
            BY <1>3, <2>1, <3>1 DEF LastIndex
        <3>3. i <= Indexes
            BY <3>2
        <3> QED
            BY <2>1, <3>1, <3>3
    <2>2. CASE d # c
        BY <1>3, <2>2 DEF ClientOK, AtIndex
    <2> QED
        BY <2>1, <2>2
<1> QED
    BY <1>2, <1>3 DEF ClientOK

LEMMA TypeStep == TypeOK /\ [Next]_vars => TypeOK'
<1> SUFFICES ASSUME TypeOK, [Next]_vars
             PROVE  TypeOK'
    OBVIOUS
<1> USE BoundsAreNaturals
<1>l. {"keyspaces", "post keyspace", "tables", "get table", "post table",
       "up-to-date", "created", "deleted", "raised", "major update",
       "minor update", "delete: keyspaces", "delete: tables",
       "delete table"} \subseteq Label
    BY DEF InFlight, Outcome, Deleting, Label
<1>t. ClientOK /\ (docdb' = docdb /\ ClientOK' /\ faults' \in 0..MaxFaults
                   /\ deletes' \in 0..MaxDeletes => TypeOK')
    BY DEF TypeOK, ClientOK, docdb
<1>1. ASSUME NEW c \in Client, Ensure(c) PROVE TypeOK'
    BY <1>1, <1>l, <1>t, GotoTypes DEF TypeOK, Ensure
<1>2. ASSUME NEW c \in Client, KeyspaceExists(c) PROVE TypeOK'
    BY <1>2, <1>l, <1>t, AnsweredTypes DEF TypeOK, KeyspaceExists
<1>3. ASSUME NEW c \in Client, CreateKeyspace(c) PROVE TypeOK'
    <2>1. ClientOK' /\ faults' \in 0..MaxFaults
        BY <1>3, <1>l, <1>t, GotoTypes, AnsweredTypes
        DEF CreateKeyspace, NoFault, TypeOK
    <2>2. keyspace' \in BOOLEAN
        BY <1>3, Zenon DEF CreateKeyspace
    <2> QED
        BY <1>3, <2>1, <2>2 DEF TypeOK, ClientOK, CreateKeyspace
<1>4. ASSUME NEW c \in Client, TableExists(c) PROVE TypeOK'
    BY <1>4, <1>l, <1>t, AnsweredTypes DEF TypeOK, TableExists
<1>5. ASSUME NEW c \in Client, GetTable(c) PROVE TypeOK'
    <2>1. Update(c) \in Label
        BY <1>l DEF Update
    <2>2. ClientOK' /\ faults' \in 0..MaxFaults
        BY <1>5, <1>l, <1>t, <2>1, GotoTypes, AnsweredTypes
        DEF GetTable, NoFault, TypeOK
    <2> QED
        BY <1>5, <1>t, <2>2 DEF TypeOK, GetTable
<1>6. ASSUME NEW c \in Client, CreateTable(c) PROVE TypeOK'
    <2>a. 1 \in 1..(Indexes + 1)
        OBVIOUS
    <2>b. NoFault \/ Fault
        BY <1>6 DEF CreateTable
    <2>1. ClientOK' /\ faults' \in 0..MaxFaults
        BY <1>6, <1>l, <1>t, <2>a, <2>b, GotoTypes, AtIndexTypes,
           FaultTypes
        DEF CreateTable, Refused
    <2>2. table' \in Version \cup {NoTable} /\ indexes' \in SUBSET (1..Indexes)
        BY <1>6, VersionsAreVersions DEF CreateTable, TypeOK
    <2> QED
        BY <1>6, <2>1, <2>2 DEF TypeOK, ClientOK, CreateTable
<1>7. ASSUME NEW c \in Client, CreateIndex(c) PROVE TypeOK'
    <2>1. client[c].at \in 1..Indexes /\ client[c].at + 1 \in 1..(Indexes + 1)
        <3>1. client[c] \in ClientType /\ client[c].pc = "post index"
            BY <1>7 DEF TypeOK, CreateIndex, Is
        <3>2. client[c].at <= Indexes /\ client[c].at \in 1..(Indexes + 1)
            BY <3>1 DEF TypeOK, ClientType
        <3> QED
            BY <3>2
    <2>2. ClientOK' /\ faults' \in 0..MaxFaults
        <3>1. NoFault \/ Fault
            BY <1>7 DEF CreateIndex
        <3> QED
            BY <1>7, <1>l, <1>t, <2>1, <3>1, GotoTypes, AtIndexTypes,
               FaultTypes
            DEF CreateIndex
    <2>3. indexes' \in SUBSET (1..Indexes)
        BY <1>7, <2>1 DEF CreateIndex, TypeOK
    <2> QED
        BY <1>7, <2>2, <2>3 DEF TypeOK, ClientOK, CreateIndex
<1>8. ASSUME NEW c \in Client, RequestFails(c) PROVE TypeOK'
    <2>1. faults' \in 0..MaxFaults /\ Goto(c, "raised")
        BY <1>8, FaultTypes DEF RequestFails
    <2> QED
        BY <1>8, <1>l, <1>t, <2>1, GotoTypes DEF TypeOK, RequestFails
<1>9. ASSUME NEW c \in Client, Delete(c) PROVE TypeOK'
    <2>1. ClientOK' /\ faults' \in 0..MaxFaults
        BY <1>9, <1>l, <1>t, GotoTypes DEF TypeOK, Delete
    <2>2. deletes \in 0..MaxDeletes
        BY DEF TypeOK
    <2>a. deletes < MaxDeletes /\ deletes' = deletes + 1
        BY <1>9 DEF Delete
    <2>3. deletes' \in 0..MaxDeletes
        BY <2>2, <2>a
    <2> QED
        BY <1>9, <1>t, <2>1, <2>3 DEF Delete
<1>10. ASSUME NEW c \in Client, DeleteKeyspaceExists(c) PROVE TypeOK'
    BY <1>10, <1>l, <1>t, AnsweredTypes DEF TypeOK, DeleteKeyspaceExists
<1>11. ASSUME NEW c \in Client, DeleteTableExists(c) PROVE TypeOK'
    BY <1>11, <1>l, <1>t, AnsweredTypes DEF TypeOK, DeleteTableExists
<1>12. ASSUME NEW c \in Client, DeleteTable(c) PROVE TypeOK'
    <2>1. ClientOK' /\ faults' \in 0..MaxFaults
        BY <1>12, <1>l, <1>t, GotoTypes, AnsweredTypes
        DEF DeleteTable, NoFault, TypeOK
    <2> QED
        BY <1>12, <2>1 DEF TypeOK, ClientOK, DeleteTable
<1>13. CASE UNCHANGED vars
    BY <1>13 DEF TypeOK, vars, docdb
<1> QED
    BY <1>1, <1>2, <1>3, <1>4, <1>5, <1>6, <1>7, <1>8, <1>9, <1>10, <1>11,
       <1>12, <1>13
    DEF Next, EnsureStep, DeleteStep

(* The requests of ensure_table and delete_table keep the calls, the table *)
(* and its indexes within their types, whatever fails.                     *)
THEOREM TypeCorrect == Spec => []TypeOK
<1>1. Init => TypeOK
    <2> SUFFICES ASSUME Init
                 PROVE  TypeOK
        OBVIOUS
    <2>1. [pc |-> "idle", at |-> 1] \in ClientType
        BY BoundsAreNaturals DEF ClientType, Outcome
    <2>2. faults \in 0..MaxFaults /\ deletes \in 0..MaxDeletes
        BY BoundsAreNaturals DEF Init
    <2> QED
        BY <2>1, <2>2 DEF Init, TypeOK
<1> QED
    BY <1>1, TypeStep, PTL DEF Spec

-----------------------------------------------------------------------------
(* Where the invariant says nothing of a call. *)
Free == Label \ (Deleting \cup PastTable)

(* What a call that moves leaves of the others, and where it gets. *)
LEMMA GotoMoves ==
    ASSUME TypeOK, NEW c \in Client, NEW label, Goto(c, label)
    PROVE  /\ \A d \in Client \ {c} : client'[d] = client[d]
           /\ client'[c].pc = label
BY DEF TypeOK, Goto, ClientType

LEMMA AtIndexMoves ==
    ASSUME TypeOK, NEW c \in Client, NEW i, AtIndex(c, i)
    PROVE  /\ \A d \in Client \ {c} : client'[d] = client[d]
           /\ client'[c].pc \in {"created", "post index"}
           /\ client'[c].at = i
BY DEF TypeOK, AtIndex

(***************************************************************************)
(* A call that goes to a place the invariant says nothing of, on a table   *)
(* that stays as it is, keeps the invariant.                               *)
(***************************************************************************)
LEMMA GotoFree ==
    ASSUME TypeOK, IInv, NEW c \in Client, NEW label \in Free, Goto(c, label),
           deletes' = deletes, table' = table, indexes' = indexes
    PROVE  IInv'
<1>1. \A d \in Client \ {c} : client'[d] = client[d]
    BY GotoMoves
<1>2. client'[c].pc \notin Deleting \cup PastTable
    BY GotoMoves DEF Free
<1>3. "post index" \in PastTable
    BY DEF PastTable
<1> QED
    BY <1>1, <1>2, <1>3 DEF IInv, Is

LEMMA AnsweredFree ==
    ASSUME TypeOK, IInv, NEW c \in Client, NEW label \in Free,
           Answered(c, label),
           deletes' = deletes, table' = table, indexes' = indexes
    PROVE  IInv'
<1>1. "raised" \in Free
    BY DEF Outcome, Label, Free, Deleting, PastTable
<1> QED
    BY <1>1, GotoFree DEF Answered

(* The index created last is the greatest. *)
LEMMA NextIsLast ==
    ASSUME NEW done \in SUBSET (1..Indexes), NEW i \in Nat,
           \A j \in done : j < i
    PROVE  \A j \in done \cup {i} : j < i + 1
BY BoundsAreNaturals

LEMMA InvStep == TypeOK /\ IInv /\ [Next]_vars => IInv'
<1> SUFFICES ASSUME TypeOK, IInv, [Next]_vars
             PROVE  IInv'
    OBVIOUS
<1>l. {"keyspaces", "post keyspace", "tables", "get table", "post table",
       "raised", "major update", "minor update"} \subseteq Free
    BY DEF InFlight, Outcome, Deleting, Label, Free, PastTable
<1>1. ASSUME NEW c \in Client, Ensure(c) PROVE IInv'
    BY <1>1, <1>l, GotoFree DEF Ensure, docdb
<1>2. ASSUME NEW c \in Client, KeyspaceExists(c) PROVE IInv'
    BY <1>2, <1>l, AnsweredFree DEF KeyspaceExists, docdb
<1>3. ASSUME NEW c \in Client, CreateKeyspace(c) PROVE IInv'
    BY <1>3, <1>l, GotoFree, AnsweredFree DEF CreateKeyspace
<1>4. ASSUME NEW c \in Client, TableExists(c) PROVE IInv'
    BY <1>4, <1>l, AnsweredFree DEF TableExists, docdb
<1>5. ASSUME NEW c \in Client, GetTable(c) PROVE IInv'
    <2>1. CASE Goto(c, "up-to-date") /\ table = VersionOf(c)
        <3>1. /\ \A d \in Client \ {c} : client'[d] = client[d]
              /\ client'[c].pc = "up-to-date"
            BY <2>1 DEF TypeOK, Goto, ClientType
        <3>2. UNCHANGED <<deletes, table, indexes>>
            BY <1>5 DEF GetTable, docdb
        <3> QED
            BY <2>1, <3>1, <3>2 DEF IInv, Is, Deleting, VersionOf
    <2>2. \/ Goto(c, "up-to-date") /\ table = VersionOf(c)
          \/ \E label \in Free : Goto(c, label)
        BY <1>5, <1>l DEF GetTable, Answered, Update
    <2>3. CASE \E label \in Free : Goto(c, label)
        BY <1>5, <2>3, GotoFree DEF GetTable, docdb
    <2> QED
        BY <2>1, <2>2, <2>3
<1>6. ASSUME NEW c \in Client, CreateTable(c) PROVE IInv'
    <2>1. CASE ~keyspace \/ table # NoTable
        BY <1>6, <2>1, <1>l, GotoFree DEF CreateTable, Refused
    <2>2. CASE keyspace /\ table = NoTable
        <3> SUFFICES ASSUME deletes = 0
                     PROVE  IInv'
            BY <1>6 DEF CreateTable, IInv
        <3>1. \A d \in Client : client[d].pc \notin Deleting \cup PastTable
            BY <2>2, VersionsAreVersions DEF IInv
        <3>0. /\ AtIndex(c, 1) \/ Goto(c, "raised")
              /\ table' = VersionOf(c) /\ indexes' = {}
            BY <1>6, <2>2 DEF CreateTable
        <3>2. /\ \A d \in Client \ {c} : client'[d] = client[d]
              /\ client'[c].pc \in {"created", "post index", "raised"}
              /\ table' = VersionOf(c) /\ indexes' = {}
            BY <3>0, AtIndexMoves, GotoMoves
        <3>3. \A d \in Client \ {c} : client'[d].pc \notin Deleting \cup PastTable
            BY <3>1, <3>2
        <3>4. client'[c].pc \notin Deleting
            BY <3>2 DEF Deleting
        <3>5. "post index" \in PastTable /\ VersionOf(c)' = VersionOf(c)
            BY DEF PastTable, VersionOf
        <3> QED
            BY <3>2, <3>3, <3>4, <3>5 DEF IInv, Is
    <2> QED
        BY <2>1, <2>2
<1>7. ASSUME NEW c \in Client, CreateIndex(c) PROVE IInv'
    <2> DEFINE i == client[c].at
    <2>0. i \in Nat /\ Is(c, "post index")
        <3>1. client[c] \in ClientType
            BY DEF TypeOK
        <3>2. client[c].at \in Nat
            BY <3>1, BoundsAreNaturals DEF ClientType
        <3> QED
            BY <1>7, <3>2 DEF CreateIndex
    <2>1. CASE client[c].at \in indexes \/ table = NoTable
        BY <1>7, <1>l, <2>1, GotoFree DEF CreateIndex
    <2>2. CASE ~(client[c].at \in indexes \/ table = NoTable)
        <3>0. /\ indexes' = indexes \cup {i}
              /\ AtIndex(c, i + 1) \/ Goto(c, "raised")
            BY <1>7, <2>2 DEF CreateIndex
        <3> SUFFICES ASSUME deletes = 0
                     PROVE  IInv'
            BY <1>7 DEF CreateIndex, IInv
        <3>1. UNCHANGED <<table, deletes>>
            BY <1>7 DEF CreateIndex
        <3>2. \A d \in Client \ {c} :
                 client'[d] = client[d] /\ client'[d].pc # "post index"
            BY <2>0, <3>0, AtIndexMoves, GotoMoves DEF IInv, Is
        <3>3. /\ client'[c].pc \in {"created", "post index", "raised"}
              /\ client'[c].pc = "post index" => client'[c].at = i + 1
            <4>1. CASE AtIndex(c, i + 1)
                BY <4>1, AtIndexMoves
            <4>2. CASE Goto(c, "raised")
                <5>1. client'[c].pc = "raised"
                    BY <4>2, GotoMoves
                <5> QED
                    BY <5>1
            <4> QED
                BY <3>0, <4>1, <4>2
        <3>4. table' = VersionOf(c) /\ client'[c].pc \notin Deleting
            BY <2>0, <3>1, <3>3 DEF IInv, PastTable, Deleting, Is
        <3>5. \A j \in indexes' : j < i + 1
            <4>1. indexes \subseteq 1..Indexes /\ \A j \in indexes : j < i
                BY <2>0 DEF IInv, TypeOK
            <4> QED
                BY <2>0, <3>0, <4>1, NextIsLast
        <3>6. /\ \A d \in Client : client'[d].pc \notin Deleting
              /\ \A d \in Client :
                    client'[d].pc \in PastTable => table' = VersionOf(d)
            BY <3>1, <3>2, <3>4 DEF IInv
        <3>7. \A d \in Client : client'[d].pc = "post index" =>
                 d = c /\ \A j \in indexes' : j < client'[d].at
            BY <3>2, <3>3, <3>5
        <3> QED
            BY <3>6, <3>7 DEF IInv, Is, VersionOf
    <2> QED
        BY <2>1, <2>2
<1>8. ASSUME NEW c \in Client, RequestFails(c) PROVE IInv'
    BY <1>8, <1>l, GotoFree DEF RequestFails, docdb
<1>9. ASSUME NEW c \in Client, Delete(c) PROVE IInv'
    <2>1. deletes \in 0..MaxDeletes
        BY DEF TypeOK
    <2>2. deletes' = deletes + 1
        BY <1>9 DEF Delete
    <2>3. deletes' # 0
        BY <2>1, <2>2, BoundsAreNaturals
    <2> QED
        BY <2>3 DEF IInv
<1>10. ASSUME NEW c \in Client, DeleteStep(c) PROVE IInv'
    <2>1. client[c].pc \in Deleting /\ deletes' = deletes
        BY <1>10
        DEF DeleteStep, DeleteKeyspaceExists, DeleteTableExists, DeleteTable,
            Is, Deleting
    <2> QED
        BY <2>1 DEF IInv
<1>11. CASE UNCHANGED vars
    BY <1>11 DEF IInv, Is, VersionOf, vars, docdb
<1> QED
    BY <1>1, <1>2, <1>3, <1>4, <1>5, <1>6, <1>7, <1>8, <1>9, <1>10, <1>11
    DEF Next, EnsureStep

(* As long as no table is deleted, the services past the creation of the   *)
(* table have its version, and the one that creates the indexes has        *)
(* created those before the next.                                          *)
THEOREM Invariance == Spec => []IInv
<1>1. Init => IInv
    <2> SUFFICES ASSUME Init
                 PROVE  IInv
        OBVIOUS
    <2>1. \A c \in Client : client[c].pc = "idle"
        BY DEF Init
    <2> QED
        BY <2>1 DEF IInv, Is, Deleting, PastTable
<1> QED
    BY <1>1, TypeCorrect, InvStep, PTL DEF Spec

(* ensure_table returns only on a table of the version of its caller.      *)
THEOREM RunsOnItsVersion == Spec => []EnsuredIsOfItsVersion
<1>1. IInv => EnsuredIsOfItsVersion
    BY DEF IInv, EnsuredIsOfItsVersion, Ensured, PastTable
<1> QED
    BY <1>1, Invariance, PTL

(* At most one service creates the indexes of the table, which has its     *)
(* version, and none that is there already.                                *)
THEOREM OneCreates == Spec => []OneCreator
<1>1. TypeOK /\ IInv => OneCreator
    <2> SUFFICES ASSUME TypeOK, IInv, deletes = 0
                 PROVE  OneCreator
        BY DEF OneCreator
    <2>1. ASSUME NEW c \in Client, Is(c, "post index")
          PROVE  table = VersionOf(c) /\ client[c].at \notin indexes
        <3>1. table = VersionOf(c)
            BY <2>1 DEF IInv, PastTable, Is
        <3>2. client[c] \in ClientType /\ \A j \in indexes : j < client[c].at
            BY <2>1 DEF IInv, TypeOK
        <3>3. client[c].at \in Nat
            BY <3>2, BoundsAreNaturals DEF ClientType
        <3> QED
            BY <3>1, <3>2, <3>3
    <2> QED
        BY <2>1 DEF OneCreator, IInv
<1> QED
    BY <1>1, TypeCorrect, Invariance, PTL

-----------------------------------------------------------------------------
(***************************************************************************)
(* Without faults the loop on the indexes is not left before its end: the  *)
(* table has them all, or the one service that creates them is at the      *)
(* first that is missing.                                                  *)
(***************************************************************************)
LoopInv ==
    deletes = 0 /\ faults = 0 =>
        /\ \A c \in Client : Is(c, "post index") => indexes = 1..(client[c].at - 1)
        /\ table # NoTable =>
              \/ indexes = 1..Indexes
              \/ \E c \in Client : Is(c, "post index")

LEMMA FaultCounts ==
    ASSUME TypeOK, Fault
    PROVE  faults' # 0
<1>1. faults \in 0..MaxFaults /\ faults' = faults + 1
    BY DEF TypeOK, Fault
<1> QED
    BY <1>1, BoundsAreNaturals

(* The table, its indexes and the loops on them are as they were. *)
LEMMA LoopStays ==
    ASSUME LoopInv, UNCHANGED <<table, indexes>>,
           deletes' = 0 => deletes = 0, faults' = 0 => faults = 0,
           \A d \in Client :
              /\ Is(d, "post index") => client'[d] = client[d] \/ faults' # 0
              /\ client'[d].pc = "post index" => client'[d] = client[d]
    PROVE  LoopInv'
BY DEF LoopInv, Is

(* A call that goes somewhere else, and was not in the loop. *)
LEMMA LoopGoto ==
    ASSUME TypeOK, LoopInv, NEW c \in Client, ~ Is(c, "post index"),
           NEW label, label # "post index", Goto(c, label),
           UNCHANGED <<table, indexes>>,
           deletes' = 0 => deletes = 0, faults' = 0 => faults = 0
    PROVE  LoopInv'
<1>1. /\ \A d \in Client \ {c} : client'[d] = client[d]
      /\ client'[c].pc = label
    BY GotoMoves
<1>2. \A d \in Client :
         /\ Is(d, "post index") => client'[d] = client[d] \/ faults' # 0
         /\ client'[d].pc = "post index" => client'[d] = client[d]
    BY <1>1
<1> QED
    BY <1>2, LoopStays

LEMMA LoopFault ==
    ASSUME TypeOK, Fault
    PROVE  LoopInv'
BY FaultCounts DEF LoopInv

(* The requests that only read, or create a keyspace. *)
LEMMA LoopAnswered ==
    ASSUME TypeOK, LoopInv, NEW c \in Client, ~ Is(c, "post index"),
           NEW label, label # "post index",
           Answered(c, label) \/ (NoFault /\ Goto(c, label)),
           UNCHANGED <<table, indexes, deletes>>
    PROVE  LoopInv'
<1>1. CASE Fault
    BY <1>1, LoopFault
<1>2. CASE NoFault /\ Goto(c, label)
    BY <1>2, LoopGoto DEF NoFault
<1> QED
    BY <1>1, <1>2 DEF Answered

LEMMA LoopCreateTable ==
    ASSUME TypeOK, IInv, LoopInv, NEW c \in Client, CreateTable(c)
    PROVE  LoopInv'
<1>0. ~ Is(c, "post index") /\ deletes' = deletes
    BY DEF CreateTable, Is
<1>1. CASE ~keyspace \/ table # NoTable
    <2>1. NoFault /\ Goto(c, "raised") /\ UNCHANGED <<table, indexes>>
        BY <1>1 DEF CreateTable, Refused
    <2> QED
        BY <1>0, <2>1, LoopGoto DEF NoFault
<1>2. CASE Fault
    BY <1>2, LoopFault
<1>3. CASE keyspace /\ table = NoTable /\ ~ Fault
    <2> SUFFICES ASSUME deletes = 0
                 PROVE  LoopInv'
        BY <1>0 DEF LoopInv
    <2>1. AtIndex(c, 1) /\ indexes' = {}
        BY <1>3 DEF CreateTable
    <2>2. /\ \A d \in Client \ {c} : client'[d] = client[d]
          /\ client'[c].pc = IF 1 > Indexes THEN "created" ELSE "post index"
          /\ client'[c].at = 1
        BY <2>1 DEF AtIndex, TypeOK, LastIndex
    <2>3. \A d \in Client : ~ Is(d, "post index")
        BY <1>3, VersionsAreVersions DEF IInv, PastTable, Is
    <2>4. \A d \in Client \ {c} : client'[d].pc # "post index"
        BY <2>2, <2>3 DEF Is
    <2>5. indexes' = 1..(1 - 1) /\ (1 > Indexes => indexes' = 1..Indexes)
        BY <2>1, BoundsAreNaturals
    <2>6. \A d \in Client : client'[d].pc = "post index" =>
             indexes' = 1..(client'[d].at - 1)
        BY <2>2, <2>4, <2>5
    <2>7. indexes' = 1..Indexes \/ client'[c].pc = "post index"
        BY <2>2, <2>5
    <2> QED
        BY <2>6, <2>7 DEF LoopInv, Is
<1> QED
    BY <1>1, <1>2, <1>3

LEMMA LoopCreateIndex ==
    ASSUME TypeOK, IInv, LoopInv, NEW c \in Client, CreateIndex(c)
    PROVE  LoopInv'
<1>i. PICK i \in 1..Indexes : i = client[c].at
    <2>1. client[c] \in ClientType /\ client[c].pc = "post index"
        BY DEF TypeOK, CreateIndex, Is
    <2>2. client[c].at <= Indexes /\ client[c].at \in 1..(Indexes + 1)
        BY <2>1 DEF TypeOK, ClientType
    <2>3. client[c].at \in 1..Indexes
        BY <2>2, BoundsAreNaturals
    <2> QED
        BY <2>3
<1>0. Is(c, "post index") /\ deletes' = deletes /\ table' = table
    BY DEF CreateIndex
<1>n. i \in Nat /\ i \notin 1..(i - 1) /\ 1..(i - 1) \cup {i} = 1..i
    BY BoundsAreNaturals
<1>1. CASE Fault
    BY <1>1, LoopFault
<1>2. CASE ~ Fault
    <2>1. faults' = faults
        BY <1>2 DEF CreateIndex, NoFault
    <2> SUFFICES ASSUME deletes = 0, faults = 0
                 PROVE  LoopInv'
        BY <1>0, <2>1 DEF LoopInv
    <2>2. table # NoTable /\ indexes = 1..(i - 1)
        BY <1>0, <1>i, VersionsAreVersions DEF IInv, PastTable, LoopInv, Is
    <2>3. i \notin indexes
        BY <1>n, <2>2
    <2>4. AtIndex(c, i + 1) /\ indexes' = indexes \cup {i}
        BY <1>2, <1>i, <2>2, <2>3 DEF CreateIndex
    <2>5. indexes' = 1..i
        BY <1>n, <2>2, <2>4
    <2>6. /\ \A d \in Client \ {c} : client'[d] = client[d]
          /\ client'[c].pc = IF i + 1 > Indexes THEN "created" ELSE "post index"
          /\ client'[c].at = i + 1
        BY <2>4 DEF AtIndex, TypeOK, LastIndex
    <2>7. \A d \in Client \ {c} : client'[d].pc # "post index"
        BY <1>0, <2>6 DEF IInv, Is
    <2>8. \A d \in Client : client'[d].pc = "post index" =>
             indexes' = 1..(client'[d].at - 1)
        <3>1. (i + 1) - 1 = i
            BY <1>n
        <3> QED
            BY <2>5, <2>6, <2>7, <3>1
    <2>9. indexes' = 1..Indexes \/ client'[c].pc = "post index"
        <3>1. i + 1 > Indexes => i = Indexes
            BY BoundsAreNaturals
        <3> QED
            BY <2>5, <2>6, <3>1
    <2> QED
        BY <2>8, <2>9 DEF LoopInv, Is
<1> QED
    BY <1>1, <1>2

LEMMA LoopStep == TypeOK /\ IInv /\ LoopInv /\ [Next]_vars => LoopInv'
<1> SUFFICES ASSUME TypeOK, IInv, LoopInv, [Next]_vars
             PROVE  LoopInv'
    OBVIOUS
<1>1. ASSUME NEW c \in Client, Ensure(c) PROVE LoopInv'
    BY <1>1, LoopGoto DEF Ensure, Outcome, Is, docdb
<1>2. ASSUME NEW c \in Client, KeyspaceExists(c) PROVE LoopInv'
    BY <1>2, LoopAnswered DEF KeyspaceExists, Is, docdb
<1>3. ASSUME NEW c \in Client, CreateKeyspace(c) PROVE LoopInv'
    BY <1>3, LoopAnswered DEF CreateKeyspace, Is
<1>4. ASSUME NEW c \in Client, TableExists(c) PROVE LoopInv'
    BY <1>4, LoopAnswered DEF TableExists, Is, docdb
<1>5. ASSUME NEW c \in Client, GetTable(c) PROVE LoopInv'
    <2>1. Update(c) # "post index"
        BY DEF Update
    <2> QED
        BY <1>5, <2>1, LoopAnswered DEF GetTable, Is, docdb
<1>6. ASSUME NEW c \in Client, RequestFails(c) PROVE LoopInv'
    BY <1>6, LoopFault DEF RequestFails
<1>7. ASSUME NEW c \in Client, Delete(c) PROVE LoopInv'
    <2>1. deletes \in 0..MaxDeletes /\ deletes' = deletes + 1
        BY <1>7 DEF TypeOK, Delete
    <2>2. deletes' # 0
        BY <2>1, BoundsAreNaturals
    <2> QED
        BY <2>2 DEF LoopInv
<1>8. ASSUME NEW c \in Client, DeleteStep(c) PROVE LoopInv'
    <2>1. client[c].pc \in Deleting /\ deletes' = deletes
        BY <1>8
        DEF DeleteStep, DeleteKeyspaceExists, DeleteTableExists, DeleteTable,
            Is, Deleting
    <2>2. deletes' # 0
        BY <2>1 DEF IInv
    <2> QED
        BY <2>2 DEF LoopInv
<1>9. CASE UNCHANGED vars
    BY <1>9 DEF LoopInv, Is, vars, docdb
<1> QED
    BY <1>1, <1>2, <1>3, <1>4, <1>5, <1>6, <1>7, <1>8, <1>9,
       LoopCreateTable, LoopCreateIndex
    DEF Next, EnsureStep

(***************************************************************************)
(* When no request fails and no table is deleted, the services that end    *)
(* leave a table with all its indexes.                                     *)
(***************************************************************************)
THEOREM SettledTable == Spec => []SettledHasIndexes
<1>1. Init => LoopInv
    <2> SUFFICES ASSUME Init
                 PROVE  LoopInv
        OBVIOUS
    <2>1. table = NoTable /\ \A c \in Client : client[c].pc = "idle"
        BY DEF Init
    <2> QED
        BY <2>1 DEF LoopInv, Is
<1>2. Spec => []LoopInv
    BY <1>1, TypeCorrect, Invariance, LoopStep, PTL DEF Spec
<1>3. LoopInv => SettledHasIndexes
    BY DEF LoopInv, SettledHasIndexes, InFlight, Is
<1> QED
    BY <1>2, <1>3, PTL
-----------------------------------------------------------------------------
(* ---- a call ends, a table stays ---- *)

(***************************************************************************)
(* How far a call of ensure_table or delete_table is, in the order of its  *)
(* HTTP requests; a call that is over is at the end, Indexes + 4.          *)
(***************************************************************************)
Order == [l \in InFlight |->
    IF l \in {"keyspaces", "delete: keyspaces"} THEN 0
    ELSE IF l \in {"post keyspace", "delete: tables"} THEN 1
    ELSE IF l \in {"tables", "delete table"} THEN 2 ELSE 3]

Place(r) ==
    IF r.pc \in Outcome THEN Indexes + 4
    ELSE IF r.pc = "post index" THEN 3 + r.at ELSE Order[r.pc]

CallAdvances(c) ==
    client[c].pc \in InFlight =>
        client'[c] = client[c] \/ Place(client[c]) < Place(client'[c])

AllAdvance == \A c \in Client : CallAdvances(c)

(* The places, as numbers. *)
LEMMA PlacesInOrder ==
    /\ \A k \in {0, 1, 2, 3} : k \in 0..(Indexes + 4) /\ k < Indexes + 4
    /\ \A i \in 1..(Indexes + 1) :
          /\ i \in Nat /\ 3 < 3 + i
          /\ i <= Indexes =>
                /\ 3 + i \in 0..(Indexes + 4) /\ 3 + i < Indexes + 4
                /\ i + 1 \in 1..(Indexes + 1) /\ i < i + 1
    /\ \A i, j \in 1..(Indexes + 1) : i < j => 3 + i < 3 + j
    /\ Indexes + 4 \in 0..(Indexes + 4)
    /\ 1 \in 1..(Indexes + 1)
BY BoundsAreNaturals

LEMMA Orders ==
    /\ \A l \in InFlight : l \notin Outcome /\ Order[l] \in {0, 1, 2, 3}
    /\ Order["keyspaces"] = 0 /\ Order["delete: keyspaces"] = 0
    /\ Order["post keyspace"] = 1 /\ Order["delete: tables"] = 1
    /\ Order["tables"] = 2 /\ Order["delete table"] = 2
    /\ Order["get table"] = 3 /\ Order["post table"] = 3
<1>1. \A l \in InFlight : l \notin Outcome
    BY DEF InFlight, Outcome, Deleting
<1>2. \A l \in InFlight : Order[l] \in {0, 1, 2, 3}
    BY Zenon DEF Order
<1>3. /\ Order["keyspaces"] = 0 /\ Order["delete: keyspaces"] = 0
      /\ Order["post keyspace"] = 1 /\ Order["delete: tables"] = 1
      /\ Order["tables"] = 2 /\ Order["delete table"] = 2
      /\ Order["get table"] = 3 /\ Order["post table"] = 3
    BY DEF Order, InFlight, Deleting
<1> QED
    BY <1>1, <1>2, <1>3

(* Where a call is, by its label; there is no way past the end. *)
LEMMA Places ==
    ASSUME TypeOK, NEW c \in Client
    PROVE  /\ client[c].at \in 1..(Indexes + 1)
           /\ Is(c, "post index") => client[c].at <= Indexes
           /\ client[c].pc \in Outcome => Place(client[c]) = Indexes + 4
           /\ Is(c, "post index") => Place(client[c]) = 3 + client[c].at
           /\ client[c].pc \in InFlight \ {"post index"} =>
                 Place(client[c]) = Order[client[c].pc]
           /\ Place(client[c]) \in 0..(Indexes + 4)
           /\ client[c].pc \in InFlight => Place(client[c]) < Indexes + 4
<1>1. Is(c, "post index") => client[c].at <= Indexes
    BY Zenon DEF TypeOK, Is
<1>2. client[c] \in ClientType
    BY Zenon DEF TypeOK
<1>3. client[c].at \in 1..(Indexes + 1) /\ client[c].pc \in InFlight \cup Outcome
    BY <1>2 DEF ClientType
<1>4. "post index" \in InFlight
    BY DEF InFlight
<1>5. /\ client[c].pc \in Outcome => Place(client[c]) = Indexes + 4
      /\ Is(c, "post index") => Place(client[c]) = 3 + client[c].at
      /\ client[c].pc \in InFlight \ {"post index"} =>
            Place(client[c]) = Order[client[c].pc]
    BY <1>4, Orders, Zenon DEF Place, Is
<1>6. CASE client[c].pc \in Outcome
    <2>1. client[c].pc \notin InFlight
        BY <1>6, Orders, Zenon
    <2> QED
        BY <1>1, <1>2, <1>3, <1>5, <1>6, <2>1, PlacesInOrder, Zenon
<1>7. CASE Is(c, "post index")
    BY <1>1, <1>2, <1>3, <1>5, <1>7, PlacesInOrder, Zenon
<1>8. CASE client[c].pc \in InFlight \ {"post index"}
    BY <1>1, <1>2, <1>3, <1>5, <1>8, Orders, PlacesInOrder, Zenon
<1> QED
    BY <1>3, <1>6, <1>7, <1>8, Zenon DEF Is

(* A request that ends the call, or leads to one that comes after it. *)
LEMMA GotoAdvances ==
    ASSUME TypeOK, TypeOK', NEW c \in Client, client[c].pc \in InFlight,
           NEW label, Goto(c, label),
           \/ label \in Outcome
           \/ /\ {client[c].pc, label} \subseteq InFlight \ {"post index"}
              /\ Order[client[c].pc] < Order[label]
    PROVE  Place(client[c]) < Place(client'[c])
<1>1. client'[c].pc = label
    BY GotoMoves
<1>2. client'[c].pc \in Outcome => Place(client'[c]) = Indexes + 4
    BY Zenon DEF Place
<1>3. client'[c].pc \in InFlight \ {"post index"} =>
          Place(client'[c]) = Order[client'[c].pc]
    BY Orders, Zenon DEF Place
<1> QED
    BY <1>1, <1>2, <1>3, Places, Zenon

LEMMA AnsweredAdvances ==
    ASSUME TypeOK, TypeOK', NEW c \in Client, client[c].pc \in InFlight,
           NEW label, Answered(c, label),
           \/ label \in Outcome
           \/ /\ {client[c].pc, label} \subseteq InFlight \ {"post index"}
              /\ Order[client[c].pc] < Order[label]
    PROVE  Place(client[c]) < Place(client'[c])
<1>1. "raised" \in Outcome
    BY DEF Outcome
<1> QED
    BY <1>1, GotoAdvances, Zenon DEF Answered

(* The loop on the indexes, from its start or from one index to the next. *)
LEMMA AtIndexAdvances ==
    ASSUME TypeOK, NEW c \in Client, NEW i \in 1..(Indexes + 1),
           AtIndex(c, i),
           Is(c, "post table") \/ (Is(c, "post index") /\ client[c].at < i)
    PROVE  Place(client[c]) < Place(client'[c])
<1>1. /\ client'[c].pc \in {"created", "post index"}
      /\ client'[c].at = i
    BY AtIndexMoves
<1>2. /\ "created" \in Outcome /\ "post index" \notin Outcome
      /\ "post table" \in InFlight \ {"post index"} /\ "post index" \in InFlight
    BY DEF Outcome, InFlight, Deleting
<1>3. client[c].pc \in InFlight
    BY <1>2, Zenon DEF Is
<1>4. CASE client'[c].pc = "created"
    <2>1. Place(client'[c]) = Indexes + 4
        BY <1>2, <1>4, Zenon DEF Place
    <2> QED
        BY <1>3, <2>1, Places, Zenon
<1>5. CASE client'[c].pc = "post index"
    <2>1. Place(client'[c]) = 3 + i
        BY <1>1, <1>2, <1>5, Zenon DEF Place
    <2>2. CASE Is(c, "post table")
        <3>1. Place(client[c]) = 3
            BY <1>2, <2>2, Places, Orders, Zenon DEF Is
        <3> QED
            BY <2>1, <3>1, PlacesInOrder, Zenon
    <2>3. CASE Is(c, "post index") /\ client[c].at < i
        BY <2>1, <2>3, Places, PlacesInOrder, Zenon
    <2> QED
        BY <2>2, <2>3
<1> QED
    BY <1>1, <1>4, <1>5

LEMMA OwnStepAdvances ==
    ASSUME TypeOK, TypeOK', NEW c \in Client,
           EnsureStep(c) \/ RequestFails(c) \/ DeleteStep(c)
    PROVE  Place(client[c]) < Place(client'[c])
<1>l. /\ {"keyspaces", "post keyspace", "tables", "get table", "post table",
          "delete: keyspaces", "delete: tables", "delete table"}
            \subseteq InFlight \ {"post index"}
      /\ "post index" \in InFlight
    BY DEF InFlight, Deleting
<1>e. {"raised", "deleted", "up-to-date", "major update", "minor update"}
          \subseteq Outcome
    BY DEF Outcome
<1>n. 0 < 1 /\ 0 < 2 /\ 1 < 2 /\ 1 < 3 /\ 2 < 3
    BY SMT
<1>1. ASSUME NEW label \in InFlight \ {"post index"}, Answered(c, label),
             NEW from \in InFlight \ {"post index"}, Is(c, from),
             Order[from] < Order[label]
      PROVE  Place(client[c]) < Place(client'[c])
    BY <1>1, AnsweredAdvances, Zenon DEF Is
<1>2. ASSUME NEW label \in Outcome, Answered(c, label) \/ Goto(c, label),
             client[c].pc \in InFlight
      PROVE  Place(client[c]) < Place(client'[c])
    BY <1>2, GotoAdvances, AnsweredAdvances, Zenon
<1>3. CASE KeyspaceExists(c)
    <2>1. Answered(c, "tables") \/ Answered(c, "post keyspace")
        BY <1>3, Zenon DEF KeyspaceExists
    <2> QED
        BY <1>1, <1>3, <1>l, <1>n, <2>1, Orders, Zenon DEF KeyspaceExists
<1>4. CASE CreateKeyspace(c)
    <2>1. Goto(c, "raised") \/ Answered(c, "tables")
        BY <1>4, Zenon DEF CreateKeyspace
    <2>2. Is(c, "post keyspace") /\ client[c].pc \in InFlight
        BY <1>4, <1>l, Zenon DEF CreateKeyspace, Is
    <2> QED
        BY <1>1, <1>2, <1>l, <1>e, <1>n, <2>1, <2>2, Orders, Zenon
<1>5. CASE TableExists(c)
    <2>1. Answered(c, "post table") \/ Answered(c, "get table")
        BY <1>5, Zenon DEF TableExists
    <2> QED
        BY <1>1, <1>5, <1>l, <1>n, <2>1, Orders, Zenon DEF TableExists
<1>6. CASE GetTable(c)
    <2>1. Update(c) \in Outcome
        BY <1>e, Zenon DEF Update
    <2>2. client[c].pc \in InFlight
        BY <1>6, <1>l, Zenon DEF GetTable, Is
    <2> QED
        BY <1>2, <1>6, <1>e, <2>1, <2>2, Zenon DEF GetTable
<1>7. CASE CreateTable(c)
    <2>1. Is(c, "post table") /\ client[c].pc \in InFlight
        BY <1>7, <1>l, Zenon DEF CreateTable, Is
    <2>2. Goto(c, "raised") \/ AtIndex(c, 1)
        BY <1>7, Zenon DEF CreateTable, Refused
    <2> QED
        BY <1>2, <1>e, <2>1, <2>2, AtIndexAdvances, PlacesInOrder, Zenon
<1>8. CASE CreateIndex(c)
    <2>1. Is(c, "post index") /\ client[c].pc \in InFlight
        BY <1>8, <1>l, Zenon DEF CreateIndex, Is
    <2>2. Goto(c, "raised") \/ AtIndex(c, client[c].at + 1)
        BY <1>8, Zenon DEF CreateIndex
    <2>3. /\ client[c].at + 1 \in 1..(Indexes + 1)
          /\ client[c].at < client[c].at + 1
        BY <2>1, Places, PlacesInOrder, Zenon
    <2> QED
        BY <1>2, <1>e, <2>1, <2>2, <2>3, AtIndexAdvances, Zenon
<1>9. CASE RequestFails(c)
    BY <1>2, <1>9, <1>e, Zenon DEF RequestFails
<1>10. CASE DeleteKeyspaceExists(c)
    <2>1. Answered(c, "delete: tables") \/ Answered(c, "deleted")
        BY <1>10, Zenon DEF DeleteKeyspaceExists
    <2>2. Is(c, "delete: keyspaces") /\ client[c].pc \in InFlight
        BY <1>10, <1>l, Zenon DEF DeleteKeyspaceExists, Is
    <2> QED
        BY <1>1, <1>2, <1>l, <1>e, <1>n, <2>1, <2>2, Orders, Zenon
<1>11. CASE DeleteTableExists(c)
    <2>1. Answered(c, "delete table") \/ Answered(c, "deleted")
        BY <1>11, Zenon DEF DeleteTableExists
    <2>2. Is(c, "delete: tables") /\ client[c].pc \in InFlight
        BY <1>11, <1>l, Zenon DEF DeleteTableExists, Is
    <2> QED
        BY <1>1, <1>2, <1>l, <1>e, <1>n, <2>1, <2>2, Orders, Zenon
<1>12. CASE DeleteTable(c)
    <2>1. Goto(c, "raised") \/ Answered(c, "deleted")
        BY <1>12, Zenon DEF DeleteTable
    <2>2. client[c].pc \in InFlight
        BY <1>12, <1>l, Zenon DEF DeleteTable, Is
    <2> QED
        BY <1>2, <1>e, <2>1, <2>2, Zenon
<1> QED
    BY <1>3, <1>4, <1>5, <1>6, <1>7, <1>8, <1>9, <1>10, <1>11, <1>12
    DEF EnsureStep, DeleteStep

(* What a step of a service leaves of the call of another. *)
LEMMA OthersStay ==
    ASSUME TypeOK, NEW c \in Client, NEW d \in Client \ {c},
           \/ Ensure(d) \/ EnsureStep(d) \/ RequestFails(d)
           \/ Delete(d) \/ DeleteStep(d)
    PROVE  client'[c] = client[c]
<1>1. (\E label : Goto(d, label)) \/ (\E i : AtIndex(d, i))
    BY DEF Ensure, EnsureStep, RequestFails, Delete, DeleteStep,
           KeyspaceExists, CreateKeyspace, TableExists, GetTable, CreateTable,
           CreateIndex, DeleteKeyspaceExists, DeleteTableExists, DeleteTable,
           Answered, Refused
<1> QED
    BY <1>1, GotoMoves, AtIndexMoves

(***************************************************************************)
(* A call of ensure_table or delete_table never sends a request twice and  *)
(* never goes back: each of its requests takes it closer to its end, in at *)
(* most Indexes + 4 of them, whatever the other services do and whichever  *)
(* answers are lost.  What is left of EnsureConverges is that services     *)
(* start again.                                                            *)
(***************************************************************************)
THEOREM CallsOnlyAdvance == Spec => [][AllAdvance]_vars
<1>1. TypeOK /\ [Next]_vars => AllAdvance
    <2> SUFFICES ASSUME TypeOK, [Next]_vars, NEW c \in Client,
                        client[c].pc \in InFlight
                 PROVE  \/ client'[c] = client[c]
                        \/ Place(client[c]) < Place(client'[c])
        BY DEF AllAdvance, CallAdvances
    <2>1. ~ Ensure(c) /\ ~ Delete(c)
        BY DEF Ensure, Delete, InFlight, Outcome, Deleting
    <2>2. CASE EnsureStep(c) \/ RequestFails(c) \/ DeleteStep(c)
        BY <2>2, TypeStep, OwnStepAdvances
    <2>3. CASE UNCHANGED vars
        BY <2>3 DEF vars
    <2> QED
        BY <2>1, <2>2, <2>3, OthersStay DEF Next
<1> QED
    BY <1>1, TypeCorrect, PTL DEF Spec

(* Indexes are those of a table. *)
Bare == table = NoTable => indexes = {}

TableStays ==
    deletes' = 0 /\ table # NoTable =>
        table' = table /\ indexes \subseteq indexes'

LEMMA TableStep ==
    TypeOK /\ IInv /\ Bare /\ [Next]_vars => Bare' /\ TableStays
<1> SUFFICES ASSUME TypeOK, IInv, Bare, [Next]_vars
             PROVE  Bare' /\ TableStays
    OBVIOUS
<1>1. CASE UNCHANGED <<table, indexes>>
    BY <1>1 DEF Bare, TableStays
<1>2. ASSUME NEW c \in Client, CreateTable(c)
      PROVE  Bare' /\ TableStays
    BY <1>2, VersionsAreVersions DEF CreateTable, Bare, TableStays
<1>3. ASSUME NEW c \in Client, CreateIndex(c)
      PROVE  Bare' /\ TableStays
    BY <1>3 DEF CreateIndex, Bare, TableStays
<1>4. ASSUME NEW c \in Client, DeleteTable(c)
      PROVE  Bare' /\ TableStays
    <2>1. deletes' = deletes /\ client[c].pc \in Deleting
        BY <1>4 DEF DeleteTable, Is, Deleting
    <2>2. deletes' # 0
        BY <2>1 DEF IInv
    <2> QED
        BY <1>4, <2>2 DEF DeleteTable, Bare, TableStays
<1>5. ASSUME NEW c \in Client,
             \/ Ensure(c) \/ RequestFails(c) \/ Delete(c)
             \/ KeyspaceExists(c) \/ CreateKeyspace(c)
             \/ TableExists(c) \/ GetTable(c)
             \/ DeleteKeyspaceExists(c) \/ DeleteTableExists(c)
      PROVE  UNCHANGED <<table, indexes>>
    BY <1>5
    DEF Ensure, RequestFails, Delete, KeyspaceExists, CreateKeyspace,
        TableExists, GetTable, DeleteKeyspaceExists, DeleteTableExists, docdb
<1> QED
    BY <1>1, <1>2, <1>3, <1>4, <1>5 DEF Next, EnsureStep, DeleteStep, vars, docdb

(***************************************************************************)
(* As long as no table is deleted, a table that exists keeps its version   *)
(* and loses no index: a service that starts late, or whose view of DocDb  *)
(* is stale, never replaces what another one has created.                  *)
(***************************************************************************)
THEOREM NothingReplaced == Spec => [][TableStays]_vars
<1>1. Init => Bare
    BY DEF Init, Bare
<1> QED
    BY <1>1, TableStep, TypeCorrect, Invariance, PTL DEF Spec
=============================================================================
