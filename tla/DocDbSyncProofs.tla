-------------------------- MODULE DocDbSyncProofs --------------------------
(***************************************************************************)
(* DocDbSync, for every list of documents, size of the batches, number of  *)
(* requests and of failures: what the page is told of is in DocDb.         *)
(***************************************************************************)
EXTENDS DocDbSync, TLAPS

(* Every document is in one of the batches of chunk. *)
LEMMA ChunksCover ==
    \A d \in Doc : \E i \in 1..Chunks : d \in Chunk(i)
<1> SUFFICES ASSUME NEW d \in Doc
             PROVE  \E i \in 1..Chunks : d \in Chunk(i)
    OBVIOUS
<1> DEFINE i == (d + ChunkSize - 1) \div ChunkSize
<1>1. /\ d \in Nat /\ d >= 1 /\ d <= Documents
      /\ Documents \in Nat /\ ChunkSize \in Nat /\ ChunkSize > 0
    BY SyncAssumption DEF Doc
<1>2. /\ i \in Int
      /\ i * ChunkSize <= d + ChunkSize - 1
      /\ d + ChunkSize - 1 < (i + 1) * ChunkSize
    BY <1>1, Z3T(30)
<1>3. /\ Chunks \in Int
      /\ Chunks * ChunkSize <= Documents + ChunkSize - 1
      /\ Documents + ChunkSize - 1 < (Chunks + 1) * ChunkSize
    BY <1>1, Z3T(30) DEF Chunks
<1> HIDE DEF i
<1>4. i >= 1
    BY <1>1, <1>2, Z3T(30)
<1>5. i <= Chunks
    BY <1>1, <1>2, <1>3, Z3T(30)
<1>6. (i - 1) * ChunkSize < d /\ d <= i * ChunkSize
    BY <1>1, <1>2, Z3T(30)
<1> QED
    BY <1>2, <1>3, <1>4, <1>5, <1>6 DEF Chunk

(* ---- type correctness ---- *)

(* The batches are counted by a natural number. *)
LEMMA ChunksNat == Chunks \in Nat
<1>1. /\ Documents \in Nat /\ ChunkSize \in Nat /\ ChunkSize > 0
    BY SyncAssumption
<1>2. /\ Chunks \in Int
      /\ Documents + ChunkSize - 1 < (Chunks + 1) * ChunkSize
    BY <1>1, Z3T(30) DEF Chunks
<1> QED
    BY <1>1, <1>2, Z3T(30)

LEMMA TypeStep == TypeOK /\ [Next]_vars => TypeOK'
<1> SUFFICES ASSUME TypeOK, [Next]_vars
             PROVE  TypeOK'
    OBVIOUS
<1> USE ChunksNat, SyncAssumption, PortAssumption
<1>1. ASSUME NEW n \in Ns, Status(n) PROVE TypeOK'
    <2>1. leaving' \in BOOLEAN /\ overtook' \in BOOLEAN /\ dropped' \in BOOLEAN
        BY <1>1, Zenon DEF TypeOK, PortTypeOK, Status, Forward, Kill, Taken
    <2>2. /\ forwards' \in 0..MaxForwards /\ starting' \in [Ns -> Nat]
          /\ UNCHANGED <<listening, stored, sync, faults>>
        BY <1>1 DEF TypeOK, PortTypeOK, Status, Forward
    <2> QED
        BY <2>1, <2>2 DEF TypeOK, PortTypeOK
<1>2. ASSUME NEW s \in Sync, NEW n \in Ns, Request(s, n) PROVE TypeOK'
    <2>1. IdleSync \in SyncType
        BY DEF IdleSync, SyncType
    <2> QED
        BY <1>2, <2>1
        DEF TypeOK, PortTypeOK, Request, Put, SyncType, IdleSync, port
<1>3. ASSUME NEW s \in Sync, SyncStep(s) PROVE TypeOK'
    <2>1. CASE Token(s)
        BY <2>1 DEF TypeOK, PortTypeOK, Token, Put, SyncType, Fault, port
    <2>2. CASE StartBatch(s)
        <3> DEFINE i == sync[s].batch + 1
        <3>1. Chunk(i) \in SUBSET Doc
            BY DEF Chunk
        <3>2. sync[s] \in SyncType /\ sync \in [Sync -> SyncType]
            BY DEF TypeOK
        <3>3. i \in 0..Chunks /\ i - 1 \in 0..Chunks
            BY <2>2, <3>2 DEF StartBatch, SyncType
        <3>4. [sync[s] EXCEPT !.pc = "posting", !.batch = i, !.posts = Chunk(i),
                              !.progress = i - 1] \in SyncType
            BY <3>1, <3>2, <3>3 DEF SyncType
        <3>5. sync' \in [Sync -> SyncType]
            BY <2>2, <3>2, <3>4 DEF StartBatch, Put
        <3> QED
            BY <2>2, <3>5 DEF TypeOK, PortTypeOK, StartBatch, port
    <2>3. CASE \E d \in Doc : Export(s, d)
        BY <2>3 DEF TypeOK, PortTypeOK, Export, Put, SyncType, port
    <2>4. CASE ExportFails(s)
        <3>1. stored' \in [Ns -> SUBSET Doc]
            BY <2>4 DEF TypeOK, PortTypeOK, ExportFails, SyncType
        <3>2. sync' \in [Sync -> SyncType]
            <4>1. sync[s] \in SyncType /\ sync \in [Sync -> SyncType]
                BY DEF TypeOK
            <4>2. [sync[s] EXCEPT !.pc = "failed", !.posts = {}] \in SyncType
                BY <4>1 DEF SyncType
            <4> QED
                BY <2>4, <4>1, <4>2 DEF ExportFails, Put
        <3> QED
            BY <2>4, <3>1, <3>2 DEF TypeOK, PortTypeOK, ExportFails, Fault, port
    <2>5. CASE EndBatch(s)
        BY <2>5 DEF TypeOK, PortTypeOK, EndBatch, Put, SyncType, port
    <2>6. CASE Finish(s)
        <3>1. sync[s] \in SyncType /\ sync \in [Sync -> SyncType]
            BY DEF TypeOK
        <3>2. Chunks \in 0..Chunks
            OBVIOUS
        <3>3. [sync[s] EXCEPT !.pc = "done", !.progress = Chunks] \in SyncType
            BY <3>1, <3>2 DEF SyncType
        <3>4. [sync[s] EXCEPT !.pc = "failed"] \in SyncType
            BY <3>1 DEF SyncType
        <3>5. sync' \in [Sync -> SyncType]
            BY <2>6, <3>1, <3>3, <3>4 DEF Finish, Put
        <3> QED
            BY <2>6, <3>5 DEF TypeOK, PortTypeOK, Finish, Fault, port
    <2> QED
        BY <1>3, <2>1, <2>2, <2>3, <2>4, <2>5, <2>6 DEF SyncStep
<1>4. CASE Kubectl
    <2>1. CASE \E n \in Ns : Bind(n) /\ UNCHANGED <<stored, sync, faults>>
        BY <2>1 DEF TypeOK, PortTypeOK, Bind
    <2>2. CASE Fault /\ Drop /\ UNCHANGED <<stored, sync>>
        BY <2>2 DEF TypeOK, PortTypeOK, Drop, Fault
    <2>3. CASE Leave /\ UNCHANGED <<stored, sync, faults>>
        BY <2>3 DEF TypeOK, PortTypeOK, Leave
    <2> QED
        BY <1>4, <2>1, <2>2, <2>3 DEF Kubectl
<1>5. CASE UNCHANGED vars
    BY <1>5 DEF TypeOK, PortTypeOK, vars, port
<1> QED
    BY <1>1, <1>2, <1>3, <1>4, <1>5 DEF Next

(***************************************************************************)
(* The requests, the posts they wait for and what the pages are told stay  *)
(* within the batches the documents are cut in.                            *)
(***************************************************************************)
THEOREM TypeCorrect == Spec => []TypeOK
<1>1. Init => TypeOK
    <2>1. IdleSync \in SyncType
        BY ChunksNat DEF IdleSync, SyncType
    <2>2. Init => PortTypeOK
        <3>1. Init => /\ leaving \in BOOLEAN
                      /\ overtook \in BOOLEAN /\ dropped \in BOOLEAN
            BY Zenon DEF Init, PortInit
        <3>2. Init => /\ listening \in Ns \cup {NoNs}
                      /\ starting \in [Ns -> Nat]
                      /\ forwards \in 0..MaxForwards
            BY PortAssumption DEF Init, PortInit
        <3> QED
            BY <3>1, <3>2 DEF PortTypeOK
    <2>3. Init => stored \in [Ns -> SUBSET Doc] /\ sync \in [Sync -> SyncType]
        BY <2>1 DEF Init
    <2>4. Init => faults \in 0..MaxFaults
        BY SyncAssumption DEF Init
    <2> QED
        BY <2>2, <2>3, <2>4 DEF TypeOK
<1>2. TypeOK /\ [Next]_vars => TypeOK'
    BY TypeStep
<1> QED
    BY <1>1, <1>2, PTL DEF Spec

-----------------------------------------------------------------------------
(* ---- what the page is told ---- *)

(* The configuration deploys DocDb in one namespace. *)
OneNamespace == \A m, n \in Ns : m = n

(* Documents are never taken away from DocDb. *)
LEMMA StoredGrows ==
    ASSUME TypeOK, Next
    PROVE  \A n \in Ns : stored[n] \subseteq stored'[n]
<1>1. ASSUME NEW s \in Sync, SyncStep(s)
      PROVE  \A n \in Ns : stored[n] \subseteq stored'[n]
    BY <1>1 DEF TypeOK, PortTypeOK, SyncStep, Token, StartBatch, Export,
                ExportFails, EndBatch, Finish
<1> QED
    BY <1>1 DEF Next, Status, Request, Kubectl

(* A request that does not move stays backed while DocDb grows. *)
LEMMA BackedStays ==
    ASSUME NEW r, NEW S, NEW T, Backed(r, S), S[r.ns] \subseteq T[r.ns],
           T[r.ns] \subseteq Doc
    PROVE  Backed(r, T)
BY DEF Backed, Posted

(* The namespace of a request is the one of its url. *)
LEMMA SyncKeepsNs ==
    ASSUME TypeOK, NEW s \in Sync, SyncStep(s)
    PROVE  sync'[s].ns = sync[s].ns
<1>1. sync \in [Sync -> SyncType] /\ sync[s] \in SyncType
    BY DEF TypeOK
<1>2. CASE Token(s)
    BY <1>1, <1>2 DEF Token, Put, SyncType
<1>3. CASE StartBatch(s)
    BY <1>1, <1>3 DEF StartBatch, Put, SyncType
<1>4. CASE \E d \in Doc : Export(s, d)
    BY <1>1, <1>4 DEF Export, Put, SyncType
<1>5. CASE ExportFails(s)
    BY <1>1, <1>5 DEF ExportFails, Put, SyncType
<1>6. CASE EndBatch(s)
    BY <1>1, <1>6 DEF EndBatch, Put, SyncType
<1>7. CASE Finish(s)
    <2>1. CASE sync' = Put(s, [sync[s] EXCEPT !.pc = "done",
                                              !.progress = Chunks])
        BY <1>1, <2>1 DEF Put, SyncType
    <2>2. CASE sync' = Put(s, [sync[s] EXCEPT !.pc = "failed"])
        BY <1>1, <2>2 DEF Put, SyncType
    <2> QED
        BY <1>7, <2>1, <2>2, Zenon DEF Finish
<1> QED
    BY <1>2, <1>3, <1>4, <1>5, <1>6, <1>7 DEF SyncStep

LEMMA BackedStep ==
    ASSUME OneNamespace, TypeOK, IInv, [Next]_vars
    PROVE  IInv'
<1> USE ChunksNat, SyncAssumption, PortAssumption
<1>0. TypeOK'
    BY TypeStep
<1>1. CASE UNCHANGED vars
    BY <1>1 DEF IInv, vars, Backed, Posted
<1>2. CASE Next
    <2> SUFFICES ASSUME NEW u \in Sync, sync'[u].ns # NoNs
                 PROVE  Backed(sync'[u], stored')
        BY DEF IInv
    <2>1. CASE sync'[u] = sync[u]
        <3>1. Backed(sync[u], stored)
            BY <2>1 DEF IInv
        <3>2. sync[u].ns \in Ns
            BY <3>1 DEF Backed
        <3> QED
            BY <1>0, <1>2, <2>1, <3>1, <3>2, StoredGrows, BackedStays DEF TypeOK
    <2>2. ASSUME NEW n \in Ns, Request(u, n)
          PROVE  Backed(sync'[u], stored')
        BY <2>2 DEF Request, Put, IdleSync, Backed, Posted, TypeOK
    <2>3. ASSUME SyncStep(u)
          PROVE  Backed(sync'[u], stored')
        <3> DEFINE r == sync[u]
        <3>1. r \in SyncType /\ sync'[u].ns = r.ns /\ r.ns \in Ns
              /\ Backed(r, stored)
            <4>1. r \in SyncType
                BY DEF TypeOK
            <4>2. sync'[u].ns = r.ns
                BY <2>3, SyncKeepsNs
            <4>3. Backed(r, stored)
                BY <4>2 DEF IInv
            <4> QED
                BY <4>1, <4>2, <4>3 DEF Backed
        <3>2. CASE Token(u)
            BY <3>1, <3>2 DEF Token, Put, Backed, Posted, SyncType, TypeOK
        <3>3. CASE StartBatch(u)
            BY <3>1, <3>3 DEF StartBatch, Put, Backed, Posted, SyncType, TypeOK
        <3>4. ASSUME NEW d \in Doc, Export(u, d)
              PROVE  Backed(sync'[u], stored')
            <4>1. listening = r.ns
                BY <3>1, <3>4 DEF OneNamespace, Export, TypeOK, PortTypeOK
            <4>2. stored'[r.ns] = stored[r.ns] \cup {d}
                BY <3>1, <3>4, <4>1 DEF Export, TypeOK
            <4>3. sync'[u] = [r EXCEPT !.posts = @ \ {d}] /\ r.pc = "posting"
                BY <3>4 DEF Export, Put, TypeOK
            <4> QED
                BY <3>1, <4>2, <4>3 DEF Backed, Posted, SyncType
        <3>5. CASE ExportFails(u)
            <4>1. sync'[u] = [r EXCEPT !.pc = "failed", !.posts = {}]
                BY <3>5 DEF ExportFails, Put, TypeOK
            <4>2. stored[r.ns] \subseteq stored'[r.ns]
                BY <1>2, <3>1, StoredGrows
            <4> QED
                BY <3>1, <4>1, <4>2 DEF Backed, Posted, SyncType
        <3>6. CASE EndBatch(u)
            <4>1. sync'[u] = [r EXCEPT !.pc = "next"] /\ stored' = stored
                  /\ r.pc = "posting" /\ r.posts = {}
                BY <3>6 DEF EndBatch, Put, TypeOK
            <4> QED
                BY <3>1, <4>1 DEF Backed, Posted, SyncType
        <3>7. CASE Finish(u)
            <4>1. Doc \subseteq stored[r.ns]
                BY <3>1, <3>7, ChunksCover DEF Finish, Backed, Posted
            <4>2. stored[r.ns] = Doc /\ stored' = stored
                BY <3>1, <3>7, <4>1 DEF TypeOK, Finish
            <4>3. Posted(r, Chunks, stored)
                BY <3>1, <3>7 DEF Finish, Backed
            <4>4. \/ sync'[u] = [r EXCEPT !.pc = "done", !.progress = Chunks]
                  \/ sync'[u] = [r EXCEPT !.pc = "failed"]
                BY <3>7 DEF Finish, Put, TypeOK
            <4> QED
                BY <3>1, <4>2, <4>3, <4>4 DEF Backed, Posted, SyncType
        <3> QED
            BY <2>3, <3>2, <3>3, <3>4, <3>5, <3>6, <3>7 DEF SyncStep
    <2>4. ASSUME NEW s \in Sync, s # u,
                 SyncStep(s) \/ \E n \in Ns : Request(s, n)
          PROVE  Backed(sync'[u], stored')
        <3>1. sync'[u] = sync[u]
            BY <2>4 DEF Request, SyncStep, Token, StartBatch, Export,
                        ExportFails, EndBatch, Finish, Put, TypeOK
        <3> QED
            BY <2>1, <3>1
    <2>5. CASE (\E n \in Ns : Status(n)) \/ Kubectl
        <3>1. sync'[u] = sync[u]
            BY <2>5 DEF Status, Kubectl
        <3> QED
            BY <2>1, <3>1
    <2> QED
        BY <1>2, <2>2, <2>3, <2>4, <2>5 DEF Next
<1> QED
    BY <1>1, <1>2

(***************************************************************************)
(* The inductive invariant of DocDbSync holds when DocDb is deployed in    *)
(* one namespace.                                                          *)
(***************************************************************************)
THEOREM Invariance ==
    ASSUME OneNamespace
    PROVE  Spec => []IInv
<1>1. Init => IInv
    BY DEF Init, IInv, IdleSync
<1>2. TypeOK /\ IInv /\ [Next]_vars => IInv'
    BY BackedStep
<1> QED
    BY <1>1, <1>2, TypeCorrect, PTL DEF Spec

(***************************************************************************)
(* What sync_local_tables tells the page is true, for every number of      *)
(* documents and size of the batches: the documents of the batches behind  *)
(* the progress are in DocDb, and all of them when it says it is done.     *)
(***************************************************************************)
THEOREM ProgressIsTrue ==
    ASSUME OneNamespace
    PROVE  Spec => []ProgressIsBacked
<1>1. IInv => ProgressIsBacked
    BY DEF IInv, Backed, Posted, ProgressIsBacked
<1> QED
    BY <1>1, Invariance, PTL

-----------------------------------------------------------------------------
(* ---- the local port ---- *)

(***************************************************************************)
(* The inductive invariant: only a process that was told to stop by a call *)
(* that found the port held leaves it; when the last call found it free, a *)
(* process holds it or one is about to, unless it died by itself.          *)
(***************************************************************************)
PortInv ==
    /\ leaving => Taken /\ overtook
    /\ forwards > 0 /\ ~overtook /\ ~dropped =>
          Taken \/ \E n \in Ns : starting[n] > 0

LEMMA PortStep == TypeOK /\ PortInv /\ [Next]_vars => PortInv'
<1> SUFFICES ASSUME TypeOK, PortInv, [Next]_vars
             PROVE  PortInv'
    OBVIOUS
<1> USE DEF PortInv, Taken
<1>1. starting \in [Ns -> Nat] /\ NoNs \notin Ns
    BY PortAssumption DEF TypeOK, PortTypeOK
<1>2. ASSUME NEW n \in Ns, Status(n)
      PROVE  PortInv'
    <2>1. starting'[n] > 0
        BY <1>1, <1>2 DEF Status, Forward
    <2> QED
        BY <1>2, <2>1 DEF Status, Forward, Kill
<1>3. ASSUME NEW n \in Ns, Bind(n)
      PROVE  PortInv'
    BY <1>1, <1>3 DEF Bind
<1>4. CASE Leave
    BY <1>4 DEF Leave
<1>5. CASE Drop
    BY <1>5 DEF Drop
<1>6. CASE UNCHANGED port
    BY <1>6 DEF port
<1>7. ASSUME NEW s \in Sync, SyncStep(s) \/ \E n \in Ns : Request(s, n)
      PROVE  UNCHANGED port
    BY <1>7 DEF SyncStep, Token, StartBatch, Export, ExportFails, EndBatch,
                Finish, Request
<1>8. UNCHANGED vars => UNCHANGED port
    BY DEF vars
<1> QED
    BY <1>2, <1>3, <1>4, <1>5, <1>6, <1>7, <1>8 DEF Next, Kubectl

(***************************************************************************)
(* The port recovers: whatever the namespaces k8s_port_forward was called  *)
(* for, the processes it has told to stop, the order they end in and the   *)
(* order the new ones bind the port in, a call that finds the port free    *)
(* leaves it served or about to be.                                        *)
(***************************************************************************)
THEOREM PortIsRecovered == Spec => []PortRecovers
<1>1. Init => PortInv
    BY DEF Init, PortInit, PortInv
<1>2. TypeOK /\ PortInv => PortRecovers
    BY DEF TypeOK, PortTypeOK, PortInv, PortRecovers, Settled
<1> QED
    BY <1>1, <1>2, PortStep, TypeCorrect, PTL DEF Spec
-----------------------------------------------------------------------------
(* ---- DocDb in several namespaces ---- *)

(***************************************************************************)
(* The port of DocDb is one for all its namespaces (see                    *)
(* DocumentsGoToTheirNamespace), so with several of them the documents may *)
(* end in any.  They are in one of them all the same, and the progress     *)
(* counts no document that was posted nowhere.                             *)
(***************************************************************************)
Held == UNION {stored[n] : n \in Ns}

(* The batches up to last are somewhere. *)
Somewhere(last, H) == \A i \in 1..last : Chunk(i) \subseteq H

ProgressIsSomewhere ==
    \A s \in Sync : /\ Somewhere(sync[s].progress, Held)
                    /\ sync[s].pc = "done" => Held = Doc

(* What Backed says of the namespace of a request, of all of them. *)
Kept(r, H) ==
    /\ Somewhere(r.progress, H)
    /\ r.pc = "token" => r.batch = 0
    /\ r.pc = "next" => Somewhere(r.batch, H)
    /\ r.pc = "posting" => /\ r.batch > 0
                           /\ Somewhere(r.batch - 1, H)
                           /\ Chunk(r.batch) \ r.posts \subseteq H
    /\ r.pc = "done" => H = Doc

KeptInv == \A s \in Sync : Kept(sync[s], Held)

LEMMA KeptStays ==
    ASSUME NEW r, NEW H, NEW I, Kept(r, H), H \subseteq I, I \subseteq Doc
    PROVE  Kept(r, I)
BY DEF Kept, Somewhere

LEMMA HeldGrows ==
    ASSUME TypeOK, [Next]_vars
    PROVE  Held \subseteq Held' /\ Held' \subseteq Doc
<1>1. \A n \in Ns : stored[n] \subseteq stored'[n]
    BY StoredGrows DEF vars
<1>2. \A n \in Ns : stored'[n] \subseteq Doc
    BY TypeStep DEF TypeOK
<1> QED
    BY <1>1, <1>2 DEF Held

(* A step of a request, whichever namespaces its posts arrive at. *)
LEMMA KeptGoesOn ==
    ASSUME TypeOK, KeptInv, NEW s \in Sync, SyncStep(s)
    PROVE  Kept(sync'[s], Held')
<1> USE ChunksNat
<1> DEFINE r == sync[s]
<1>1. r \in SyncType /\ sync \in [Sync -> SyncType] /\ Kept(r, Held)
    BY DEF TypeOK, KeptInv
<1>2. Held \subseteq Held' /\ Held' \subseteq Doc
    BY HeldGrows DEF Next
<1>3. CASE Token(s)
    <2>1. /\ r.pc = "token"
          /\ \/ sync'[s] = [r EXCEPT !.pc = "next"]
             \/ sync'[s] = [r EXCEPT !.pc = "failed"]
        BY <1>1, <1>3 DEF Token, Put
    <2> QED
        BY <1>1, <1>2, <2>1 DEF Kept, Somewhere, SyncType
<1>4. CASE StartBatch(s)
    <2>1. r.pc = "next" /\ r.batch \in Nat
        BY <1>1, <1>4 DEF StartBatch, SyncType
    <2>2. (r.batch + 1) - 1 = r.batch
        BY <2>1
    <2>3. sync'[s] = [r EXCEPT !.pc = "posting", !.batch = r.batch + 1,
                               !.posts = Chunk(r.batch + 1),
                               !.progress = r.batch]
        BY <1>1, <1>4, <2>2 DEF StartBatch, Put
    <2> QED
        BY <1>1, <1>2, <2>1, <2>2, <2>3 DEF Kept, Somewhere, SyncType
<1>5. ASSUME NEW d \in Doc, Export(s, d)
      PROVE  Kept(sync'[s], Held')
    <2>1. listening \in Ns /\ d \in stored'[listening]
        BY <1>5 DEF Export, TypeOK, PortTypeOK
    <2>2. d \in Held'
        BY <1>5, <2>1 DEF Export, PortTypeOK, Held
    <2>3. r.pc = "posting" /\ sync'[s] = [r EXCEPT !.posts = @ \ {d}]
        BY <1>1, <1>5 DEF Export, Put
    <2> QED
        BY <1>1, <1>2, <2>2, <2>3 DEF Kept, Somewhere, SyncType
<1>6. CASE ExportFails(s)
    <2>1. sync'[s] = [r EXCEPT !.pc = "failed", !.posts = {}]
        BY <1>1, <1>6 DEF ExportFails, Put
    <2> QED
        BY <1>1, <1>2, <2>1 DEF Kept, Somewhere, SyncType
<1>7. CASE EndBatch(s)
    <2>1. /\ sync'[s] = [r EXCEPT !.pc = "next"]
          /\ r.pc = "posting" /\ r.posts = {}
        BY <1>1, <1>7 DEF EndBatch, Put
    <2> QED
        BY <1>1, <1>2, <2>1 DEF Kept, Somewhere, SyncType
<1>8. CASE Finish(s)
    <2>1. /\ r.pc = "next" /\ r.batch = Chunks
          /\ \/ sync'[s] = [r EXCEPT !.pc = "done", !.progress = Chunks]
             \/ sync'[s] = [r EXCEPT !.pc = "failed"]
        BY <1>1, <1>8 DEF Finish, Put
    <2>2. Somewhere(Chunks, Held)
        BY <1>1, <2>1 DEF Kept
    <2>3. Doc \subseteq Held
        BY <2>2, ChunksCover DEF Somewhere
    <2>4. Held' = Doc
        BY <1>2, <2>3
    <2> QED
        BY <1>1, <1>2, <2>1, <2>2, <2>4 DEF Kept, Somewhere, SyncType
<1> QED
    BY <1>3, <1>4, <1>5, <1>6, <1>7, <1>8 DEF SyncStep

LEMMA KeptStep == TypeOK /\ KeptInv /\ [Next]_vars => KeptInv'
<1> SUFFICES ASSUME TypeOK, KeptInv, [Next]_vars, NEW u \in Sync
             PROVE  Kept(sync'[u], Held')
    BY DEF KeptInv
<1>1. CASE sync'[u] = sync[u]
    BY <1>1, HeldGrows, KeptStays DEF KeptInv
<1>2. CASE SyncStep(u)
    BY <1>2, KeptGoesOn
<1>3. ASSUME NEW n \in Ns, Request(u, n)
      PROVE  Kept(sync'[u], Held')
    BY <1>3 DEF Request, Put, IdleSync, Kept, Somewhere, TypeOK
<1>4. ASSUME NEW s \in Sync, s # u,
             SyncStep(s) \/ \E n \in Ns : Request(s, n)
      PROVE  sync'[u] = sync[u]
    BY <1>4 DEF Request, SyncStep, Token, StartBatch, Export, ExportFails,
                EndBatch, Finish, Put, TypeOK
<1>5. CASE (\E n \in Ns : Status(n)) \/ Kubectl \/ UNCHANGED vars
    BY <1>1, <1>5 DEF Status, Kubectl, vars
<1> QED
    BY <1>1, <1>2, <1>3, <1>4, <1>5 DEF Next

(***************************************************************************)
(* Whatever the namespaces DocDb is deployed in and however the port moves *)
(* from one to another during a synchronisation, a document of a batch the *)
(* page was told of is in a DocDb, and all of them are when it was told    *)
(* that the synchronisation is done: nothing is skipped or counted twice.  *)
(***************************************************************************)
THEOREM NothingIsDropped == Spec => []ProgressIsSomewhere
<1>1. Init => KeptInv
    BY DEF Init, KeptInv, Kept, Somewhere, IdleSync
<1>2. KeptInv => ProgressIsSomewhere
    BY DEF KeptInv, Kept, ProgressIsSomewhere
<1> QED
    BY <1>1, <1>2, KeptStep, TypeCorrect, PTL DEF Spec
-----------------------------------------------------------------------------
(* ---- a synchronisation goes on ---- *)

(* A request that is under way, and where a step of its own leads it. *)
Under == {"token", "next", "posting"}

Advances(r, q) ==
    /\ q.ns = r.ns
    /\ r.progress <= q.progress
    /\ \/ q.pc \in {"done", "failed"}
       \/ r.pc = "token" /\ q.pc = "next" /\ q.batch = r.batch
       \/ r.pc = "next" /\ q.pc = "posting" /\ q.batch = r.batch + 1
       \/ /\ r.pc = "posting" /\ q.pc = "posting" /\ q.batch = r.batch
          /\ q.posts \subseteq r.posts /\ q.posts # r.posts
       \/ /\ r.pc = "posting" /\ q.pc = "next" /\ q.batch = r.batch
          /\ r.posts = {}

AllAdvance ==
    \A s \in Sync : sync[s].pc \in Under =>
        sync'[s] = sync[s] \/ Advances(sync[s], sync'[s])

(* The page is never told of more batches than were started. *)
Counted == \A s \in Sync : sync[s].progress <= sync[s].batch

LEMMA StepAdvances ==
    ASSUME TypeOK, Counted, NEW s \in Sync, SyncStep(s)
    PROVE  Advances(sync[s], sync'[s]) /\ sync'[s].progress <= sync'[s].batch
<1> USE ChunksNat
<1> DEFINE r == sync[s]
<1>1. /\ r \in SyncType /\ sync \in [Sync -> SyncType]
      /\ r.progress <= r.batch /\ r.progress \in Nat /\ r.batch \in Nat
    BY DEF TypeOK, Counted, SyncType
<1>2. CASE Token(s)
    <2>1. /\ r.pc = "token"
          /\ \/ sync'[s] = [r EXCEPT !.pc = "next"]
             \/ sync'[s] = [r EXCEPT !.pc = "failed"]
        BY <1>1, <1>2 DEF Token, Put
    <2> QED
        BY <1>1, <2>1 DEF Advances, SyncType
<1>3. CASE StartBatch(s)
    <2>1. (r.batch + 1) - 1 = r.batch /\ r.batch <= r.batch + 1
        BY <1>1
    <2>2. /\ r.pc = "next"
          /\ sync'[s] = [r EXCEPT !.pc = "posting", !.batch = r.batch + 1,
                                  !.posts = Chunk(r.batch + 1),
                                  !.progress = r.batch]
        BY <1>1, <1>3, <2>1 DEF StartBatch, Put
    <2> QED
        BY <1>1, <2>1, <2>2 DEF Advances, SyncType
<1>4. ASSUME NEW d \in Doc, Export(s, d)
      PROVE  /\ Advances(sync[s], sync'[s])
             /\ sync'[s].progress <= sync'[s].batch
    <2>1. /\ r.pc = "posting" /\ d \in r.posts
          /\ sync'[s] = [r EXCEPT !.posts = r.posts \ {d}]
        BY <1>1, <1>4 DEF Export, Put
    <2>2. r.posts \ {d} \subseteq r.posts /\ r.posts \ {d} # r.posts
        BY <2>1
    <2>3. /\ sync'[s].pc = "posting" /\ sync'[s].posts = r.posts \ {d}
          /\ sync'[s].ns = r.ns /\ sync'[s].batch = r.batch
          /\ sync'[s].progress = r.progress
        BY <1>1, <2>1 DEF SyncType
    <2> QED
        BY <1>1, <2>1, <2>2, <2>3 DEF Advances
<1>5. CASE ExportFails(s)
    <2>1. sync'[s] = [r EXCEPT !.pc = "failed", !.posts = {}]
        BY <1>1, <1>5 DEF ExportFails, Put
    <2> QED
        BY <1>1, <2>1 DEF Advances, SyncType
<1>6. CASE EndBatch(s)
    <2>1. /\ r.pc = "posting" /\ r.posts = {}
          /\ sync'[s] = [r EXCEPT !.pc = "next"]
        BY <1>1, <1>6 DEF EndBatch, Put
    <2> QED
        BY <1>1, <2>1 DEF Advances, SyncType
<1>7. CASE Finish(s)
    <2>1. /\ r.batch = Chunks
          /\ \/ sync'[s] = [r EXCEPT !.pc = "done", !.progress = Chunks]
             \/ sync'[s] = [r EXCEPT !.pc = "failed"]
        BY <1>1, <1>7 DEF Finish, Put
    <2>2. r.progress <= Chunks
        BY <1>1, <2>1
    <2>3. CASE sync'[s] = [r EXCEPT !.pc = "done", !.progress = Chunks]
        <3>1. /\ sync'[s].pc = "done" /\ sync'[s].progress = Chunks
              /\ sync'[s].ns = r.ns /\ sync'[s].batch = r.batch
            BY <1>1, <2>3 DEF SyncType
        <3> QED
            BY <2>1, <2>2, <3>1 DEF Advances
    <2>4. CASE sync'[s] = [r EXCEPT !.pc = "failed"]
        <3>1. /\ sync'[s].pc = "failed" /\ sync'[s].progress = r.progress
              /\ sync'[s].ns = r.ns /\ sync'[s].batch = r.batch
            BY <1>1, <2>4 DEF SyncType
        <3> QED
            BY <1>1, <3>1 DEF Advances
    <2> QED
        BY <2>1, <2>3, <2>4
<1> QED
    BY <1>2, <1>3, <1>4, <1>5, <1>6, <1>7 DEF SyncStep

LEMMA AllAdvanceStep ==
    TypeOK /\ Counted /\ [Next]_vars => Counted' /\ AllAdvance
<1> SUFFICES ASSUME TypeOK, Counted, [Next]_vars, NEW u \in Sync
             PROVE  /\ sync'[u].progress <= sync'[u].batch
                    /\ sync[u].pc \in Under => \/ sync'[u] = sync[u]
                                               \/ Advances(sync[u], sync'[u])
    BY DEF Counted, AllAdvance
<1>1. CASE sync'[u] = sync[u]
    BY <1>1 DEF Counted
<1>2. CASE SyncStep(u)
    BY <1>2, StepAdvances
<1>3. ASSUME NEW n \in Ns, Request(u, n)
      PROVE  sync[u].pc \notin Under /\ sync'[u].progress <= sync'[u].batch
    BY <1>3 DEF Request, Put, IdleSync, Under, TypeOK
<1>4. ASSUME NEW s \in Sync, s # u,
             SyncStep(s) \/ \E n \in Ns : Request(s, n)
      PROVE  sync'[u] = sync[u]
    BY <1>4 DEF Request, SyncStep, Token, StartBatch, Export, ExportFails,
                EndBatch, Finish, Put, TypeOK
<1>5. CASE (\E n \in Ns : Status(n)) \/ Kubectl \/ UNCHANGED vars
    BY <1>1, <1>5 DEF Status, Kubectl, vars
<1> QED
    BY <1>1, <1>2, <1>3, <1>4, <1>5 DEF Next

(***************************************************************************)
(* A synchronisation never goes back: its batches are posted once each, in *)
(* order, a post is never sent again, and the progress the page is told    *)
(* never decreases, however others forward the port or synchronise         *)
(* meanwhile.  It is the safety half of SyncEnds: each step of a request   *)
(* takes it further on a way that ends.                                    *)
(***************************************************************************)
THEOREM SyncOnlyAdvances == Spec => [][AllAdvance]_vars
<1>1. Init => Counted
    BY DEF Init, Counted, IdleSync
<1> QED
    BY <1>1, AllAdvanceStep, TypeCorrect, PTL DEF Spec
=============================================================================
