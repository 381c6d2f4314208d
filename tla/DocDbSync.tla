----------------------------- MODULE DocDbSync -----------------------------
(***************************************************************************)
(* docdb/router.py: the status request forwards the port of DocDb, and     *)
(* sync_local_tables posts the documents of local tables through it, in    *)
(* batches, while other requests forward the port again.                   *)
(*                                                                         *)
(* The documents to post are numbered 1..Documents in the order of the     *)
(* list all_documents.  A batch is posted by asyncio.gather: its posts are *)
(* in flight together, and the first that fails fails the request while    *)
(* the others may still reach DocDb.                                       *)
(***************************************************************************)
EXTENDS PortForward

CONSTANTS
    Sync,      \* slots for sync_local_tables requests
    Documents, \* the number of documents of the local tables
    ChunkSize, \* 5 in the code
    MaxFaults  \* bound on failed posts, tokens and messages

ASSUME SyncAssumption ==
    /\ Documents \in Nat
    /\ ChunkSize \in Nat \ {0}
    /\ MaxFaults \in Nat

VARIABLES
    stored, \* Ns -> the documents in the DocDb of the namespace
    sync,   \* Sync -> the request in flight
    faults  \* failures so far

vars == <<port, stored, sync, faults>>

Doc == 1..Documents

(* range((len(from_list) + n - 1) // n) *)
ChunksDropLast == Documents \div ChunkSize
Chunks == (Documents + ChunkSize - 1) \div ChunkSize

(* from_list[i * n:(i + 1) * n], for i counted from 1. *)
Chunk(i) == {d \in Doc : (i - 1) * ChunkSize < d /\ d <= i * ChunkSize}

SyncType ==
    [pc : {"idle", "token", "next", "posting", "done", "failed"},
     ns : Ns \cup {NoNs},
     batch : 0..Chunks,    \* the batch in flight, or the last one
     posts : SUBSET Doc,   \* the posts of the batch that have no answer
     progress : 0..Chunks] \* what the page was told, in batches

IdleSync == [pc |-> "idle", ns |-> NoNs, batch |-> 0, posts |-> {},
             progress |-> 0]

TypeOK ==
    /\ PortTypeOK
    /\ stored \in [Ns -> SUBSET Doc]
    /\ sync \in [Sync -> SyncType]
    /\ faults \in 0..MaxFaults

Init ==
    /\ PortInit
    /\ stored = [n \in Ns |-> {}]
    /\ sync = [s \in Sync |-> IdleSync]
    /\ faults = 0

Fault == faults < MaxFaults /\ faults' = faults + 1
Put(s, r) == [sync EXCEPT ![s] = r]

(* GET status of an installed DocDb: k8s_port_forward before the answer. *)
Status(n) ==
    /\ Forward(n)
    /\ UNCHANGED <<stored, sync, faults>>

(* POST sync-local-tables: the page is told of a progress of 0. *)
Request(s, n) ==
    /\ sync[s].pc \in {"idle", "done", "failed"}
    /\ sync' = Put(s, [IdleSync EXCEPT !.pc = "token", !.ns = n])
    /\ UNCHANGED <<port, stored, faults>>

(* config.get_client_credentials, which may raise. *)
Token(s) ==
    /\ sync[s].pc = "token"
    /\ \/ /\ sync' = Put(s, [sync[s] EXCEPT !.pc = "next"])
          /\ UNCHANGED faults
       \/ /\ Fault
          /\ sync' = Put(s, [sync[s] EXCEPT !.pc = "failed"])
    /\ UNCHANGED <<port, stored>>

(* Seeded fault: range(len(from_list) // n + 2) batches. *)
StartBatchTooMany(s) ==
    /\ sync[s].pc = "next"
    /\ sync[s].batch <= Chunks
    /\ sync' = Put(s, [sync[s] EXCEPT !.pc = "posting", !.batch = @ + 1,
                                      !.posts = Chunk(sync[s].batch + 1),
                                      !.progress = sync[s].batch])
    /\ UNCHANGED <<port, stored, faults>>

(* gather: the log, the progress message and the posts of a batch. *)
StartBatch(s) ==
    LET i == sync[s].batch + 1
    IN  /\ sync[s].pc = "next"
        /\ i <= Chunks
        /\ sync' = Put(s, [sync[s] EXCEPT !.pc = "posting", !.batch = i,
                                          !.posts = Chunk(i),
                                          !.progress = i - 1])
        /\ UNCHANGED <<port, stored, faults>>

(***************************************************************************)
(* A post reaches whatever DocDb the port is forwarded to, which answers   *)
(* 201, also for a document it already has.                                *)
(***************************************************************************)
Export(s, d) ==
    /\ sync[s].pc = "posting"
    /\ d \in sync[s].posts
    /\ listening # NoNs
    /\ stored' = [stored EXCEPT ![listening] = @ \cup {d}]
    /\ sync' = Put(s, [sync[s] EXCEPT !.posts = @ \ {d}])
    /\ UNCHANGED <<port, faults>>

(* Seeded fault: gather(..., return_exceptions=True). *)
ExportSkipped(s) ==
    /\ sync[s].pc = "posting"
    /\ sync[s].posts # {}
    /\ \/ listening = NoNs /\ UNCHANGED faults
       \/ Fault
    /\ sync' = Put(s, [sync[s] EXCEPT !.posts = {}])
    /\ UNCHANGED <<port, stored>>

(* Seeded fault: a batch that fails is posted again, for ever. *)
ExportRetried(s) ==
    /\ sync[s].pc = "posting"
    /\ sync[s].posts # {}
    /\ listening = NoNs
    /\ sync' = Put(s, [sync[s] EXCEPT !.pc = "next", !.batch = @ - 1])
    /\ UNCHANGED <<port, stored, faults>>

(***************************************************************************)
(* A post or the progress message fails, or the process that forwards the  *)
(* posts is leaving: the request fails, and the session is closed on the   *)
(* other posts, which DocDb may have received.                             *)
(***************************************************************************)
ExportFails(s) ==
    /\ sync[s].pc = "posting"
    /\ sync[s].posts # {}
    /\ \/ ~Taken /\ UNCHANGED <<stored, faults>>
       \/ /\ Taken
          /\ (leaving /\ UNCHANGED faults) \/ Fault
          /\ \E received \in SUBSET sync[s].posts :
                stored' = [stored EXCEPT ![listening] = @ \cup received]
    /\ sync' = Put(s, [sync[s] EXCEPT !.pc = "failed", !.posts = {}])
    /\ UNCHANGED port

EndBatch(s) ==
    /\ sync[s].pc = "posting"
    /\ sync[s].posts = {}
    /\ sync' = Put(s, [sync[s] EXCEPT !.pc = "next"])
    /\ UNCHANGED <<port, stored, faults>>

(* The last message: a progress of 1. *)
Finish(s) ==
    /\ sync[s].pc = "next"
    /\ sync[s].batch = Chunks
    /\ \/ /\ sync' = Put(s, [sync[s] EXCEPT !.pc = "done", !.progress = Chunks])
          /\ UNCHANGED faults
       \/ Fault /\ sync' = Put(s, [sync[s] EXCEPT !.pc = "failed"])
    /\ UNCHANGED <<port, stored>>

SyncStep(s) ==
    \/ Token(s) \/ StartBatch(s)
    \/ (\E d \in Doc : Export(s, d)) \/ ExportFails(s)
    \/ EndBatch(s) \/ Finish(s)

Kubectl ==
    \/ (\E n \in Ns : Bind(n)) /\ UNCHANGED <<stored, sync, faults>>
    \/ Leave /\ UNCHANGED <<stored, sync, faults>>
    \/ Fault /\ Drop /\ UNCHANGED <<stored, sync>>

Next ==
    \/ \E n \in Ns : Status(n)
    \/ \E s \in Sync, n \in Ns : Request(s, n)
    \/ \E s \in Sync : SyncStep(s)
    \/ Kubectl

Spec == Init /\ [][Next]_vars

(* The event loop runs the coroutines, and a kubectl that starts goes on. *)
FairSpec ==
    /\ Spec
    /\ \A s \in Sync : WF_vars(SyncStep(s))
    /\ WF_vars(\E n \in Ns : Bind(n) /\ UNCHANGED <<stored, sync, faults>>)

-----------------------------------------------------------------------------
(***************************************************************************)
(* With DocDb in one namespace, what the page is told is true: when it is  *)
(* told of k batches their documents are in DocDb, and when it is told     *)
(* that the synchronisation is done all of them are, however the port was  *)
(* forwarded again, the posts failed or another request ran meanwhile.     *)
(***************************************************************************)
ProgressIsBacked ==
    \A s \in Sync : sync[s].ns # NoNs =>
        /\ \A i \in 1..sync[s].progress : Chunk(i) \subseteq stored[sync[s].ns]
        /\ sync[s].pc = "done" => stored[sync[s].ns] = Doc

(***************************************************************************)
(* The inductive invariant: the batches behind the one in flight are in    *)
(* DocDb, and so are the posts of that batch that got their answer.        *)
(***************************************************************************)
Posted(r, last, S) == \A i \in 1..last : Chunk(i) \subseteq S[r.ns]

Backed(r, S) ==
    /\ r.ns \in Ns
    /\ Posted(r, r.progress, S)
    /\ r.pc = "token" => r.batch = 0
    /\ r.pc = "next" => Posted(r, r.batch, S)
    /\ r.pc = "posting" => /\ r.batch > 0
                           /\ Posted(r, r.batch - 1, S)
                           /\ Chunk(r.batch) \ r.posts \subseteq S[r.ns]
    /\ r.pc = "done" => S[r.ns] = Doc

IInv == \A s \in Sync : sync[s].ns # NoNs => Backed(sync[s], stored)

(* A request ends, answered or failed. *)
SyncEnds ==
    \A s \in Sync : sync[s].pc = "token" ~> sync[s].pc \in {"done", "failed"}

(***************************************************************************)
(* What the route "/{namespace}/sync-local-tables" says: the documents go  *)
(* to the DocDb of the namespace of the request.                           *)
(***************************************************************************)
DocumentsGoToTheirNamespace ==
    \A n \in Ns : stored[n] # {} => \E s \in Sync : sync[s].ns = n
=============================================================================
