--------------------------- MODULE LocalTableSync ---------------------------
(***************************************************************************)
(* sync_local_tables of docdb/router.py against a local table that other   *)
(* processes write: each request reads the file once, after its token, and *)
(* posts what it read to DocDb, whatever becomes of the file.  DocDbSync   *)
(* has the batches, the progress and the port; here it is about the        *)
(* content of the documents.                                               *)
(*                                                                         *)
(* A request is one slot, never used twice: a retry is another request.    *)
(* It is at "token" until it has its token, asked for or not.              *)
(***************************************************************************)
EXTENDS LocalDocDb

CONSTANTS
    Sync,    \* slots for requests
    NoVal    \* what DocDb has of a key that was never posted

ASSUME NoValAssumption == NoVal \notin Val

VARIABLES
    sync,    \* Sync -> the request
    remote   \* Key -> what DocDb holds, owned by /youwol-users

vars == <<file, call, trusted, sync, remote>>

(***************************************************************************)
(* posts: the documents whose post has no answer.  Those of a request that *)
(* failed are the posts DocDb has received and not handled yet.            *)
(* current: history, the file has not changed since this request read it,  *)
(* and no post of another content was on its way.                          *)
(***************************************************************************)
SyncType ==
    [pc : {"token", "posting", "done", "failed"},
     posts : SUBSET Doc,
     current : BOOLEAN]

TypeOK ==
    /\ TableTypeOK
    /\ sync \in [Sync -> SyncType]
    /\ remote \in [Key -> Val \cup {NoVal}]

Init ==
    /\ TableInit
    /\ sync = [r \in Sync |->
                 [pc |-> "token", posts |-> {}, current |-> FALSE]]
    /\ remote = [k \in Key |-> NoVal]

Agrees(r) == \A q \in Sync \ {r} : sync[q].posts \subseteq file.docs

(* get_documents: parse_json raises for a file that is missing or torn. *)
ReadTable(r) ==
    /\ sync[r].pc = "token"
    /\ file.state = "written"
    /\ sync' = [sync EXCEPT ![r] = [pc |-> "posting", posts |-> file.docs,
                                    current |-> Agrees(r)]]
    /\ UNCHANGED <<tableVars, remote>>

(* The token is refused, or the file cannot be read. *)
NothingRead(r) ==
    /\ sync[r].pc = "token"
    /\ sync' = [sync EXCEPT ![r].pc = "failed"]
    /\ UNCHANGED <<tableVars, remote>>

Handled(r, d) == sync' = [sync EXCEPT ![r].posts = @ \ {d}]

(* Seeded fault: a document DocDb already has is not posted again. *)
ExportIfMissing(r, d) ==
    /\ sync[r].pc \in {"posting", "failed"}
    /\ d \in sync[r].posts
    /\ remote' = [remote EXCEPT ![d.key] = IF @ = NoVal THEN d.val ELSE @]
    /\ Handled(r, d)
    /\ UNCHANGED tableVars

(* DocDb handles a post: the document of that key is replaced. *)
Export(r, d) ==
    /\ sync[r].pc \in {"posting", "failed"}
    /\ d \in sync[r].posts
    /\ remote' = [remote EXCEPT ![d.key] = d.val]
    /\ Handled(r, d)
    /\ UNCHANGED tableVars

(* The first post that fails ends the request; DocDb may have the others. *)
ExportFails(r) ==
    /\ sync[r].pc = "posting"
    /\ sync[r].posts # {}
    /\ \E received \in SUBSET sync[r].posts :
          sync' = [sync EXCEPT ![r].pc = "failed", ![r].posts = received]
    /\ UNCHANGED <<tableVars, remote>>

Finish(r) ==
    /\ sync[r].pc = "posting"
    /\ sync[r].posts = {}
    /\ sync' = [sync EXCEPT ![r].pc = "done"]
    /\ UNCHANGED <<tableVars, remote>>

SyncStep(r) ==
    \/ ReadTable(r) \/ NothingRead(r)
    \/ (\E d \in Doc : Export(r, d)) \/ ExportFails(r) \/ Finish(r)

(* A write of the table is what the requests that read it do not know of. *)
WriterStep(w) ==
    /\ \/ QuietStep(w) /\ UNCHANGED sync
       \/ /\ DeleteTable(w) \/ FlushWhole(w)
          /\ sync' = [r \in Sync |-> [sync[r] EXCEPT !.current = FALSE]]
    /\ UNCHANGED remote

Next == (\E w \in Writer : WriterStep(w)) \/ (\E r \in Sync : SyncStep(r))

Spec == Init /\ [][Next]_vars

-----------------------------------------------------------------------------
(***************************************************************************)
(* As long as no process was stopped in the middle of a write and no two   *)
(* of them wrote at once, the table can be read whenever nobody is writing *)
(* it: update_document and ensure_table leave a file that was cut as it is.*)
(***************************************************************************)
TrustedIsReadable ==
    /\ trusted
    /\ \A w \in Writer : call[w].pc = "flush" => call[w].age = "orphan"
    => file.state # "torn"

(***************************************************************************)
(* A synchronisation that is done has put in DocDb every document of the   *)
(* local table, with its present content, when the table has not changed   *)
(* since it was read and no post of an older content was on its way then,  *)
(* from a request that overlaps or from one that failed.                   *)
(***************************************************************************)
SyncedIsCurrent ==
    \A r \in Sync :
        sync[r].pc = "done" /\ sync[r].current =>
            \A d \in file.docs : remote[d.key] = d.val

(***************************************************************************)
(* The inductive invariant.                                                *)
(***************************************************************************)
OneDocumentPerKey(docs) == \A d, e \in docs : d.key = e.key => d = e

(* What a call that is fresh writes comes from what the file holds. *)
Computed(c) ==
    \/ c.blind /\ c.next = {}
    \/ c.next = {} /\ file.docs = {}
    \/ \E d \in Doc : c.next \in {Updated(file.docs, d), Removed(file.docs, d)}

CallsSound ==
    \A w \in Writer : call[w].pc # "idle" =>
        /\ OneDocumentPerKey(call[w].next)
        /\ call[w].age = "fresh" => Computed(call[w])
        /\ call[w].blind => call[w].next = {}
        /\ call[w].age = "orphan" => call[w].pc = "flush"

(* A request that is done has no post left. *)
DoneHasPosted == \A r \in Sync : sync[r].pc = "done" => sync[r].posts = {}

SyncsSound ==
    \A r \in Sync : sync[r].pc \in {"posting", "done"} /\ sync[r].current =>
        /\ \A q \in Sync : sync[q].posts \subseteq file.docs
        /\ \A d \in file.docs \ sync[r].posts : remote[d.key] = d.val

(* A table without a file has no document. *)
NoFileIsEmpty == file.state \in {"nodir", "nofile"} => file.docs = {}

IInv ==
    /\ OneDocumentPerKey(file.docs)
    /\ NoFileIsEmpty
    /\ CallsSound
    /\ TrustedIsReadable
    /\ DoneHasPosted
    /\ SyncsSound

(***************************************************************************)
(* The file is a table of documents in the sense of DocumentTable: a write *)
(* that is acknowledged takes effect at once and stays, and it is lost     *)
(* only when processes overlap or one is stopped while it writes.          *)
(***************************************************************************)
Table ==
    INSTANCE DocumentTable WITH
        table <- [k \in Key |-> {d \in file.docs : d.key = k}]

ImplementsTable == Table!Spec
=============================================================================
