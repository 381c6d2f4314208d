------------------------ MODULE LocalTableSyncProofs ------------------------
(***************************************************************************)
(* Theorems about LocalTableSync, for any number of processes, requests    *)
(* and documents.                                                          *)
(***************************************************************************)
EXTENDS LocalTableSync, TLAPS

(* update_document and delete_document keep a table of documents in Doc. *)
LEMMA ContentType ==
    ASSUME NEW docs \in SUBSET Doc, NEW d \in Doc
    PROVE  Updated(docs, d) \in SUBSET Doc /\ Removed(docs, d) \in SUBSET Doc
BY DEF Updated, Removed, Same

(* They keep its keys unique, too: the document replaced is the only one. *)
LEMMA ContentKeys ==
    ASSUME NEW docs \in SUBSET Doc, NEW d \in Doc, OneDocumentPerKey(docs)
    PROVE  /\ OneDocumentPerKey(Updated(docs, d))
           /\ OneDocumentPerKey(Removed(docs, d))
<1>1. OneDocumentPerKey(Removed(docs, d))
  BY DEF Removed, OneDocumentPerKey
<1>2. CASE \E e \in docs : Same(docs, d) = {e}
  <2>1. Updated(docs, d) = (docs \ Same(docs, d)) \cup {d}
    BY <1>2 DEF Updated
  <2> QED
    BY <1>1, <2>1 DEF OneDocumentPerKey, Same
<1>3. CASE ~ \E e \in docs : Same(docs, d) = {e}
  <2>1. Updated(docs, d) = docs \cup {d}
    BY <1>3 DEF Updated
  <2>2. ASSUME NEW e \in docs, e.key = d.key
        PROVE  FALSE
    <3>1. Same(docs, d) = {e}
      BY <2>2 DEF Same, OneDocumentPerKey
    <3> QED
      BY <1>3, <3>1
  <2> QED
    BY <1>1, <2>1, <2>2 DEF OneDocumentPerKey
<1> QED
  BY <1>2, <1>3

(***************************************************************************)
(* Types.                                                                  *)
(***************************************************************************)
LEMMA AgedType ==
    ASSUME NEW c \in CallType, NEW docs, NEW removed
    PROVE  Aged(c, docs, removed) \in CallType
BY DEF Aged, CallType, Age

LEMMA OthersType ==
    ASSUME call \in [Writer -> CallType], NEW w \in Writer,
           NEW docs, NEW removed, Others(w, docs, removed)
    PROVE  call' \in [Writer -> CallType]
<1>1. Idle \in CallType
  BY DEF Idle, CallType, Age
<1>2. \A v \in Writer : Aged(call[v], docs, removed) \in CallType
  BY AgedType
<1> QED
  BY <1>1, <1>2 DEF Others

LEMMA WriteType ==
    ASSUME call \in [Writer -> CallType], NEW w \in Writer,
           NEW docs \in SUBSET Doc, NEW blind \in BOOLEAN,
           Write(w, docs, blind)
    PROVE  call' \in [Writer -> CallType]
BY DEF Write, CallType, Age

LEMMA QuietType ==
    ASSUME TableTypeOK, NEW w \in Writer, QuietStep(w)
    PROVE  TableTypeOK'
<1> USE DEF TableTypeOK
<1>1. ASSUME NEW d \in Doc, UpdateDocument(w, d) \/ DeleteDocument(w, d)
      PROVE  TableTypeOK'
  <2>1. file.docs \in SUBSET Doc
    OBVIOUS
  <2>2. call' \in [Writer -> CallType]
    BY <1>1, <2>1, ContentType, WriteType DEF UpdateDocument, DeleteDocument
  <2> QED
    BY <1>1, <2>2 DEF UpdateDocument, DeleteDocument
<1>2. CASE ClearData(w)
  BY <1>2, WriteType DEF ClearData
<1>3. CASE EnsureTable(w)
  <2>1. call' \in [Writer -> CallType]
    BY <1>3, WriteType DEF EnsureTable
  <2> QED
    BY <1>3, <2>1 DEF EnsureTable
<1>4. CASE Truncate(w)
  <2>1. CASE file.state = "nodir"
    <3>1. /\ call' = [call EXCEPT ![w] = Idle]
          /\ UNCHANGED <<file, trusted>>
      BY <1>4, <2>1 DEF Truncate
    <3>2. Idle \in CallType
      BY DEF Idle, CallType, Age
    <3> QED
      BY <3>1, <3>2
  <2>2. CASE file.state # "nodir"
    <3>1. call' = [call EXCEPT ![w].pc = "flush"]
      BY <1>4, <2>2 DEF Truncate
    <3>2. [call[w] EXCEPT !.pc = "flush"] \in CallType
      BY DEF CallType
    <3>3. call' \in [Writer -> CallType]
      BY <3>1, <3>2
    <3>4. file' = [file EXCEPT !.state = "torn"] /\ trusted' = trusted
      BY <1>4, <2>2 DEF Truncate
    <3> QED
      BY <3>3, <3>4
  <2> QED
    BY <2>1, <2>2
<1>5. CASE FlushMixed(w)
  BY <1>5, OthersType DEF FlushMixed
<1>6. CASE FlushOrphan(w)
  BY <1>6 DEF FlushOrphan, Idle, CallType, Age
<1>7. CASE Stop(w)
  BY <1>7 DEF Stop, Idle, CallType, Age
<1> QED
  BY <1>1, <1>2, <1>3, <1>4, <1>5, <1>6, <1>7 DEF QuietStep

LEMMA ContentStepType ==
    ASSUME TableTypeOK, NEW w \in Writer, DeleteTable(w) \/ FlushWhole(w)
    PROVE  TableTypeOK'
<1>1. CASE DeleteTable(w)
  <2>1. PICK s \in {"nodir", "nofile"} : file' = [state |-> s, docs |-> {}]
    BY <1>1 DEF DeleteTable
  <2>2. call' \in [Writer -> CallType]
    BY <1>1, OthersType DEF DeleteTable, TableTypeOK
  <2> QED
    BY <1>1, <2>1, <2>2 DEF DeleteTable, TableTypeOK
<1>2. CASE FlushWhole(w)
  <2>1. call' \in [Writer -> CallType]
    BY <1>2, OthersType DEF FlushWhole, TableTypeOK
  <2>2. call[w].next \in SUBSET Doc /\ call[w].blind \in BOOLEAN
    BY DEF TableTypeOK, CallType
  <2> QED
    BY <1>2, <2>1, <2>2 DEF FlushWhole, TableTypeOK
<1> QED
  BY <1>1, <1>2

LEMMA TypeInductive == TypeOK /\ [Next]_vars => TypeOK'
<1> SUFFICES ASSUME TypeOK, [Next]_vars PROVE TypeOK'
  OBVIOUS
<1>1. ASSUME NEW w \in Writer, WriterStep(w)
      PROVE  TypeOK'
  <2>1. TableTypeOK'
    BY <1>1, QuietType, ContentStepType DEF WriterStep, TypeOK
  <2>2. sync' \in [Sync -> SyncType]
    <3>1. CASE UNCHANGED sync
      BY <3>1 DEF TypeOK
    <3>2. CASE sync' = [r \in Sync |-> [sync[r] EXCEPT !.current = FALSE]]
      <4>1. \A r \in Sync : [sync[r] EXCEPT !.current = FALSE] \in SyncType
        BY DEF TypeOK, SyncType
      <4> QED
        BY <3>2, <4>1
    <3> QED
      BY <1>1, <3>1, <3>2 DEF WriterStep
  <2> QED
    BY <1>1, <2>1, <2>2 DEF WriterStep, TypeOK
<1>2. ASSUME NEW r \in Sync, SyncStep(r)
      PROVE  TypeOK'
  <2>1. UNCHANGED tableVars
    BY <1>2 DEF SyncStep, ReadTable, NothingRead, Export, ExportFails, Finish
  <2>2. TableTypeOK'
    BY <2>1 DEF tableVars, TypeOK, TableTypeOK
  <2>3. file.docs \in SUBSET Doc
    BY DEF TypeOK, TableTypeOK
  <2>4. Agrees(r) \in BOOLEAN
    BY DEF Agrees
  <2>5. CASE ReadTable(r)
    BY <2>2, <2>3, <2>4, <2>5 DEF ReadTable, TypeOK, SyncType
  <2>6. CASE NothingRead(r)
    BY <2>2, <2>6 DEF NothingRead, TypeOK, SyncType
  <2>7. ASSUME NEW d \in Doc, Export(r, d)
        PROVE  TypeOK'
    <3>1. d.key \in Key /\ d.val \in Val
      BY DocAssumption
    <3> QED
      BY <2>2, <2>7, <3>1 DEF Export, Handled, TypeOK, SyncType
  <2>8. CASE ExportFails(r)
    <3>1. PICK received \in SUBSET sync[r].posts :
             sync' = [sync EXCEPT ![r].pc = "failed", ![r].posts = received]
      BY <2>8 DEF ExportFails
    <3>2. received \in SUBSET Doc
      BY DEF TypeOK, SyncType
    <3>3. [sync[r] EXCEPT !.pc = "failed", !.posts = received] \in SyncType
      BY <3>2 DEF TypeOK, SyncType
    <3>4. sync' \in [Sync -> SyncType]
      BY <3>1, <3>3 DEF TypeOK
    <3> QED
      BY <2>2, <2>8, <3>4 DEF ExportFails, TypeOK
  <2>9. CASE Finish(r)
    BY <2>2, <2>9 DEF Finish, TypeOK, SyncType
  <2> QED
    BY <1>2, <2>5, <2>6, <2>7, <2>8, <2>9 DEF SyncStep
<1>3. CASE UNCHANGED vars
  BY <1>3 DEF vars, TypeOK, TableTypeOK
<1> QED
  BY <1>1, <1>2, <1>3 DEF Next

LEMMA TypeInit == Init => TypeOK
BY DEF Init, TableInit, TypeOK, TableTypeOK, CallType, SyncType, Idle, Age

(***************************************************************************)
(* The variables keep their types: a document that is written is one of    *)
(* those the callers gave, and what DocDb holds comes from them.           *)
(***************************************************************************)
THEOREM TypeCorrect == Spec => []TypeOK
BY TypeInit, TypeInductive, PTL DEF Spec

(***************************************************************************)
(* The table.  Its part of the invariant is about file and call alone.     *)
(***************************************************************************)
TableInv ==
    /\ OneDocumentPerKey(file.docs)
    /\ NoFileIsEmpty
    /\ CallsSound
    /\ TrustedIsReadable

(* What a write or a removal by another process changes in a call. *)
LEMMA AgedFacts ==
    ASSUME NEW c \in CallType, NEW docs, NEW removed \in BOOLEAN
    PROVE  LET a == Aged(c, docs, removed) IN
           /\ a.pc = c.pc /\ a.blind = c.blind
           /\ a.next = c.next \/ a.next = {}
           /\ a.age = "fresh" /\ c.pc # "idle" =>
                 /\ a = c
                 /\ c.pc = "write"
                 /\ c.blind \/ docs = file.docs
           /\ a.age = "orphan" => c.pc = "flush" \/ c.age = "orphan"
           /\ c.pc = "flush" /\ ~ removed =>
                 (a.age = "orphan" <=> c.age = "orphan")
BY DEF Aged, CallType, Age

LEMMA OthersSound ==
    ASSUME TableTypeOK, CallsSound, NEW w \in Writer, NEW docs,
           NEW removed \in BOOLEAN, Others(w, docs, removed),
           file'.docs = docs
    PROVE  CallsSound'
<1> SUFFICES ASSUME NEW v \in Writer, call'[v].pc # "idle"
             PROVE  /\ OneDocumentPerKey(call'[v].next)
                    /\ call'[v].age = "fresh" => Computed(call[v])'
                    /\ call'[v].blind => call'[v].next = {}
                    /\ call'[v].age = "orphan" => call'[v].pc = "flush"
  BY DEF CallsSound
<1>1. v # w /\ call'[v] = Aged(call[v], docs, removed)
  BY DEF Others, Idle
<1>2. call[v] \in CallType
  BY DEF TableTypeOK
<1>3. /\ call[v].pc # "idle"
      /\ call'[v].next = call[v].next \/ call'[v].next = {}
      /\ call'[v].blind = call[v].blind
  BY <1>1, <1>2, AgedFacts
<1>4. /\ OneDocumentPerKey(call[v].next)
      /\ call[v].age = "fresh" => Computed(call[v])
      /\ call[v].blind => call[v].next = {}
  BY <1>3 DEF CallsSound
<1>5. ASSUME call'[v].age = "fresh"
      PROVE  Computed(call[v])'
  <2>1. call'[v] = call[v] /\ (call[v].blind \/ docs = file.docs)
    BY <1>1, <1>2, <1>3, <1>5, AgedFacts
  <2>2. Computed(call[v])
    BY <1>4, <1>5, <2>1
  <2>3. CASE call[v].blind
    BY <1>4, <2>1, <2>3 DEF Computed
  <2>4. CASE docs = file.docs
    BY <2>1, <2>2, <2>4 DEF Computed
  <2> QED
    BY <2>1, <2>3, <2>4
<1>6. OneDocumentPerKey(call'[v].next)
  BY <1>3, <1>4 DEF OneDocumentPerKey
<1>7. call'[v].age = "orphan" => call'[v].pc = "flush"
  <2>1. call[v].age = "orphan" => call[v].pc = "flush"
    BY <1>3 DEF CallsSound
  <2> QED
    BY <1>1, <1>2, <2>1, AgedFacts
<1> QED
  BY <1>3, <1>4, <1>5, <1>6, <1>7

(* A call of w that starts, while the others stay as they are. *)
LEMMA WriteSound ==
    ASSUME TableTypeOK, CallsSound, NEW w \in Writer, NEW docs,
           NEW blind \in BOOLEAN, Write(w, docs, blind),
           file'.docs = file.docs, OneDocumentPerKey(docs),
           \/ docs = {} /\ (blind \/ file.docs = {})
           \/ /\ ~ blind
              /\ \E d \in Doc : docs \in {Updated(file.docs, d),
                                          Removed(file.docs, d)}
    PROVE  CallsSound'
<1> DEFINE new == [pc |-> "write", next |-> docs, blind |-> blind,
                   age |-> "fresh"]
<1> SUFFICES ASSUME NEW v \in Writer, call'[v].pc # "idle"
             PROVE  /\ OneDocumentPerKey(call'[v].next)
                    /\ call'[v].age = "fresh" => Computed(call[v])'
                    /\ call'[v].blind => call'[v].next = {}
                    /\ call'[v].age = "orphan" => call'[v].pc = "flush"
  BY DEF CallsSound
<1>1. CASE v = w
  <2>1. call'[v] = new
    BY <1>1 DEF Write, TableTypeOK
  <2>2. Computed(new)'
    BY DEF Computed
  <2> QED
    BY <2>1, <2>2
<1>2. CASE v # w
  <2>1. call'[v] = call[v]
    BY <1>2 DEF Write, TableTypeOK
  <2> QED
    BY <2>1 DEF CallsSound, Computed
<1> QED
  BY <1>1, <1>2

(* A call of w that goes on or ends, with the content it had. *)
LEMMA OneSound ==
    ASSUME TableTypeOK, CallsSound, NEW w \in Writer, NEW c,
           call' = [call EXCEPT ![w] = c], file'.docs = file.docs,
           \/ c.pc = "idle"
           \/ /\ call[w].pc # "idle"
              /\ c.next = call[w].next /\ c.blind = call[w].blind
              /\ c.age = call[w].age
              /\ c.pc \in {call[w].pc, "flush"}
    PROVE  CallsSound'
<1> SUFFICES ASSUME NEW v \in Writer, call'[v].pc # "idle"
             PROVE  /\ OneDocumentPerKey(call'[v].next)
                    /\ call'[v].age = "fresh" => Computed(call[v])'
                    /\ call'[v].blind => call'[v].next = {}
                    /\ call'[v].age = "orphan" => call'[v].pc = "flush"
  BY DEF CallsSound
<1>1. /\ call[v].pc # "idle"
      /\ call'[v].next = call[v].next
      /\ call'[v].blind = call[v].blind
      /\ call'[v].age = call[v].age
      /\ call'[v].pc \in {call[v].pc, "flush"}
  BY DEF TableTypeOK
<1>2. /\ OneDocumentPerKey(call[v].next)
      /\ call[v].age = "fresh" => Computed(call[v])
      /\ call[v].blind => call[v].next = {}
      /\ call[v].age = "orphan" => call[v].pc = "flush"
  BY <1>1 DEF CallsSound
<1> QED
  BY <1>1, <1>2 DEF Computed

LEMMA QuietCalls ==
    ASSUME TableTypeOK, TableInv, NEW w \in Writer, QuietStep(w)
    PROVE  CallsSound' /\ file'.docs = file.docs
<1>1. CallsSound /\ OneDocumentPerKey(file.docs) /\ file.docs \in SUBSET Doc
  BY DEF TableInv, TableTypeOK
<1>2. OneDocumentPerKey({})
  BY DEF OneDocumentPerKey
<1>3. ASSUME NEW d \in Doc, UpdateDocument(w, d)
      PROVE  CallsSound' /\ file'.docs = file.docs
  <2>1. OneDocumentPerKey(Updated(file.docs, d))
    BY <1>1, ContentKeys
  <2>2. file'.docs = file.docs /\ Write(w, Updated(file.docs, d), FALSE)
    BY <1>3 DEF UpdateDocument
  <2> QED
    BY <1>1, <2>1, <2>2, WriteSound
<1>4. ASSUME NEW d \in Doc, DeleteDocument(w, d)
      PROVE  CallsSound' /\ file'.docs = file.docs
  <2>1. OneDocumentPerKey(Removed(file.docs, d))
    BY <1>1, ContentKeys
  <2>2. file'.docs = file.docs /\ Write(w, Removed(file.docs, d), FALSE)
    BY <1>4 DEF DeleteDocument
  <2> QED
    BY <1>1, <2>1, <2>2, WriteSound
<1>5. CASE ClearData(w)
  BY <1>1, <1>2, <1>5, WriteSound DEF ClearData
<1>6. CASE EnsureTable(w)
  <2>1. file'.docs = file.docs /\ Write(w, {}, FALSE)
    BY <1>6 DEF EnsureTable, TableTypeOK
  <2>2. file.docs = {}
    BY <1>6 DEF EnsureTable, TableInv, NoFileIsEmpty
  <2> QED
    BY <1>1, <1>2, <2>1, <2>2, WriteSound
<1>7. CASE Truncate(w)
  <2>1. CASE file.state = "nodir"
    BY <1>1, <1>7, <2>1, OneSound DEF Truncate, Idle
  <2>2. CASE file.state # "nodir"
    <3> DEFINE c == [call[w] EXCEPT !.pc = "flush"]
    <3>1. /\ call' = [call EXCEPT ![w] = c]
          /\ file'.docs = file.docs
      BY <1>7, <2>2 DEF Truncate, TableTypeOK
    <3>2. /\ call[w].pc # "idle"
          /\ c.next = call[w].next /\ c.blind = call[w].blind
          /\ c.age = call[w].age /\ c.pc = "flush"
      BY <1>7 DEF Truncate, TableTypeOK, CallType
    <3> QED
      BY <1>1, <3>1, <3>2, OneSound
  <2> QED
    BY <2>1, <2>2
<1>8. CASE FlushMixed(w)
  BY <1>1, <1>8, OthersSound DEF FlushMixed, TableTypeOK
<1>9. CASE FlushOrphan(w) \/ Stop(w)
  BY <1>1, <1>9, OneSound DEF FlushOrphan, Stop, Idle
<1> QED
  BY <1>3, <1>4, <1>5, <1>6, <1>7, <1>8, <1>9 DEF QuietStep

(* A file that is torn, of a table that is trusted, is being written. *)
BeingWritten(w) == call[w].pc = "flush" /\ call[w].age # "orphan"

LEMMA ReadableSaysWritten ==
    TrustedIsReadable
        <=> (trusted /\ file.state = "torn" => \E w \in Writer : BeingWritten(w))
BY DEF TrustedIsReadable, BeingWritten

LEMMA QuietReadable ==
    ASSUME TableTypeOK, TableInv, NEW w \in Writer, QuietStep(w)
    PROVE  TrustedIsReadable'
<1> SUFFICES ASSUME trusted', file'.state = "torn"
             PROVE  \E v \in Writer : BeingWritten(v)'
  BY DEF TrustedIsReadable, BeingWritten
<1>1. ASSUME trusted, file.state = "torn", ~ BeingWritten(w),
             \A v \in Writer \ {w} : call'[v] = call[v]
      PROVE  \E v \in Writer : BeingWritten(v)'
  <2>1. PICK v \in Writer : BeingWritten(v)
    BY <1>1, ReadableSaysWritten DEF TableInv
  <2> QED
    BY <1>1, <2>1 DEF BeingWritten
<1>2. ASSUME NEW docs, NEW blind, Write(w, docs, blind), file.state = "torn",
             trusted, call[w].pc = "idle"
      PROVE  \E v \in Writer : BeingWritten(v)'
  BY <1>1, <1>2 DEF Write, TableTypeOK, BeingWritten
<1>3. CASE \E d \in Doc : UpdateDocument(w, d) \/ DeleteDocument(w, d)
  BY <1>3 DEF UpdateDocument, DeleteDocument
<1>4. CASE ClearData(w)
  BY <1>2, <1>4 DEF ClearData
<1>5. CASE EnsureTable(w)
  BY <1>5 DEF EnsureTable, TableTypeOK
<1>6. CASE Truncate(w)
  <2>1. CASE file.state = "nodir"
    BY <1>6, <2>1 DEF Truncate
  <2>2. CASE file.state # "nodir" /\ call[w].age # "orphan"
    BY <1>6, <2>2 DEF Truncate, TableTypeOK, CallType, BeingWritten
  <2>3. CASE call[w].age = "orphan"
    BY <1>6, <2>3 DEF Truncate, TableInv, CallsSound
  <2> QED
    BY <2>1, <2>2, <2>3
<1>7. CASE FlushMixed(w)
  BY <1>7 DEF FlushMixed
<1>8. CASE FlushOrphan(w)
  BY <1>1, <1>8 DEF FlushOrphan, TableTypeOK, BeingWritten
<1>9. CASE Stop(w)
  <2>1. ~ BeingWritten(w)
    BY <1>9 DEF Stop, BeingWritten
  <2> QED
    BY <1>1, <1>9, <2>1 DEF Stop, TableTypeOK
<1> QED
  BY <1>3, <1>4, <1>5, <1>6, <1>7, <1>8, <1>9 DEF QuietStep

LEMMA TableStepInv ==
    ASSUME TableTypeOK, TableInv, NEW w \in Writer, TableStep(w)
    PROVE  TableInv'
<1>1. CASE QuietStep(w)
  <2>1. CallsSound' /\ file'.docs = file.docs /\ TrustedIsReadable'
    BY <1>1, QuietCalls, QuietReadable
  <2>2. file'.state \in {"nodir", "nofile"} => file.state \in {"nodir", "nofile"}
    BY <1>1 DEF QuietStep, UpdateDocument, DeleteDocument, ClearData,
                EnsureTable, Truncate, FlushMixed, FlushOrphan, Stop,
                TableTypeOK
  <2> QED
    BY <2>1, <2>2 DEF TableInv, OneDocumentPerKey, NoFileIsEmpty
<1>2. CASE DeleteTable(w)
  <2>1. PICK s \in {"nodir", "nofile"} : file' = [state |-> s, docs |-> {}]
    BY <1>2 DEF DeleteTable
  <2>2. CallsSound'
    BY <1>2, <2>1, OthersSound DEF DeleteTable, TableInv
  <2> QED
    BY <2>1, <2>2
       DEF TableInv, OneDocumentPerKey, NoFileIsEmpty, TrustedIsReadable
<1>3. CASE FlushWhole(w)
  <2>1. file' = [state |-> "written", docs |-> call[w].next]
    BY <1>3 DEF FlushWhole
  <2>2. CallsSound'
    <3>1. Others(w, call[w].next, FALSE)
      BY <1>3 DEF FlushWhole
    <3>2. file'.docs = call[w].next
      BY <2>1
    <3>3. CallsSound
      BY DEF TableInv
    <3> QED
      BY <3>1, <3>2, <3>3, OthersSound
  <2>3. OneDocumentPerKey(call[w].next)
    BY <1>3 DEF FlushWhole, TableInv, CallsSound
  <2> QED
    BY <2>1, <2>2, <2>3
       DEF TableInv, OneDocumentPerKey, NoFileIsEmpty, TrustedIsReadable
<1> QED
  BY <1>1, <1>2, <1>3 DEF TableStep

(***************************************************************************)
(* The synchronisations.                                                   *)
(***************************************************************************)
LEMMA WriterSyncs ==
    ASSUME TypeOK, TableInv, SyncsSound, NEW w \in Writer, WriterStep(w)
    PROVE  SyncsSound'
<1>1. CASE QuietStep(w) /\ UNCHANGED sync
  <2>1. file'.docs = file.docs
    BY <1>1, QuietCalls DEF TypeOK
  <2> QED
    BY <1>1, <2>1 DEF SyncsSound, WriterStep
<1>2. CASE sync' = [r \in Sync |-> [sync[r] EXCEPT !.current = FALSE]]
  BY <1>2 DEF SyncsSound, TypeOK, SyncType
<1> QED
  BY <1>1, <1>2 DEF WriterStep

LEMMA SyncSyncs ==
    ASSUME TypeOK, TableInv, SyncsSound, NEW r \in Sync, SyncStep(r)
    PROVE  SyncsSound'
<1>1. file' = file
  BY DEF SyncStep, ReadTable, NothingRead, Export, ExportFails, Finish,
         tableVars
<1> SUFFICES ASSUME NEW s \in Sync, sync'[s].pc \in {"posting", "done"},
                    sync'[s].current
             PROVE  /\ \A q \in Sync : sync'[q].posts \subseteq file.docs
                    /\ \A d \in file.docs \ sync'[s].posts :
                          remote'[d.key] = d.val
  BY <1>1 DEF SyncsSound
<1>2. ASSUME sync[s].pc \in {"posting", "done"}, sync[s].current
      PROVE  /\ \A q \in Sync : sync[q].posts \subseteq file.docs
             /\ \A d \in file.docs \ sync[s].posts : remote[d.key] = d.val
  BY <1>2 DEF SyncsSound
<1>3. CASE ReadTable(r)
  <2>1. sync' = [sync EXCEPT ![r] = [pc |-> "posting", posts |-> file.docs,
                                     current |-> Agrees(r)]]
    BY <1>3 DEF ReadTable
  <2>2. CASE s = r
    <3>1. Agrees(r) /\ sync'[s].posts = file.docs
      BY <2>1, <2>2 DEF TypeOK
    <3> QED
      BY <2>1, <3>1 DEF Agrees, TypeOK
  <2>3. CASE s # r
    <3>1. sync'[s] = sync[s] /\ remote' = remote
      BY <1>3, <2>1, <2>3 DEF ReadTable, TypeOK
    <3> QED
      BY <1>2, <2>1, <3>1 DEF TypeOK
  <2> QED
    BY <2>2, <2>3
<1>4. ASSUME NEW d \in Doc, Export(r, d)
      PROVE  /\ \A q \in Sync : sync'[q].posts \subseteq file.docs
             /\ \A e \in file.docs \ sync'[s].posts : remote'[e.key] = e.val
  <2>1. /\ sync' = [sync EXCEPT ![r].posts = @ \ {d}]
        /\ remote' = [remote EXCEPT ![d.key] = d.val]
        /\ d \in sync[r].posts
    BY <1>4 DEF Export, Handled
  <2>2. /\ \A q \in Sync : sync'[q].posts \subseteq sync[q].posts
        /\ sync'[s].pc = sync[s].pc /\ sync'[s].current = sync[s].current
        /\ sync[s].posts \subseteq sync'[s].posts \cup {d}
    BY <2>1 DEF TypeOK, SyncType
  <2>3. /\ \A q \in Sync : sync[q].posts \subseteq file.docs
        /\ \A e \in file.docs \ sync[s].posts : remote[e.key] = e.val
    BY <1>2, <2>2
  <2>4. ASSUME NEW e \in file.docs \ sync'[s].posts
        PROVE  remote'[e.key] = e.val
    <3>1. d \in file.docs /\ d.key \in Key /\ e.key \in Key
      BY <2>1, <2>3, DocAssumption DEF TypeOK, TableTypeOK
    <3>2. CASE e.key = d.key
      <4>1. e = d
        BY <3>1, <3>2 DEF TableInv, OneDocumentPerKey
      <4> QED
        BY <2>1, <3>1, <4>1 DEF TypeOK
    <3>3. CASE e.key # d.key
      <4>1. e \in file.docs \ sync[s].posts
        BY <2>2, <3>3
      <4> QED
        BY <2>1, <2>3, <3>1, <3>3, <4>1 DEF TypeOK
    <3> QED
      BY <3>2, <3>3
  <2> QED
    BY <2>2, <2>3, <2>4
<1>5. CASE NothingRead(r)
  <2>1. /\ s # r
        /\ \A q \in Sync : sync'[q].posts = sync[q].posts
        /\ sync'[s] = sync[s] /\ remote' = remote
    BY <1>5 DEF NothingRead, TypeOK, SyncType
  <2> QED
    BY <1>2, <2>1
<1>6. CASE ExportFails(r)
  <2>1. PICK received \in SUBSET sync[r].posts :
           sync' = [sync EXCEPT ![r].pc = "failed", ![r].posts = received]
    BY <1>6 DEF ExportFails
  <2>2. \A q \in Sync : sync'[q].posts \subseteq sync[q].posts
    BY <2>1 DEF TypeOK, SyncType
  <2>3. s # r
    BY <2>1 DEF TypeOK, SyncType
  <2>4. sync'[s] = sync[s] /\ remote' = remote
    BY <1>6, <2>1, <2>3 DEF ExportFails, TypeOK
  <2> QED
    BY <1>2, <2>2, <2>4
<1>7. CASE Finish(r)
  <2>1. /\ \A q \in Sync : sync'[q].posts = sync[q].posts
        /\ sync[s].pc \in {"posting", "done"}
        /\ sync'[s].current = sync[s].current
        /\ remote' = remote
    BY <1>7 DEF Finish, TypeOK, SyncType
  <2> QED
    BY <1>2, <2>1
<1> QED
  BY <1>3, <1>4, <1>5, <1>6, <1>7 DEF SyncStep

LEMMA WriterPosted ==
    ASSUME TypeOK, DoneHasPosted, NEW w \in Writer, WriterStep(w)
    PROVE  DoneHasPosted'
<1>1. \A r \in Sync : sync'[r].pc = sync[r].pc /\ sync'[r].posts = sync[r].posts
  BY DEF WriterStep, TypeOK, SyncType
<1> QED
  BY <1>1 DEF DoneHasPosted

LEMMA SyncPosted ==
    ASSUME TypeOK, DoneHasPosted, NEW r \in Sync, SyncStep(r)
    PROVE  DoneHasPosted'
<1> SUFFICES ASSUME NEW s \in Sync, sync'[s].pc = "done"
             PROVE  sync'[s].posts = {}
  BY DEF DoneHasPosted
<1>1. CASE s # r
  <2>1. sync'[s] = sync[s]
    BY <1>1 DEF SyncStep, ReadTable, NothingRead, Export, Handled,
                ExportFails, Finish, TypeOK
  <2> QED
    BY <2>1 DEF DoneHasPosted
<1>2. CASE s = r
  <2>1. Finish(r)
    BY <1>2 DEF SyncStep, ReadTable, NothingRead, Export, Handled,
                ExportFails, TypeOK, SyncType
  <2> QED
    BY <1>2, <2>1 DEF Finish, TypeOK, SyncType
<1> QED
  BY <1>1, <1>2

LEMMA InvInit == Init => IInv
BY DEF Init, TableInit, IInv, OneDocumentPerKey, NoFileIsEmpty, CallsSound,
       TrustedIsReadable, DoneHasPosted, SyncsSound, Idle

LEMMA InvStep == TypeOK /\ IInv /\ [Next]_vars => IInv'
<1> SUFFICES ASSUME TypeOK, IInv, [Next]_vars PROVE IInv'
  OBVIOUS
<1>1. TableTypeOK /\ TableInv /\ DoneHasPosted /\ SyncsSound
  BY DEF TypeOK, IInv, TableInv
<1>2. ASSUME NEW w \in Writer, WriterStep(w)
      PROVE  IInv'
  <2>1. TableStep(w)
    BY <1>2 DEF WriterStep, TableStep
  <2>2. TableInv'
    BY <1>1, <2>1, TableStepInv
  <2> QED
    BY <1>1, <1>2, <2>2, WriterSyncs, WriterPosted DEF IInv, TableInv
<1>3. ASSUME NEW r \in Sync, SyncStep(r)
      PROVE  IInv'
  <2>1. UNCHANGED tableVars
    BY <1>3 DEF SyncStep, ReadTable, NothingRead, Export, ExportFails, Finish
  <2>2. TableInv'
    BY <1>1, <2>1 DEF tableVars, TableInv, OneDocumentPerKey, NoFileIsEmpty,
                      CallsSound, Computed, TrustedIsReadable
  <2> QED
    BY <1>1, <1>3, <2>2, SyncSyncs, SyncPosted DEF IInv, TableInv
<1>4. CASE UNCHANGED vars
  BY <1>4 DEF vars, IInv, OneDocumentPerKey, NoFileIsEmpty, CallsSound,
              Computed, TrustedIsReadable, DoneHasPosted, SyncsSound
<1> QED
  BY <1>2, <1>3, <1>4 DEF Next

(***************************************************************************)
(* The inductive invariant: the keys of the table are unique, a call that  *)
(* is fresh writes what update_document or delete_document makes of the    *)
(* present content, and what a current synchronisation has posted is what  *)
(* the table holds.                                                        *)
(***************************************************************************)
THEOREM Invariance == Spec => []IInv
BY TypeCorrect, InvInit, InvStep, PTL DEF Spec

(***************************************************************************)
(* A trusted table that nobody is writing can be read, for any number of   *)
(* processes.                                                              *)
(***************************************************************************)
THEOREM TableIsReadable == Spec => []TrustedIsReadable
<1>1. IInv => TrustedIsReadable
  BY DEF IInv
<1> QED
  BY <1>1, Invariance, PTL

(***************************************************************************)
(* sync_local_tables, done, with no write since it read the table and no   *)
(* older post on its way, has put the present content in DocDb.            *)
(***************************************************************************)
THEOREM DoneIsCurrent == Spec => []SyncedIsCurrent
<1>1. IInv /\ TypeOK => SyncedIsCurrent
  <2> SUFFICES ASSUME IInv, TypeOK, NEW r \in Sync, sync[r].pc = "done",
                      sync[r].current, NEW d \in file.docs
               PROVE  remote[d.key] = d.val
    BY DEF SyncedIsCurrent
  <2>1. sync[r].posts = {}
    BY DEF IInv, DoneHasPosted
  <2> QED
    BY <2>1 DEF IInv, SyncsSound
<1> QED
  BY <1>1, Invariance, TypeCorrect, PTL

(***************************************************************************)
(* The refinement.                                                         *)
(***************************************************************************)
Content(docs) == [k \in Key |-> {d \in docs : d.key = k}]

(* What a fresh call writes is one step of the abstract table. *)
LEMMA UpdateIsPut ==
    ASSUME NEW docs \in SUBSET Doc, OneDocumentPerKey(docs), NEW d \in Doc
    PROVE  Content(Updated(docs, d)) = [Content(docs) EXCEPT ![d.key] = {d}]
<1>1. d.key \in Key
  BY DocAssumption
<1>2. Updated(docs, d) = (docs \ Same(docs, d)) \cup {d}
  <2>1. CASE \E e \in docs : Same(docs, d) = {e}
    BY <2>1 DEF Updated
  <2>2. CASE ~ \E e \in docs : Same(docs, d) = {e}
    <3>1. ASSUME NEW e \in docs, e.key = d.key PROVE FALSE
      <4>1. Same(docs, d) = {e}
        BY <3>1 DEF Same, OneDocumentPerKey
      <4> QED
        BY <2>2, <4>1
    <3>2. Same(docs, d) = {}
      BY <3>1 DEF Same
    <3> QED
      BY <2>2, <3>2 DEF Updated
  <2> QED
    BY <2>1, <2>2
<1>3. \A k \in Key : {e \in Updated(docs, d) : e.key = k}
                        = IF k = d.key THEN {d} ELSE {e \in docs : e.key = k}
  BY <1>2 DEF Same
<1> QED
  BY <1>1, <1>3 DEF Content

LEMMA DeleteIsRemove ==
    ASSUME NEW docs \in SUBSET Doc, NEW d \in Doc
    PROVE  Content(Removed(docs, d))
              = [Content(docs) EXCEPT
                    ![d.key] = {e \in Content(docs)[d.key] : e.owner # d.owner}]
<1>1. d.key \in Key
  BY DocAssumption
<1>2. \A k \in Key :
         {e \in Removed(docs, d) : e.key = k}
            = IF k = d.key THEN {e \in {f \in docs : f.key = k} : e.owner # d.owner}
                           ELSE {e \in docs : e.key = k}
  BY DEF Removed
<1> QED
  BY <1>1, <1>2 DEF Content

LEMMA EmptyContent == Content({}) = Table!Empty
BY DEF Content, Table!Empty

LEMMA RefinementInit == Init => Table!Init
BY EmptyContent DEF Init, TableInit, Table!Init, Content

LEMMA RefinementStep ==
    TypeOK /\ TypeOK' /\ IInv /\ [Next]_vars => [Table!Next]_(Table!vars)
<1> SUFFICES ASSUME TypeOK, TypeOK', IInv, [Next]_vars
             PROVE  [Table!Next]_(Table!vars)
  OBVIOUS
<1> DEFINE now == Content(file.docs)
<1> DEFINE then == Content(file'.docs)
<1>1. file.docs \in SUBSET Doc /\ file'.docs \in SUBSET Doc
  BY DEF TypeOK, TableTypeOK
<1>2. ASSUME file'.docs = file.docs, trusted' = trusted
      PROVE  [Table!Next]_(Table!vars)
  BY <1>2 DEF Table!vars
<1>3. ASSUME trusted' = FALSE
      PROVE  [Table!Next]_(Table!vars)
  <2>1. then \in [Key -> SUBSET Doc]
    BY <1>1 DEF Content
  <2> QED
    BY <1>3, <2>1 DEF Table!Next, Table!Lose, Content
<1>4. ASSUME file'.docs = {}, trusted' = TRUE
      PROVE  [Table!Next]_(Table!vars)
  BY <1>4, EmptyContent DEF Table!Next, Table!Reset, Content
<1>5. ASSUME NEW w \in Writer, QuietStep(w)
      PROVE  [Table!Next]_(Table!vars)
  <2>1. file'.docs = file.docs
    BY <1>5, QuietCalls DEF TypeOK, IInv, TableInv
  <2>2. trusted' = trusted \/ trusted' = FALSE
    BY <1>5 DEF QuietStep, UpdateDocument, DeleteDocument, ClearData,
                EnsureTable, Truncate, FlushMixed, FlushOrphan, Stop, TypeOK,
                TableTypeOK
  <2> QED
    BY <1>2, <1>3, <2>1, <2>2
<1>6. ASSUME NEW w \in Writer, DeleteTable(w)
      PROVE  [Table!Next]_(Table!vars)
  BY <1>4, <1>6 DEF DeleteTable
<1>7. ASSUME NEW w \in Writer, FlushWhole(w)
      PROVE  [Table!Next]_(Table!vars)
  <2>1. /\ file'.docs = call[w].next
        /\ trusted' = (call[w].blind \/ (trusted /\ call[w].age = "fresh"))
    BY <1>7 DEF FlushWhole
  <2>2. CASE call[w].blind
    <3>1. call[w].next = {}
      BY <1>7, <2>2 DEF FlushWhole, IInv, CallsSound
    <3> QED
      BY <1>4, <2>1, <2>2, <3>1
  <2>3. CASE ~ call[w].blind /\ ~ (trusted /\ call[w].age = "fresh")
    BY <1>3, <2>1, <2>3
  <2>4. CASE ~ call[w].blind /\ trusted /\ call[w].age = "fresh"
    <3>1. trusted' = TRUE
      BY <2>1, <2>4
    <3>2. Computed(call[w])
      BY <1>7, <2>4 DEF FlushWhole, IInv, CallsSound
    <3>3. CASE call[w].next = {}
      BY <1>4, <2>1, <3>1, <3>3
    <3>4. ASSUME NEW d \in Doc, call[w].next = Updated(file.docs, d)
          PROVE  [Table!Next]_(Table!vars)
      <4>1. then = [now EXCEPT ![d.key] = {d}]
        BY <1>1, <2>1, <3>4, UpdateIsPut DEF IInv
      <4>2. Table!Put(d)
        BY <2>4, <3>1, <4>1 DEF Table!Put, Content
      <4> QED
        BY <4>2 DEF Table!Next
    <3>5. ASSUME NEW d \in Doc, call[w].next = Removed(file.docs, d)
          PROVE  [Table!Next]_(Table!vars)
      <4> HIDE DEF now, then
      <4>1. then = [now EXCEPT
                       ![d.key] = {e \in now[d.key] : e.owner # d.owner}]
        <5>1. Content(Removed(file.docs, d))
                 = [Content(file.docs) EXCEPT
                       ![d.key] = {e \in Content(file.docs)[d.key] :
                                      e.owner # d.owner}]
          BY <1>1, DeleteIsRemove, Zenon
        <5>2. then = Content(Removed(file.docs, d))
          BY <2>1, <3>5 DEF then
        <5> QED
          BY <5>1, <5>2, Zenon DEF now
      <4>2. Table!Remove(d)
        BY <2>4, <3>1, <4>1 DEF Table!Remove, Content, now, then
      <4> QED
        BY <4>2 DEF Table!Next
    <3> QED
      BY <2>4, <3>2, <3>3, <3>4, <3>5 DEF Computed
  <2> QED
    BY <2>2, <2>3, <2>4
<1>8. ASSUME NEW w \in Writer, WriterStep(w)
      PROVE  [Table!Next]_(Table!vars)
  BY <1>5, <1>6, <1>7, <1>8 DEF WriterStep
<1>9. ASSUME NEW r \in Sync, SyncStep(r)
      PROVE  [Table!Next]_(Table!vars)
  <2>1. UNCHANGED tableVars
    BY <1>9 DEF SyncStep, ReadTable, NothingRead, Export, ExportFails, Finish
  <2> QED
    BY <1>2, <2>1 DEF tableVars
<1>10. CASE UNCHANGED vars
  BY <1>2, <1>10 DEF vars
<1> QED
  BY <1>8, <1>9, <1>10 DEF Next

(***************************************************************************)
(* The file of local_docdb.py is the table of DocumentTable: a write that  *)
(* is answered takes effect as a whole and stays, for any number of        *)
(* processes, unless two overlap or one is stopped while it writes.        *)
(***************************************************************************)
THEOREM Refinement == Spec => ImplementsTable
BY TypeCorrect, Invariance, RefinementInit, RefinementStep, PTL
   DEF Spec, ImplementsTable, Table!Spec
=============================================================================
