---------------------------- MODULE DeployProofs ----------------------------
(* Theorems about Deploy, for every configuration its assumptions allow. *)
EXTENDS Deploy, TLAPS

-----------------------------------------------------------------------------
(* ---- what the helpers return ---- *)

LEMMA IdleType == Idle \in TaskType
<1>1. (CHOOSE p \in Pkg : TRUE) \in Pkg
  BY ConstantsAssumption
<1> QED
  BY <1>1 DEF Idle, TaskType, Label

LEMMA ReportingType ==
  ASSUME NEW p \in Pkg
  PROVE  /\ Reporting(p) \in TaskType
         /\ Reporting(p).pkg = p
         /\ Reporting(p).op = "status"
         /\ Reporting(p).pc = "read"
         /\ Reporting(p).seen = FALSE
         /\ Reporting(p).ran = 0
<1>1. Idle \in TaskType /\ Idle.seen = FALSE /\ Idle.ran = 0
  BY IdleType DEF Idle
<1> QED
  BY <1>1 DEF Reporting, TaskType, Label

LEMMA ProfileType ==
  ASSUME NEW p \in Pkg
  PROVE  /\ Profile[p].ns \in Ns
         /\ Profile[p].secrets \in SUBSET Secret
         /\ Profile[p].install \in Seq(StepKind)
         /\ Profile[p].upgrade \in Seq(StepKind)
         /\ Profile[p].sql \in Seq(Stmt)
BY ProfileAssumption

(* The type of the table of requests. *)
Tasks == [Task -> TaskType]

(* What r and q, two states of a request, have in common. *)
SameRequest(r, q) == r.op = q.op /\ r.pkg = q.pkg

LEMMA AtType ==
  ASSUME NEW r \in TaskType, NEW l \in Label
  PROVE  /\ At(r, l) \in TaskType
         /\ SameRequest(At(r, l), r)
         /\ At(r, l).pc = l
         /\ At(r, l).at = r.at
         /\ At(r, l).seen = r.seen
         /\ At(r, l).ran = r.ran
         /\ At(r, l).needed = r.needed
BY DEF At, TaskType, SameRequest

LEMMA SeeingType ==
  ASSUME NEW r \in TaskType, NEW l \in Label, NEW b \in BOOLEAN
  PROVE  /\ Seeing(r, l, b) \in TaskType
         /\ SameRequest(Seeing(r, l, b), r)
         /\ Seeing(r, l, b).pc = l
         /\ Seeing(r, l, b).seen = b
         /\ Seeing(r, l, b).channel = r.channel
         /\ Seeing(r, l, b).ran = r.ran
BY DEF Seeing, TaskType, SameRequest

LEMMA EnteredType ==
  ASSUME NEW r \in TaskType
  PROVE  /\ Entered(r) \in TaskType
         /\ SameRequest(Entered(r), r)
         /\ Entered(r).pc = "step"
         /\ Entered(r).at = 1
         /\ Entered(r).ran = r.ran
         /\ Entered(r).seen = FALSE
BY DEF Entered, TaskType, SameRequest, Label

LEMMA AdvancedType ==
  ASSUME NEW r \in TaskType
  PROVE  /\ Advanced(r) \in TaskType
         /\ SameRequest(Advanced(r), r)
         /\ Advanced(r).pc = "step"
         /\ Advanced(r).at = r.at + 1
         /\ Advanced(r).ran = 0
         /\ Advanced(r).seen = r.seen
<1>1. r.at + 1 \in Nat
  BY DEF TaskType
<1>2. ASSUME NEW k \in Nat
      PROVE  LET q == [r EXCEPT !.pc = "step", !.at = k, !.ran = 0]
             IN  /\ q \in TaskType
                 /\ SameRequest(q, r)
                 /\ q.pc = "step"
                 /\ q.at = k
                 /\ q.ran = 0
                 /\ q.seen = r.seen
  BY DEF TaskType, SameRequest, Label
<1> QED
  BY <1>1, <1>2 DEF Advanced

LEMMA NeedingType ==
  ASSUME NEW r \in TaskType, NEW N \in SUBSET Secret
  PROVE  /\ Needing(r, N) \in TaskType
         /\ SameRequest(Needing(r, N), r)
         /\ Needing(r, N).pc = "secrets"
         /\ Needing(r, N).needed = N
         /\ Needing(r, N).at = r.at
         /\ Needing(r, N).seen = r.seen
         /\ Needing(r, N).ran = r.ran
BY DEF Needing, TaskType, SameRequest, Label

LEMMA OneMoreType ==
  ASSUME NEW r \in TaskType
  PROVE  /\ OneMore(r) \in TaskType
         /\ SameRequest(OneMore(r), r)
         /\ OneMore(r).pc = r.pc
         /\ OneMore(r).at = r.at
         /\ OneMore(r).ran = r.ran + 1
         /\ OneMore(r).seen = r.seen
<1>1. r.ran + 1 \in Nat
  BY DEF TaskType
<1>2. ASSUME NEW k \in Nat
      PROVE  LET q == [r EXCEPT !.ran = k]
             IN  /\ q \in TaskType
                 /\ SameRequest(q, r)
                 /\ q.pc = r.pc
                 /\ q.at = r.at
                 /\ q.ran = k
                 /\ q.seen = r.seen
  BY DEF TaskType, SameRequest
<1> QED
  BY <1>1, <1>2 DEF OneMore

LEMMA StartingType ==
  ASSUME ws \in Sock \cup {NoSock}, NEW p \in Pkg,
         NEW o \in {"install", "upgrade", "status"}
  PROVE  /\ Starting(o, p) \in TaskType
         /\ Starting(o, p).op = o
         /\ Starting(o, p).pkg = p
         /\ Starting(o, p).pc = "check"
         /\ Starting(o, p).seen = FALSE
         /\ Starting(o, p).channel = ws
         /\ Starting(o, p).ran = 0
<1>1. Idle \in TaskType /\ Idle.seen = FALSE /\ Idle.ran = 0
  BY IdleType DEF Idle
<1> QED
  BY <1>1 DEF Starting, TaskType, Label

(* Changing one request of the table leaves the others. *)
LEMMA PutType ==
  ASSUME task \in Tasks, NEW t \in Task, NEW r \in TaskType
  PROVE  /\ Put(t, r) \in Tasks
         /\ Put(t, r)[t] = r
         /\ \A u \in Task : u # t => Put(t, r)[u] = task[u]
BY DEF Put, Tasks

LEMMA TaskFields ==
  ASSUME task \in Tasks, NEW t \in Task
  PROVE  /\ task[t] \in TaskType
         /\ task[t].pkg \in Pkg
         /\ task[t].pc \in Label
         /\ task[t].at \in Nat
         /\ task[t].ran \in Nat
         /\ task[t].needed \in SUBSET Secret
         /\ Reporting(task[t].pkg) \in TaskType
         /\ Profile[task[t].pkg].ns \in Ns
         /\ Of(t).ns \in Ns
         /\ Of(t).secrets \in SUBSET Secret
         /\ Of(t).sql \in Seq(Stmt)
<1>1. task[t] \in TaskType /\ task[t].pkg \in Pkg
  BY DEF Tasks, TaskType
<1> QED
  BY <1>1, ReportingType, ProfileType DEF TaskType, Of

LEMMA InstalledType == \A p \in Pkg : IsInstalled(p) \in BOOLEAN
BY DEF IsInstalled, IsManifest

-----------------------------------------------------------------------------
(* ---- type correctness ---- *)

LEMMA TypeInit == Init => TypeOK
BY IdleType, ConstantsAssumption DEF Init, TypeOK, ReleaseState, ShownState

(* An external failure keeps the counter in its bounds. *)
LEMMA FaultType ==
  ASSUME faults \in 0..MaxFaults, Fault \/ NoFault
  PROVE  faults' \in 0..MaxFaults
BY ConstantsAssumption DEF Fault, NoFault

(* A message changes what one page shows of one package. *)
LEMMA DeliverType ==
  ASSUME shown \in [Sock -> [Pkg -> ShownState]],
         NEW s, NEW p, NEW status \in ShownState, Deliver(s, p, status)
  PROVE  /\ shown' \in [Sock -> [Pkg -> ShownState]]
         /\ \A z \in Sock, q \in Pkg :
               shown'[z][q] = IF z = s /\ q = p THEN status ELSE shown[z][q]
BY DEF Deliver

LEMMA TypeStep == TypeOK /\ [Next]_vars => TypeOK'
<1> SUFFICES ASSUME TypeOK, [Next]_vars
             PROVE  TypeOK'
  OBVIOUS
<1>0. task \in Tasks
  BY DEF TypeOK, Tasks
<1> DEFINE Goal == TypeOK'
<1>1. ASSUME NEW t \in Task, NEW o \in {"install", "upgrade", "status"},
             NEW p \in Pkg, Request(t, o, p)
      PROVE  Goal
  <2>1. task' \in Tasks
    BY <1>0, <1>1, ReportingType, StartingType, PutType DEF Request, TypeOK
  <2> QED
    BY <1>1, <2>1 DEF Request, TypeOK, Tasks, cluster, pages
<1>2. ASSUME NEW t \in Task, Check(t)
      PROVE  Goal
  <2>1. \A b \in BOOLEAN : Checked(t, b) \in Tasks
    BY <1>0, TaskFields, SeeingType, PutType DEF Checked, Finally, Label
  <2>2. task' \in Tasks
    <3>1. Checked(t, IsInstalled(task[t].pkg)) \in Tasks
      BY <1>0, <2>1, TaskFields, InstalledType
    <3>2. Finally(t) \in Tasks
      BY <1>0, TaskFields, PutType DEF Finally
    <3> QED
      BY <1>2, <2>1, <3>1, <3>2 DEF Check
  <2> QED
    BY <1>2, <2>2, FaultType DEF Check, TypeOK, Tasks, cluster, pages
<1>3. ASSUME NEW t \in Task, Announce(t)
      PROVE  Goal
  <2>1. task' \in Tasks
    <3>1. task' \in {Put(t, Entered(task[t])), Finally(t)}
      BY <1>3 DEF Announce
    <3>2. Put(t, Entered(task[t])) \in Tasks /\ Finally(t) \in Tasks
      BY <1>0, TaskFields, EnteredType, PutType DEF Finally
    <3> QED
      BY <3>1, <3>2
  <2>2. shown' \in [Sock -> [Pkg -> ShownState]]
    <3>1. Pending(task[t].seen) \in ShownState
      BY DEF Pending, ShownState
    <3>2. shown \in [Sock -> [Pkg -> ShownState]]
      BY DEF TypeOK
    <3> QED
      BY <1>3, <3>1, <3>2, DeliverType DEF Announce
  <2> QED
    BY <1>3, <2>1, <2>2 DEF Announce, TypeOK, Tasks, cluster
<1>4. ASSUME NEW t \in Task, LogStep(t) \/ TestNamespace(t) \/ Finish(t)
                              \/ SecretsDone(t) \/ HelmOutputLost(t)
      PROVE  Goal
  <2>1. task' \in Tasks
    BY <1>0, <1>4, TaskFields, AdvancedType, PutType DEF LogStep,
       TestNamespace, Finish, SecretsDone, HelmOutputLost, Finally
  <2> QED
    BY <1>4, <2>1 DEF LogStep, TestNamespace, Finish, SecretsDone,
                      HelmOutputLost, TypeOK, Tasks, cluster, pages
<1>5. ASSUME NEW t \in Task, ListSecrets(t)
      PROVE  Goal
  <2>1. Of(t).secrets \ secrets[Of(t).ns] \in SUBSET Secret
    BY <1>0, TaskFields
  <2>2. task' \in Tasks
    BY <1>0, <1>5, <2>1, TaskFields, NeedingType, PutType
       DEF ListSecrets, Finally
  <2> QED
    BY <1>5, <2>2, FaultType DEF ListSecrets, TypeOK, Tasks, cluster, pages
<1>6. ASSUME NEW t \in Task, CreateSecret(t)
      PROVE  Goal
  <2>1. PICK name \in task[t].needed :
          /\ \/ /\ secrets' = [secrets EXCEPT ![Of(t).ns] = @ \cup {name}]
                /\ task' = Put(t, Needing(task[t], task[t].needed \ {name}))
             \/ task' = Finally(t) /\ UNCHANGED secrets
          /\ UNCHANGED <<releases, helming, namespaces, database, pages,
                         faults>>
    BY <1>6 DEF CreateSecret
  <2>2. task[t].needed \ {name} \in SUBSET Secret /\ name \in Secret
    BY <1>0, TaskFields
  <2>3. task' \in Tasks
    BY <1>0, <2>1, <2>2, TaskFields, NeedingType, PutType DEF Finally
  <2>4. secrets' \in [Ns -> SUBSET Secret]
    BY <1>0, <2>1, <2>2, TaskFields DEF TypeOK
  <2> QED
    BY <2>1, <2>3, <2>4 DEF TypeOK, Tasks, pages
<1>7. ASSUME NEW t \in Task, RunStatement(t)
      PROVE  Goal
  <2>1. Statement(t) \in Stmt
    <3>1. task[t].ran + 1 \in 1..Len(Of(t).sql)
      BY <1>0, <1>7, TaskFields DEF RunStatement
    <3> QED
      BY <1>0, <3>1, TaskFields DEF Statement
  <2>2. task' \in Tasks
    BY <1>0, <1>7, TaskFields, AdvancedType, OneMoreType, PutType
       DEF RunStatement, Finally
  <2> QED
    BY <1>7, <2>1, <2>2, FaultType DEF RunStatement, TypeOK, Tasks, pages
<1>8. ASSUME NEW t \in Task, StatementFails(t) \/ HelmRefuses(t)
      PROVE  Goal
  <2>1. task' \in Tasks
    BY <1>0, <1>8, TaskFields, AdvancedType, PutType
       DEF StatementFails, HelmRefuses, Finally
  <2> QED
    BY <1>8, <2>1, FaultType
       DEF StatementFails, HelmRefuses, TypeOK, Tasks, cluster, pages
<1>9. ASSUME NEW t \in Task, StartHelm(t)
      PROVE  Goal
  <2>1. task' \in Tasks
    BY <1>0, <1>9, TaskFields, AtType, PutType DEF StartHelm, Label
  <2> QED
    BY <1>0, <1>9, <2>1, TaskFields
       DEF StartHelm, TypeOK, Tasks, pages, ReleaseState
<1>10. ASSUME NEW p \in Pkg, HelmSettles(p)
       PROVE  Goal
  <2>1. task' \in Tasks
    <3>1. \A t \in Task : Advanced(task[t]) \in TaskType
      BY <1>0, TaskFields, AdvancedType
    <3> QED
      BY <1>0, <1>10, <3>1, TaskFields, ReportingType DEF HelmSettles, Tasks
  <2> QED
    BY <1>10, <2>1, FaultType
       DEF HelmSettles, FailedRelease, TypeOK, Tasks, pages, ReleaseState
<1>11. ASSUME NEW t \in Task, ApplyManifest(t)
       PROVE  Goal
  <2>1. task' \in Tasks
    BY <1>0, <1>11, TaskFields, AdvancedType, PutType
       DEF ApplyManifest, Finally
  <2> QED
    BY <1>0, <1>11, <2>1, TaskFields, FaultType
       DEF ApplyManifest, TypeOK, Tasks, pages, ReleaseState
<1>12. ASSUME NEW t \in Task, ReadStatus(t) \/ Probe(t)
       PROVE  Goal
  <2>1. \A b \in BOOLEAN : Read(t, b) \in Tasks
    BY <1>0, TaskFields, SeeingType, PutType DEF Read, Label
  <2>2. task' \in Tasks
    <3>1. Read(t, IsInstalled(task[t].pkg)) \in Tasks
      BY <1>0, <2>1, TaskFields, InstalledType
    <3>2. Put(t, At(task[t], "send")) \in Tasks /\ Quit(t) \in Tasks
      BY <1>0, TaskFields, IdleType, AtType, PutType DEF Quit, Label
    <3> QED
      BY <1>12, <2>1, <3>1, <3>2 DEF ReadStatus, Probe
  <2> QED
    BY <1>12, <2>2, FaultType
       DEF ReadStatus, Probe, TypeOK, Tasks, cluster, pages
<1>13. ASSUME NEW t \in Task, SendStatus(t)
       PROVE  Goal
  <2>1. task' \in Tasks
    BY <1>0, <1>13, IdleType, PutType DEF SendStatus, Quit
  <2>2. shown' \in [Sock -> [Pkg -> ShownState]]
    <3>1. Settled(task[t].seen) \in ShownState
      BY DEF Settled, ShownState
    <3>2. shown \in [Sock -> [Pkg -> ShownState]]
      BY DEF TypeOK
    <3> QED
      BY <1>13, <3>1, <3>2, DeliverType DEF SendStatus
  <2> QED
    BY <1>13, <2>1, <2>2 DEF SendStatus, TypeOK, Tasks, cluster
<1>14. ASSUME NEW s \in Sock, Connect(s) \/ Disconnect(s)
       PROVE  Goal
  BY <1>14 DEF Connect, Disconnect, TypeOK, cluster, ShownState
<1>15. ASSUME LogsConnect \/ LogsDisconnect
       PROVE  Goal
  BY <1>15 DEF LogsConnect, LogsDisconnect, TypeOK, cluster
<1>16. ASSUME Restart
       PROVE  Goal
  BY <1>16, IdleType, FaultType DEF Restart, TypeOK, ShownState
<1>17. ASSUME UNCHANGED vars
       PROVE  Goal
  BY <1>17 DEF vars, cluster, pages, TypeOK
<1> QED
  BY <1>1, <1>2, <1>3, <1>4, <1>5, <1>6, <1>7, <1>8, <1>9, <1>10, <1>11,
     <1>12, <1>13, <1>14, <1>15, <1>16, <1>17
     DEF Next, ServerStep, PlanStep, UserStep

(***************************************************************************)
(* Whatever the interleaving, every variable keeps its type.               *)
(***************************************************************************)
THEOREM TypeCorrect == Spec => []TypeOK
BY TypeInit, TypeStep, PTL DEF Spec

-----------------------------------------------------------------------------
(* ---- what a sound request may become ---- *)

(* What Sound reads of the cluster only grows. *)
Grows(S, T, D, E, R, Q) ==
    /\ \A n \in Ns : S[n] \subseteq T[n]
    /\ D \subseteq E
    /\ \A p \in Pkg : R[p] \in Upgradable => Q[p] \in Upgradable

LEMMA SoundGrows ==
  ASSUME NEW S, NEW T, NEW D, NEW E, NEW R, NEW Q, Grows(S, T, D, E, R, Q),
         NEW r \in TaskType, Sound(r, S, D, R)
  PROVE  Sound(r, T, E, Q)
<1>1. r.pkg \in Pkg /\ Profile[r.pkg].ns \in Ns
  BY ProfileType DEF TaskType
<1>2. SecretsBehind(r, T)
  BY <1>1 DEF Sound, SecretsBehind, Grows
<1>3. SqlBehind(r, E)
  BY <1>1 DEF Sound, SqlBehind, Grows
<1>4. SeenIsReal(r, Q)
  BY <1>1 DEF Sound, SeenIsReal, Grows
<1> QED
  BY <1>2, <1>3, <1>4 DEF Sound

(* A request outside its plan, that ran nothing and carries no answer. *)
LEMMA SoundFresh ==
  ASSUME NEW S, NEW D, NEW R, NEW r \in TaskType,
         ~InPlan(r), r.ran = 0, r.seen = FALSE
  PROVE  Sound(r, S, D, R)
<1>1. \A k \in 1..Len(Profile[r.pkg].sql) : ~(k <= 0)
  BY ProfileType DEF TaskType
<1> QED
  BY <1>1 DEF Sound, AtItsStep, SecretsBehind, SqlBehind, SeenIsReal, InPlan

LEMMA IdleFresh ==
  /\ Idle \in TaskType /\ ~InPlan(Idle) /\ Idle.ran = 0 /\ Idle.seen = FALSE
BY IdleType DEF Idle, InPlan

LEMMA ReportingFresh ==
  ASSUME NEW p \in Pkg
  PROVE  /\ Reporting(p) \in TaskType /\ ~InPlan(Reporting(p))
         /\ Reporting(p).ran = 0 /\ Reporting(p).seen = FALSE
BY ReportingType DEF InPlan

(* Outside the plan, with another answer that is true. *)
LEMMA SoundSeeing ==
  ASSUME NEW S, NEW D, NEW R, NEW r \in TaskType, Sound(r, S, D, R),
         NEW l \in Label, l \notin {"step", "secrets", "helm"},
         NEW b \in BOOLEAN,
         b => IsManifest(r.pkg) \/ R[r.pkg] \in Upgradable
  PROVE  Sound(Seeing(r, l, b), S, D, R)
<1> DEFINE q == Seeing(r, l, b)
<1>1. /\ q.pc = l /\ q.ran = r.ran /\ q.seen = b /\ q.pkg = r.pkg
      /\ PlanOf(q) = PlanOf(r)
  BY SeeingType DEF SameRequest, PlanOf
<1> HIDE DEF q
<1> QED
  BY <1>1 DEF Sound, AtItsStep, SecretsBehind, SqlBehind, SeenIsReal, InPlan, q

LEMMA SoundAt ==
  ASSUME NEW S, NEW D, NEW R, NEW r \in TaskType, Sound(r, S, D, R),
         NEW l \in Label, l \notin {"step", "secrets"},
         l = "helm" => /\ r.pc = "step" /\ r.at \in 1..Len(PlanOf(r))
                       /\ PlanOf(r)[r.at] = "helm"
  PROVE  Sound(At(r, l), S, D, R)
<1>1. /\ At(r, l).pc = l /\ At(r, l).at = r.at /\ At(r, l).ran = r.ran
      /\ At(r, l).seen = r.seen /\ At(r, l).pkg = r.pkg
      /\ PlanOf(At(r, l)) = PlanOf(r)
  BY AtType DEF SameRequest, PlanOf
<1> QED
  BY <1>1 DEF Sound, AtItsStep, SecretsBehind, SqlBehind, SeenIsReal, InPlan

LEMMA SoundEntered ==
  ASSUME NEW S, NEW D, NEW R, NEW r \in TaskType, Sound(r, S, D, R)
  PROVE  Sound(Entered(r), S, D, R)
<1>1. /\ Entered(r).pc = "step" /\ Entered(r).at = 1
      /\ Entered(r).ran = r.ran /\ Entered(r).seen = FALSE
      /\ Entered(r).pkg = r.pkg
  BY EnteredType DEF SameRequest
<1>2. \A n \in Nat : \A i \in 1..n : ~(i < 1)
  OBVIOUS
<1>3. Len(PlanOf(Entered(r))) \in Nat
  BY EnteredType, ProfileType DEF PlanOf, TaskType, SameRequest
<1> QED
  BY <1>1, <1>2, <1>3
     DEF Sound, AtItsStep, SecretsBehind, SqlBehind, SeenIsReal, InPlan

(* The step a request leaves has done its work. *)
LEMMA SoundAdvanced ==
  ASSUME NEW S, NEW D, NEW R, NEW r \in TaskType, Sound(r, S, D, R), InPlan(r),
         r.at \in 1..Len(PlanOf(r)),
         PlanOf(r)[r.at] = "secrets" =>
             Profile[r.pkg].secrets \subseteq S[Profile[r.pkg].ns],
         PlanOf(r)[r.at] = "sql" =>
             \A k \in 1..Len(Profile[r.pkg].sql) : Profile[r.pkg].sql[k] \in D
  PROVE  Sound(Advanced(r), S, D, R)
<1> DEFINE q == Advanced(r)
<1>1. /\ q.pc = "step" /\ q.at = r.at + 1 /\ q.ran = 0
      /\ q.seen = r.seen /\ q.pkg = r.pkg /\ PlanOf(q) = PlanOf(r)
  BY AdvancedType DEF SameRequest, PlanOf
<1>2. /\ Len(PlanOf(r)) \in Nat
      /\ Len(Profile[r.pkg].sql) \in Nat
      /\ r.at \in Nat
  BY ProfileType DEF PlanOf, TaskType
<1>3. \A i \in 1..Len(PlanOf(r)) : i < q.at => i < r.at \/ i = r.at
  BY <1>1, <1>2
<1>4. \A k \in 1..Len(Profile[r.pkg].sql) : ~(k <= 0)
  BY <1>2
<1> HIDE DEF q
<1>5. SecretsBehind(q, S)
  BY <1>1, <1>3 DEF Sound, SecretsBehind, InPlan
<1>6. SqlBehind(q, D)
  BY <1>1, <1>3, <1>4 DEF Sound, SqlBehind, InPlan
<1>7. AtItsStep(q) /\ SeenIsReal(q, R)
  BY <1>1 DEF Sound, AtItsStep, SeenIsReal
<1> QED
  BY <1>5, <1>6, <1>7 DEF Sound, q

LEMMA SoundNeeding ==
  ASSUME NEW S, NEW D, NEW R, NEW r \in TaskType, Sound(r, S, D, R), InPlan(r),
         r.at \in 1..Len(PlanOf(r)),
         PlanOf(r)[r.at] \in {"secrets", "quiet secrets"},
         NEW N \in SUBSET Secret,
         Profile[r.pkg].secrets \ N \subseteq S[Profile[r.pkg].ns]
  PROVE  Sound(Needing(r, N), S, D, R)
<1> DEFINE q == Needing(r, N)
<1>1. /\ q.pc = "secrets" /\ q.at = r.at /\ q.ran = r.ran /\ q.needed = N
      /\ q.seen = r.seen /\ q.pkg = r.pkg /\ PlanOf(q) = PlanOf(r)
  BY NeedingType DEF SameRequest, PlanOf
<1> HIDE DEF q
<1> QED
  BY <1>1 DEF Sound, AtItsStep, SecretsBehind, SqlBehind, SeenIsReal, InPlan, q

LEMMA SoundOneMore ==
  ASSUME NEW S, NEW D, NEW R, NEW r \in TaskType, Sound(r, S, D, R),
         r.ran + 1 \in 1..Len(Profile[r.pkg].sql),
         Profile[r.pkg].sql[r.ran + 1] \in D, r.pc = "step"
  PROVE  Sound(OneMore(r), S, D, R)
<1> DEFINE q == OneMore(r)
<1>1. /\ q.pc = r.pc /\ q.at = r.at /\ q.ran = r.ran + 1
      /\ q.seen = r.seen /\ q.pkg = r.pkg /\ PlanOf(q) = PlanOf(r)
  BY OneMoreType DEF SameRequest, PlanOf
<1>2. r.ran \in Nat /\ Len(Profile[r.pkg].sql) \in Nat
  BY ProfileType DEF TaskType
<1>3. \A k \in 1..Len(Profile[r.pkg].sql) :
        k <= q.ran => k <= r.ran \/ k = r.ran + 1
  BY <1>1, <1>2
<1> HIDE DEF q
<1> QED
  BY <1>1, <1>3
     DEF Sound, AtItsStep, SecretsBehind, SqlBehind, SeenIsReal, InPlan, q

-----------------------------------------------------------------------------
(* ---- the inductive invariant ---- *)

SafeInv == TypeOK /\ IInv

LEMMA SafeInit == Init => SafeInv
<1> SUFFICES ASSUME Init
             PROVE  IInv
  BY TypeInit DEF SafeInv
<1>1. \A t \in Task : task[t] = Idle
  BY DEF Init
<1>2. \A t \in Task : Sound(task[t], secrets, database, releases)
  BY <1>1, IdleFresh, SoundFresh
<1> QED
  BY <1>2 DEF Init, IInv

(* Nothing takes a secret, a statement or a deployed release away. *)
ClusterGrows == Grows(secrets, secrets', database, database', releases, releases')

LEMMA StepGrows == SafeInv /\ [Next]_vars => ClusterGrows
<1> SUFFICES ASSUME SafeInv, [Next]_vars
             PROVE  ClusterGrows
  OBVIOUS
<1>0. /\ TypeOK /\ IInv /\ task \in Tasks
      /\ releases \in [Pkg -> ReleaseState]
      /\ secrets \in [Ns -> SUBSET Secret]
  BY DEF SafeInv, TypeOK, Tasks
<1>1. ASSUME UNCHANGED <<releases, secrets, database>>
      PROVE  ClusterGrows
  BY <1>1 DEF ClusterGrows, Grows
<1>2. ASSUME NEW t \in Task, CreateSecret(t)
      PROVE  ClusterGrows
  <2>1. PICK name \in task[t].needed :
          /\ \/ secrets' = [secrets EXCEPT ![Of(t).ns] = @ \cup {name}]
             \/ UNCHANGED secrets
          /\ UNCHANGED <<releases, database>>
    BY <1>2 DEF CreateSecret
  <2> QED
    BY <1>0, <2>1 DEF ClusterGrows, Grows
<1>3. ASSUME NEW t \in Task, RunStatement(t)
      PROVE  ClusterGrows
  BY <1>3 DEF RunStatement, ClusterGrows, Grows
<1>4. ASSUME NEW t \in Task, StartHelm(t)
      PROVE  ClusterGrows
  <2>1. /\ UNCHANGED <<secrets, database>>
        /\ releases[task[t].pkg] \in {"absent", "deployed"}
        /\ releases[task[t].pkg] = "deployed" => task[t].op # "install"
        /\ releases' = [releases EXCEPT ![task[t].pkg] =
                          IF task[t].op = "install" THEN "pending-install"
                                                    ELSE "pending-upgrade"]
    BY <1>4 DEF StartHelm, HelmAccepts
  <2> QED
    BY <1>0, <2>1 DEF ClusterGrows, Grows, Upgradable
<1>5. ASSUME NEW p \in Pkg, HelmSettles(p)
      PROVE  ClusterGrows
  <2>1. /\ UNCHANGED <<secrets, database>>
        /\ \/ releases' = [releases EXCEPT ![p] = "deployed"]
           \/ /\ releases[p] = "pending-install"
              /\ releases' = [releases EXCEPT ![p] = "absent"]
    BY <1>5 DEF HelmSettles, FailedRelease
  <2> QED
    BY <1>0, <2>1 DEF ClusterGrows, Grows, Upgradable
<1>6. ASSUME NEW t \in Task, ApplyManifest(t)
      PROVE  ClusterGrows
  <2>1. /\ UNCHANGED <<secrets, database>>
        /\ \/ releases' = [releases EXCEPT ![task[t].pkg] = "deployed"]
           \/ /\ releases[task[t].pkg] = "absent"
              /\ releases' = [releases EXCEPT ![task[t].pkg] = "partial"]
           \/ UNCHANGED releases
    BY <1>6 DEF ApplyManifest
  <2> QED
    BY <1>0, <2>1 DEF ClusterGrows, Grows, Upgradable
<1>7. ASSUME NEW t \in Task, NEW o, NEW p, Request(t, o, p)
      PROVE  UNCHANGED <<releases, secrets, database>>
  BY <1>7 DEF Request, cluster
<1>8. ASSUME NEW t \in Task,
             \/ Check(t) \/ Announce(t) \/ Finish(t) \/ LogStep(t)
             \/ TestNamespace(t) \/ ListSecrets(t) \/ SecretsDone(t)
             \/ StatementFails(t) \/ HelmRefuses(t) \/ HelmOutputLost(t)
             \/ ReadStatus(t) \/ Probe(t) \/ SendStatus(t)
      PROVE  UNCHANGED <<releases, secrets, database>>
  BY <1>8 DEF Check, Announce, Finish, LogStep, TestNamespace, ListSecrets,
              SecretsDone, StatementFails, HelmRefuses, HelmOutputLost,
              ReadStatus, Probe, SendStatus, cluster
<1>9. ASSUME \/ \E s \in Sock : Connect(s) \/ Disconnect(s)
             \/ LogsConnect \/ LogsDisconnect \/ Restart \/ UNCHANGED vars
      PROVE  UNCHANGED <<releases, secrets, database>>
  BY <1>9 DEF Connect, Disconnect, LogsConnect, LogsDisconnect, Restart, vars,
              cluster
<1> QED
  BY <1>1, <1>2, <1>3, <1>4, <1>5, <1>6, <1>7, <1>8, <1>9
     DEF Next, ServerStep, PlanStep, UserStep

(* The part of IInv about helm. *)
HelmInv == \A p \in helming : /\ releases[p] \in {"pending-install",
                                                  "pending-upgrade"}
                              /\ ~IsManifest(p)

AllSound == \A u \in Task : Sound(task[u], secrets, database, releases)

(* A step that changes one request, to one that is sound, keeps them all. *)
LEMMA OneRequest ==
  ASSUME SafeInv, ClusterGrows, NEW t \in Task, NEW r \in TaskType,
         task' = Put(t, r), Sound(r, secrets', database', releases')
  PROVE  AllSound'
<1>1. task \in Tasks
  BY DEF SafeInv, TypeOK, Tasks
<1>2. /\ task'[t] = r
      /\ \A u \in Task : u # t => task'[u] = task[u]
  BY <1>1, PutType
<1>3. \A u \in Task : Sound(task[u], secrets', database', releases')
  BY <1>1, TaskFields, SoundGrows DEF SafeInv, IInv, ClusterGrows
<1> QED
  BY <1>2, <1>3 DEF AllSound

(* In particular one that goes to its finally clause, or ends. *)
LEMMA OneRequestLeaves ==
  ASSUME SafeInv, ClusterGrows, NEW t \in Task,
         task' = Finally(t) \/ task' = Quit(t)
  PROVE  AllSound'
<1>1. task \in Tasks
  BY DEF SafeInv, TypeOK, Tasks
<1>2. task[t].pkg \in Pkg
  BY <1>1, TaskFields
<1>3. CASE task' = Finally(t)
  <2>1. Sound(Reporting(task[t].pkg), secrets', database', releases')
    BY <1>2, ReportingFresh, SoundFresh
  <2> QED
    BY <1>2, <1>3, <2>1, ReportingFresh, OneRequest DEF Finally
<1>4. CASE task' = Quit(t)
  <2>1. Sound(Idle, secrets', database', releases')
    BY IdleFresh, SoundFresh
  <2> QED
    BY <1>4, <2>1, IdleFresh, OneRequest DEF Quit
<1> QED
  BY <1>3, <1>4

(* The request as the new state of the cluster sees it, before it changes. *)
LEMMA StillSound ==
  ASSUME SafeInv, ClusterGrows, NEW t \in Task
  PROVE  /\ task[t] \in TaskType
         /\ Sound(task[t], secrets', database', releases')
<1>1. task \in Tasks
  BY DEF SafeInv, TypeOK, Tasks
<1> QED
  BY <1>1, TaskFields, SoundGrows DEF SafeInv, IInv, ClusterGrows

LEMMA DoingFacts ==
  ASSUME NEW t \in Task, NEW step, Doing(t, step)
  PROVE  /\ InPlan(task[t])
         /\ task[t].pc = "step"
         /\ task[t].at \in 1..Len(PlanOf(task[t]))
         /\ PlanOf(task[t])[task[t].at] = step
BY DEF Doing, InPlan, Plan

(* is_installed told the truth when it said yes. *)
LEMMA InstalledIsReal ==
  ASSUME NEW p \in Pkg, IsInstalled(p)
  PROVE  IsManifest(p) \/ releases[p] \in Upgradable
BY DEF IsInstalled, Upgradable

LEMMA AllSoundStep == SafeInv /\ [Next]_vars => AllSound'
<1> SUFFICES ASSUME SafeInv, [Next]_vars
             PROVE  AllSound'
  OBVIOUS
<1>0. ClusterGrows /\ task \in Tasks
  BY StepGrows DEF SafeInv, TypeOK, Tasks
<1>a. \A t \in Task : /\ task[t] \in TaskType
                      /\ Sound(task[t], secrets', database', releases')
  BY <1>0, StillSound
<1>1. ASSUME NEW t \in Task, NEW o \in {"install", "upgrade", "status"},
             NEW p \in Pkg, Request(t, o, p)
      PROVE  AllSound'
  <2>1. ws \in Sock \cup {NoSock}
    BY DEF SafeInv, TypeOK
  <2>2. PICK r \in {Reporting(p), Starting(o, p)} : task' = Put(t, r)
    BY <1>1 DEF Request
  <2>3. r \in TaskType /\ ~InPlan(r) /\ r.ran = 0 /\ r.seen = FALSE
    <3>1. CASE r = Reporting(p)
      BY <3>1, ReportingFresh
    <3>2. CASE r = Starting(o, p)
      BY <2>1, <3>2, StartingType DEF InPlan
    <3> QED
      BY <2>2, <3>1, <3>2
  <2> QED
    BY <1>0, <2>2, <2>3, SoundFresh, OneRequest
<1>2. ASSUME NEW t \in Task, Check(t)
      PROVE  AllSound'
  <2>1. PICK b \in BOOLEAN : /\ task' = Finally(t) \/ task' = Checked(t, b)
                             /\ b => IsInstalled(task[t].pkg)
                             /\ UNCHANGED releases
    <3>1. IsInstalled(task[t].pkg) \in BOOLEAN
      BY <1>0, TaskFields, InstalledType
    <3> QED
      BY <1>2, <3>1 DEF Check, cluster
  <2>2. task' = Finally(t) \/ task' = Put(t, Seeing(task[t], "announce", b))
    BY <2>1 DEF Checked
  <2>3. b => IsManifest(task[t].pkg) \/ releases'[task[t].pkg] \in Upgradable
    BY <1>0, <2>1, TaskFields, InstalledIsReal
  <2>4. /\ Sound(Seeing(task[t], "announce", b), secrets', database', releases')
        /\ Seeing(task[t], "announce", b) \in TaskType
    BY <1>a, <2>3, SoundSeeing, SeeingType DEF Label
  <2> QED
    BY <1>0, <2>2, <2>4, OneRequest, OneRequestLeaves
<1>3. ASSUME NEW t \in Task, Announce(t)
      PROVE  AllSound'
  <2>1. task' = Finally(t) \/ task' = Put(t, Entered(task[t]))
    BY <1>3 DEF Announce
  <2>2. /\ Sound(Entered(task[t]), secrets', database', releases')
        /\ Entered(task[t]) \in TaskType
    BY <1>a, SoundEntered, EnteredType
  <2> QED
    BY <1>0, <2>1, <2>2, OneRequest, OneRequestLeaves
<1>4. ASSUME NEW t \in Task,
             \/ TestNamespace(t) \/ Finish(t) \/ HelmOutputLost(t)
             \/ StatementFails(t)
      PROVE  AllSound'
  <2>1. task' = Finally(t)
    BY <1>4 DEF TestNamespace, Finish, HelmOutputLost, StatementFails
  <2> QED
    BY <1>0, <2>1, OneRequestLeaves
<1>5. ASSUME NEW t \in Task, LogStep(t) \/ HelmRefuses(t)
      PROVE  AllSound'
  <2>1. task' = Finally(t) \/ task' = Put(t, Advanced(task[t]))
    BY <1>5 DEF LogStep, HelmRefuses
  <2>2. /\ InPlan(task[t])
        /\ task[t].at \in 1..Len(PlanOf(task[t]))
        /\ PlanOf(task[t])[task[t].at] \in {"log", "helm"}
    BY <1>5, DoingFacts DEF LogStep, HelmRefuses
  <2>3. /\ Sound(Advanced(task[t]), secrets', database', releases')
        /\ Advanced(task[t]) \in TaskType
    BY <1>a, <2>2, SoundAdvanced, AdvancedType
  <2> QED
    BY <1>0, <2>1, <2>3, OneRequest, OneRequestLeaves
<1>6. ASSUME NEW t \in Task, ListSecrets(t)
      PROVE  AllSound'
  <2> DEFINE N == Of(t).secrets \ secrets[Of(t).ns]
  <2>1. /\ task' = Finally(t) \/ task' = Put(t, Needing(task[t], N))
        /\ UNCHANGED secrets
    BY <1>6 DEF ListSecrets, cluster
  <2>2. N \in SUBSET Secret
    BY <1>0, TaskFields
  <2>3. Profile[task[t].pkg].secrets \ N
          \subseteq secrets'[Profile[task[t].pkg].ns]
    BY <2>1 DEF Of
  <2>4. /\ InPlan(task[t])
        /\ task[t].at \in 1..Len(PlanOf(task[t]))
        /\ PlanOf(task[t])[task[t].at] \in {"secrets", "quiet secrets"}
    BY <1>6, DoingFacts DEF ListSecrets
  <2> HIDE DEF N
  <2>5. /\ Sound(Needing(task[t], N), secrets', database', releases')
        /\ Needing(task[t], N) \in TaskType
    BY <1>a, <2>2, <2>3, <2>4, SoundNeeding, NeedingType
  <2> QED
    BY <1>0, <2>1, <2>5, OneRequest, OneRequestLeaves
<1>7. ASSUME NEW t \in Task, CreateSecret(t)
      PROVE  AllSound'
  <2>1. PICK name \in task[t].needed :
          \/ /\ secrets' = [secrets EXCEPT ![Of(t).ns] = @ \cup {name}]
             /\ task' = Put(t, Needing(task[t], task[t].needed \ {name}))
          \/ task' = Finally(t)
    BY <1>7 DEF CreateSecret
  <2>2. CASE /\ secrets' = [secrets EXCEPT ![Of(t).ns] = @ \cup {name}]
             /\ task' = Put(t, Needing(task[t], task[t].needed \ {name}))
    <3> DEFINE N == task[t].needed \ {name}
    <3>1. N \in SUBSET Secret
      BY <1>0, TaskFields
    <3>2. task[t].pc = "secrets"
      BY <1>7 DEF CreateSecret
    <3>3. /\ InPlan(task[t])
          /\ task[t].at \in 1..Len(PlanOf(task[t]))
          /\ PlanOf(task[t])[task[t].at] \in {"secrets", "quiet secrets"}
      BY <1>a, <3>2 DEF Sound, AtItsStep, InPlan
    <3>4. Profile[task[t].pkg].secrets \ N
            \subseteq secrets'[Profile[task[t].pkg].ns]
      <4>1. Profile[task[t].pkg].secrets \ task[t].needed
              \subseteq secrets'[Profile[task[t].pkg].ns]
        BY <1>a, <3>2 DEF Sound, SecretsBehind
      <4>2. name \in secrets'[Profile[task[t].pkg].ns]
        <5>1. Of(t).ns \in Ns /\ secrets \in [Ns -> SUBSET Secret]
          BY <1>0, TaskFields DEF SafeInv, TypeOK
        <5> QED
          BY <2>2, <5>1 DEF Of
      <4> QED
        BY <4>1, <4>2
    <3> HIDE DEF N
    <3>5. /\ Sound(Needing(task[t], N), secrets', database', releases')
          /\ Needing(task[t], N) \in TaskType
      BY <1>a, <3>1, <3>3, <3>4, SoundNeeding, NeedingType
    <3> QED
      BY <1>0, <2>2, <3>5, OneRequest DEF N
  <2>3. CASE task' = Finally(t)
    BY <1>0, <2>3, OneRequestLeaves
  <2> QED
    BY <2>1, <2>2, <2>3
<1>8. ASSUME NEW t \in Task, SecretsDone(t)
      PROVE  AllSound'
  <2>1. /\ task[t].pc = "secrets" /\ task[t].needed = {}
        /\ task' = Put(t, Advanced(task[t]))
    BY <1>8 DEF SecretsDone
  <2>2. /\ InPlan(task[t])
        /\ task[t].at \in 1..Len(PlanOf(task[t]))
        /\ PlanOf(task[t])[task[t].at] # "sql"
        /\ Profile[task[t].pkg].secrets \subseteq secrets'[Profile[task[t].pkg].ns]
    BY <1>a, <2>1 DEF Sound, AtItsStep, SecretsBehind, InPlan
  <2>3. /\ Sound(Advanced(task[t]), secrets', database', releases')
        /\ Advanced(task[t]) \in TaskType
    BY <1>a, <2>2, SoundAdvanced, AdvancedType
  <2> QED
    BY <1>0, <2>1, <2>3, OneRequest
<1>9. ASSUME NEW t \in Task, RunStatement(t)
      PROVE  AllSound'
  <2>1. /\ database' = database \cup {Of(t).sql[task[t].ran + 1]}
        /\ task[t].ran < Len(Of(t).sql)
    BY <1>9 DEF RunStatement, Statement
  <2>2. /\ InPlan(task[t]) /\ task[t].pc = "step"
        /\ task[t].at \in 1..Len(PlanOf(task[t]))
        /\ PlanOf(task[t])[task[t].at] = "sql"
    BY <1>9, DoingFacts DEF RunStatement
  <2>3. /\ task[t].ran \in Nat /\ Len(Of(t).sql) \in Nat
        /\ task[t].ran + 1 \in 1..Len(Of(t).sql)
    BY <1>0, <2>1, TaskFields
  <2>4. Profile[task[t].pkg].sql[task[t].ran + 1] \in database'
    BY <2>1 DEF Of
  <2>5. CASE /\ task[t].ran + 1 = Len(Of(t).sql)
             /\ task' = Put(t, Advanced(task[t]))
    <3>1. \A k \in 1..Len(Of(t).sql) : k <= task[t].ran \/ k = task[t].ran + 1
      BY <2>3, <2>5
    <3>2. \A k \in 1..Len(Profile[task[t].pkg].sql) :
            Profile[task[t].pkg].sql[k] \in database'
      BY <1>a, <2>4, <3>1 DEF Sound, SqlBehind, Of
    <3>3. /\ Sound(Advanced(task[t]), secrets', database', releases')
          /\ Advanced(task[t]) \in TaskType
      BY <1>a, <2>2, <3>2, SoundAdvanced, AdvancedType
    <3> QED
      BY <1>0, <2>5, <3>3, OneRequest
  <2>6. CASE task' = Put(t, OneMore(task[t]))
    <3>1. /\ Sound(OneMore(task[t]), secrets', database', releases')
          /\ OneMore(task[t]) \in TaskType
      BY <1>a, <2>2, <2>3, <2>4, SoundOneMore, OneMoreType DEF Of
    <3> QED
      BY <1>0, <2>6, <3>1, OneRequest
  <2>7. CASE task' = Finally(t)
    BY <1>0, <2>7, OneRequestLeaves
  <2> QED
    BY <1>9, <2>5, <2>6, <2>7 DEF RunStatement
<1>10. ASSUME NEW t \in Task, StartHelm(t)
       PROVE  AllSound'
  <2>1. task' = Put(t, At(task[t], "helm"))
    BY <1>10 DEF StartHelm
  <2>2. /\ task[t].pc = "step"
        /\ task[t].at \in 1..Len(PlanOf(task[t]))
        /\ PlanOf(task[t])[task[t].at] = "helm"
    BY <1>10, DoingFacts DEF StartHelm
  <2>3. /\ Sound(At(task[t], "helm"), secrets', database', releases')
        /\ At(task[t], "helm") \in TaskType
    BY <1>a, <2>2, SoundAt, AtType DEF Label
  <2> QED
    BY <1>0, <2>1, <2>3, OneRequest
<1>11. ASSUME NEW p \in Pkg, HelmSettles(p)
       PROVE  AllSound'
  <2> SUFFICES ASSUME NEW u \in Task
               PROVE  Sound(task'[u], secrets', database', releases')
    BY DEF AllSound
  <2>1. \/ task'[u] = task[u]
        \/ task'[u] = Reporting(p)
        \/ task[u].pc = "helm" /\ task'[u] = Advanced(task[u])
    BY <1>11 DEF HelmSettles
  <2>2. CASE task'[u] = Reporting(p)
    BY <2>2, ReportingFresh, SoundFresh
  <2>3. CASE task[u].pc = "helm" /\ task'[u] = Advanced(task[u])
    <3>1. /\ InPlan(task[u])
          /\ task[u].at \in 1..Len(PlanOf(task[u]))
          /\ PlanOf(task[u])[task[u].at] = "helm"
      BY <1>a, <2>3 DEF Sound, AtItsStep, InPlan
    <3> QED
      BY <1>a, <2>3, <3>1, SoundAdvanced
  <2> QED
    BY <1>a, <2>1, <2>2, <2>3
<1>12. ASSUME NEW t \in Task, ApplyManifest(t)
       PROVE  AllSound'
  <2>1. task' = Finally(t) \/ task' = Put(t, Advanced(task[t]))
    BY <1>12 DEF ApplyManifest
  <2>2. /\ InPlan(task[t])
        /\ task[t].at \in 1..Len(PlanOf(task[t]))
        /\ PlanOf(task[t])[task[t].at] = "manifest"
    BY <1>12, DoingFacts DEF ApplyManifest
  <2>3. /\ Sound(Advanced(task[t]), secrets', database', releases')
        /\ Advanced(task[t]) \in TaskType
    BY <1>a, <2>2, SoundAdvanced, AdvancedType
  <2> QED
    BY <1>0, <2>1, <2>3, OneRequest, OneRequestLeaves
<1>13. ASSUME NEW t \in Task, ReadStatus(t)
       PROVE  AllSound'
  <2>1. PICK b \in BOOLEAN : /\ task' = Quit(t) \/ task' = Read(t, b)
                             /\ b => IsInstalled(task[t].pkg)
                             /\ UNCHANGED releases
    <3>1. IsInstalled(task[t].pkg) \in BOOLEAN
      BY <1>0, TaskFields, InstalledType
    <3> QED
      BY <1>13, <3>1 DEF ReadStatus, cluster
  <2>2. PICK l \in {"probe", "send"} :
          task' = Quit(t) \/ task' = Put(t, Seeing(task[t], l, b))
    BY <2>1 DEF Read
  <2>3. b => IsManifest(task[t].pkg) \/ releases'[task[t].pkg] \in Upgradable
    BY <1>0, <2>1, TaskFields, InstalledIsReal
  <2>4. /\ Sound(Seeing(task[t], l, b), secrets', database', releases')
        /\ Seeing(task[t], l, b) \in TaskType
    <3>1. l \in Label
      BY <2>2 DEF Label
    <3>2. task[t] \in TaskType /\ Sound(task[t], secrets', database', releases')
      BY <1>a
    <3>3. Seeing(task[t], l, b) \in TaskType
      BY <3>1, <3>2, SeeingType
    <3>4. Sound(Seeing(task[t], l, b), secrets', database', releases')
      BY <2>2, <2>3, <3>1, <3>2, SoundSeeing
    <3> QED
      BY <3>3, <3>4
  <2> QED
    BY <1>0, <2>2, <2>4, OneRequest, OneRequestLeaves
<1>14. ASSUME NEW t \in Task, Probe(t) \/ SendStatus(t)
       PROVE  AllSound'
  <2>1. task' = Quit(t) \/ task' = Put(t, At(task[t], "send"))
    BY <1>14 DEF Probe, SendStatus
  <2>2. /\ Sound(At(task[t], "send"), secrets', database', releases')
        /\ At(task[t], "send") \in TaskType
    BY <1>a, SoundAt, AtType DEF Label
  <2> QED
    BY <1>0, <2>1, <2>2, OneRequest, OneRequestLeaves
<1>15. ASSUME \/ \E s \in Sock : Connect(s) \/ Disconnect(s)
              \/ LogsConnect \/ LogsDisconnect \/ UNCHANGED vars
       PROVE  AllSound'
  <2>1. UNCHANGED task
    BY <1>15 DEF Connect, Disconnect, LogsConnect, LogsDisconnect, vars
  <2> QED
    BY <1>a, <2>1 DEF AllSound
<1>16. ASSUME Restart
       PROVE  AllSound'
  <2>1. \A u \in Task : task'[u] = Idle
    BY <1>16 DEF Restart
  <2> QED
    BY <2>1, IdleFresh, SoundFresh DEF AllSound
<1> QED
  BY <1>1, <1>2, <1>3, <1>4, <1>5, <1>6, <1>7, <1>8, <1>9, <1>10, <1>11,
     <1>12, <1>13, <1>14, <1>15, <1>16
     DEF Next, ServerStep, PlanStep, UserStep

LEMMA PlanFacts ==
  ASSUME NEW t \in Task, task \in Tasks, NEW step, Doing(t, step)
  PROVE  LET p == task[t].pkg
         IN  /\ step = "helm" => ~IsManifest(p)
             /\ step = "manifest" => IsManifest(p)
             /\ step = "helm" => \E j \in 1..Len(PlanOf(task[t])) :
                    j < task[t].at /\ PlanOf(task[t])[j] = "secrets"
<1> DEFINE plan == PlanOf(task[t])
<1>1. task[t].pkg \in Pkg
  BY TaskFields
<1>2. plan \in {Profile[task[t].pkg].install, Profile[task[t].pkg].upgrade}
  BY DEF PlanOf
<1>3. task[t].at \in 1..Len(plan) /\ plan[task[t].at] = step
  BY DoingFacts
<1>4. /\ plan[task[t].at] = "helm" =>
            /\ ~IsManifest(task[t].pkg)
            /\ \E j \in 1..(task[t].at - 1) : plan[j] = "secrets"
      /\ plan[task[t].at] = "manifest" => IsManifest(task[t].pkg)
  BY <1>1, <1>2, <1>3, PlanAssumption DEF Planned, IsManifest
<1>5. Len(plan) \in Nat
  BY <1>1, ProfileType DEF PlanOf
<1>6. \A j \in 1..(task[t].at - 1) : j \in 1..Len(plan) /\ j < task[t].at
  BY <1>3, <1>5
<1> QED
  BY <1>3, <1>4, <1>6

(* A helm process works on one pending release, which it alone settles. *)
LEMMA HelmStep == SafeInv /\ [Next]_vars => HelmInv'
<1> SUFFICES ASSUME SafeInv, [Next]_vars
             PROVE  HelmInv'
  OBVIOUS
<1>0. /\ HelmInv /\ task \in Tasks
      /\ releases \in [Pkg -> ReleaseState] /\ helming \in SUBSET Pkg
  BY DEF SafeInv, TypeOK, Tasks, HelmInv, IInv
<1>1. ASSUME UNCHANGED releases, helming' \subseteq helming
      PROVE  HelmInv'
  BY <1>0, <1>1 DEF HelmInv, IsManifest
<1>2. ASSUME NEW t \in Task, StartHelm(t)
      PROVE  HelmInv'
  <2>1. /\ ~IsManifest(task[t].pkg) /\ task[t].pkg \in Pkg
        /\ helming' = helming \cup {task[t].pkg}
        /\ releases' = [releases EXCEPT ![task[t].pkg] =
                          IF task[t].op = "install" THEN "pending-install"
                                                    ELSE "pending-upgrade"]
    BY <1>0, <1>2, PlanFacts, TaskFields DEF StartHelm
  <2> QED
    BY <1>0, <2>1 DEF HelmInv, IsManifest
<1>3. ASSUME NEW p \in Pkg, HelmSettles(p)
      PROVE  HelmInv'
  <2>1. /\ helming' = helming \ {p}
        /\ \E s : releases' = [releases EXCEPT ![p] = s]
    BY <1>3 DEF HelmSettles
  <2> QED
    BY <1>0, <2>1 DEF HelmInv, IsManifest
<1>4. ASSUME NEW t \in Task, ApplyManifest(t)
      PROVE  HelmInv'
  <2>1. /\ IsManifest(task[t].pkg) /\ task[t].pkg \in Pkg
        /\ UNCHANGED helming
        /\ \/ \E s : releases' = [releases EXCEPT ![task[t].pkg] = s]
           \/ UNCHANGED releases
    <3>1. Doing(t, "manifest") /\ UNCHANGED helming
      BY <1>4 DEF ApplyManifest
    <3>2. \/ \E s : releases' = [releases EXCEPT ![task[t].pkg] = s]
          \/ UNCHANGED releases
      BY <1>4 DEF ApplyManifest
    <3> QED
      BY <1>0, <3>1, <3>2, PlanFacts, TaskFields
  <2> QED
    BY <1>0, <2>1 DEF HelmInv, IsManifest
<1>5. ASSUME NEW t \in Task, NEW o, NEW p, Request(t, o, p)
      PROVE  UNCHANGED <<releases, helming>>
  BY <1>5 DEF Request, cluster
<1>6. ASSUME NEW t \in Task,
             \/ Check(t) \/ Announce(t) \/ Finish(t) \/ LogStep(t)
             \/ TestNamespace(t) \/ ListSecrets(t) \/ SecretsDone(t)
             \/ StatementFails(t) \/ HelmRefuses(t) \/ HelmOutputLost(t)
             \/ ReadStatus(t) \/ Probe(t) \/ SendStatus(t)
             \/ CreateSecret(t) \/ RunStatement(t)
      PROVE  UNCHANGED <<releases, helming>>
  BY <1>6 DEF Check, Announce, Finish, LogStep, TestNamespace, ListSecrets,
              SecretsDone, StatementFails, HelmRefuses, HelmOutputLost,
              ReadStatus, Probe, SendStatus, CreateSecret, RunStatement,
              cluster
<1>7. ASSUME \/ \E s \in Sock : Connect(s) \/ Disconnect(s)
             \/ LogsConnect \/ LogsDisconnect \/ Restart \/ UNCHANGED vars
      PROVE  UNCHANGED releases /\ helming' \subseteq helming
  BY <1>7 DEF Connect, Disconnect, LogsConnect, LogsDisconnect, Restart, vars,
              cluster
<1> QED
  BY <1>1, <1>2, <1>3, <1>4, <1>5, <1>6, <1>7
     DEF Next, ServerStep, PlanStep, UserStep

LEMMA SafeStep == SafeInv /\ [Next]_vars => SafeInv'
BY TypeStep, AllSoundStep, HelmStep DEF SafeInv, IInv, AllSound, HelmInv

(***************************************************************************)
(* The inductive invariant: whatever the interleaving of the requests,     *)
(* every one of them is inside its plan with the secrets and statements of *)
(* the steps behind it in place, and helm works on pending releases only.  *)
(***************************************************************************)
THEOREM Invariance == Spec => []IInv
<1>1. Spec => []SafeInv
  BY SafeInit, SafeStep, PTL DEF Spec
<1>2. SafeInv => IInv
  BY DEF SafeInv
<1> QED
  BY <1>1, <1>2, PTL

(***************************************************************************)
(* No request, failure or restart takes away a secret or what a statement  *)
(* made, and a release that is deployed is only upgraded or left, even by  *)
(* a helm that fails: what an earlier install has put in place is there    *)
(* when a later one, that finds it and skips the step, relies on it.       *)
(***************************************************************************)
THEOREM NothingTakenAway == Spec => [][ClusterGrows]_vars
BY SafeInit, SafeStep, StepGrows, PTL DEF Spec

-----------------------------------------------------------------------------
(* ---- what helm finds when it starts ---- *)

(* A release that appears is that of a request whose "helm" step is next. *)
LEMMA Appears ==
  ASSUME SafeInv, [Next]_vars, NEW p \in Pkg, ~IsManifest(p),
         releases[p] = "absent", releases'[p] # "absent"
  PROVE  \E t \in Task : Doing(t, "helm") /\ StartHelm(t) /\ task[t].pkg = p
                       /\ task[t].op = "install"
<1>0. /\ HelmInv /\ task \in Tasks
      /\ releases \in [Pkg -> ReleaseState]
  BY DEF SafeInv, TypeOK, Tasks, HelmInv, IInv
<1>1. ASSUME UNCHANGED releases
      PROVE  FALSE
  BY <1>1
<1>2. ASSUME NEW t \in Task, StartHelm(t)
      PROVE  Doing(t, "helm") /\ task[t].pkg = p /\ task[t].op = "install"
  <2>1. /\ Doing(t, "helm")
        /\ releases[task[t].pkg] =
              IF task[t].op = "install" THEN "absent" ELSE "deployed"
        /\ \E s : releases' = [releases EXCEPT ![task[t].pkg] = s]
    BY <1>2 DEF StartHelm, HelmAccepts
  <2> QED
    BY <1>0, <2>1
<1>3. ASSUME NEW q \in Pkg, HelmSettles(q)
      PROVE  FALSE
  <2>1. q \in helming /\ \E s : releases' = [releases EXCEPT ![q] = s]
    BY <1>3 DEF HelmSettles
  <2> QED
    BY <1>0, <2>1 DEF HelmInv
<1>4. ASSUME NEW t \in Task, ApplyManifest(t)
      PROVE  FALSE
  <2>1. IsManifest(task[t].pkg)
    BY <1>0, <1>4, PlanFacts DEF ApplyManifest
  <2>2. \/ \E s : releases' = [releases EXCEPT ![task[t].pkg] = s]
        \/ UNCHANGED releases
    BY <1>4 DEF ApplyManifest
  <2> QED
    BY <1>0, <2>1, <2>2
<1>5. ASSUME NEW t \in Task, NEW o, NEW q, Request(t, o, q)
      PROVE  UNCHANGED releases
  BY <1>5 DEF Request, cluster
<1>6. ASSUME NEW t \in Task,
             \/ Check(t) \/ Announce(t) \/ Finish(t) \/ LogStep(t)
             \/ TestNamespace(t) \/ ListSecrets(t) \/ SecretsDone(t)
             \/ StatementFails(t) \/ HelmRefuses(t) \/ HelmOutputLost(t)
             \/ ReadStatus(t) \/ Probe(t) \/ SendStatus(t)
             \/ CreateSecret(t) \/ RunStatement(t)
      PROVE  UNCHANGED releases
  BY <1>6 DEF Check, Announce, Finish, LogStep, TestNamespace, ListSecrets,
              SecretsDone, StatementFails, HelmRefuses, HelmOutputLost,
              ReadStatus, Probe, SendStatus, CreateSecret, RunStatement,
              cluster
<1>7. ASSUME \/ \E s \in Sock : Connect(s) \/ Disconnect(s)
             \/ LogsConnect \/ LogsDisconnect \/ Restart \/ UNCHANGED vars
      PROVE  UNCHANGED releases
  BY <1>7 DEF Connect, Disconnect, LogsConnect, LogsDisconnect, Restart, vars,
              cluster
<1> QED
  BY <1>1, <1>2, <1>3, <1>4, <1>5, <1>6, <1>7
     DEF Next, ServerStep, PlanStep, UserStep

(* Then the secrets and the statements of the steps before are in place. *)
LEMMA HelmIsPrepared ==
  ASSUME SafeInv, NEW t \in Task, Doing(t, "helm")
  PROVE  LET p == task[t].pkg
         IN  /\ Profile[p].secrets \subseteq secrets[Profile[p].ns]
             /\ task[t].op = "install" /\ SqlBeforeHelm(p) =>
                   \A i \in 1..Len(Profile[p].sql) :
                       Profile[p].sql[i] \in database
<1>0. task \in Tasks /\ Sound(task[t], secrets, database, releases)
  BY DEF SafeInv, TypeOK, Tasks, IInv
<1>1. InPlan(task[t]) /\ task[t].at \in 1..Len(PlanOf(task[t]))
      /\ PlanOf(task[t])[task[t].at] = "helm"
  BY DoingFacts
<1>2. Profile[task[t].pkg].secrets \subseteq secrets[Profile[task[t].pkg].ns]
  BY <1>0, <1>1, PlanFacts DEF Sound, SecretsBehind
<1>3. ASSUME task[t].op = "install", SqlBeforeHelm(task[t].pkg)
      PROVE  \A i \in 1..Len(Profile[task[t].pkg].sql) :
                 Profile[task[t].pkg].sql[i] \in database
  <2>1. PlanOf(task[t]) = Profile[task[t].pkg].install
    BY <1>3 DEF PlanOf
  <2>2. PICK i \in 1..(task[t].at - 1) : PlanOf(task[t])[i] = "sql"
    BY <1>1, <1>3, <2>1 DEF SqlBeforeHelm
  <2>3. Len(PlanOf(task[t])) \in Nat
    BY <1>0, <2>1, TaskFields, ProfileType
  <2>4. i \in 1..Len(PlanOf(task[t])) /\ i < task[t].at
    BY <1>1, <2>2, <2>3
  <2> QED
    BY <1>0, <1>1, <2>2, <2>4 DEF Sound, SqlBehind
<1> QED
  BY <1>2, <1>3

(***************************************************************************)
(* For every set of packages and every interleaving of their requests: no  *)
(* helm release exists without the secrets its pods mount.                 *)
(***************************************************************************)
THEOREM SecretsAreInPlace == Spec => []SecretsInPlace
<1>1. Init => SecretsInPlace
  BY DEF Init, SecretsInPlace
<1>2. SafeInv /\ SecretsInPlace /\ [Next]_vars => SecretsInPlace'
  <2> SUFFICES ASSUME SafeInv, SecretsInPlace, [Next]_vars,
                      NEW p \in Pkg, releases'[p] # "absent", ~IsManifest(p)
               PROVE  Profile[p].secrets \subseteq secrets'[Profile[p].ns]
    BY DEF SecretsInPlace, IsManifest
  <2>1. Profile[p].secrets \subseteq secrets[Profile[p].ns]
    <3>1. CASE releases[p] = "absent"
      BY <3>1, Appears, HelmIsPrepared
    <3>2. CASE releases[p] # "absent"
      BY <3>2 DEF SecretsInPlace
    <3> QED
      BY <3>1, <3>2
  <2> QED
    BY <2>1, StepGrows, ProfileType DEF ClusterGrows, Grows
<1> QED
  BY <1>1, <1>2, SafeInit, SafeStep, PTL DEF Spec

(***************************************************************************)
(* For every set of packages: one whose plan runs SQL before helm has no   *)
(* release unless all its statements took effect.                          *)
(***************************************************************************)
THEOREM DatabaseIsInPlace == Spec => []DatabaseInPlace
<1>1. Init => DatabaseInPlace
  BY DEF Init, DatabaseInPlace
<1>2. SafeInv /\ DatabaseInPlace /\ [Next]_vars => DatabaseInPlace'
  <2> SUFFICES ASSUME SafeInv, DatabaseInPlace, [Next]_vars,
                      NEW p \in Pkg, releases'[p] # "absent", SqlBeforeHelm(p),
                      NEW i \in 1..Len(Profile[p].sql)
               PROVE  Profile[p].sql[i] \in database'
    BY DEF DatabaseInPlace, SqlBeforeHelm, IsManifest
  <2>1. Profile[p].sql[i] \in database
    <3>1. CASE releases[p] = "absent"
      BY <3>1, Appears, HelmIsPrepared DEF SqlBeforeHelm
    <3>2. CASE releases[p] # "absent"
      BY <3>2 DEF DatabaseInPlace
    <3> QED
      BY <3>1, <3>2
  <2> QED
    BY <2>1, StepGrows DEF ClusterGrows, Grows
<1> QED
  BY <1>1, <1>2, SafeInit, SafeStep, PTL DEF Spec

(***************************************************************************)
(* For any number of pages: one that shows a helm package as installed is  *)
(* right.  A deployed release never goes back to absent, and the answer a  *)
(* delayed message carries was true when is_installed gave it.             *)
(***************************************************************************)
THEOREM ShownIsReal == Spec => []ShownInstalledIsReal
<1>1. Init => ShownInstalledIsReal
  BY DEF Init, ShownInstalledIsReal
<1>2. SafeInv /\ ShownInstalledIsReal /\ [Next]_vars => ShownInstalledIsReal'
  <2> SUFFICES ASSUME SafeInv, ShownInstalledIsReal, [Next]_vars,
                      NEW s \in Sock, NEW p \in Pkg, ~IsManifest(p),
                      shown'[s][p] \in {"installed", "upgrading"}
               PROVE  releases'[p] \in Upgradable
    BY DEF ShownInstalledIsReal, IsManifest
  <2>0. /\ \A q \in Pkg : releases[q] \in Upgradable
                            => releases'[q] \in Upgradable
        /\ shown \in [Sock -> [Pkg -> ShownState]]
        /\ task \in Tasks
    BY StepGrows DEF ClusterGrows, Grows, SafeInv, TypeOK, Tasks
  <2>1. ASSUME shown'[s][p] = shown[s][p]
        PROVE  releases[p] \in Upgradable
    BY <2>1 DEF ShownInstalledIsReal
  <2>2. ASSUME NEW t \in Task, Announce(t) \/ SendStatus(t)
        PROVE  releases[p] \in Upgradable
    <3>1. \/ shown'[s][p] = shown[s][p]
          \/ /\ p = task[t].pkg
             /\ shown'[s][p] \in {Pending(task[t].seen), Settled(task[t].seen)}
      <4>1. \/ UNCHANGED shown
            \/ \E z, status :
                  /\ Deliver(z, task[t].pkg, status)
                  /\ status \in {Pending(task[t].seen), Settled(task[t].seen)}
        BY <2>2 DEF Announce, SendStatus
      <4> QED
        BY <2>0, <4>1 DEF Deliver
    <3>2. CASE task[t].seen /\ p = task[t].pkg
      <4>1. SeenIsReal(task[t], releases)
        BY DEF SafeInv, IInv, Sound
      <4> QED
        BY <3>2, <4>1 DEF SeenIsReal
    <3>3. CASE ~task[t].seen
      <4>1. /\ Pending(task[t].seen) = "installing"
            /\ Settled(task[t].seen) = "missing"
        BY <3>3 DEF Pending, Settled
      <4> QED
        BY <2>1, <3>1, <4>1
    <3> QED
      BY <2>1, <3>1, <3>2, <3>3
  <2>3. ASSUME (\E z \in Sock : Disconnect(z)) \/ Restart
        PROVE  shown'[s][p] = shown[s][p]
    <3>1. \/ shown' = [z \in Sock |-> [q \in Pkg |-> "unknown"]]
          \/ \E z \in Sock : shown' = [shown EXCEPT ![z] =
                                                [q \in Pkg |-> "unknown"]]
      BY <2>3 DEF Disconnect, Restart
    <3> QED
      BY <2>0, <3>1
  <2>4. ASSUME NEW t \in Task,
               \/ Check(t) \/ Finish(t) \/ LogStep(t)
               \/ TestNamespace(t) \/ ListSecrets(t) \/ SecretsDone(t)
               \/ StatementFails(t) \/ HelmRefuses(t) \/ HelmOutputLost(t)
               \/ ReadStatus(t) \/ Probe(t) \/ CreateSecret(t)
               \/ RunStatement(t) \/ StartHelm(t) \/ ApplyManifest(t)
        PROVE  UNCHANGED shown
    BY <2>4 DEF Check, Finish, LogStep, TestNamespace, ListSecrets,
                SecretsDone, StatementFails, HelmRefuses, HelmOutputLost,
                ReadStatus, Probe, CreateSecret, RunStatement, StartHelm,
                ApplyManifest, pages
  <2>5. ASSUME NEW t \in Task, NEW o, NEW q, Request(t, o, q)
        PROVE  UNCHANGED shown
    BY <2>5 DEF Request, pages
  <2>6. ASSUME \/ \E q \in Pkg : HelmSettles(q)
               \/ \E z \in Sock : Connect(z)
               \/ LogsConnect \/ LogsDisconnect \/ UNCHANGED vars
        PROVE  UNCHANGED shown
    BY <2>6 DEF HelmSettles, Connect, LogsConnect, LogsDisconnect,
                vars, pages
  <2> QED
    BY <2>0, <2>1, <2>2, <2>3, <2>4, <2>5, <2>6
       DEF Next, ServerStep, PlanStep, UserStep
<1> QED
  BY <1>1, <1>2, SafeInit, SafeStep, PTL DEF Spec

-----------------------------------------------------------------------------
(* ---- one waiter per helm process ---- *)

(***************************************************************************)
(* For any number of requests: no two of them wait for helm on the same    *)
(* package, and the one that waits has a process to wait for.              *)
(***************************************************************************)
THEOREM OneWaiter == Spec => []OneWaiterPerRelease
<1>1. Init => OneWaiterPerRelease
  BY DEF Init, OneWaiterPerRelease, Idle
<1>2. SafeInv /\ OneWaiterPerRelease /\ [Next]_vars => OneWaiterPerRelease'
  <2> SUFFICES ASSUME SafeInv, OneWaiterPerRelease, [Next]_vars
               PROVE  OneWaiterPerRelease'
    OBVIOUS
  <2>0. task \in Tasks /\ HelmInv
    BY DEF SafeInv, TypeOK, Tasks, HelmInv, IInv
  <2>1. ASSUME NEW t \in Task, NEW r \in TaskType, task' = Put(t, r),
               r.pc # "helm", helming \subseteq helming'
        PROVE  OneWaiterPerRelease'
    BY <2>0, <2>1, PutType DEF OneWaiterPerRelease
  <2>2. ASSUME UNCHANGED task, UNCHANGED helming
        PROVE  OneWaiterPerRelease'
    BY <2>2 DEF OneWaiterPerRelease
  <2>3. ASSUME NEW t \in Task, task' = Finally(t) \/ task' = Quit(t),
               UNCHANGED helming
        PROVE  OneWaiterPerRelease'
    BY <2>0, <2>1, <2>3, TaskFields, ReportingType, IdleType
       DEF Finally, Quit, Idle
  <2>4. ASSUME NEW t \in Task, NEW o \in {"install", "upgrade", "status"},
               NEW p \in Pkg, Request(t, o, p)
        PROVE  OneWaiterPerRelease'
    <3>1. ws \in Sock \cup {NoSock}
      BY DEF SafeInv, TypeOK
    <3>2. PICK r \in {Reporting(p), Starting(o, p)} : task' = Put(t, r)
      BY <2>4 DEF Request
    <3>3. r \in TaskType /\ r.pc # "helm"
      <4>1. CASE r = Reporting(p)
        BY <4>1, ReportingType
      <4>2. CASE r = Starting(o, p)
        BY <3>1, <4>2, StartingType
      <4> QED
        BY <3>2, <4>1, <4>2
    <3> QED
      BY <2>1, <2>4, <3>2, <3>3 DEF Request, cluster
  <2>5. ASSUME NEW t \in Task, Check(t) \/ ReadStatus(t)
        PROVE  OneWaiterPerRelease'
    <3>1. UNCHANGED helming
      BY <2>5 DEF Check, ReadStatus, cluster
    <3>2. PICK b \in BOOLEAN : \/ task' = Finally(t) \/ task' = Quit(t)
                               \/ task' = Checked(t, b) \/ task' = Read(t, b)
      BY <2>0, <2>5, TaskFields, InstalledType DEF Check, ReadStatus
    <3>3. \/ task' = Finally(t) \/ task' = Quit(t)
          \/ \E l \in {"announce", "probe", "send"} :
                task' = Put(t, Seeing(task[t], l, b))
      BY <3>2 DEF Checked, Read
    <3>4. ASSUME NEW l \in {"announce", "probe", "send"}
          PROVE  /\ Seeing(task[t], l, b) \in TaskType
                 /\ Seeing(task[t], l, b).pc # "helm"
      <4>1. l \in Label /\ l # "helm"
        BY <3>4 DEF Label
      <4> QED
        BY <2>0, <4>1, TaskFields, SeeingType
    <3> QED
      BY <2>1, <2>3, <3>1, <3>3, <3>4
  <2>6. ASSUME NEW t \in Task,
               \/ Announce(t) \/ LogStep(t) \/ TestNamespace(t) \/ Finish(t)
               \/ SecretsDone(t) \/ StatementFails(t) \/ RunStatement(t)
               \/ HelmRefuses(t) \/ HelmOutputLost(t) \/ ApplyManifest(t)
               \/ Probe(t) \/ SendStatus(t)
        PROVE  OneWaiterPerRelease'
    <3>1. UNCHANGED helming
      BY <2>6 DEF Announce, LogStep, TestNamespace, Finish, SecretsDone,
         StatementFails, RunStatement, HelmRefuses, HelmOutputLost,
         ApplyManifest, Probe, SendStatus, cluster
    <3>2. \/ task' = Finally(t) \/ task' = Quit(t)
          \/ task' = Put(t, Entered(task[t]))
          \/ task' = Put(t, Advanced(task[t]))
          \/ task' = Put(t, At(task[t], "send"))
          \/ task' = Put(t, OneMore(task[t])) /\ task[t].pc = "step"
      BY <2>6 DEF Announce, LogStep, TestNamespace, Finish, SecretsDone,
         StatementFails, RunStatement, HelmRefuses, HelmOutputLost,
         ApplyManifest, Probe, SendStatus, Doing
    <3>3. /\ Entered(task[t]) \in TaskType /\ Entered(task[t]).pc # "helm"
          /\ Advanced(task[t]) \in TaskType /\ Advanced(task[t]).pc # "helm"
          /\ At(task[t], "send") \in TaskType /\ At(task[t], "send").pc # "helm"
          /\ OneMore(task[t]) \in TaskType
          /\ task[t].pc = "step" => OneMore(task[t]).pc # "helm"
      BY <2>0, TaskFields, EnteredType, AdvancedType, AtType, OneMoreType
         DEF Label
    <3> QED
      BY <2>1, <2>3, <3>1, <3>2, <3>3
  <2>7. ASSUME NEW t \in Task, ListSecrets(t) \/ CreateSecret(t)
        PROVE  OneWaiterPerRelease'
    <3>1. UNCHANGED helming
      BY <2>7 DEF ListSecrets, CreateSecret, cluster
    <3>2. \/ task' = Finally(t)
          \/ \E N \in SUBSET Secret : task' = Put(t, Needing(task[t], N))
      <4>1. /\ Of(t).secrets \ secrets[Of(t).ns] \in SUBSET Secret
            /\ \A name : task[t].needed \ {name} \in SUBSET Secret
        BY <2>0, TaskFields
      <4> QED
        BY <2>7, <4>1 DEF ListSecrets, CreateSecret
    <3>3. \A N \in SUBSET Secret : /\ Needing(task[t], N) \in TaskType
                                   /\ Needing(task[t], N).pc # "helm"
      BY <2>0, TaskFields, NeedingType
    <3> QED
      BY <2>1, <2>3, <3>1, <3>2, <3>3
  <2>8. ASSUME NEW t \in Task, StartHelm(t)
        PROVE  OneWaiterPerRelease'
    <3>1. /\ task' = Put(t, At(task[t], "helm"))
          /\ helming' = helming \cup {task[t].pkg}
          /\ releases[task[t].pkg] \in {"absent", "deployed"}
      BY <2>8 DEF StartHelm, HelmAccepts
    <3>2. task[t].pkg \notin helming
      BY <2>0, <3>1 DEF HelmInv
    <3>3. /\ task'[t].pc = "helm" /\ task'[t].pkg = task[t].pkg
          /\ \A u \in Task : u # t => task'[u] = task[u]
      BY <2>0, <3>1, TaskFields, AtType, PutType DEF Label, SameRequest
    <3> QED
      BY <3>1, <3>2, <3>3 DEF OneWaiterPerRelease
  <2>9. ASSUME NEW p \in Pkg, HelmSettles(p)
        PROVE  OneWaiterPerRelease'
    <3>1. /\ helming' = helming \ {p}
          /\ \A u \in Task : task'[u].pc = "helm" =>
                task'[u] = task[u] /\ task[u].pkg # p
      <4>1. \A u \in Task : Advanced(task[u]).pc = "step"
        BY <2>0, TaskFields, AdvancedType
      <4>2. Reporting(p).pc = "read"
        BY ReportingType
      <4> QED
        BY <2>9, <4>1, <4>2 DEF HelmSettles
    <3> QED
      BY <3>1 DEF OneWaiterPerRelease
  <2>10. ASSUME Restart
         PROVE  OneWaiterPerRelease'
    BY <2>10 DEF Restart, OneWaiterPerRelease, Idle
  <2>11. ASSUME \/ \E s \in Sock : Connect(s) \/ Disconnect(s)
                \/ LogsConnect \/ LogsDisconnect \/ UNCHANGED vars
         PROVE  UNCHANGED <<task, helming>>
    BY <2>11 DEF Connect, Disconnect, LogsConnect, LogsDisconnect, vars, cluster
  <2> QED
    BY <2>2, <2>4, <2>5, <2>6, <2>7, <2>8, <2>9, <2>10, <2>11
       DEF Next, ServerStep, PlanStep, UserStep
<1> QED
  BY <1>1, <1>2, SafeInit, SafeStep, PTL DEF Spec

-----------------------------------------------------------------------------
(* ---- Deploy implements Rollout ---- *)

(* What is created from a manifest is never pending. *)
ManifestInv == \A p \in Pkg : IsManifest(p) =>
    releases[p] \notin {"pending-install", "pending-upgrade"}

LEMMA ManifestInit == Init => ManifestInv
BY DEF Init, ManifestInv

ReadyPkg == {p \in Pkg : Prepared(p)}

LEMMA ReadyGrows ==
  ASSUME SafeInv, [Next]_vars
  PROVE  ReadyPkg \subseteq ReadyPkg'
<1> SUFFICES ASSUME NEW p \in Pkg, Prepared(p)
             PROVE  Prepared(p)'
  BY DEF ReadyPkg
<1>1. ClusterGrows
  BY StepGrows
<1> QED
  BY <1>1, ProfileType DEF ClusterGrows, Grows, Prepared, SqlBeforeHelm, IsManifest

LEMMA ReadyUnchanged ==
  ASSUME UNCHANGED <<secrets, database>>
  PROVE  ReadyPkg' = ReadyPkg
BY DEF ReadyPkg, Prepared, SqlBeforeHelm, IsManifest

LEMMA RefinesStep ==
  ASSUME SafeInv, ManifestInv, [Next]_vars
  PROVE  [Abstract!Next]_(Abstract!rvars) /\ ManifestInv'
<1> DEFINE Refines == [Abstract!Next]_(Abstract!rvars)
<1>0. /\ HelmInv /\ task \in Tasks /\ helming \in SUBSET Pkg
      /\ releases \in [Pkg -> ReleaseState]
  BY DEF SafeInv, TypeOK, Tasks, HelmInv, IInv
<1>1. ASSUME UNCHANGED releases
      PROVE  Refines /\ ManifestInv'
  <2>1. ManifestInv'
    BY <1>1 DEF ManifestInv, IsManifest
  <2>2. Abstract!Prepare
    BY <1>1, ReadyGrows DEF Abstract!Prepare, ReadyPkg
  <2> QED
    BY <2>1, <2>2 DEF Abstract!Next
<1>2. ASSUME NEW t \in Task, StartHelm(t)
      PROVE  Refines /\ ManifestInv'
  <2> DEFINE p == task[t].pkg
  <2>1. /\ p \in Pkg /\ ~IsManifest(p) /\ UNCHANGED <<secrets, database>>
        /\ releases[p] = IF task[t].op = "install" THEN "absent" ELSE "deployed"
        /\ releases' = [releases EXCEPT ![p] =
                          IF task[t].op = "install" THEN "pending-install"
                                                    ELSE "pending-upgrade"]
        /\ Doing(t, "helm")
    BY <1>0, <1>2, PlanFacts, TaskFields DEF StartHelm, HelmAccepts
  <2>2. ManifestInv'
    BY <1>0, <2>1 DEF ManifestInv, IsManifest
  <2>3. CASE task[t].op = "install"
    <3>1. p \in ReadyPkg
      BY <2>1, <2>3, HelmIsPrepared DEF ReadyPkg, Prepared
    <3>2. Abstract!Install(p)
      BY <2>1, <2>3, <3>1, ReadyUnchanged
         DEF Abstract!Install, Abstract!Become, ReadyPkg
    <3> QED
      BY <2>1, <2>2, <3>2 DEF Abstract!Next, Manifest
  <2>4. CASE task[t].op # "install"
    <3>1. Abstract!Upgrade(p)
      BY <2>1, <2>4, ReadyUnchanged
         DEF Abstract!Upgrade, Abstract!Become, ReadyPkg
    <3> QED
      BY <2>1, <2>2, <3>1 DEF Abstract!Next, Manifest
  <2> QED
    BY <2>3, <2>4
<1>3. ASSUME NEW p \in Pkg, HelmSettles(p)
      PROVE  Refines /\ ManifestInv'
  <2>1. /\ p \in helming /\ UNCHANGED <<secrets, database>>
        /\ \/ releases' = [releases EXCEPT ![p] = "deployed"]
           \/ /\ releases[p] = "pending-install"
              /\ releases' = [releases EXCEPT ![p] = "absent"]
    BY <1>3 DEF HelmSettles, FailedRelease
  <2>2. ManifestInv'
    BY <1>0, <2>1 DEF ManifestInv, IsManifest
  <2>3. Abstract!Settle(p) \/ Abstract!Purge(p)
    BY <1>0, <2>1, ReadyUnchanged
       DEF HelmInv, Abstract!Settle, Abstract!Purge, Abstract!Become, ReadyPkg
  <2>4. p \in Pkg \ Manifest
    BY <1>0, <2>1 DEF HelmInv, ManifestInv, Manifest
  <2> QED
    BY <2>2, <2>3, <2>4 DEF Abstract!Next
<1>4. ASSUME NEW t \in Task, ApplyManifest(t)
      PROVE  Refines /\ ManifestInv'
  <2> DEFINE p == task[t].pkg
  <2>1. UNCHANGED <<secrets, database>> /\ Doing(t, "manifest")
    BY <1>4 DEF ApplyManifest
  <2>2. p \in Pkg /\ IsManifest(p)
    BY <1>0, <2>1, PlanFacts, TaskFields
  <2>3. \/ releases' = [releases EXCEPT ![p] = "deployed"]
        \/ /\ releases[p] = "absent"
           /\ releases' = [releases EXCEPT ![p] = "partial"]
        \/ UNCHANGED releases
    BY <1>4 DEF ApplyManifest
  <2>4. CASE UNCHANGED releases
    BY <1>1, <2>4
  <2>5. CASE releases' # releases
    <3>1. releases[p] \in {"absent", "partial"}
      BY <1>0, <2>2, <2>3, <2>5 DEF ManifestInv, ReleaseState
    <3>2. Abstract!Apply(p)
      BY <2>1, <2>3, <2>5, <3>1, ReadyUnchanged
         DEF Abstract!Apply, Abstract!Become, ReadyPkg
    <3>3. ManifestInv'
      BY <1>0, <2>3 DEF ManifestInv, IsManifest
    <3> QED
      BY <2>2, <3>2, <3>3 DEF Abstract!Next, Manifest
  <2> QED
    BY <2>4, <2>5
<1>5. ASSUME NEW t \in Task, NEW o, NEW p, Request(t, o, p)
      PROVE  UNCHANGED releases
  BY <1>5 DEF Request, cluster
<1>6. ASSUME NEW t \in Task,
             \/ Check(t) \/ Announce(t) \/ Finish(t) \/ LogStep(t)
             \/ TestNamespace(t) \/ ListSecrets(t) \/ SecretsDone(t)
             \/ StatementFails(t) \/ HelmRefuses(t) \/ HelmOutputLost(t)
             \/ ReadStatus(t) \/ Probe(t) \/ SendStatus(t)
             \/ CreateSecret(t) \/ RunStatement(t)
      PROVE  UNCHANGED releases
  BY <1>6 DEF Check, Announce, Finish, LogStep, TestNamespace, ListSecrets,
              SecretsDone, StatementFails, HelmRefuses, HelmOutputLost,
              ReadStatus, Probe, SendStatus, CreateSecret, RunStatement,
              cluster
<1>7. ASSUME \/ \E s \in Sock : Connect(s) \/ Disconnect(s)
             \/ LogsConnect \/ LogsDisconnect \/ Restart \/ UNCHANGED vars
      PROVE  UNCHANGED releases
  BY <1>7 DEF Connect, Disconnect, LogsConnect, LogsDisconnect, Restart, vars,
              cluster
<1> QED
  BY <1>1, <1>2, <1>3, <1>4, <1>5, <1>6, <1>7
     DEF Next, ServerStep, PlanStep, UserStep

(***************************************************************************)
(* For every set of packages and every interleaving, failure and restart:  *)
(* the releases of the cluster change only the way Rollout allows.         *)
(***************************************************************************)
THEOREM Refinement == Spec => ImplementsRollout
<1>1. Init => Abstract!Init
  BY DEF Init, Abstract!Init
<1>2. SafeInv /\ ManifestInv /\ [Next]_vars =>
          [Abstract!Next]_(Abstract!rvars) /\ ManifestInv'
  BY RefinesStep
<1> QED
  BY <1>1, <1>2, SafeInit, SafeStep, ManifestInit, PTL
     DEF Spec, ImplementsRollout, Abstract!Spec

-----------------------------------------------------------------------------
(* ---- what the page waits for ---- *)

(* A request is active until it is over; only a package that is probed is. *)
Labelled(r) ==
    /\ r.pc # "idle" => r.op # "none"
    /\ r.pc = "probe" => Profile[r.pkg].probe # "none"

(* A page that is closed shows nothing, and PendingIsInFlight. *)
PageInv ==
    /\ \A t \in Task : Labelled(task[t])
    /\ \A s \in Sock \ live, p \in Pkg : shown[s][p] = "unknown"
    /\ PendingIsInFlight

(* A step that ends no request: each goes on, on the same package. *)
GoesOn(r, q) ==
    /\ Labelled(q)
    /\ r.op # "none" => q.op # "none" /\ q.pkg = r.pkg

AllGoOn == \A u \in Task : GoesOn(task[u], task'[u])

LEMMA PageStays ==
  ASSUME PageInv, AllGoOn, UNCHANGED <<ws, live, shown>>
  PROVE  PageInv'
<1>1. \A t \in Task : Labelled(task'[t])
  BY DEF AllGoOn, GoesOn
<1>2. PendingIsInFlight'
  <2> SUFFICES ASSUME NEW p \in Pkg, IsPlain(p), ws \in Sock,
                      shown[ws][p] \in {"installing", "upgrading"}
               PROVE  \E t \in Task : task'[t].op # "none" /\ task'[t].pkg = p
    BY DEF PendingIsInFlight, IsPlain, IsManifest
  <2>1. PICK t \in Task : task[t].op # "none" /\ task[t].pkg = p
    BY DEF PageInv, PendingIsInFlight
  <2> QED
    BY <2>1 DEF AllGoOn, GoesOn
<1> QED
  BY <1>1, <1>2 DEF PageInv, Labelled

LEMMA OneGoesOn ==
  ASSUME TypeOK, PageInv, NEW t \in Task, NEW r \in TaskType,
         GoesOn(task[t], r), task' = Put(t, r)
  PROVE  AllGoOn
<1>1. task'[t] = r /\ \A u \in Task : u # t => task'[u] = task[u]
  BY PutType DEF TypeOK, Tasks
<1> QED
  BY <1>1 DEF AllGoOn, GoesOn, PageInv

(* The finally clause reports on the package of the request. *)
LEMMA FinallyGoesOn ==
  ASSUME TypeOK, PageInv, NEW t \in Task, task' = Finally(t)
  PROVE  AllGoOn
<1>1. task[t].pkg \in Pkg /\ Reporting(task[t].pkg) \in TaskType
  BY TaskFields DEF TypeOK, Tasks
<1>2. GoesOn(task[t], Reporting(task[t].pkg))
  BY <1>1, ReportingType DEF GoesOn, Labelled
<1> QED
  BY <1>1, <1>2, OneGoesOn DEF Finally

(* The next place of a request that is active. *)
LEMMA ActiveGoesOn ==
  ASSUME TypeOK, PageInv, NEW t \in Task, task[t].pc # "idle",
         NEW r \in TaskType, SameRequest(r, task[t]),
         r.pc = "probe" => Profile[r.pkg].probe # "none",
         task' = Put(t, r)
  PROVE  AllGoOn
<1>1. task[t].op # "none"
  BY DEF PageInv, Labelled
<1>2. GoesOn(task[t], r)
  BY <1>1 DEF GoesOn, Labelled, SameRequest
<1> QED
  BY <1>2, OneGoesOn

(* What a step of a plan makes of the request. *)
LEMMA PlanMoves ==
  ASSUME TypeOK, NEW t \in Task, PlanStep(t) \/ HelmOutputLost(t)
  PROVE  /\ UNCHANGED <<ws, live, shown>> /\ task[t].pc # "idle"
         /\ \/ task' = Finally(t)
            \/ task' = Put(t, Advanced(task[t]))
            \/ \E N \in SUBSET Secret : task' = Put(t, Needing(task[t], N))
            \/ task[t].pc = "step" /\ task' = Put(t, OneMore(task[t]))
            \/ task' = Put(t, At(task[t], "helm"))
<1>0. task[t] \in TaskType /\ task \in Tasks
  BY TaskFields DEF TypeOK, Tasks
<1>l. ASSUME ListSecrets(t)
      PROVE  task[t].pc # "idle" /\ UNCHANGED pages
  <2>1. task[t].pc = "step"
    BY <1>l, Zenon DEF ListSecrets, Doing
  <2>2. UNCHANGED pages
    BY <1>l, Zenon DEF ListSecrets
  <2> QED
    BY <2>1, <2>2
<1>o. ASSUME ~ ListSecrets(t)
      PROVE  task[t].pc # "idle" /\ UNCHANGED pages
  BY <1>o DEF PlanStep, LogStep, TestNamespace, CreateSecret, SecretsDone,
              RunStatement, StatementFails, StartHelm, HelmRefuses,
              ApplyManifest, Finish, HelmOutputLost, Doing, pages
<1>1. UNCHANGED <<ws, live, shown>>
  BY <1>l, <1>o DEF pages
<1>2. task[t].pc # "idle"
  BY <1>l, <1>o
<1>3. ASSUME LogStep(t) \/ TestNamespace(t) \/ SecretsDone(t) \/ StatementFails(t)
             \/ HelmRefuses(t) \/ ApplyManifest(t) \/ Finish(t)
             \/ HelmOutputLost(t)
      PROVE  task' = Finally(t) \/ task' = Put(t, Advanced(task[t]))
  BY <1>3 DEF LogStep, TestNamespace, SecretsDone, StatementFails, HelmRefuses,
              ApplyManifest, Finish, HelmOutputLost
<1>4. ASSUME ListSecrets(t) \/ CreateSecret(t)
      PROVE  \/ task' = Finally(t)
             \/ \E N \in SUBSET Secret : task' = Put(t, Needing(task[t], N))
  <2>1. /\ Of(t).secrets \ secrets[Of(t).ns] \in SUBSET Secret
        /\ \A name : task[t].needed \ {name} \in SUBSET Secret
    BY <1>0, TaskFields
  <2>2. CASE ListSecrets(t)
    BY <2>1, <2>2, Zenon DEF ListSecrets
  <2>3. CASE CreateSecret(t)
    BY <2>1, <2>3 DEF CreateSecret
  <2> QED
    BY <1>4, <2>2, <2>3
<1>5. ASSUME RunStatement(t)
       PROVE  \/ task' = Finally(t) \/ task' = Put(t, Advanced(task[t]))
              \/ task[t].pc = "step" /\ task' = Put(t, OneMore(task[t]))
  BY <1>5 DEF RunStatement, Doing
<1>6. ASSUME StartHelm(t)
       PROVE  task' = Put(t, At(task[t], "helm"))
  BY <1>6 DEF StartHelm
<1> QED
  BY <1>1, <1>2, <1>3, <1>4, <1>5, <1>6 DEF PlanStep

LEMMA PlanGoesOn ==
  ASSUME TypeOK, PageInv, NEW t \in Task, PlanStep(t) \/ HelmOutputLost(t)
  PROVE  AllGoOn /\ UNCHANGED <<ws, live, shown>>
<1>0. task[t] \in TaskType /\ task \in Tasks
  BY TaskFields DEF TypeOK, Tasks
<1>1. UNCHANGED <<ws, live, shown>>
  BY PlanMoves
<1>2. task[t].pc # "idle"
  BY PlanMoves
<1>3. CASE task' = Finally(t)
  BY <1>1, <1>3, FinallyGoesOn
<1>4. CASE task' = Put(t, Advanced(task[t]))
  <2>1. /\ Advanced(task[t]) \in TaskType /\ Advanced(task[t]).pc # "probe"
        /\ SameRequest(Advanced(task[t]), task[t])
    BY <1>0, AdvancedType
  <2> QED
    BY <1>1, <1>2, <1>4, <2>1, ActiveGoesOn
<1>5. CASE \E N \in SUBSET Secret : task' = Put(t, Needing(task[t], N))
  <2>1. PICK N \in SUBSET Secret : task' = Put(t, Needing(task[t], N))
    BY <1>5
  <2>2. /\ Needing(task[t], N) \in TaskType /\ Needing(task[t], N).pc # "probe"
        /\ SameRequest(Needing(task[t], N), task[t])
    BY <1>0, NeedingType
  <2> QED
    BY <1>1, <1>2, <2>1, <2>2, ActiveGoesOn
<1>6. CASE task[t].pc = "step" /\ task' = Put(t, OneMore(task[t]))
  <2>1. /\ OneMore(task[t]) \in TaskType /\ OneMore(task[t]).pc # "probe"
        /\ SameRequest(OneMore(task[t]), task[t])
    BY <1>0, <1>6, OneMoreType
  <2> QED
    BY <1>1, <1>2, <1>6, <2>1, ActiveGoesOn
<1>7. CASE task' = Put(t, At(task[t], "helm"))
  <2>1. "helm" \in Label
    BY DEF Label
  <2>2. /\ At(task[t], "helm") \in TaskType /\ At(task[t], "helm").pc # "probe"
        /\ SameRequest(At(task[t], "helm"), task[t])
    BY <1>0, <2>1, AtType
  <2> QED
    BY <1>1, <1>2, <1>7, <2>2, ActiveGoesOn
<1> QED
  BY <1>3, <1>4, <1>5, <1>6, <1>7, PlanMoves

(* A request that ends, of a package a page does not wait for. *)
LEMMA QuitIsMissed ==
  ASSUME TypeOK, PageInv, NEW t \in Task, task' = Quit(t),
         UNCHANGED <<ws, live, shown>>, ~ IsPlain(task[t].pkg)
  PROVE  PageInv'
<1>1. task'[t] = Idle /\ \A u \in Task : u # t => task'[u] = task[u]
  BY IdleType, PutType DEF TypeOK, Tasks, Quit
<1>2. Labelled(Idle)
  BY DEF Labelled, Idle
<1>3. \A u \in Task : Labelled(task'[u])
  BY <1>1, <1>2 DEF PageInv
<1>4. PendingIsInFlight'
  <2> SUFFICES ASSUME NEW p \in Pkg, IsPlain(p), ws \in Sock,
                      shown[ws][p] \in {"installing", "upgrading"}
               PROVE  \E u \in Task : task'[u].op # "none" /\ task'[u].pkg = p
    BY DEF PendingIsInFlight, IsPlain, IsManifest
  <2>1. PICK u \in Task : task[u].op # "none" /\ task[u].pkg = p
    BY DEF PageInv, PendingIsInFlight
  <2>2. u # t
    BY <2>1
  <2> QED
    BY <1>1, <2>1, <2>2
<1> QED
  BY <1>3, <1>4 DEF PageInv, Labelled

(* The last thing a request does: the page is told, or it is closed. *)
LEMMA SendIsNotMissed ==
  ASSUME TypeOK, PageInv, NEW t \in Task, SendStatus(t)
  PROVE  PageInv'
<1>0. /\ shown \in [Sock -> [Pkg -> ShownState]] /\ task[t].pkg \in Pkg
      /\ Settled(task[t].seen) \in ShownState \ {"installing", "upgrading"}
  BY TaskFields DEF TypeOK, Tasks, Settled, ShownState
<1>1. task'[t] = Idle /\ \A u \in Task : u # t => task'[u] = task[u]
  BY IdleType, PutType DEF TypeOK, Tasks, SendStatus, Quit
<1>2. Labelled(Idle)
  BY DEF Labelled, Idle
<1>3. \A u \in Task : Labelled(task'[u])
  BY <1>1, <1>2 DEF PageInv
<1>4. /\ ws' = ws /\ live' = live
      /\ \A s \in Sock, p \in Pkg :
            shown'[s][p] = IF ws \in live /\ s = ws /\ p = task[t].pkg
                           THEN Settled(task[t].seen) ELSE shown[s][p]
  <2>1. CASE ws \in live
    BY <1>0, <2>1, DeliverType DEF SendStatus
  <2>2. CASE ws \notin live
    BY <2>2 DEF SendStatus
  <2> QED
    BY <2>1, <2>2
<1>5. \A s \in Sock \ live', p \in Pkg : shown'[s][p] = "unknown"
  BY <1>4 DEF PageInv
<1>6. PendingIsInFlight'
  <2> SUFFICES ASSUME NEW p \in Pkg, IsPlain(p), ws \in Sock,
                      shown'[ws][p] \in {"installing", "upgrading"}
               PROVE  \E u \in Task : task'[u].op # "none" /\ task'[u].pkg = p
    BY <1>4 DEF PendingIsInFlight, IsPlain, IsManifest
  <2>1. shown'[ws][p] = shown[ws][p] /\ p # task[t].pkg
    <3>1. CASE ws \in live
      BY <1>0, <1>4, <3>1
    <3>2. CASE ws \notin live
      <4>1. shown'[ws][p] = "unknown"
        BY <1>4, <1>5, <3>2
      <4> QED
        BY <4>1
    <3> QED
      BY <3>1, <3>2
  <2>2. PICK u \in Task : task[u].op # "none" /\ task[u].pkg = p
    BY <2>1 DEF PageInv, PendingIsInFlight
  <2> QED
    BY <1>1, <2>1, <2>2
<1> QED
  BY <1>3, <1>5, <1>6 DEF PageInv, Labelled

LEMMA AnnounceGoesOn ==
  ASSUME TypeOK, PageInv, NEW t \in Task, Announce(t)
  PROVE  PageInv'
<1>0. /\ task[t] \in TaskType /\ task[t].pkg \in Pkg /\ live \subseteq Sock
      /\ Pending(task[t].seen) \in ShownState
      /\ shown \in [Sock -> [Pkg -> ShownState]]
  BY TaskFields DEF TypeOK, Tasks, Pending, ShownState
<1>1. task[t].pc = "announce" /\ ws' = ws /\ live' = live
  BY DEF Announce
<1>2. CASE task[t].channel \notin live
  <2>1. task' = Finally(t) /\ UNCHANGED shown
    BY <1>2 DEF Announce
  <2> QED
    BY <1>1, <2>1, FinallyGoesOn, PageStays
<1>3. CASE task[t].channel \in live
  <2>1. /\ Deliver(task[t].channel, task[t].pkg, Pending(task[t].seen))
        /\ task' = Put(t, Entered(task[t]))
    BY <1>3 DEF Announce
  <2>2. /\ Entered(task[t]) \in TaskType /\ Entered(task[t]).pc # "probe"
        /\ SameRequest(Entered(task[t]), task[t])
    BY <1>0, EnteredType
  <2>3. AllGoOn
    BY <1>1, <2>1, <2>2, ActiveGoesOn
  <2>4. \A s \in Sock, p \in Pkg :
           shown'[s][p] = IF s = task[t].channel /\ p = task[t].pkg
                          THEN Pending(task[t].seen) ELSE shown[s][p]
    BY <1>0, <2>1, DeliverType
  <2>5. \A s \in Sock \ live', p \in Pkg : shown'[s][p] = "unknown"
    BY <1>1, <1>3, <2>4 DEF PageInv
  <2>6. PendingIsInFlight'
    <3> SUFFICES ASSUME NEW p \in Pkg, IsPlain(p), ws \in Sock,
                        shown'[ws][p] \in {"installing", "upgrading"}
                 PROVE  \E u \in Task : task'[u].op # "none" /\ task'[u].pkg = p
      BY <1>1 DEF PendingIsInFlight, IsPlain, IsManifest
    <3>1. CASE p = task[t].pkg
      <4>1. task[t].op # "none"
        BY <1>1 DEF PageInv, Labelled
      <4> QED
        BY <2>3, <3>1, <4>1 DEF AllGoOn, GoesOn
    <3>2. CASE p # task[t].pkg
      <4>1. PICK u \in Task : task[u].op # "none" /\ task[u].pkg = p
        BY <2>4, <3>2 DEF PageInv, PendingIsInFlight
      <4> QED
        BY <2>3, <4>1 DEF AllGoOn, GoesOn
    <3> QED
      BY <3>1, <3>2
  <2>7. \A u \in Task : Labelled(task'[u])
    BY <2>3 DEF AllGoOn, GoesOn
  <2> QED
    BY <2>5, <2>6, <2>7 DEF PageInv, Labelled
<1> QED
  BY <1>2, <1>3

LEMMA CheckGoesOn ==
  ASSUME TypeOK, PageInv, NEW t \in Task, Check(t)
  PROVE  AllGoOn
<1>0. /\ task[t] \in TaskType /\ task[t].pkg \in Pkg
      /\ IsInstalled(task[t].pkg) \in BOOLEAN /\ task[t].pc # "idle"
      /\ "announce" \in Label
  BY TaskFields, InstalledType DEF TypeOK, Tasks, Check, Label
<1>1. ASSUME NEW b \in BOOLEAN, task' = Put(t, Seeing(task[t], "announce", b))
      PROVE  AllGoOn
  <2>1. /\ Seeing(task[t], "announce", b) \in TaskType
        /\ Seeing(task[t], "announce", b).pc # "probe"
        /\ SameRequest(Seeing(task[t], "announce", b), task[t])
    BY <1>0, SeeingType
  <2> QED
    BY <1>0, <1>1, <2>1, ActiveGoesOn
<1>2. \/ task' = Finally(t)
      \/ \E b \in BOOLEAN : task' = Put(t, Seeing(task[t], "announce", b))
  BY <1>0 DEF Check, Checked
<1> QED
  BY <1>1, <1>2, FinallyGoesOn

LEMMA ReadStays ==
  ASSUME TypeOK, PageInv, NEW t \in Task, ReadStatus(t) \/ Probe(t)
  PROVE  PageInv'
<1>0. /\ task[t] \in TaskType /\ task[t].pkg \in Pkg
      /\ IsInstalled(task[t].pkg) \in BOOLEAN /\ task[t].pc # "idle"
      /\ "probe" \in Label /\ "send" \in Label
  BY TaskFields, InstalledType DEF TypeOK, Tasks, ReadStatus, Probe, Label
<1>1. UNCHANGED <<ws, live, shown>>
  BY DEF ReadStatus, Probe, pages
<1>2. ASSUME NEW b \in BOOLEAN, task' = Read(t, b)
      PROVE  PageInv'
  <2>1. PICK l \in {"probe", "send"} :
           /\ task' = Put(t, Seeing(task[t], l, b))
           /\ l = "probe" => Of(t).probe # "none"
    BY <1>2 DEF Read
  <2>2. /\ Seeing(task[t], l, b) \in TaskType
        /\ Seeing(task[t], l, b).pc = l
        /\ SameRequest(Seeing(task[t], l, b), task[t])
    BY <1>0, <2>1, SeeingType
  <2>3. l = "probe" => Profile[Seeing(task[t], l, b).pkg].probe # "none"
    BY <2>1, <2>2 DEF Of, SameRequest
  <2> QED
    BY <1>0, <1>1, <2>1, <2>2, <2>3, ActiveGoesOn, PageStays
<1>3. CASE task' = Put(t, At(task[t], "send"))
  <2>1. /\ At(task[t], "send") \in TaskType /\ At(task[t], "send").pc # "probe"
        /\ SameRequest(At(task[t], "send"), task[t])
    BY <1>0, AtType
  <2> QED
    BY <1>0, <1>1, <1>3, <2>1, ActiveGoesOn, PageStays
<1>4. CASE task' = Quit(t) /\ ~ IsPlain(task[t].pkg)
  BY <1>1, <1>4, QuitIsMissed
<1>5. CASE ReadStatus(t)
  <2>1. \/ \E b \in BOOLEAN : task' = Read(t, b)
        \/ task' = Quit(t) /\ IsManifest(task[t].pkg)
    BY <1>0, <1>5 DEF ReadStatus
  <2> QED
    BY <1>2, <1>4, <2>1 DEF IsPlain
<1>6. CASE Probe(t)
  <2>1. Profile[task[t].pkg].probe # "none"
    BY <1>6 DEF Probe, PageInv, Labelled
  <2>2. task' = Put(t, At(task[t], "send")) \/ task' = Quit(t)
    BY <1>6 DEF Probe
  <2> QED
    BY <1>3, <1>4, <2>1, <2>2 DEF IsPlain
<1> QED
  BY <1>5, <1>6

LEMMA RequestGoesOn ==
  ASSUME TypeOK, PageInv, NEW t \in Task, NEW p \in Pkg,
         NEW o \in {"install", "upgrade", "status"}, Request(t, o, p)
  PROVE  AllGoOn
<1>1. ws \in Sock \cup {NoSock} /\ task[t].op = "none"
  BY DEF TypeOK, Request
<1>2. ASSUME NEW r \in {Reporting(p), Starting(o, p)}
      PROVE  r \in TaskType /\ GoesOn(task[t], r)
  <2>1. r \in TaskType /\ r.op # "none" /\ r.pc # "probe"
    <3>1. CASE r = Reporting(p)
      BY <3>1, ReportingType
    <3>2. CASE r = Starting(o, p)
      <4>1. /\ Starting(o, p) \in TaskType
            /\ Starting(o, p).op = o /\ Starting(o, p).pc = "check"
        BY <1>1, StartingType
      <4> QED
        BY <3>2, <4>1
    <3> QED
      BY <3>1, <3>2
  <2> QED
    BY <1>1, <2>1 DEF GoesOn, Labelled
<1>3. PICK r \in {Reporting(p), Starting(o, p)} : task' = Put(t, r)
  BY DEF Request
<1> QED
  BY <1>2, <1>3, OneGoesOn

LEMMA HelmGoesOn ==
  ASSUME TypeOK, PageInv, NEW p \in Pkg, HelmSettles(p)
  PROVE  AllGoOn
<1> SUFFICES ASSUME NEW u \in Task PROVE GoesOn(task[u], task'[u])
  BY DEF AllGoOn
<1>0. task[u] \in TaskType /\ Labelled(task[u])
  BY TaskFields DEF TypeOK, Tasks, PageInv
<1>1. \/ task'[u] = task[u]
      \/ task[u].pc = "helm" /\ task[u].pkg = p /\ task'[u] = Reporting(p)
      \/ task[u].pc = "helm" /\ task'[u] = Advanced(task[u])
  BY DEF HelmSettles
<1>2. CASE task'[u] = task[u]
  BY <1>0, <1>2 DEF GoesOn
<1>3. CASE task[u].pkg = p /\ task'[u] = Reporting(p)
  BY <1>3, ReportingType DEF GoesOn, Labelled
<1>4. CASE task[u].pc = "helm" /\ task'[u] = Advanced(task[u])
  <2>1. /\ task'[u].pc = "step"
        /\ task'[u].op = task[u].op /\ task'[u].pkg = task[u].pkg
    BY <1>0, <1>4, AdvancedType DEF SameRequest
  <2> QED
    BY <1>0, <1>4, <2>1 DEF GoesOn, Labelled
<1> QED
  BY <1>1, <1>2, <1>3, <1>4

LEMMA PageMoves ==
  ASSUME TypeOK, PageInv, NEW s \in Sock, Connect(s) \/ Disconnect(s)
  PROVE  PageInv'
<1>0. task' = task /\ shown \in [Sock -> [Pkg -> ShownState]]
  BY DEF Connect, Disconnect, TypeOK
<1>1. \A t \in Task : Labelled(task'[t])
  BY <1>0 DEF PageInv
<1>2. CASE Connect(s)
  <2>1. ws' = s /\ shown' = shown /\ live' = live \cup {s} /\ s \notin live
    BY <1>2 DEF Connect
  <2>2. \A p \in Pkg : shown'[ws'][p] = "unknown"
    BY <2>1 DEF PageInv
  <2>3. PendingIsInFlight'
    BY <2>2 DEF PendingIsInFlight
  <2> QED
    BY <1>1, <2>1, <2>3 DEF PageInv, Labelled
<1>3. CASE Disconnect(s)
  <2>1. ws' = ws /\ live' = live \ {s}
    BY <1>3 DEF Disconnect
  <2>2. \A z \in Sock, p \in Pkg :
           shown'[z][p] = IF z = s THEN "unknown" ELSE shown[z][p]
    BY <1>0, <1>3 DEF Disconnect
  <2>3. PendingIsInFlight'
    <3> SUFFICES ASSUME NEW p \in Pkg, IsPlain(p), ws \in Sock,
                        shown'[ws][p] \in {"installing", "upgrading"}
                 PROVE  \E u \in Task : task[u].op # "none" /\ task[u].pkg = p
      BY <1>0, <2>1 DEF PendingIsInFlight, IsPlain, IsManifest
    <3>1. shown[ws][p] \in {"installing", "upgrading"}
      BY <2>2
    <3> QED
      BY <3>1 DEF PageInv, PendingIsInFlight
  <2>4. \A z \in Sock \ live', p \in Pkg : shown'[z][p] = "unknown"
    BY <2>1, <2>2 DEF PageInv
  <2> QED
    BY <1>1, <2>3, <2>4 DEF PageInv, Labelled
<1> QED
  BY <1>2, <1>3

LEMMA PageInit == Init => PageInv
<1> SUFFICES ASSUME Init
             PROVE  PageInv
  OBVIOUS
<1>1. /\ ws = NoSock
      /\ \A s \in Sock, p \in Pkg : shown[s][p] = "unknown"
      /\ \A t \in Task : task[t] = Idle
  BY DEF Init
<1>2. Labelled(Idle)
  BY DEF Labelled, Idle
<1>3. PendingIsInFlight
  BY <1>1, SocketAssumption DEF PendingIsInFlight
<1> QED
  BY <1>1, <1>2, <1>3 DEF PageInv

LEMMA PageStep == TypeOK /\ PageInv /\ [Next]_vars => PageInv'
<1> SUFFICES ASSUME TypeOK, PageInv, [Next]_vars
             PROVE  PageInv'
  OBVIOUS
<1>1. ASSUME NEW t \in Task, NEW o \in {"install", "upgrade", "status"},
             NEW p \in Pkg, Request(t, o, p)
      PROVE  PageInv'
  <2>1. UNCHANGED <<ws, live, shown>>
    BY <1>1 DEF Request, pages
  <2> QED
    BY <1>1, <2>1, RequestGoesOn, PageStays
<1>2. ASSUME NEW t \in Task, Check(t)
      PROVE  PageInv'
  <2>1. UNCHANGED <<ws, live, shown>>
    BY <1>2 DEF Check, pages
  <2> QED
    BY <1>2, <2>1, CheckGoesOn, PageStays
<1>3. ASSUME NEW t \in Task, Announce(t)
      PROVE  PageInv'
  BY <1>3, AnnounceGoesOn
<1>4. ASSUME NEW t \in Task, PlanStep(t) \/ HelmOutputLost(t)
      PROVE  PageInv'
  BY <1>4, PlanGoesOn, PageStays
<1>5. ASSUME NEW t \in Task, ReadStatus(t) \/ Probe(t)
      PROVE  PageInv'
  BY <1>5, ReadStays
<1>6. ASSUME NEW t \in Task, SendStatus(t)
      PROVE  PageInv'
  BY <1>6, SendIsNotMissed
<1>7. ASSUME NEW p \in Pkg, HelmSettles(p)
      PROVE  PageInv'
  <2>1. UNCHANGED <<ws, live, shown>>
    BY <1>7 DEF HelmSettles, pages
  <2> QED
    BY <1>7, <2>1, HelmGoesOn, PageStays
<1>8. ASSUME NEW s \in Sock, Connect(s) \/ Disconnect(s)
      PROVE  PageInv'
  BY <1>8, PageMoves
<1>9. ASSUME LogsConnect \/ LogsDisconnect \/ UNCHANGED vars
      PROVE  PageInv'
  <2>1. task' = task /\ UNCHANGED <<ws, live, shown>>
    BY <1>9 DEF LogsConnect, LogsDisconnect, vars, pages
  <2>2. AllGoOn
    BY <2>1 DEF AllGoOn, GoesOn, PageInv
  <2> QED
    BY <2>1, <2>2, PageStays
<1>10. ASSUME Restart
       PROVE  PageInv'
  <2>1. /\ ws' = NoSock
        /\ \A s \in Sock, p \in Pkg : shown'[s][p] = "unknown"
        /\ \A t \in Task : task'[t] = Idle
    BY <1>10 DEF Restart
  <2>2. Labelled(Idle)
    BY DEF Labelled, Idle
  <2>3. PendingIsInFlight'
    BY <2>1, SocketAssumption DEF PendingIsInFlight
  <2> QED
    BY <2>1, <2>2, <2>3 DEF PageInv, Labelled
<1> QED
  BY <1>1, <1>2, <1>3, <1>4, <1>5, <1>6, <1>7, <1>8, <1>9, <1>10
     DEF Next, ServerStep, UserStep

(***************************************************************************)
(* No way out of install_pack, upgrade_pack or send_status leaves the      *)
(* current page waiting: what it shows as pending has a request that will  *)
(* send its status, for any number of pages, requests and restarts.        *)
(***************************************************************************)
THEOREM PageIsAnswered == Spec => []PendingIsInFlight
<1>1. PageInv => PendingIsInFlight
  BY DEF PageInv
<1> QED
  BY <1>1, PageInit, TypeCorrect, PageStep, PTL DEF Spec
=============================================================================
