------------------------ MODULE DeployRequestProofs ------------------------
(* What Deploy does for one request: it brings it further at every step,   *)
(* and when requests come one at a time and nothing fails, it does what    *)
(* was asked and tells the page the truth.                                 *)
EXTENDS DeployProofs

-----------------------------------------------------------------------------
(* ---- a request only goes further ---- *)

(* The label of a request is one of its operation, and a statement to run  *)
(* is one of its package.                                                  *)
Fits(r) ==
    /\ r.op = "none" <=> r.pc = "idle"
    /\ r.op = "status" <=> r.pc \in {"read", "probe", "send"}
    /\ r.ran <= Len(Profile[r.pkg].sql)

FitInv == \A t \in Task : Fits(task[t])

RequestStep ==
    \A t \in Task : task[t].op # "none" /\ task'[t] # task[t] =>
        Advances(task[t], task'[t])

Goes == FitInv' /\ RequestStep

LEMMA SqlLength ==
  ASSUME NEW p \in Pkg
  PROVE  Len(Profile[p].sql) \in Nat
BY ProfileType

LEMMA IdleFits == Fits(Idle) /\ Idle.op = "none"
<1>1. Idle.pkg \in Pkg /\ Idle.op = "none" /\ Idle.pc = "idle" /\ Idle.ran = 0
  BY ConstantsAssumption DEF Idle
<1>2. Len(Profile[Idle.pkg].sql) \in Nat
  BY <1>1, SqlLength
<1> HIDE DEF Idle
<1> QED
  BY <1>1, <1>2 DEF Fits

LEMMA ReportingFits ==
  ASSUME NEW p \in Pkg
  PROVE  Fits(Reporting(p))
<1>1. /\ Reporting(p).pkg = p /\ Reporting(p).op = "status"
      /\ Reporting(p).pc = "read" /\ Reporting(p).ran = 0
  BY ReportingType
<1> QED
  BY <1>1, SqlLength DEF Fits

LEMMA FitInit == Init => FitInv
BY IdleFits DEF Init, FitInv

(* One request moves, the others stay where they are. *)
LEMMA OneMoves ==
  ASSUME task \in Tasks, FitInv, NEW t \in Task, NEW q \in TaskType,
         task' = Put(t, q), Fits(q), task[t].op # "none" => Advances(task[t], q)
  PROVE  Goes
<1>1. /\ task'[t] = q
      /\ \A u \in Task : u # t => task'[u] = task[u]
  BY PutType
<1> QED
  BY <1>1 DEF Goes, FitInv, RequestStep

LEMMA Leaves ==
  ASSUME task \in Tasks, FitInv, NEW t \in Task,
         \/ task' = Quit(t)
         \/ task' = Finally(t) /\ task[t].op # "status"
  PROVE  Goes
<1>1. task[t].pkg \in Pkg
  BY TaskFields
<1>2. CASE task' = Quit(t)
  BY <1>2, IdleType, IdleFits, OneMoves DEF Quit, Advances
<1>3. CASE task' = Finally(t) /\ task[t].op # "status"
  BY <1>1, <1>3, ReportingType, ReportingFits, OneMoves DEF Finally, Advances
<1> QED
  BY <1>2, <1>3

LEMMA PlanRequest ==
  ASSUME NEW r \in TaskType, Fits(r), InPlan(r)
  PROVE  r.op \in {"install", "upgrade"} /\ r.ran \in 0..Len(Profile[r.pkg].sql)
         /\ r.at \in Nat /\ Len(PlanOf(r)) \in Nat /\ Stage(r) = 3
<1>1. r.pkg \in Pkg /\ r.at \in Nat /\ r.ran \in Nat
      /\ r.op \in {"none", "install", "upgrade", "status"}
  BY DEF TaskType
<1>2. Len(PlanOf(r)) \in Nat
  BY <1>1, ProfileType DEF PlanOf
<1>3. r.pc \in {"step", "secrets", "helm"}
  BY DEF InPlan
<1>4. r.op \in {"install", "upgrade"}
  BY <1>1, <1>3 DEF Fits
<1>5. r.ran \in 0..Len(Profile[r.pkg].sql)
  BY <1>1, SqlLength DEF Fits
<1>6. Stage(r) = 3
  BY <1>3 DEF Stage
<1> QED
  BY <1>1, <1>2, <1>4, <1>5, <1>6

(* A step of a plan: the request stays in the plan and goes further there. *)
LEMMA InPlanFits ==
  ASSUME NEW r \in TaskType, Fits(r), InPlan(r),
         NEW q \in TaskType, SameRequest(q, r), InPlan(q), FurtherInPlan(r, q)
  PROVE  Fits(q) /\ Advances(r, q)
<1>1. r.op \in {"install", "upgrade"} /\ Stage(r) = 3
  BY PlanRequest
<1>2. q.op = r.op /\ q.pkg = r.pkg
  BY DEF SameRequest
<1>3. q.pc \in {"step", "secrets", "helm"}
  BY DEF InPlan
<1>4. q.ran \in 0..Len(Profile[q.pkg].sql)
  BY <1>2 DEF FurtherInPlan
<1>5. r.pkg \in Pkg
  BY DEF TaskType
<1>6. Fits(q)
  BY <1>1, <1>2, <1>3, <1>4, <1>5, SqlLength DEF Fits
<1>7. Stage(q) = 3
  BY <1>3 DEF Stage
<1> QED
  BY <1>1, <1>2, <1>6, <1>7 DEF Advances, Further

(* The places a request goes to inside its plan. *)
LEMMA NextStepFits ==
  ASSUME NEW r \in TaskType, Fits(r), InPlan(r), r.at \in 1..Len(PlanOf(r))
  PROVE  Fits(Advanced(r)) /\ Advances(r, Advanced(r))
<1> DEFINE q == Advanced(r)
<1>1. /\ q \in TaskType /\ SameRequest(q, r)
      /\ q.pc = "step" /\ q.at = r.at + 1 /\ q.ran = 0
  BY AdvancedType
<1>2. /\ r.at \in Nat /\ Len(PlanOf(r)) \in Nat
      /\ r.ran \in 0..Len(Profile[r.pkg].sql) /\ r.pkg \in Pkg
  BY PlanRequest DEF TaskType
<1>3. 0 \in 0..Len(Profile[r.pkg].sql)
  BY <1>2, SqlLength
<1> HIDE DEF q
<1>4. FurtherInPlan(r, q)
  BY <1>1, <1>2, <1>3 DEF FurtherInPlan
<1>5. InPlan(q)
  BY <1>1 DEF InPlan
<1> QED
  BY <1>1, <1>4, <1>5, InPlanFits DEF q

LEMMA InsideFits ==
  ASSUME NEW r \in TaskType, Fits(r), InPlan(r), r.at \in 1..Len(PlanOf(r)),
         NEW q \in TaskType, SameRequest(q, r), InPlan(q), q.at = r.at,
         q.ran = r.ran \/ q.ran = r.ran + 1,
         q.ran <= Len(Profile[r.pkg].sql), FurtherInStep(r, q)
  PROVE  Fits(q) /\ Advances(r, q)
<1>1. /\ Len(PlanOf(r)) \in Nat /\ r.ran \in 0..Len(Profile[r.pkg].sql)
      /\ r.pkg \in Pkg
  BY PlanRequest DEF TaskType
<1>2. q.at \in 1..(Len(PlanOf(r)) + 1)
  BY <1>1
<1>3. q.ran \in 0..Len(Profile[r.pkg].sql)
  BY <1>1, SqlLength
<1> QED
  BY <1>2, <1>3, InPlanFits DEF FurtherInPlan

LEMMA HelmFits ==
  ASSUME NEW r \in TaskType, Fits(r), r.pc = "step",
         r.at \in 1..Len(PlanOf(r))
  PROVE  Fits(At(r, "helm")) /\ Advances(r, At(r, "helm"))
<1> DEFINE q == At(r, "helm")
<1>1. /\ q \in TaskType /\ SameRequest(q, r)
      /\ q.pc = "helm" /\ q.at = r.at /\ q.ran = r.ran
  BY AtType DEF Label
<1>2. InPlan(r) /\ r.ran \in 0..Len(Profile[r.pkg].sql) /\ r.pkg \in Pkg
  BY PlanRequest DEF InPlan, TaskType
<1>3. r.ran <= Len(Profile[r.pkg].sql)
  BY <1>2, SqlLength
<1> HIDE DEF q
<1>4. InPlan(q) /\ FurtherInStep(r, q)
  BY <1>1 DEF InPlan, FurtherInStep
<1> QED
  BY <1>1, <1>2, <1>3, <1>4, InsideFits DEF q

LEMMA NeedingFits ==
  ASSUME NEW r \in TaskType, Fits(r), r.at \in 1..Len(PlanOf(r)),
         NEW N \in SUBSET Secret,
         \/ r.pc = "step"
         \/ r.pc = "secrets" /\ N \subseteq r.needed /\ N # r.needed
  PROVE  Fits(Needing(r, N)) /\ Advances(r, Needing(r, N))
<1> DEFINE q == Needing(r, N)
<1>1. /\ q \in TaskType /\ SameRequest(q, r) /\ q.needed = N
      /\ q.pc = "secrets" /\ q.at = r.at /\ q.ran = r.ran
  BY NeedingType
<1>2. InPlan(r) /\ r.ran \in 0..Len(Profile[r.pkg].sql) /\ r.pkg \in Pkg
  BY PlanRequest DEF InPlan, TaskType
<1>3. r.ran <= Len(Profile[r.pkg].sql)
  BY <1>2, SqlLength
<1> HIDE DEF q
<1>4. InPlan(q) /\ FurtherInStep(r, q)
  BY <1>1 DEF InPlan, FurtherInStep
<1> QED
  BY <1>1, <1>2, <1>3, <1>4, InsideFits DEF q

LEMMA OneMoreFits ==
  ASSUME NEW r \in TaskType, Fits(r), r.pc = "step",
         r.at \in 1..Len(PlanOf(r)), r.ran < Len(Profile[r.pkg].sql)
  PROVE  Fits(OneMore(r)) /\ Advances(r, OneMore(r))
<1> DEFINE q == OneMore(r)
<1>1. /\ q \in TaskType /\ SameRequest(q, r)
      /\ q.pc = "step" /\ q.at = r.at /\ q.ran = r.ran + 1
  BY OneMoreType
<1>2. InPlan(r) /\ r.ran \in Nat /\ r.pkg \in Pkg
  BY DEF InPlan, TaskType
<1>3. q.ran > r.ran /\ q.ran <= Len(Profile[r.pkg].sql)
  BY <1>1, <1>2, SqlLength
<1> HIDE DEF q
<1>4. InPlan(q) /\ FurtherInStep(r, q)
  BY <1>1, <1>3 DEF InPlan, FurtherInStep
<1> QED
  BY <1>1, <1>2, <1>3, <1>4, InsideFits DEF q

(* The places it goes to outside its plan. *)
LEMMA SeeingFits ==
  ASSUME NEW r \in TaskType, Fits(r), NEW b \in BOOLEAN,
         NEW l \in {"announce", "probe", "send"},
         \/ r.pc = "check" /\ l = "announce"
         \/ r.pc = "read" /\ l \in {"probe", "send"}
  PROVE  Fits(Seeing(r, l, b)) /\ Advances(r, Seeing(r, l, b))
<1> DEFINE q == Seeing(r, l, b)
<1>a. l \in Label
  BY DEF Label
<1>1. /\ q \in TaskType /\ SameRequest(q, r)
      /\ q.pc = l /\ q.ran = r.ran
  BY <1>a, SeeingType
<1> HIDE DEF q
<1>2. Stage(r) = 1 /\ Stage(q) \in {2, 3}
  BY <1>1 DEF Stage
<1>3. Fits(q)
  BY <1>1 DEF Fits, SameRequest
<1> QED
  BY <1>1, <1>2, <1>3 DEF Advances, Further, SameRequest, q

LEMMA SendFits ==
  ASSUME NEW r \in TaskType, Fits(r), r.pc = "probe"
  PROVE  Fits(At(r, "send")) /\ Advances(r, At(r, "send"))
<1> DEFINE q == At(r, "send")
<1>1. SameRequest(q, r) /\ q.pc = "send" /\ q.ran = r.ran
  BY AtType DEF Label
<1> HIDE DEF q
<1>2. Stage(r) = 2 /\ Stage(q) = 3
  BY <1>1 DEF Stage
<1> QED
  BY <1>1, <1>2 DEF Advances, Further, Fits, SameRequest, q

LEMMA EnteredFits ==
  ASSUME NEW r \in TaskType, Fits(r), r.pc = "announce"
  PROVE  Fits(Entered(r)) /\ Advances(r, Entered(r))
<1> DEFINE q == Entered(r)
<1>1. SameRequest(q, r) /\ q.pc = "step" /\ q.ran = r.ran
  BY EnteredType
<1> HIDE DEF q
<1>2. Stage(r) = 2 /\ Stage(q) = 3
  BY <1>1 DEF Stage
<1> QED
  BY <1>1, <1>2 DEF Advances, Further, Fits, SameRequest, q

LEMMA RequestGoes ==
  ASSUME TypeOK, FitInv, NEW t \in Task, NEW p \in Pkg,
         NEW o \in {"install", "upgrade", "status"}, Request(t, o, p)
  PROVE  Goes
<1>0. task \in Tasks /\ ws \in Sock \cup {NoSock}
  BY DEF TypeOK, Tasks
<1>1. CASE task' = Put(t, Reporting(p))
  BY <1>0, <1>1, ReportingType, ReportingFits, OneMoves DEF Request
<1>2. CASE o # "status" /\ task' = Put(t, Starting(o, p))
  <2>1. /\ Starting(o, p) \in TaskType /\ Starting(o, p).op = o
        /\ Starting(o, p).pkg = p
        /\ Starting(o, p).pc = "check" /\ Starting(o, p).ran = 0
    BY <1>0, StartingType
  <2>2. Fits(Starting(o, p))
    BY <1>2, <2>1, SqlLength DEF Fits
  <2> QED
    BY <1>0, <1>2, <2>1, <2>2, OneMoves DEF Request
<1> QED
  BY <1>1, <1>2 DEF Request

(* The answer of is_installed, and the send that uses it. *)
LEMMA AnswerGoes ==
  ASSUME TypeOK, FitInv, NEW t \in Task,
         Check(t) \/ Announce(t) \/ ReadStatus(t) \/ Probe(t) \/ SendStatus(t)
  PROVE  Goes
<1>0. /\ task \in Tasks /\ task[t] \in TaskType /\ Fits(task[t])
      /\ IsInstalled(task[t].pkg) \in BOOLEAN
  BY TaskFields, InstalledType DEF TypeOK, Tasks, FitInv
<1>1. ASSUME NEW b \in BOOLEAN, NEW l \in {"announce", "probe", "send"},
             \/ task[t].pc = "check" /\ l = "announce"
             \/ task[t].pc = "read" /\ l \in {"probe", "send"},
             task' = Put(t, Seeing(task[t], l, b))
      PROVE  Goes
  <2>1. l \in Label
    BY DEF Label
  <2>2. Seeing(task[t], l, b) \in TaskType
    BY <1>0, <2>1, SeeingType
  <2>3. Fits(Seeing(task[t], l, b)) /\ Advances(task[t], Seeing(task[t], l, b))
    BY <1>0, <1>1, SeeingFits
  <2> QED
    BY <1>0, <1>1, <2>2, <2>3, OneMoves
<1>2. CASE Check(t)
  <2>1. task[t].pc = "check" /\ task[t].op # "status"
    BY <1>0, <1>2 DEF Check, Fits
  <2>2. \/ task' = Finally(t)
        \/ \E b \in BOOLEAN : task' = Put(t, Seeing(task[t], "announce", b))
    BY <1>0, <1>2 DEF Check, Checked
  <2> QED
    BY <1>0, <1>1, <2>1, <2>2, Leaves
<1>3. CASE Announce(t)
  <2>1. task[t].pc = "announce" /\ task[t].op # "status"
    BY <1>0, <1>3 DEF Announce, Fits
  <2>2. task' = Finally(t) \/ task' = Put(t, Entered(task[t]))
    BY <1>3 DEF Announce
  <2>3. /\ Fits(Entered(task[t])) /\ Advances(task[t], Entered(task[t]))
        /\ Entered(task[t]) \in TaskType
    BY <1>0, <2>1, EnteredFits, EnteredType
  <2> QED
    BY <1>0, <2>1, <2>2, <2>3, Leaves, OneMoves
<1>4. CASE ReadStatus(t)
  <2>1. task[t].pc = "read"
    BY <1>4 DEF ReadStatus
  <2>2. task' = Quit(t) \/ \E b \in BOOLEAN : task' = Read(t, b)
    BY <1>0, <1>4 DEF ReadStatus
  <2>3. ASSUME NEW b \in BOOLEAN, task' = Read(t, b)
        PROVE  Goes
    <3>1. \E l \in {"probe", "send"} : task' = Put(t, Seeing(task[t], l, b))
      BY <2>3 DEF Read
    <3> QED
      BY <1>1, <2>1, <3>1
  <2> QED
    BY <1>0, <2>2, <2>3, Leaves
<1>5. CASE Probe(t)
  <2>1. task[t].pc = "probe"
    BY <1>5 DEF Probe
  <2>2. task' = Quit(t) \/ task' = Put(t, At(task[t], "send"))
    BY <1>5 DEF Probe
  <2>3. /\ Fits(At(task[t], "send")) /\ Advances(task[t], At(task[t], "send"))
        /\ At(task[t], "send") \in TaskType
    BY <1>0, <2>1, SendFits, AtType DEF Label
  <2> QED
    BY <1>0, <2>2, <2>3, Leaves, OneMoves
<1>6. CASE SendStatus(t)
  BY <1>0, <1>6, Leaves DEF SendStatus
<1> QED
  BY <1>2, <1>3, <1>4, <1>5, <1>6

(* Where a request inside its plan is. *)
LEMMA WhereItIs ==
  ASSUME SafeInv, NEW t \in Task, task[t].pc \in {"secrets", "helm"}
  PROVE  InPlan(task[t]) /\ task[t].at \in 1..Len(PlanOf(task[t]))
BY DEF SafeInv, IInv, Sound, AtItsStep, InPlan

(* A step of Package.install or Package.upgrade. *)
LEMMA PlanGoes ==
  ASSUME SafeInv, FitInv, NEW t \in Task, PlanStep(t) \/ HelmOutputLost(t)
  PROVE  Goes
<1>0. task \in Tasks /\ task[t] \in TaskType /\ Fits(task[t])
  BY TaskFields DEF SafeInv, TypeOK, Tasks, FitInv
<1>a. task[t].pc \in {"step", "secrets", "helm"}
  BY DEF PlanStep, HelmOutputLost, LogStep, TestNamespace, ListSecrets,
         CreateSecret, SecretsDone, RunStatement, StatementFails, StartHelm,
         HelmRefuses, ApplyManifest, Finish, Doing
<1>b. task[t].op # "status" /\ InPlan(task[t])
  BY <1>0, <1>a DEF Fits, InPlan
<1>1. CASE task' = Finally(t)
  BY <1>0, <1>1, <1>b, Leaves
<1>2. CASE /\ task' = Put(t, Advanced(task[t]))
           /\ task[t].at \in 1..Len(PlanOf(task[t]))
  <2>1. Advanced(task[t]) \in TaskType
    BY <1>0, AdvancedType
  <2> QED
    BY <1>0, <1>2, <1>b, <2>1, NextStepFits, OneMoves
<1>3. CASE LogStep(t) \/ HelmRefuses(t) \/ ApplyManifest(t)
  <2>1. task[t].at \in 1..Len(PlanOf(task[t]))
    BY <1>3, DoingFacts DEF LogStep, HelmRefuses, ApplyManifest
  <2>2. task' = Finally(t) \/ task' = Put(t, Advanced(task[t]))
    BY <1>3 DEF LogStep, HelmRefuses, ApplyManifest
  <2> QED
    BY <1>1, <1>2, <2>1, <2>2
<1>4. CASE TestNamespace(t) \/ StatementFails(t) \/ Finish(t) \/ HelmOutputLost(t)
  BY <1>1, <1>4 DEF TestNamespace, StatementFails, Finish, HelmOutputLost
<1>5. ASSUME NEW N \in SUBSET Secret, task' = Put(t, Needing(task[t], N)),
             task[t].at \in 1..Len(PlanOf(task[t])),
             \/ task[t].pc = "step"
             \/ task[t].pc = "secrets" /\ N \subseteq task[t].needed
                  /\ N # task[t].needed
      PROVE  Goes
  <2>1. Needing(task[t], N) \in TaskType
    BY <1>0, NeedingType
  <2>2. Fits(Needing(task[t], N)) /\ Advances(task[t], Needing(task[t], N))
    BY <1>0, <1>5, NeedingFits
  <2> QED
    BY <1>0, <1>5, <2>1, <2>2, OneMoves
<1>6. CASE ListSecrets(t)
  <2> DEFINE N == Of(t).secrets \ secrets[Of(t).ns]
  <2>1. task[t].pc = "step" /\ task[t].at \in 1..Len(PlanOf(task[t]))
    BY <1>6, DoingFacts DEF ListSecrets
  <2>2. task' = Finally(t) \/ task' = Put(t, Needing(task[t], N))
    BY <1>6 DEF ListSecrets
  <2>3. N \in SUBSET Secret
    BY <1>0, TaskFields
  <2> HIDE DEF N
  <2> QED
    BY <1>1, <1>5, <2>1, <2>2, <2>3
<1>7. CASE CreateSecret(t)
  <2>1. PICK name \in task[t].needed :
          \/ task' = Put(t, Needing(task[t], task[t].needed \ {name}))
          \/ task' = Finally(t)
    BY <1>7 DEF CreateSecret
  <2>2. task[t].pc = "secrets"
    BY <1>7 DEF CreateSecret
  <2>3. task[t].at \in 1..Len(PlanOf(task[t]))
    BY <2>2, WhereItIs
  <2> DEFINE N == task[t].needed \ {name}
  <2>4. N \in SUBSET Secret /\ N \subseteq task[t].needed /\ N # task[t].needed
    BY <1>0, <2>1, TaskFields
  <2> HIDE DEF N
  <2> QED
    BY <1>1, <1>5, <2>1, <2>2, <2>3, <2>4 DEF N
<1>8. CASE SecretsDone(t)
  <2>1. task[t].pc = "secrets" /\ task' = Put(t, Advanced(task[t]))
    BY <1>8 DEF SecretsDone
  <2> QED
    BY <1>2, <2>1, WhereItIs
<1>9. CASE RunStatement(t)
  <2>1. task[t].pc = "step" /\ task[t].at \in 1..Len(PlanOf(task[t]))
    BY <1>9, DoingFacts DEF RunStatement
  <2>2. task[t].ran < Len(Profile[task[t].pkg].sql)
    BY <1>9 DEF RunStatement, Of
  <2>3. \/ task' = Finally(t) \/ task' = Put(t, Advanced(task[t]))
        \/ task' = Put(t, OneMore(task[t]))
    BY <1>9 DEF RunStatement
  <2>4. /\ OneMore(task[t]) \in TaskType
        /\ Fits(OneMore(task[t])) /\ Advances(task[t], OneMore(task[t]))
    BY <1>0, <2>1, <2>2, OneMoreType, OneMoreFits
  <2> QED
    BY <1>0, <1>1, <1>2, <2>1, <2>3, <2>4, OneMoves
<1>10. CASE StartHelm(t)
  <2>1. task[t].pc = "step" /\ task[t].at \in 1..Len(PlanOf(task[t]))
    BY <1>10, DoingFacts DEF StartHelm
  <2>2. task' = Put(t, At(task[t], "helm"))
    BY <1>10 DEF StartHelm
  <2>3. /\ At(task[t], "helm") \in TaskType
        /\ Fits(At(task[t], "helm")) /\ Advances(task[t], At(task[t], "helm"))
    BY <1>0, <2>1, AtType, HelmFits DEF Label
  <2> QED
    BY <1>0, <2>2, <2>3, OneMoves
<1> QED
  BY <1>3, <1>4, <1>6, <1>7, <1>8, <1>9, <1>10 DEF PlanStep

(* helm ends: the requests that wait for it go on, or leave. *)
LEMMA SettlesGoes ==
  ASSUME SafeInv, FitInv, NEW p \in Pkg, HelmSettles(p)
  PROVE  Goes
<1>0. task \in Tasks /\ \A u \in Task : task[u] \in TaskType /\ Fits(task[u])
  BY TaskFields DEF SafeInv, TypeOK, Tasks, FitInv
<1>1. ASSUME NEW u \in Task, task'[u] # task[u]
      PROVE  Fits(task'[u]) /\ Advances(task[u], task'[u])
  <2>1. /\ task[u].pc = "helm" /\ task[u].pkg = p
        /\ task'[u] = Reporting(p) \/ task'[u] = Advanced(task[u])
    BY <1>1 DEF HelmSettles
  <2>2. CASE task'[u] = Reporting(p)
    <3>1. task[u].op # "status"
      BY <1>0, <2>1 DEF Fits
    <3> QED
      BY <2>1, <2>2, <3>1, ReportingFits DEF Advances
  <2>3. CASE task'[u] = Advanced(task[u])
    <3>1. InPlan(task[u]) /\ task[u].at \in 1..Len(PlanOf(task[u]))
      BY <2>1, WhereItIs
    <3> QED
      BY <1>0, <2>3, <3>1, NextStepFits
  <2> QED
    BY <2>1, <2>2, <2>3
<1>2. \A u \in Task : Fits(task'[u])
  BY <1>0, <1>1
<1> QED
  BY <1>1, <1>2 DEF Goes, FitInv, RequestStep, Fits

LEMMA StepGoes == SafeInv /\ FitInv /\ [Next]_vars => Goes
<1> SUFFICES ASSUME SafeInv, FitInv, [Next]_vars
             PROVE  Goes
  OBVIOUS
<1>0. TypeOK
  BY DEF SafeInv
<1>1. ASSUME NEW t \in Task, NEW o \in {"install", "upgrade", "status"},
             NEW p \in Pkg, Request(t, o, p)
      PROVE  Goes
  BY <1>0, <1>1, RequestGoes
<1>2. ASSUME NEW t \in Task, ServerStep(t) \/ HelmOutputLost(t)
      PROVE  Goes
  BY <1>0, <1>2, AnswerGoes, PlanGoes DEF ServerStep
<1>3. ASSUME NEW p \in Pkg, HelmSettles(p)
      PROVE  Goes
  BY <1>3, SettlesGoes
<1>4. ASSUME \/ \E s \in Sock : Connect(s) \/ Disconnect(s)
             \/ LogsConnect \/ LogsDisconnect \/ UNCHANGED vars
      PROVE  Goes
  <2>1. task' = task
    BY <1>4 DEF Connect, Disconnect, LogsConnect, LogsDisconnect, vars
  <2> QED
    BY <2>1 DEF Goes, FitInv, RequestStep
<1>5. ASSUME Restart
      PROVE  Goes
  <2>1. \A t \in Task : task'[t] = Idle
    BY <1>5 DEF Restart
  <2> QED
    BY <2>1, IdleFits DEF Goes, FitInv, RequestStep, Advances
<1> QED
  BY <1>1, <1>2, <1>3, <1>4, <1>5 DEF Next, UserStep

(***************************************************************************)
(* No request of install_pack, upgrade_pack or send_status ever goes back  *)
(* to an earlier part of itself, however the other requests, the failures  *)
(* and the restarts interleave: that is what is safe in "every request     *)
(* ends".                                                                  *)
(***************************************************************************)
THEOREM RequestsOnlyAdvance == Spec => RequestsAdvance
<1>1. Goes => FitInv' /\ [\A t \in Task :
                             task[t].op # "none" /\ task'[t] # task[t] =>
                                 Advances(task[t], task'[t])]_vars
  BY DEF Goes, RequestStep
<1> QED
  BY <1>1, SafeInit, SafeStep, FitInit, StepGoes, PTL DEF Spec, RequestsAdvance

-----------------------------------------------------------------------------
(* ---- requests one at a time ---- *)

(* The page of the logs stays open, and a request comes after the other. *)
OneAtATime ==
    /\ \A t, u \in Task : t = u
    /\ "logs" \notin Flaky

(* A request r behind the step that creates the release of its package. *)
Applied(r) ==
    /\ InPlan(r)
    /\ \E i \in 1..Len(PlanOf(r)) :
          i < r.at /\ PlanOf(r)[i] \in {"helm", "manifest"}

(* An install finds no release, and leaves one behind. *)
Installing(r, R) ==
    r.op = "install" =>
        /\ Applied(r) => R[r.pkg] = "deployed"
        /\ /\ r.pc = "announce" \/ InPlan(r)
           /\ ~Applied(r)
           /\ ~IsManifest(r.pkg)
           => R[r.pkg] # "deployed"

(***************************************************************************)
(* Until something fails: helm works for the request that waits for it and *)
(* for nobody else, and no release is left pending.                        *)
(***************************************************************************)
Calm ==
    /\ logs = "heard"
    /\ \A p \in Pkg : p \in helming <=> \E t \in Task : /\ task[t].pc = "helm"
                                                        /\ task[t].pkg = p
    /\ \A p \in Pkg \ helming : ~IsManifest(p) =>
          releases[p] \in {"absent", "deployed"}
    /\ \A t \in Task : Installing(task[t], releases)

CalmInv == faults = 0 => Calm

(* What a step of the calm system may rely on. *)
Quietly == OneAtATime /\ SafeInv /\ FitInv /\ Calm /\ ~Fault

LEMMA FaultsGrow ==
  ASSUME TypeOK, [Next]_vars, faults' = 0
  PROVE  faults = 0 /\ ~Fault
<1>0. faults \in Nat
  BY ConstantsAssumption DEF TypeOK
<1>1. ASSUME NEW t \in Task, NEW o, NEW p, Request(t, o, p)
      PROVE  faults' = faults
  BY <1>1 DEF Request
<1>2. ASSUME NEW t \in Task, ServerStep(t) \/ HelmOutputLost(t)
      PROVE  faults' = faults \/ faults' = faults + 1
  <2>1. CASE \/ Check(t) \/ ListSecrets(t) \/ RunStatement(t)
             \/ StatementFails(t) \/ HelmRefuses(t) \/ ApplyManifest(t)
             \/ ReadStatus(t) \/ Probe(t)
    BY <2>1 DEF Check, ListSecrets, RunStatement, StatementFails, HelmRefuses,
                ApplyManifest, ReadStatus, Probe, Fault, NoFault
  <2>2. CASE \/ Announce(t) \/ LogStep(t) \/ TestNamespace(t)
             \/ CreateSecret(t) \/ SecretsDone(t) \/ StartHelm(t)
             \/ Finish(t) \/ SendStatus(t) \/ HelmOutputLost(t)
    BY <2>2 DEF Announce, LogStep, TestNamespace, CreateSecret, SecretsDone,
                StartHelm, Finish, SendStatus, HelmOutputLost
  <2> QED
    BY <1>2, <2>1, <2>2 DEF ServerStep, PlanStep
<1>3. ASSUME NEW p \in Pkg, HelmSettles(p)
      PROVE  faults' = faults \/ faults' = faults + 1
  BY <1>3 DEF HelmSettles, Fault, NoFault
<1>4. ASSUME \/ \E s \in Sock : Connect(s) \/ Disconnect(s)
             \/ LogsConnect \/ LogsDisconnect \/ Restart \/ UNCHANGED vars
      PROVE  faults' = faults \/ faults' = faults + 1
  BY <1>4 DEF Connect, Disconnect, LogsConnect, LogsDisconnect, Restart, vars,
              Fault
<1>5. faults' = faults \/ faults' = faults + 1
  BY <1>1, <1>2, <1>3, <1>4 DEF Next, UserStep
<1> QED
  BY <1>0, <1>5 DEF Fault

(* ---- an install ends with its release ---- *)

LEMMA AppliedSame ==
  ASSUME NEW r, NEW q, SameRequest(q, r), InPlan(r), InPlan(q), q.at = r.at
  PROVE  Applied(q) <=> Applied(r)
BY DEF Applied, SameRequest, PlanOf

LEMMA AppliedNext ==
  ASSUME NEW r \in TaskType, InPlan(r), r.at \in 1..Len(PlanOf(r))
  PROVE  Applied(Advanced(r)) <=>
            Applied(r) \/ PlanOf(r)[r.at] \in {"helm", "manifest"}
<1> DEFINE q == Advanced(r)
<1>1. SameRequest(q, r) /\ q.pc = "step" /\ q.at = r.at + 1
  BY AdvancedType
<1> HIDE DEF q
<1>2. InPlan(q) /\ PlanOf(q) = PlanOf(r)
  BY <1>1 DEF InPlan, SameRequest, PlanOf
<1>3. r.at \in Nat /\ Len(PlanOf(r)) \in Nat
  <2>1. r.pkg \in Pkg /\ r.at \in Nat
    BY DEF TaskType
  <2> QED
    BY <2>1, ProfileType DEF PlanOf
<1>4. \A i \in 1..Len(PlanOf(r)) : i < q.at <=> i < r.at \/ i = r.at
  BY <1>1, <1>3
<1>5. Applied(q) <=> Applied(r) \/ PlanOf(r)[r.at] \in {"helm", "manifest"}
  BY <1>2, <1>4 DEF Applied
<1> QED
  BY <1>5 DEF q

(* A request goes on, the releases stay as they are. *)
LEMMA CalmStays ==
  ASSUME Quietly, NEW t \in Task, NEW q \in TaskType, task' = Put(t, q),
         UNCHANGED <<releases, helming, logs>>,
         task[t].pc # "helm", q.pc # "helm", Installing(q, releases)
  PROVE  Calm'
<1>1. task'[t] = q /\ \A u \in Task : u = t
  BY PutType DEF Quietly, OneAtATime, SafeInv, TypeOK, Tasks
<1> QED
  BY <1>1 DEF Calm, Quietly, Installing, Applied, InPlan, PlanOf, IsManifest

(* Nothing is promised of another operation, or before the check. *)
LEMMA CalmElse ==
  ASSUME NEW r, r.op # "install" \/ r.pc = "check"
  PROVE  Installing(r, releases)
BY DEF Installing, Applied, InPlan

LEMMA CalmLeaves ==
  ASSUME Quietly, NEW t \in Task, task' = Finally(t) \/ task' = Quit(t),
         UNCHANGED <<releases, helming, logs>>, task[t].pc # "helm"
  PROVE  Calm'
<1>0. task[t].pkg \in Pkg
  BY TaskFields DEF Quietly, SafeInv, TypeOK, Tasks
<1>1. CASE task' = Finally(t)
  BY <1>0, <1>1, ReportingType, CalmElse, CalmStays DEF Finally
<1>2. CASE task' = Quit(t)
  <2>1. Idle \in TaskType /\ Idle.op # "install" /\ Idle.pc # "helm"
    BY IdleType DEF Idle
  <2> QED
    BY <1>2, <2>1, CalmElse, CalmStays DEF Quit
<1> QED
  BY <1>1, <1>2

LEMMA CalmAnswers ==
  ASSUME Quietly, NEW t \in Task,
         Check(t) \/ Announce(t) \/ ReadStatus(t) \/ Probe(t) \/ SendStatus(t)
  PROVE  Calm'
<1>0. /\ task \in Tasks /\ task[t] \in TaskType /\ Fits(task[t])
      /\ task[t].pkg \in Pkg /\ Installing(task[t], releases)
      /\ IsInstalled(task[t].pkg) \in BOOLEAN /\ ~Fault
  BY TaskFields, InstalledType DEF Quietly, SafeInv, TypeOK, Tasks, FitInv, Calm
<1>1. UNCHANGED <<releases, helming, logs>> /\ task[t].pc # "helm"
  BY DEF Check, Announce, ReadStatus, Probe, SendStatus, cluster, pages
<1> DEFINE b == IsInstalled(task[t].pkg)
<1>2. CASE Check(t)
  <2> DEFINE q == Seeing(task[t], "announce", b)
  <2>1. \/ task' = Finally(t)
        \/ task' = Put(t, q) /\ ~(task[t].op = "install" /\ b)
    BY <1>0, <1>2 DEF Check, Checked
  <2>2. q \in TaskType /\ SameRequest(q, task[t]) /\ q.pc = "announce"
    BY <1>0, SeeingType DEF Label
  <2> HIDE DEF q
  <2>3. ASSUME task' = Put(t, q), ~(task[t].op = "install" /\ b)
        PROVE  Installing(q, releases)
    BY <2>2, <2>3 DEF Installing, Applied, InPlan, SameRequest, IsInstalled
  <2> QED
    BY <1>1, <2>1, <2>2, <2>3, CalmLeaves, CalmStays
<1>3. CASE Announce(t)
  <2> DEFINE q == Entered(task[t])
  <2>1. task' = Finally(t) \/ task' = Put(t, q)
    BY <1>3 DEF Announce
  <2>2. /\ q \in TaskType /\ SameRequest(q, task[t])
        /\ q.pc = "step" /\ q.at = 1
    BY <1>0, EnteredType
  <2> HIDE DEF q
  <2>3. ~Applied(q) /\ ~Applied(task[t]) /\ task[t].pc = "announce"
    <3>1. \A i \in 1..Len(PlanOf(q)) : ~(i < 1)
      OBVIOUS
    <3> QED
      BY <1>3, <2>2, <3>1 DEF Announce, Applied, InPlan
  <2>4. Installing(q, releases)
    BY <1>0, <2>2, <2>3 DEF Installing, SameRequest
  <2> QED
    BY <1>1, <2>1, <2>2, <2>4, CalmLeaves, CalmStays
<1>4. CASE ReadStatus(t)
  <2>1. task' = Read(t, b) /\ task[t].op = "status"
    BY <1>0, <1>4 DEF ReadStatus, Fits
  <2>2. PICK l \in {"probe", "send"} : task' = Put(t, Seeing(task[t], l, b))
    BY <2>1 DEF Read
  <2>3. l \in Label
    BY DEF Label
  <2>4. /\ Seeing(task[t], l, b) \in TaskType
        /\ SameRequest(Seeing(task[t], l, b), task[t])
        /\ Seeing(task[t], l, b).pc # "helm"
    BY <1>0, <2>3, SeeingType
  <2>5. Installing(Seeing(task[t], l, b), releases)
    BY <2>1, <2>4, CalmElse DEF SameRequest
  <2> QED
    BY <1>1, <2>2, <2>4, <2>5, CalmStays
<1>5. CASE Probe(t)
  <2>1. task' = Quit(t) \/ task' = Put(t, At(task[t], "send"))
    BY <1>5 DEF Probe
  <2>2. /\ At(task[t], "send") \in TaskType
        /\ SameRequest(At(task[t], "send"), task[t])
        /\ At(task[t], "send").pc = "send"
    BY <1>0, AtType DEF Label
  <2>3. Installing(At(task[t], "send"), releases)
    BY <1>0, <1>5, <2>2, CalmElse DEF Probe, Fits, SameRequest
  <2> QED
    BY <1>1, <2>1, <2>2, <2>3, CalmLeaves, CalmStays
<1>6. CASE SendStatus(t)
  BY <1>1, <1>6, CalmLeaves DEF SendStatus
<1> QED
  BY <1>2, <1>3, <1>4, <1>5, <1>6

(* No helm process works while the one request is elsewhere. *)
LEMMA CalmAlone ==
  ASSUME Quietly, NEW t \in Task, task[t].pc # "helm"
  PROVE  \A p \in Pkg : p \notin helming
BY DEF Quietly, OneAtATime, Calm

(* Inside a step, or over one that does not create the release. *)
LEMMA CalmInside ==
  ASSUME Quietly, NEW t \in Task, NEW q \in TaskType, task' = Put(t, q),
         UNCHANGED <<releases, helming, logs>>,
         InPlan(task[t]), task[t].pc # "helm",
         SameRequest(q, task[t]), InPlan(q), q.pc # "helm",
         Applied(q) <=> Applied(task[t])
  PROVE  Calm'
<1>1. Installing(task[t], releases)
  BY DEF Quietly, Calm
<1>2. Installing(q, releases)
  BY <1>1 DEF Installing, SameRequest
<1> QED
  BY <1>2, CalmStays

LEMMA CalmPlan ==
  ASSUME Quietly, NEW t \in Task,
         \/ LogStep(t) \/ TestNamespace(t) \/ Finish(t) \/ ListSecrets(t)
         \/ CreateSecret(t) \/ SecretsDone(t) \/ RunStatement(t)
         \/ StatementFails(t)
  PROVE  Calm'
<1>0. /\ task \in Tasks /\ task[t] \in TaskType /\ ~Fault /\ SafeInv
      /\ logs = "heard"
  BY TaskFields DEF Quietly, SafeInv, TypeOK, Tasks, Calm
<1>1. /\ UNCHANGED <<releases, helming, logs>>
      /\ task[t].pc \in {"step", "secrets"} /\ InPlan(task[t])
  BY DEF LogStep, TestNamespace, Finish, ListSecrets, CreateSecret,
         SecretsDone, RunStatement, StatementFails, cluster, pages, InPlan, Doing
<1>2. CASE task' = Finally(t)
  BY <1>1, <1>2, CalmLeaves
<1>3. CASE /\ task' = Put(t, Advanced(task[t]))
           /\ task[t].at \in 1..Len(PlanOf(task[t]))
           /\ PlanOf(task[t])[task[t].at] \notin {"helm", "manifest"}
  <2>1. /\ Advanced(task[t]) \in TaskType
        /\ SameRequest(Advanced(task[t]), task[t])
        /\ Advanced(task[t]).pc = "step" /\ InPlan(Advanced(task[t]))
    BY <1>0, AdvancedType DEF InPlan
  <2>2. Applied(Advanced(task[t])) <=> Applied(task[t])
    BY <1>0, <1>1, <1>3, AppliedNext
  <2> QED
    BY <1>1, <1>3, <2>1, <2>2, CalmInside
<1>4. ASSUME NEW q \in TaskType, task' = Put(t, q), SameRequest(q, task[t]),
             q.pc \in {"step", "secrets"}, q.at = task[t].at
      PROVE  Calm'
  <2>1. InPlan(q)
    BY <1>4 DEF InPlan
  <2> QED
    BY <1>1, <1>4, <2>1, AppliedSame, CalmInside
<1>5. CASE LogStep(t)
  <2>1. task' = Put(t, Advanced(task[t]))
    BY <1>0, <1>5 DEF LogStep
  <2>2. /\ task[t].at \in 1..Len(PlanOf(task[t]))
        /\ PlanOf(task[t])[task[t].at] = "log"
    BY <1>5, DoingFacts DEF LogStep
  <2> QED
    BY <1>3, <2>1, <2>2
<1>6. CASE TestNamespace(t) \/ Finish(t) \/ StatementFails(t)
  BY <1>2, <1>6 DEF TestNamespace, Finish, StatementFails
<1>7. ASSUME NEW N \in SUBSET Secret, task' = Put(t, Needing(task[t], N))
      PROVE  Calm'
  BY <1>0, <1>4, <1>7, NeedingType
<1>8. CASE ListSecrets(t)
  <2> DEFINE N == Of(t).secrets \ secrets[Of(t).ns]
  <2>1. task' = Put(t, Needing(task[t], N))
    BY <1>0, <1>8 DEF ListSecrets
  <2>2. N \in SUBSET Secret
    BY <1>0, TaskFields
  <2> HIDE DEF N
  <2> QED
    BY <1>7, <2>1, <2>2
<1>9. CASE CreateSecret(t)
  <2>1. PICK name \in task[t].needed :
          \/ task' = Put(t, Needing(task[t], task[t].needed \ {name}))
          \/ task' = Finally(t)
    BY <1>9 DEF CreateSecret
  <2> DEFINE N == task[t].needed \ {name}
  <2>2. N \in SUBSET Secret
    BY <1>0, TaskFields
  <2> HIDE DEF N
  <2> QED
    BY <1>2, <1>7, <2>1, <2>2 DEF N
<1>10. CASE SecretsDone(t)
  <2>1. task[t].pc = "secrets" /\ task' = Put(t, Advanced(task[t]))
    BY <1>10 DEF SecretsDone
  <2>2. /\ task[t].at \in 1..Len(PlanOf(task[t]))
        /\ PlanOf(task[t])[task[t].at] \notin {"helm", "manifest"}
    BY <1>0, <2>1 DEF SafeInv, IInv, Sound, AtItsStep
  <2> QED
    BY <1>3, <2>1, <2>2
<1>11. CASE RunStatement(t)
  <2>1. /\ task[t].pc = "step"
        /\ task[t].at \in 1..Len(PlanOf(task[t]))
        /\ PlanOf(task[t])[task[t].at] = "sql"
    BY <1>11, DoingFacts DEF RunStatement
  <2>2. \/ task' = Put(t, Advanced(task[t]))
        \/ task' = Put(t, OneMore(task[t]))
    BY <1>0, <1>11 DEF RunStatement
  <2>3. /\ OneMore(task[t]) \in TaskType
        /\ SameRequest(OneMore(task[t]), task[t])
        /\ OneMore(task[t]).pc = "step" /\ OneMore(task[t]).at = task[t].at
    BY <1>0, <2>1, OneMoreType
  <2> QED
    BY <1>3, <1>4, <2>1, <2>2, <2>3
<1> QED
  BY <1>5, <1>6, <1>8, <1>9, <1>10, <1>11

(* The release of a package is created. *)
LEMMA CalmHelm ==
  ASSUME Quietly, NEW t \in Task, StartHelm(t) \/ HelmRefuses(t)
  PROVE  Calm'
<1> DEFINE r == task[t]
           p == task[t].pkg
<1>0. /\ task \in Tasks /\ r \in TaskType /\ p \in Pkg /\ ~Fault
      /\ releases \in [Pkg -> ReleaseState] /\ helming \subseteq Pkg
      /\ logs = "heard" /\ Installing(r, releases) /\ \A u \in Task : u = t
  BY TaskFields DEF Quietly, OneAtATime, SafeInv, TypeOK, Tasks, Calm
<1>1. /\ Doing(t, "helm") /\ InPlan(r) /\ r.pc = "step"
      /\ r.at \in 1..Len(PlanOf(r)) /\ PlanOf(r)[r.at] = "helm"
      /\ ~IsManifest(p)
  BY <1>0, DoingFacts, PlanFacts DEF StartHelm, HelmRefuses
<1>2. /\ \A q \in Pkg : q \notin helming
      /\ \A q \in Pkg : ~IsManifest(q) => releases[q] \in {"absent", "deployed"}
  BY <1>1, CalmAlone DEF Quietly, Calm
<1>3. CASE StartHelm(t)
  <2> DEFINE q == At(r, "helm")
  <2>1. /\ q \in TaskType /\ SameRequest(q, r)
        /\ q.pc = "helm" /\ q.at = r.at
    BY <1>0, AtType DEF Label
  <2>2. task' = Put(t, q)
    BY <1>3 DEF StartHelm
  <2>3. task'[t] = q
    BY <1>0, <2>1, <2>2, PutType
  <2>4. /\ logs' = logs /\ helming' = helming \cup {p}
        /\ releases' = [releases EXCEPT ![p] =
                           IF r.op = "install" THEN "pending-install"
                                               ELSE "pending-upgrade"]
    BY <1>3 DEF StartHelm, pages
  <2> HIDE DEF q
  <2>5. InPlan(q) /\ q.pkg = p /\ q.op = r.op
    BY <2>1 DEF InPlan, SameRequest
  <2>6. r.op = "install" => ~Applied(q)
    <3>1. r.op = "install" => releases[p] = "absent"
      BY <1>3 DEF StartHelm, HelmAccepts
    <3>2. Applied(q) <=> Applied(r)
      BY <1>1, <2>1, <2>5, AppliedSame
    <3> QED
      BY <1>0, <3>1, <3>2 DEF Installing
  <2>7. Installing(q, releases')
    <3>1. r.op = "install" => releases'[p] = "pending-install"
      BY <1>0, <2>4
    <3> QED
      BY <2>5, <2>6, <3>1 DEF Installing
  <2>8. \A u \in Task : task'[u] = q
    BY <1>0, <2>3
  <2>9. \A o \in Pkg : o \in helming' <=> o = p
    BY <1>0, <1>2, <2>4
  <2>10. \A o \in Pkg \ helming' : ~IsManifest(o) =>
            releases'[o] \in {"absent", "deployed"}
    BY <1>0, <1>2, <2>4, <2>9
  <2>11. \A o \in Pkg : o \in helming' <=>
            \E u \in Task : task'[u].pc = "helm" /\ task'[u].pkg = o
    BY <2>1, <2>5, <2>8, <2>9
  <2> QED
    BY <1>0, <2>4, <2>7, <2>8, <2>10, <2>11
       DEF Calm, Installing, Applied, InPlan, PlanOf, IsManifest
<1>4. CASE HelmRefuses(t)
  <2> DEFINE q == Advanced(r)
  <2>1. task' = Put(t, q) /\ ~HelmAccepts(t)
    BY <1>0, <1>4 DEF HelmRefuses
  <2>2. UNCHANGED <<releases, helming, logs>>
    BY <1>4 DEF HelmRefuses, cluster, pages
  <2>3. /\ q \in TaskType /\ SameRequest(q, r)
        /\ q.pc = "step"
    BY <1>0, AdvancedType
  <2>4. Applied(q)
    BY <1>0, <1>1, AppliedNext
  <2>5. r.op = "install" => releases[p] = "deployed"
    BY <1>0, <1>1, <1>2, <2>1 DEF HelmAccepts
  <2> HIDE DEF q
  <2>6. Installing(q, releases)
    BY <2>3, <2>4, <2>5 DEF Installing, SameRequest
  <2> QED
    BY <1>1, <2>1, <2>2, <2>3, <2>6, CalmStays
<1> QED
  BY <1>3, <1>4

LEMMA CalmSettles ==
  ASSUME Quietly, NEW p \in Pkg, HelmSettles(p)
  PROVE  Calm'
<1>1. PICK t \in Task : task[t].pc = "helm" /\ task[t].pkg = p
  BY DEF Quietly, Calm, HelmSettles
<1> DEFINE r == task[t]
           q == Advanced(r)
<1>0. /\ task \in Tasks /\ r \in TaskType /\ ~Fault
      /\ releases \in [Pkg -> ReleaseState] /\ helming \subseteq Pkg
      /\ logs = "heard" /\ \A u \in Task : u = t
  BY TaskFields DEF Quietly, OneAtATime, SafeInv, TypeOK, Tasks, Calm
<1>2. /\ logs' = logs /\ helming' = helming \ {p}
      /\ releases' = [releases EXCEPT ![p] = "deployed"]
      /\ task'[t] = q
  BY <1>0, <1>1 DEF HelmSettles, pages
<1>3. /\ InPlan(r) /\ r.at \in 1..Len(PlanOf(r))
      /\ PlanOf(r)[r.at] = "helm"
  BY <1>1 DEF Quietly, SafeInv, IInv, Sound, AtItsStep, InPlan
<1>4. SameRequest(q, r) /\ q.pc = "step" /\ Applied(q)
  BY <1>0, <1>3, AdvancedType, AppliedNext
<1> HIDE DEF q
<1>5. Installing(q, releases')
  BY <1>0, <1>1, <1>2, <1>4 DEF Installing, SameRequest
<1>6. \A u \in Task : task'[u] = q
  BY <1>0, <1>2
<1>7. \A o \in Pkg : o \notin helming'
  <2>1. \A o \in Pkg : o \in helming => o = p
    BY <1>0, <1>1 DEF Quietly, Calm
  <2> QED
    BY <1>2, <2>1
<1>8. \A o \in Pkg : ~IsManifest(o) => releases'[o] \in {"absent", "deployed"}
  <2>1. \A o \in Pkg : o # p => o \notin helming
    BY <1>0, <1>1 DEF Quietly, Calm
  <2>2. \A o \in Pkg : o # p /\ ~IsManifest(o) =>
           releases[o] \in {"absent", "deployed"}
    BY <2>1 DEF Quietly, Calm
  <2> QED
    BY <1>0, <1>2, <2>2
<1> QED
  BY <1>0, <1>2, <1>4, <1>5, <1>6, <1>7, <1>8
     DEF Calm, Installing, Applied, InPlan, PlanOf, IsManifest

LEMMA CalmManifest ==
  ASSUME Quietly, NEW t \in Task, ApplyManifest(t)
  PROVE  Calm'
<1> DEFINE r == task[t]
           p == task[t].pkg
<1>0. /\ task \in Tasks /\ r \in TaskType /\ p \in Pkg /\ ~Fault
      /\ releases \in [Pkg -> ReleaseState]
      /\ logs = "heard" /\ \A u \in Task : u = t
  BY TaskFields DEF Quietly, OneAtATime, SafeInv, TypeOK, Tasks, Calm
<1>1. /\ Doing(t, "manifest") /\ InPlan(r) /\ r.pc = "step"
      /\ r.at \in 1..Len(PlanOf(r)) /\ PlanOf(r)[r.at] = "manifest"
      /\ IsManifest(p)
  BY <1>0, DoingFacts, PlanFacts DEF ApplyManifest
<1>2. /\ logs' = logs /\ helming' = helming
      /\ releases' = [releases EXCEPT ![p] = "deployed"]
      /\ task' = Finally(t) \/ task' = Put(t, Advanced(r))
  BY <1>0 DEF ApplyManifest, pages
<1>3. PICK q \in {Reporting(p), Advanced(r)} : task' = Put(t, q)
  BY <1>2 DEF Finally
<1>4. q \in TaskType /\ q.pc # "helm" /\ Installing(q, releases')
  <2>1. CASE q = Reporting(p)
    BY <1>0, <2>1, ReportingType DEF Installing
  <2>2. CASE q = Advanced(r)
    <3>1. /\ q \in TaskType /\ SameRequest(q, r) /\ q.pc = "step" /\ Applied(q)
      BY <1>0, <1>1, <2>2, AdvancedType, AppliedNext
    <3> QED
      BY <1>0, <1>2, <3>1 DEF Installing, SameRequest
  <2> QED
    BY <2>1, <2>2
<1>5. \A u \in Task : task'[u] = q
  BY <1>0, <1>3, <1>4, PutType
<1>6. \A o \in Pkg : o \notin helming'
  BY <1>1, <1>2, CalmAlone
<1>7. \A o \in Pkg : ~IsManifest(o) => releases'[o] \in {"absent", "deployed"}
  BY <1>0, <1>1, <1>2, <1>6 DEF Quietly, Calm
<1> QED
  BY <1>0, <1>2, <1>4, <1>5, <1>6, <1>7
     DEF Calm, Installing, Applied, InPlan, PlanOf, IsManifest

LEMMA CalmStep ==
  ASSUME Quietly, [Next]_vars
  PROVE  Calm'
<1>1. ASSUME NEW t \in Task, NEW o \in {"install", "upgrade", "status"},
             NEW p \in Pkg, Request(t, o, p)
      PROVE  Calm'
  <2>0. /\ ws \in Sock \cup {NoSock} /\ task[t].pc # "helm"
    BY <1>1 DEF Quietly, SafeInv, TypeOK, FitInv, Fits, Request
  <2>1. PICK q \in {Reporting(p), Starting(o, p)} : task' = Put(t, q)
    BY <1>1 DEF Request
  <2>2. /\ q \in TaskType /\ q.pc # "helm"
        /\ q.op # "install" \/ q.pc = "check"
    <3>1. CASE q = Reporting(p)
      BY <3>1, ReportingType
    <3>2. CASE q = Starting(o, p)
      BY <2>0, <3>2, StartingType
    <3> QED
      BY <3>1, <3>2
  <2>3. UNCHANGED <<releases, helming, logs>>
    BY <1>1 DEF Request, cluster, pages
  <2> QED
    BY <2>0, <2>1, <2>2, <2>3, CalmElse, CalmStays
<1>2. ASSUME NEW t \in Task, ServerStep(t)
      PROVE  Calm'
  BY <1>2, CalmAnswers, CalmPlan, CalmHelm, CalmManifest
     DEF ServerStep, PlanStep
<1>3. ASSUME NEW t \in Task, HelmOutputLost(t)
      PROVE  Calm'
  BY <1>3 DEF HelmOutputLost, Quietly, Calm
<1>4. ASSUME NEW p \in Pkg, HelmSettles(p)
      PROVE  Calm'
  BY <1>4, CalmSettles
<1>5. ASSUME \/ \E s \in Sock : Connect(s) \/ Disconnect(s)
             \/ UNCHANGED vars
      PROVE  Calm'
  <2>1. UNCHANGED <<releases, helming, logs, task>>
    BY <1>5 DEF Connect, Disconnect, vars, cluster, pages
  <2> QED
    BY <2>1 DEF Quietly, Calm, Installing, Applied, InPlan, PlanOf, IsManifest
<1>6. ~LogsDisconnect /\ ~LogsConnect /\ ~Restart
  BY DEF Quietly, OneAtATime, Calm, LogsDisconnect, LogsConnect, Restart
<1> QED
  BY <1>1, <1>2, <1>3, <1>4, <1>5, <1>6 DEF Next, UserStep

LEMMA CalmInit == Init => CalmInv
<1> SUFFICES ASSUME Init
             PROVE  Calm
  BY DEF CalmInv
<1>1. \A t \in Task : task[t].pc = "idle" /\ task[t].op = "none"
  BY DEF Init, Idle
<1>2. \A t \in Task : Installing(task[t], releases)
  BY <1>1 DEF Installing
<1> QED
  BY <1>1, <1>2 DEF Init, Calm

(* What the properties below need, and are proved with. *)
WellInv == SafeInv /\ FitInv /\ CalmInv

LEMMA WellStep ==
  ASSUME OneAtATime
  PROVE  WellInv /\ [Next]_vars => WellInv'
<1> SUFFICES ASSUME WellInv, [Next]_vars
             PROVE  WellInv'
  OBVIOUS
<1>1. SafeInv' /\ FitInv'
  BY SafeStep, StepGoes DEF WellInv, Goes
<1>2. CalmInv'
  <2> SUFFICES ASSUME faults' = 0
               PROVE  Calm'
    BY DEF CalmInv
  <2>1. faults = 0 /\ ~Fault
    BY FaultsGrow DEF WellInv, SafeInv
  <2>2. Quietly
    BY <2>1 DEF Quietly, WellInv, CalmInv
  <2> QED
    BY <2>2, CalmStep
<1> QED
  BY <1>1, <1>2 DEF WellInv

LEMMA InstallIsWhole == WellInv => InstallIsComplete
<1> SUFFICES ASSUME WellInv, NEW t \in Task, task[t].op = "install",
                    task[t].pc = "step", task[t].at > Len(Plan(t)), faults = 0
             PROVE  Complete(task[t].pkg)
  BY DEF InstallIsComplete
<1> DEFINE r == task[t]
           p == task[t].pkg
           plan == Profile[p].install
<1>1. /\ r \in TaskType /\ p \in Pkg /\ r.at \in Nat
      /\ Installing(r, releases) /\ Sound(r, secrets, database, releases)
  BY TaskFields DEF WellInv, CalmInv, Calm, SafeInv, IInv, TypeOK, Tasks
<1>2. PlanOf(r) = plan /\ InPlan(r) /\ Len(plan) \in Nat /\ r.at > Len(plan)
  BY <1>1, ProfileType DEF PlanOf, Plan, InPlan
<1>3. \A i \in 1..Len(plan) : i < r.at
  BY <1>1, <1>2
<1>4. Installs(Profile[p])
  BY <1>1, PlanAssumption
<1>5. releases[p] = "deployed"
  <2>1. \E i \in 1..Len(plan) : plan[i] \in {"helm", "manifest"}
    BY <1>4 DEF Installs, Steps
  <2>2. Applied(r)
    BY <1>2, <1>3, <2>1 DEF Applied
  <2> QED
    BY <1>1, <2>2 DEF Installing
<1>6. \A k \in 1..Len(Profile[p].sql) : Profile[p].sql[k] \in database
  <2> SUFFICES ASSUME NEW k \in 1..Len(Profile[p].sql)
               PROVE  Profile[p].sql[k] \in database
    OBVIOUS
  <2>1. Profile[p].sql # <<>>
    OBVIOUS
  <2>2. \E i \in 1..Len(plan) : plan[i] = "sql"
    BY <1>4, <2>1 DEF Installs, Steps
  <2> QED
    BY <1>1, <1>2, <1>3, <2>2 DEF Sound, SqlBehind
<1> QED
  BY <1>5, <1>6 DEF Complete

(***************************************************************************)
(* With requests one at a time, and unless something fails, the install of *)
(* any package that comes to the end of its plan has the release deployed  *)
(* and its statements run, although the code ignores the exit code of      *)
(* helm: there is no pending release for helm to refuse.                   *)
(***************************************************************************)
THEOREM InstallEnds ==
  ASSUME OneAtATime
  PROVE  Spec => []InstallIsComplete
<1>1. Init => WellInv
  BY SafeInit, FitInit, CalmInit DEF WellInv
<1>2. WellInv /\ [Next]_vars => WellInv'
  BY WellStep
<1> QED
  BY <1>1, <1>2, InstallIsWhole, PTL DEF Spec

-----------------------------------------------------------------------------
(* ---- the page tells the truth ---- *)

(* The answer a status request carries is still the right one. *)
SeenIsNow(r) == r.pc \in {"probe", "send"} => r.seen = IsInstalled(r.pkg)

(* So is what the page shows of a package no request works on. *)
Truthful ==
    /\ \A t \in Task : SeenIsNow(task[t])
    /\ \A p \in Pkg :
          ws \in live /\ (\A t \in Task : task[t].op # "none" => task[t].pkg # p)
          => shown[ws][p] \in {"unknown", Settled(IsInstalled(p))}

TruthInv == faults = 0 => Truthful

(* A step on package p tells nothing about the others. *)
LEMMA OthersStay ==
  ASSUME TypeOK, ManifestsApart(Profile), NEW p \in Pkg,
         releases' = releases \/ \E s : releases' = [releases EXCEPT ![p] = s],
         namespaces' = namespaces
            \/ (namespaces' = namespaces \cup {Profile[p].ns})
  PROVE  \A q \in Pkg : q # p => IsInstalled(q)' = IsInstalled(q)
<1> SUFFICES ASSUME NEW q \in Pkg, q # p
             PROVE  IsInstalled(q)' = IsInstalled(q)
  OBVIOUS
<1>1. releases'[q] = releases[q]
  BY DEF TypeOK
<1>2. IsManifest(q) => (Profile[q].ns \in namespaces' <=> Profile[q].ns \in namespaces)
  <2>1. DOMAIN Profile = Pkg
    BY ProfileAssumption
  <2>2. IsManifest(q) => Profile[q].ns # Profile[p].ns
    BY <2>1 DEF ManifestsApart, IsManifest
  <2> QED
    BY <2>2
<1> QED
  BY <1>1, <1>2 DEF IsInstalled, IsManifest

(* A request that goes on: only its package may change. *)
LEMMA TruthGoesOn ==
  ASSUME TypeOK, OneAtATime, Truthful, NEW t \in Task, NEW q \in TaskType,
         task' = Put(t, q), q.op # "none",
         task[t].op # "none" => q.pkg = task[t].pkg,
         ws' = ws, live' = live,
         \A p \in Pkg : p # q.pkg =>
            /\ IsInstalled(p)' = IsInstalled(p)
            /\ ws \in live => shown'[ws][p] = shown[ws][p],
         SeenIsNow(q)'
  PROVE  Truthful'
<1>1. task'[t] = q /\ \A u \in Task : u = t
  BY PutType DEF OneAtATime, TypeOK, Tasks
<1>2. \A u \in Task : SeenIsNow(task[u])'
  BY <1>1 DEF SeenIsNow, IsInstalled, IsManifest
<1>3. ASSUME NEW p \in Pkg, ws' \in live',
             \A u \in Task : task'[u].op # "none" => task'[u].pkg # p
      PROVE  shown'[ws'][p] \in {"unknown", Settled(IsInstalled(p)')}
  <2>1. q.pkg # p
    BY <1>1, <1>3
  <2>2. \A u \in Task : task[u].op # "none" => task[u].pkg # p
    BY <1>1, <2>1
  <2>3. shown[ws][p] \in {"unknown", Settled(IsInstalled(p))}
    BY <1>3, <2>2 DEF Truthful
  <2> QED
    BY <1>3, <2>1, <2>3
<1> QED
  BY <1>2, <1>3 DEF Truthful, Settled

(* What a step may rely on while nothing has failed. *)
Honest == /\ Quietly /\ Truthful /\ PageInv /\ ManifestsApart(Profile)

(* The cluster and the pages stay, and the request is not about to send. *)
LEMMA TruthStays ==
  ASSUME Honest, NEW t \in Task, NEW q \in TaskType, task' = Put(t, q),
         q.op # "none", task[t].op # "none" => q.pkg = task[t].pkg,
         UNCHANGED <<releases, namespaces, ws, live, shown>>,
         SeenIsNow(q)
  PROVE  Truthful'
<1>1. \A p \in Pkg : IsInstalled(p)' = IsInstalled(p)
  BY DEF IsInstalled, IsManifest
<1>2. SeenIsNow(q)'
  BY DEF SeenIsNow, IsInstalled, IsManifest
<1> QED
  BY <1>1, <1>2, TruthGoesOn DEF Honest, Quietly, SafeInv

LEMMA TruthReports ==
  ASSUME Honest, NEW t \in Task, task' = Finally(t),
         UNCHANGED <<releases, namespaces, ws, live, shown>>
  PROVE  Truthful'
<1>1. task[t].pkg \in Pkg
  BY TaskFields DEF Honest, Quietly, SafeInv, TypeOK, Tasks
<1> QED
  BY <1>1, ReportingType, TruthStays DEF Finally, SeenIsNow

LEMMA TruthAnswers ==
  ASSUME Honest, NEW t \in Task, Check(t) \/ Announce(t) \/ ReadStatus(t) \/ Probe(t)
  PROVE  Truthful'
<1>0. /\ task \in Tasks /\ task[t] \in TaskType /\ Fits(task[t])
      /\ task[t].pkg \in Pkg /\ SeenIsNow(task[t])
      /\ IsInstalled(task[t].pkg) \in BOOLEAN /\ ~Fault /\ logs = "heard"
  BY TaskFields, InstalledType
     DEF Honest, Quietly, SafeInv, TypeOK, Tasks, FitInv, Calm, Truthful
<1>1. /\ UNCHANGED <<releases, namespaces, ws, live>>
      /\ task[t].op # "none"
  BY <1>0 DEF Check, Announce, ReadStatus, Probe, cluster, pages, Fits
<1> DEFINE b == IsInstalled(task[t].pkg)
<1>2. ASSUME NEW l \in {"announce", "probe", "send"}, UNCHANGED shown,
             task' = Put(t, Seeing(task[t], l, b))
      PROVE  Truthful'
  <2>1. l \in Label
    BY DEF Label
  <2>2. /\ Seeing(task[t], l, b) \in TaskType
        /\ SameRequest(Seeing(task[t], l, b), task[t])
        /\ Seeing(task[t], l, b).seen = b
    BY <1>0, <2>1, SeeingType
  <2> QED
    BY <1>1, <1>2, <2>2, TruthStays DEF SeenIsNow, SameRequest
<1>3. CASE Check(t)
  <2>1. /\ UNCHANGED shown
        /\ task' = Finally(t) \/ task' = Put(t, Seeing(task[t], "announce", b))
    BY <1>0, <1>3 DEF Check, Checked, pages
  <2> QED
    BY <1>1, <1>2, <2>1, TruthReports
<1>4. CASE Announce(t)
  <2>1. CASE task' = Finally(t) /\ UNCHANGED shown
    BY <1>1, <2>1, TruthReports
  <2>2. CASE /\ Deliver(task[t].channel, task[t].pkg, Pending(task[t].seen))
             /\ task' = Put(t, Entered(task[t]))
    <3>1. PICK q \in TaskType : /\ q = Entered(task[t])
                                /\ SameRequest(q, task[t]) /\ q.pc = "step"
      BY <1>0, EnteredType
    <3>2. \A p \in Pkg : IsInstalled(p)' = IsInstalled(p)
      BY <1>1 DEF IsInstalled, IsManifest
    <3>3. Pending(task[t].seen) \in ShownState
      BY DEF Pending, ShownState
    <3>4. ws \in live => ws \in Sock
      BY DEF Honest, Quietly, SafeInv, TypeOK
    <3>5. \A p \in Pkg : p # task[t].pkg /\ ws \in live =>
             shown'[ws][p] = shown[ws][p]
      BY <2>2, <3>3, <3>4, DeliverType DEF Honest, Quietly, SafeInv, TypeOK
    <3>6. SeenIsNow(q)'
      BY <3>1 DEF SeenIsNow
    <3> QED
      BY <1>1, <2>2, <3>1, <3>2, <3>5, <3>6, TruthGoesOn
         DEF Honest, Quietly, SafeInv, SameRequest
  <2> QED
    BY <1>4, <2>1, <2>2 DEF Announce
<1>5. CASE ReadStatus(t)
  <2>1. UNCHANGED shown /\ task' = Read(t, b)
    BY <1>0, <1>5 DEF ReadStatus, pages
  <2>2. \E l \in {"probe", "send"} : task' = Put(t, Seeing(task[t], l, b))
    BY <2>1 DEF Read
  <2> QED
    BY <1>2, <2>1, <2>2
<1>6. CASE Probe(t)
  <2>1. UNCHANGED shown /\ task' = Put(t, At(task[t], "send"))
        /\ task[t].pc = "probe"
    BY <1>0, <1>6 DEF Probe, pages
  <2>2. /\ At(task[t], "send") \in TaskType
        /\ SameRequest(At(task[t], "send"), task[t])
        /\ At(task[t], "send").seen = task[t].seen
    BY <1>0, AtType DEF Label
  <2> QED
    BY <1>0, <1>1, <2>1, <2>2, TruthStays DEF SeenIsNow, SameRequest
<1> QED
  BY <1>3, <1>4, <1>5, <1>6

(* Inside install and upgrade no page is told anything. *)
LEMMA TruthPlan ==
  ASSUME Honest, NEW t \in Task, PlanStep(t)
  PROVE  Truthful'
<1>0. /\ task \in Tasks /\ task[t] \in TaskType /\ Fits(task[t])
      /\ task[t].pkg \in Pkg /\ TypeOK /\ ManifestsApart(Profile) /\ ~Fault
  BY TaskFields DEF Honest, Quietly, SafeInv, TypeOK, Tasks, FitInv
<1>1. /\ task[t].pc \in {"step", "secrets", "helm"}
      /\ UNCHANGED <<ws, live, shown>>
  BY DEF PlanStep, LogStep, TestNamespace, ListSecrets, CreateSecret,
         SecretsDone, RunStatement, StatementFails, StartHelm, HelmRefuses,
         ApplyManifest, Finish, Doing, cluster, pages
<1>2. task[t].op # "none"
  BY <1>0, <1>1 DEF Fits
<1>3. \A p \in Pkg : p # task[t].pkg => IsInstalled(p)' = IsInstalled(p)
  <2>1. /\ \/ releases' = releases
           \/ \E s : releases' = [releases EXCEPT ![task[t].pkg] = s]
        /\ \/ namespaces' = namespaces
           \/ namespaces' = namespaces \cup {Profile[task[t].pkg].ns}
    <3>1. CASE StartHelm(t)
      BY <3>1 DEF StartHelm
    <3>2. CASE ApplyManifest(t)
      BY <1>0, <3>2 DEF ApplyManifest
    <3>3. CASE \/ LogStep(t) \/ TestNamespace(t) \/ ListSecrets(t)
               \/ CreateSecret(t) \/ SecretsDone(t) \/ RunStatement(t)
               \/ StatementFails(t) \/ HelmRefuses(t) \/ Finish(t)
      BY <3>3 DEF LogStep, TestNamespace, ListSecrets, CreateSecret,
                  SecretsDone, RunStatement, StatementFails, HelmRefuses,
                  Finish, cluster
    <3> QED
      BY <3>1, <3>2, <3>3 DEF PlanStep
  <2> QED
    BY <1>0, <2>1, OthersStay
<1>4. ASSUME NEW q \in TaskType, task' = Put(t, q), q.op # "none",
             q.pkg = task[t].pkg, q.pc \notin {"probe", "send"}
      PROVE  Truthful'
  <2>1. SeenIsNow(q)'
    BY <1>4 DEF SeenIsNow
  <2> QED
    BY <1>1, <1>3, <1>4, <2>1, TruthGoesOn DEF Honest, Quietly, SafeInv
<1>5. CASE task' = Finally(t)
  BY <1>0, <1>4, <1>5, ReportingType DEF Finally
<1>6. CASE task' = Put(t, Advanced(task[t]))
  BY <1>0, <1>2, <1>4, <1>6, AdvancedType DEF SameRequest
<1>7. CASE \E N \in SUBSET Secret : task' = Put(t, Needing(task[t], N))
  BY <1>0, <1>2, <1>4, <1>7, NeedingType DEF SameRequest
<1>8. CASE task[t].pc = "step" /\ task' = Put(t, OneMore(task[t]))
  BY <1>0, <1>2, <1>4, <1>8, OneMoreType DEF SameRequest
<1>9. CASE task' = Put(t, At(task[t], "helm"))
  BY <1>0, <1>2, <1>4, <1>9, AtType DEF SameRequest, Label
<1> QED
  BY <1>0, <1>5, <1>6, <1>7, <1>8, <1>9, PlanMoves DEF Honest, Quietly, SafeInv

LEMMA TruthSettles ==
  ASSUME Honest, NEW p \in Pkg, HelmSettles(p)
  PROVE  Truthful'
<1>1. PICK t \in Task : task[t].pc = "helm" /\ task[t].pkg = p
  BY DEF Honest, Quietly, Calm, HelmSettles
<1>0. /\ task \in Tasks /\ task[t] \in TaskType /\ Fits(task[t])
      /\ TypeOK /\ ManifestsApart(Profile) /\ ~Fault /\ logs = "heard"
      /\ \A u \in Task : u = t
  BY TaskFields DEF Honest, Quietly, OneAtATime, SafeInv, TypeOK, Tasks, FitInv,
                    Calm
<1>2. /\ UNCHANGED <<namespaces, ws, live, shown>>
      /\ releases' = [releases EXCEPT ![p] = "deployed"]
  BY <1>0 DEF HelmSettles, pages
<1>3. PICK q \in TaskType : /\ q = Advanced(task[t])
                            /\ q.pc = "step" /\ q.pkg = p /\ q.op # "none"
  BY <1>0, <1>1, AdvancedType DEF SameRequest, Fits
<1>4. task' = Put(t, q)
  <2>1. task' = [u \in Task |-> q]
    BY <1>0, <1>1, <1>3 DEF HelmSettles
  <2>2. Put(t, q) = [u \in Task |-> q]
    BY <1>0 DEF Put, Tasks
  <2> QED
    BY <2>1, <2>2
<1>5. \A o \in Pkg : o # p => IsInstalled(o)' = IsInstalled(o)
  BY <1>0, <1>2, OthersStay
<1>6. SeenIsNow(q)'
  BY <1>3 DEF SeenIsNow
<1> QED
  BY <1>1, <1>2, <1>3, <1>4, <1>5, <1>6, TruthGoesOn
     DEF Honest, Quietly, SafeInv

(* The end of a request: what it read is still so when the page hears it. *)
LEMMA TruthSends ==
  ASSUME Honest, NEW t \in Task, SendStatus(t)
  PROVE  Truthful'
<1>0. /\ task \in Tasks /\ task[t].pkg \in Pkg
      /\ task[t].seen = IsInstalled(task[t].pkg)
      /\ live \subseteq Sock
      /\ shown \in [Sock -> [Pkg -> ShownState]]
      /\ Settled(task[t].seen) \in ShownState
      /\ \A u \in Task : u = t
  BY TaskFields DEF Honest, Quietly, OneAtATime, SafeInv, TypeOK, Tasks,
                    Truthful, SeenIsNow, SendStatus, Settled, ShownState
<1>1. task'[t] = Idle
  BY <1>0, IdleType, PutType DEF SendStatus, Quit
<1>2. /\ ws' = ws /\ live' = live
      /\ \A p \in Pkg : IsInstalled(p)' = IsInstalled(p)
  BY DEF SendStatus, cluster, IsInstalled, IsManifest
<1>3. \A u \in Task : SeenIsNow(task[u])'
  BY <1>0, <1>1 DEF SeenIsNow, Idle
<1>4. ASSUME NEW p \in Pkg, ws \in live
      PROVE  shown'[ws][p] \in {"unknown", Settled(IsInstalled(p))}
  <2>1. shown'[ws][p] = IF p = task[t].pkg THEN Settled(task[t].seen)
                                           ELSE shown[ws][p]
    BY <1>0, <1>4, DeliverType DEF SendStatus
  <2>2. p # task[t].pkg => shown[ws][p] \in {"unknown", Settled(IsInstalled(p))}
    BY <1>0, <1>4 DEF Honest, Truthful
  <2> QED
    BY <1>0, <2>1, <2>2
<1>5. ASSUME NEW p \in Pkg, ws' \in live'
      PROVE  shown'[ws'][p] \in {"unknown", Settled(IsInstalled(p)')}
  BY <1>2, <1>4, <1>5
<1> QED
  BY <1>3, <1>5 DEF Truthful, Settled

(* A page that opens is told nothing yet. *)
LEMMA TruthPages ==
  ASSUME Honest, NEW s \in Sock, Connect(s) \/ Disconnect(s)
  PROVE  Truthful'
<1>1. /\ UNCHANGED <<task, releases, namespaces>>
      /\ \A p \in Pkg : IsInstalled(p)' = IsInstalled(p)
  BY DEF Connect, Disconnect, cluster, IsInstalled, IsManifest
<1>2. \A t \in Task : SeenIsNow(task[t])'
  BY <1>1 DEF Honest, Truthful, SeenIsNow, IsInstalled, IsManifest
<1>3. ASSUME NEW p \in Pkg, ws' \in live'
      PROVE  shown'[ws'][p] = "unknown" \/ (ws \in live /\ ws' = ws
                                              /\ shown'[ws][p] = shown[ws][p])
  <2>0. shown \in [Sock -> [Pkg -> ShownState]] /\ live \subseteq Sock
    BY DEF Honest, Quietly, SafeInv, TypeOK
  <2>1. CASE Connect(s)
    BY <2>1 DEF Connect, Honest, PageInv
  <2>2. CASE Disconnect(s)
    BY <1>3, <2>0, <2>2 DEF Disconnect
  <2> QED
    BY <2>1, <2>2
<1>4. ASSUME NEW p \in Pkg, ws' \in live',
             \A u \in Task : task'[u].op # "none" => task'[u].pkg # p
      PROVE  shown'[ws'][p] \in {"unknown", Settled(IsInstalled(p)')}
  BY <1>1, <1>3, <1>4 DEF Honest, Truthful
<1> QED
  BY <1>2, <1>4 DEF Truthful, Settled

LEMMA TruthStep ==
  ASSUME Honest, [Next]_vars
  PROVE  Truthful'
<1>1. ASSUME NEW t \in Task, NEW o \in {"install", "upgrade", "status"},
             NEW p \in Pkg, Request(t, o, p)
      PROVE  Truthful'
  <2>0. ws \in Sock \cup {NoSock} /\ task[t].op = "none"
    BY <1>1 DEF Honest, Quietly, SafeInv, TypeOK, Request
  <2>1. PICK q \in {Reporting(p), Starting(o, p)} : task' = Put(t, q)
    BY <1>1 DEF Request
  <2>2. q \in TaskType /\ q.op # "none" /\ q.pc \in {"read", "check"}
    <3>1. CASE q = Reporting(p)
      BY <3>1, ReportingType
    <3>2. CASE q = Starting(o, p)
      BY <2>0, <3>2, StartingType
    <3> QED
      BY <3>1, <3>2
  <2>3. UNCHANGED <<releases, namespaces, ws, live, shown>>
    BY <1>1 DEF Request, cluster, pages
  <2>4. SeenIsNow(q)
    BY <2>2 DEF SeenIsNow
  <2> QED
    BY <2>0, <2>1, <2>2, <2>3, <2>4, TruthStays
<1>2. ASSUME NEW t \in Task, ServerStep(t)
      PROVE  Truthful'
  BY <1>2, TruthAnswers, TruthPlan, TruthSends DEF ServerStep
<1>3. ASSUME NEW p \in Pkg, HelmSettles(p)
      PROVE  Truthful'
  BY <1>3, TruthSettles
<1>4. ASSUME NEW s \in Sock, Connect(s) \/ Disconnect(s)
      PROVE  Truthful'
  BY <1>4, TruthPages
<1>5. CASE UNCHANGED vars
  BY <1>5 DEF vars, cluster, pages, Honest, Truthful, SeenIsNow, IsInstalled,
              IsManifest
<1>6. /\ ~LogsDisconnect /\ ~LogsConnect /\ ~Restart
      /\ \A t \in Task : ~HelmOutputLost(t)
  BY DEF Honest, Quietly, OneAtATime, Calm, LogsDisconnect, LogsConnect,
         Restart, HelmOutputLost
<1> QED
  BY <1>1, <1>2, <1>3, <1>4, <1>5, <1>6 DEF Next, UserStep

(***************************************************************************)
(* With requests one at a time, until something fails, and whatever pages  *)
(* open and close: a page without request in flight shows what the cluster *)
(* holds.  The namespace of a manifest has to be its own, as it is in the  *)
(* configuration: the dashboard reads as installed when it exists.         *)
(***************************************************************************)
THEOREM QuietPage ==
  ASSUME OneAtATime, ManifestsApart(Profile)
  PROVE  Spec => []QuietPageIsRight
<1> DEFINE Inv == WellInv /\ PageInv /\ TruthInv
<1>1. Init => Inv
  <2> SUFFICES ASSUME Init
               PROVE  Inv
    OBVIOUS
  <2>1. \A t \in Task : task[t].op = "none" /\ task[t].pc = "idle"
    BY DEF Init, Idle
  <2>2. Truthful
    BY <2>1, SocketAssumption DEF Init, Truthful, SeenIsNow
  <2> QED
    BY <2>2, SafeInit, FitInit, CalmInit, PageInit DEF WellInv, TruthInv
<1>2. Inv /\ [Next]_vars => Inv'
  <2> SUFFICES ASSUME Inv, [Next]_vars
               PROVE  Inv'
    OBVIOUS
  <2>1. WellInv' /\ PageInv'
    BY WellStep, PageStep DEF WellInv, SafeInv
  <2>2. TruthInv'
    <3> SUFFICES ASSUME faults' = 0
                 PROVE  Truthful'
      BY DEF TruthInv
    <3>1. faults = 0 /\ ~Fault
      BY FaultsGrow DEF WellInv, SafeInv
    <3>2. Honest
      BY <3>1 DEF Honest, Quietly, WellInv, CalmInv, TruthInv
    <3> QED
      BY <3>2, TruthStep
  <2> QED
    BY <2>1, <2>2
<1>3. Inv => QuietPageIsRight
  BY DEF TruthInv, Truthful, QuietPageIsRight
<1> HIDE DEF Inv
<1> QED
  BY <1>1, <1>2, <1>3, PTL DEF Spec
=============================================================================
