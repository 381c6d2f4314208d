------------------------ MODULE EnsurePathnameProofs ------------------------
(***************************************************************************)
(* Theorems about EnsurePathname, for any callers, pathnames and trees.    *)
(***************************************************************************)
EXTENDS EnsurePathname, SequenceTheorems, TLAPS

Names == Group \cup Name

LEMMA GoalFacts ==
    ASSUME NEW c \in Caller
    PROVE  /\ Goal[c] \in Seq(Names)
           /\ Len(Goal[c]) \in Nat /\ Len(Goal[c]) >= 2
           /\ Goal[c][1] \in Group
           /\ \A i \in 2..Len(Goal[c]) : Goal[c][i] \in Name
BY PathnameAssumption DEF Names

(* The call has a name left to look for, and it is not the group. *)
LEMMA WantedType ==
    ASSUME TypeOK, DepthSound, NEW c \in Caller, InFlight(c)
    PROVE  Wanted(c) \in Name /\ caller[c].depth + 1 \in 2..Len(Goal[c])
<1>1. caller[c].depth \in 1..Len(Goal[c]) /\ caller[c].depth < Len(Goal[c])
  BY DEF DepthSound
<1>2. caller[c].depth + 1 \in 2..Len(Goal[c])
  BY <1>1, GoalFacts
<1> QED
  BY <1>2, GoalFacts DEF Wanted

(* One more name of the pathname. *)
LEMMA PrefixGrows ==
    ASSUME NEW c \in Caller, NEW i \in 1..Len(Goal[c]), i < Len(Goal[c])
    PROVE  SubSeq(Goal[c], 1, i + 1) = Append(SubSeq(Goal[c], 1, i), Goal[c][i + 1])
<1>1. i + 1 \in 1..Len(Goal[c]) /\ 1 \in 1..Len(Goal[c]) /\ (i + 1) - 1 = i
  BY GoalFacts
<1>2. SubSeq(Goal[c], 1, i + 1) = SubSeq(Goal[c], 1, i) \o <<Goal[c][i + 1]>>
  BY <1>1, GoalFacts, SubSeqRecursiveSecond
<1>3. \A j \in 1..i : Goal[c][j] \in Names
  BY GoalFacts, ElementOfSeq
<1>4. SubSeq(Goal[c], 1, i) \in Seq(Names) /\ Goal[c][i + 1] \in Names
  BY <1>1, <1>3, GoalFacts, SubSeqProperties, ElementOfSeq
<1> QED
  BY <1>2, <1>4, AppendIsConcat

LEMMA PrefixStarts ==
    ASSUME NEW c \in Caller
    PROVE  SubSeq(Goal[c], 1, 1) = <<Goal[c][1]>>
<1>1. 1 \in 1..Len(Goal[c]) /\ 1 - 1 = 0
  BY GoalFacts
<1>2. SubSeq(Goal[c], 1, 1) = SubSeq(Goal[c], 1, 0) \o <<Goal[c][1]>>
  BY <1>1, GoalFacts, SubSeqRecursiveSecond
<1>3. SubSeq(Goal[c], 1, 0) = << >>
  BY SubSeqEmpty
<1>4. <<Goal[c][1]>> \in Seq(Names)
  BY GoalFacts DEF Names
<1> QED
  BY <1>2, <1>3, <1>4, ConcatEmptySeq

(***************************************************************************)
(* Types.  A name that is looked for is one of Name only because a call in *)
(* flight has not come to the end of its pathname: the two go together.    *)
(***************************************************************************)
LEMMA ChildType ==
    ASSUME TypeOK, NEW m \in tree, NEW name \in Name
    PROVE  Child(m, name) \in NodeType
<1>1. m \in NodeType
  BY DEF TypeOK
<1>2. Append(m.path, name) \in Seq(Names)
  BY <1>1, AppendProperties DEF NodeType, Names
<1>3. made + 1 \in Id /\ m.id \in Id /\ m.above \cup {m.id} \in SUBSET Id
  BY <1>1 DEF TypeOK, NodeType, Id
<1>4. name \in Group \cup Name
  OBVIOUS
<1> QED
  BY <1>2, <1>3, <1>4 DEF Child, NodeType, Names

LEMMA CreatedType ==
    ASSUME TypeOK, NEW id, NEW name \in Name, Created(id, name)
    PROVE  tree' \in SUBSET NodeType /\ made' \in Nat
<1>1. PICK m \in tree : m.id = id /\ tree' = tree \cup {Child(m, name)}
  BY DEF Created
<1>2. Child(m, name) \in NodeType
  BY <1>1, ChildType
<1> QED
  BY <1>1, <1>2 DEF Created, TypeOK

LEMMA ReachedType ==
    ASSUME TypeOK, DepthSound, NEW c \in Caller, InFlight(c), NEW id \in Id,
           Reached(c, id)
    PROVE  caller' \in [Caller -> CallType] /\ DepthSound'
<1> DEFINE depth == caller[c].depth + 1
<1> DEFINE new == [pc |-> IF depth = Len(Goal[c]) THEN "done" ELSE "look",
                   depth |-> depth, at |-> id]
<1>1. caller' = [caller EXCEPT ![c] = new]
  BY DEF Reached
<1>2. depth \in 2..Len(Goal[c]) /\ Len(Goal[c]) \in Nat
  BY WantedType, GoalFacts
<1>3. new \in CallType
  BY <1>2 DEF CallType
<1> HIDE DEF depth
<1>4. caller' \in [Caller -> CallType]
  BY <1>1, <1>3 DEF TypeOK
<1>5. ASSUME NEW b \in Caller
      PROVE  /\ caller'[b].depth \in 1..Len(Goal[b])
             /\ InFlight(b)' => caller'[b].depth < Len(Goal[b])
             /\ caller'[b].pc = "done" => caller'[b].depth = Len(Goal[b])
  <2>1. CASE b = c
    <3>1. caller'[b] = new
      BY <1>1, <2>1 DEF TypeOK
    <3> QED
      BY <1>2, <2>1, <3>1 DEF InFlight
  <2>2. CASE b # c
    <3>1. caller'[b] = caller[b]
      BY <1>1, <2>2 DEF TypeOK
    <3> QED
      BY <3>1 DEF DepthSound, InFlight
  <2> QED
    BY <2>1, <2>2
<1> QED
  BY <1>4, <1>5 DEF DepthSound

(* A call that stops or only changes its label. *)
LEMMA LabelType ==
    ASSUME TypeOK, DepthSound, NEW c \in Caller, InFlight(c),
           NEW label \in {"make", "failed"},
           caller' = [caller EXCEPT ![c].pc = label]
    PROVE  caller' \in [Caller -> CallType] /\ DepthSound'
<1>1. [caller[c] EXCEPT !.pc = label] \in CallType
  BY DEF TypeOK, CallType
<1>2. caller' \in [Caller -> CallType]
  BY <1>1 DEF TypeOK
<1>3. ASSUME NEW b \in Caller
      PROVE  /\ caller'[b].depth = caller[b].depth
             /\ InFlight(b)' => InFlight(b)
             /\ caller'[b].pc = "done" => caller[b].pc = "done"
  BY DEF TypeOK, CallType, InFlight
<1> QED
  BY <1>2, <1>3 DEF DepthSound

LEMMA CallStarts ==
    ASSUME TypeOK, DepthSound, NEW c \in Caller,
           caller' = [caller EXCEPT ![c] = [pc |-> "look", depth |-> 1,
                                            at |-> Goal[c][1]]]
    PROVE  caller' \in [Caller -> CallType] /\ DepthSound'
<1>1. Goal[c][1] \in Id /\ 1 \in 1..Len(Goal[c]) /\ 1 < Len(Goal[c])
  BY GoalFacts DEF Id
<1>2. caller' \in [Caller -> CallType]
  BY <1>1 DEF TypeOK, CallType
<1>3. ASSUME NEW b \in Caller
      PROVE  /\ caller'[b].depth \in 1..Len(Goal[b])
             /\ InFlight(b)' => caller'[b].depth < Len(Goal[b])
             /\ caller'[b].pc = "done" => caller'[b].depth = Len(Goal[b])
  <2>1. CASE b = c
    BY <1>1, <2>1 DEF TypeOK
  <2>2. CASE b # c
    BY <2>2 DEF TypeOK, DepthSound, InFlight
  <2> QED
    BY <2>1, <2>2
<1> QED
  BY <1>2, <1>3 DEF DepthSound

LEMMA TypeInductive == TypeOK /\ DepthSound /\ [Next]_vars => TypeOK' /\ DepthSound'
<1> SUFFICES ASSUME TypeOK, DepthSound, [Next]_vars
             PROVE  TypeOK' /\ DepthSound'
  OBVIOUS
<1>1. ASSUME NEW c \in Caller, Call(c)
      PROVE  TypeOK' /\ DepthSound'
  BY <1>1, CallStarts DEF Call, TypeOK
<1>2. ASSUME NEW c \in Caller, Find(c)
      PROVE  TypeOK' /\ DepthSound'
  <2>1. PICK n \in Named(caller[c].at, Wanted(c)) : Reached(c, n.id)
    BY <1>2 DEF Find
  <2>2. n.id \in Id
    BY DEF Named, Children, TypeOK, NodeType
  <2>3. caller' \in [Caller -> CallType] /\ DepthSound'
    BY <1>2, <2>1, <2>2, ReachedType DEF Find, InFlight
  <2> QED
    BY <1>2, <2>3 DEF Find, TypeOK
<1>3. ASSUME NEW c \in Caller, Miss(c)
      PROVE  TypeOK' /\ DepthSound'
  <2>1. caller' \in [Caller -> CallType] /\ DepthSound'
    BY <1>3, LabelType DEF Miss, InFlight
  <2> QED
    BY <1>3, <2>1 DEF Miss, TypeOK
<1>4. ASSUME NEW c \in Caller, Make(c)
      PROVE  TypeOK' /\ DepthSound'
  <2>1. InFlight(c)
    BY <1>4 DEF Make, InFlight
  <2>2. tree' \in SUBSET NodeType /\ made' \in Nat
    BY <1>4, <2>1, WantedType, CreatedType DEF Make
  <2>3. made + 1 \in Id
    BY DEF TypeOK, Id
  <2>4. caller' \in [Caller -> CallType] /\ DepthSound'
    BY <1>4, <2>1, <2>3, ReachedType DEF Make
  <2> QED
    BY <1>4, <2>2, <2>4 DEF Make, TypeOK
<1>5. ASSUME NEW c \in Caller, Gone(c)
      PROVE  TypeOK' /\ DepthSound'
  <2>1. caller' \in [Caller -> CallType] /\ DepthSound'
    BY <1>5, LabelType DEF Gone, Failed
  <2> QED
    BY <1>5, <2>1 DEF Gone, TypeOK
<1>6. ASSUME NEW c \in Caller, RequestFails(c)
      PROVE  TypeOK' /\ DepthSound'
  <2>1. caller' \in [Caller -> CallType] /\ DepthSound'
    BY <1>6, LabelType DEF RequestFails, Failed
  <2>2. late' \in SUBSET [no : Nat, parent : Id, name : Name]
    <3>1. Wanted(c) \in Name
      BY <1>6, WantedType DEF RequestFails
    <3>2. faults \in Nat /\ caller[c].at \in Id
      BY PathnameAssumption DEF TypeOK, CallType
    <3> QED
      BY <1>6, <3>1, <3>2 DEF RequestFails, TypeOK
  <2>3. faults' \in 0..MaxFaults
    BY <1>6, PathnameAssumption DEF RequestFails, TypeOK
  <2> QED
    BY <1>6, <2>1, <2>2, <2>3 DEF RequestFails, TypeOK
<1>7. ASSUME NEW l \in late, LateCreation(l)
      PROVE  TypeOK' /\ DepthSound'
  <2>1. l.name \in Name
    BY DEF TypeOK
  <2>2. tree' \in SUBSET NodeType /\ made' \in Nat
    BY <1>7, <2>1, CreatedType DEF LateCreation, TypeOK
  <2> QED
    BY <1>7, <2>2 DEF LateCreation, TypeOK, DepthSound, InFlight
<1>8. ASSUME NEW n \in tree, Remove(n)
      PROVE  TypeOK' /\ DepthSound'
  BY <1>8, PathnameAssumption DEF Remove, TypeOK, DepthSound, InFlight
<1>9. CASE UNCHANGED vars
  BY <1>9 DEF vars, TypeOK, DepthSound, InFlight
<1> QED
  BY <1>1, <1>2, <1>3, <1>4, <1>5, <1>6, <1>7, <1>8, <1>9 DEF Next, CallStep

LEMMA TypeInit == Init => TypeOK /\ DepthSound
<1> SUFFICES ASSUME Init PROVE TypeOK /\ DepthSound
  OBVIOUS
<1>1. tree \in SUBSET NodeType
  <2>1. ASSUME NEW g \in Group PROVE Root(g) \in NodeType
    <3>1. g \in Names /\ <<g>> \in Seq(Names) /\ g \in Id /\ {} \in SUBSET Id
      BY DEF Names, Id
    <3> QED
      BY <3>1 DEF Root, NodeType, Names
  <2> QED
    BY <2>1 DEF Init
<1>2. ASSUME NEW c \in Caller
      PROVE  /\ caller[c] = [pc |-> "idle", depth |-> 1, at |-> Goal[c][1]]
             /\ caller[c] \in CallType
             /\ 1 \in 1..Len(Goal[c])
  <2>1. Goal[c][1] \in Group /\ 1 \in 1..Len(Goal[c])
    BY GoalFacts
  <2>2. caller[c] = [pc |-> "idle", depth |-> 1, at |-> Goal[c][1]]
    BY DEF Init
  <2>3. Goal[c][1] \in Id /\ 1 \in Nat
    BY <2>1 DEF Id
  <2> QED
    BY <2>1, <2>2, <2>3 DEF CallType
<1>3. caller \in [Caller -> CallType]
  <2>1. caller = [c \in Caller |-> caller[c]]
    BY DEF Init
  <2> QED
    BY <1>2, <2>1
<1>4. DepthSound
  <2>1. ASSUME NEW c \in Caller
        PROVE  caller[c].pc = "idle" /\ caller[c].depth = 1 /\ ~ InFlight(c)
    <3>1. caller[c].pc = "idle" /\ caller[c].depth = 1
      <4>1. caller[c] = [pc |-> "idle", depth |-> 1, at |-> Goal[c][1]]
        BY <1>2, Zenon
      <4> QED
        BY <4>1
    <3> QED
      BY <3>1 DEF InFlight
  <2> QED
    BY <1>2, <2>1 DEF DepthSound
<1>5. made \in Nat /\ late \in SUBSET [no : Nat, parent : Id, name : Name]
  BY DEF Init
<1>6. raced = FALSE /\ faults = 0 /\ removes = 0
  BY DEF Init
<1>7. 0 \in 0..MaxFaults /\ 0 \in 0..MaxRemoves
  BY PathnameAssumption
<1> QED
  BY <1>1, <1>3, <1>4, <1>5, <1>6, <1>7 DEF TypeOK

(***************************************************************************)
(* The variables keep their types: what is created has a name of the       *)
(* pathname, never that of the group.                                      *)
(***************************************************************************)
THEOREM TypeCorrect == Spec => []TypeOK
<1>1. Spec => [](TypeOK /\ DepthSound)
  BY TypeInit, TypeInductive, PTL DEF Spec
<1> QED
  BY <1>1, PTL

-----------------------------------------------------------------------------
(* ---- a call ends ---- *)

(* A level of the pathname is looked for, then made, then left behind. *)
Further(r, q) ==
    \/ q.pc \in {"done", "failed"}
    \/ r.pc = "look" /\ q = [r EXCEPT !.pc = "make"]
    \/ q.pc = "look" /\ q.depth = r.depth + 1

AllAdvance ==
    \A c \in Caller : InFlight(c) =>
        \/ caller'[c] = caller[c]
        \/ Further(caller[c], caller'[c])

(***************************************************************************)
(* A call never looks twice for a level of its pathname nor makes it       *)
(* twice, whatever others create or remove meanwhile: what is removed      *)
(* under it makes it fail, not start over.  A level is one of its Goal, so *)
(* it is the safety half of CallsEnd.                                      *)
(***************************************************************************)
THEOREM CallsOnlyAdvance ==
    Spec => [](\A c \in Caller : InFlight(c) =>
                  caller[c].depth \in 1..(Len(Goal[c]) - 1))
            /\ [][AllAdvance]_vars
<1>1. TypeOK /\ DepthSound =>
          \A c \in Caller : InFlight(c) =>
              caller[c].depth \in 1..(Len(Goal[c]) - 1)
    BY GoalFacts DEF DepthSound
<1>2. TypeOK /\ DepthSound /\ [Next]_vars => AllAdvance
    <2> SUFFICES ASSUME TypeOK, [Next]_vars, NEW c \in Caller, InFlight(c)
                 PROVE  \/ caller'[c] = caller[c]
                        \/ Further(caller[c], caller'[c])
        BY DEF AllAdvance
    <2>0. caller \in [Caller -> CallType] /\ caller[c] \in CallType
        BY DEF TypeOK
    <2>1. CASE caller' = caller
        BY <2>1
    <2>2. ASSUME NEW id, Reached(c, id)
          PROVE  Further(caller[c], caller'[c])
        <3> DEFINE d == caller[c].depth + 1
        <3>1. caller'[c] = [pc |-> IF d = Len(Goal[c]) THEN "done" ELSE "look",
                            depth |-> d, at |-> id]
            BY <2>0, <2>2 DEF Reached
        <3> QED
            BY <3>1 DEF Further
    <2>3. CASE Find(c) \/ Make(c)
        BY <2>2, <2>3 DEF Find, Make
    <2>4. CASE Miss(c)
        BY <2>0, <2>4 DEF Miss, Further, CallType
    <2>5. CASE Gone(c) \/ RequestFails(c)
        BY <2>0, <2>5 DEF Gone, RequestFails, Failed, Further, CallType
    <2>6. ASSUME NEW b \in Caller \ {c},
                 Call(b) \/ CallStep(b) \/ RequestFails(b)
          PROVE  caller'[c] = caller[c]
        BY <2>0, <2>6 DEF Call, CallStep, Find, Miss, Make, Gone, RequestFails,
                          Reached, Failed
    <2>7. ~ Call(c)
        BY DEF Call
    <2>8. (\E l \in late : LateCreation(l)) \/ (\E n \in tree : Remove(n)) =>
              caller' = caller
        BY DEF LateCreation, Remove
    <2> QED
        BY <2>1, <2>3, <2>4, <2>5, <2>6, <2>7, <2>8 DEF Next, CallStep, vars
<1> QED
    BY <1>1, <1>2, TypeInit, TypeInductive, PTL DEF Spec

-----------------------------------------------------------------------------
(***************************************************************************)
(* The tree.  A folder that is created has an id of its own and hangs      *)
(* below a folder that is there; what is removed takes all below with it.  *)
(***************************************************************************)
LEMMA NodeFacts ==
    ASSUME TypeOK, TreeSound, NEW n \in tree
    PROVE  /\ n \in NodeType /\ n.path \in Seq(Names) /\ n.name \in Names
           /\ n.id \in 1..made \cup Group
           /\ made + 1 \notin 1..made \cup Group
           /\ n.id # made + 1 /\ made + 1 \notin Group
<1>1. n \in NodeType
  BY DEF TypeOK
<1>2. n.id \in 1..made \cup Group
  BY DEF TreeSound
<1>3. made + 1 \notin 1..made /\ made + 1 \in Nat
  BY DEF TypeOK
<1>4. made + 1 \notin Group
  BY <1>3, PathnameAssumption
<1> QED
  BY <1>1, <1>2, <1>3, <1>4 DEF NodeType, Names

LEMMA ChildIsNew ==
    ASSUME TypeOK, TreeSound, NEW m \in tree, NEW name \in Name,
           tree' = tree \cup {Child(m, name)}, made' = made + 1
    PROVE  TreeSound'
<1> DEFINE new == Child(m, name)
<1>1. /\ new.id = made + 1 /\ new.name = name /\ new.parent = m.id
      /\ new.above = m.above \cup {m.id} /\ new.path = Append(m.path, name)
  BY DEF Child
<1>2. /\ \A n \in tree : n.id # made + 1
      /\ 1..made \subseteq 1..made' /\ made + 1 \in 1..made'
  BY NodeFacts DEF TypeOK
<1>3. HangsBelow(new, m)
  BY <1>1 DEF HangsBelow
<1>4. Len(new.path) > 0
  <2>1. m.path \in Seq(Names) /\ name \in Names
    BY NodeFacts DEF Names
  <2>2. Len(new.path) = Len(m.path) + 1 /\ Len(m.path) \in Nat
    BY <1>1, <2>1, AppendProperties
  <2> QED
    BY <2>2
<1> HIDE DEF new
<1>5. \A n, k \in tree' : n.id = k.id => n = k
  BY <1>1, <1>2 DEF TreeSound, new
<1>6. \A g \in Group : Root(g) \in tree'
  BY DEF TreeSound
<1>7. \A n \in tree' : Len(n.path) > 0
  BY <1>4 DEF TreeSound, new
<1>8. ASSUME NEW n \in tree'
      PROVE  \/ n.id \in Group /\ n = Root(n.id)
             \/ /\ n.id \in 1..made'
                /\ n.name \in Name
                /\ \E k \in tree' : HangsBelow(n, k)
  <2>1. CASE n = new
    BY <1>1, <1>2, <1>3, <2>1
  <2>2. CASE n \in tree
    BY <1>2, <2>2 DEF TreeSound
  <2> QED
    BY <2>1, <2>2 DEF new
<1> QED
  BY <1>5, <1>6, <1>7, <1>8 DEF TreeSound, HangsBelow

LEMMA RemovalIsClosed ==
    ASSUME TypeOK, TreeSound, NEW n \in tree, Remove(n)
    PROVE  TreeSound'
<1>1. tree' = {m \in tree : m.id # n.id /\ n.id \notin m.above} /\ made' = made
  BY DEF Remove
<1>2. \A g \in Group : Root(g) \in tree'
  <2>1. ASSUME NEW g \in Group
        PROVE  Root(g).id = g /\ Root(g).above = {}
    BY DEF Root
  <2> QED
    BY <1>1, <2>1 DEF TreeSound, Remove
<1>3. ASSUME NEW k \in tree'
      PROVE  \/ k.id \in Group /\ k = Root(k.id)
             \/ /\ k.id \in 1..made'
                /\ k.name \in Name
                /\ \E m \in tree' : HangsBelow(k, m)
  <2>1. ASSUME NEW m \in tree, HangsBelow(k, m)
        PROVE  m \in tree'
    BY <1>1, <2>1 DEF HangsBelow
  <2> QED
    BY <1>1, <2>1 DEF TreeSound
<1> QED
  BY <1>1, <1>2, <1>3 DEF TreeSound, HangsBelow

LEMMA TreeInductive ==
    ASSUME TypeOK, DepthSound, TreeSound, [Next]_vars
    PROVE  TreeSound'
<1>1. ASSUME NEW id, NEW name \in Name, Created(id, name)
      PROVE  TreeSound'
  <2>1. PICK m \in tree : m.id = id /\ tree' = tree \cup {Child(m, name)}
    BY <1>1 DEF Created
  <2>2. made' = made + 1
    BY <1>1 DEF Created
  <2> QED
    BY <2>1, <2>2, ChildIsNew
<1>2. ASSUME UNCHANGED <<tree, made>>
      PROVE  TreeSound'
  BY <1>2 DEF TreeSound, HangsBelow
<1>3. ASSUME NEW c \in Caller, Make(c)
      PROVE  TreeSound'
  BY <1>1, <1>3, WantedType DEF Make, InFlight
<1>4. ASSUME NEW l \in late, LateCreation(l)
      PROVE  TreeSound'
  <2>1. l.name \in Name
    BY DEF TypeOK
  <2> QED
    BY <1>1, <1>2, <1>4, <2>1 DEF LateCreation
<1>5. ASSUME NEW n \in tree, Remove(n)
      PROVE  TreeSound'
  BY <1>5, RemovalIsClosed
<1>6. ASSUME NEW c \in Caller,
             Call(c) \/ Find(c) \/ Miss(c) \/ Gone(c) \/ RequestFails(c)
      PROVE  UNCHANGED <<tree, made>>
  BY <1>6 DEF Call, Find, Miss, Gone, RequestFails
<1>7. CASE UNCHANGED vars
  BY <1>2, <1>7 DEF vars
<1> QED
  BY <1>2, <1>3, <1>4, <1>5, <1>6, <1>7 DEF Next, CallStep

LEMMA AppendsMatch ==
    ASSUME NEW p \in Seq(Names), NEW q \in Seq(Names),
           NEW a \in Names, NEW b \in Names, Append(p, a) = Append(q, b)
    PROVE  p = q /\ a = b
BY AppendInjective

(* What a parent does not have is nowhere, unless a pathname is there twice. *)
LEMMA NoTwin ==
    ASSUME TypeOK, TreeSound, NEW m \in tree, NEW name \in Name,
           \A n, k \in tree : n.path = k.path => n = k,
           Named(m.id, name) = {}, NEW n \in tree
    PROVE  n.path # Append(m.path, name)
<1> SUFFICES ASSUME n.path = Append(m.path, name) PROVE FALSE
  OBVIOUS
<1>1. m.path \in Seq(Names) /\ n.path \in Seq(Names) /\ name \in Names
  BY NodeFacts DEF Names
<1>2. Len(n.path) = Len(m.path) + 1 /\ Len(m.path) \in Nat /\ Len(m.path) > 0
  <2>1. Len(n.path) = Len(m.path) + 1 /\ Len(m.path) \in Nat
    BY <1>1, AppendProperties
  <2> QED
    BY <2>1 DEF TreeSound
<1>3. n.id # m.id
  BY <1>2 DEF TreeSound
<1>4. CASE n.id \in Group /\ n = Root(n.id)
  <2>1. n.path = <<n.id>>
    <3>1. Root(n.id).path = <<n.id>>
      BY DEF Root
    <3> QED
      BY <1>4, <3>1, Zenon
  <2> QED
    BY <1>2, <2>1
<1>5. CASE n.name \in Name /\ \E k \in tree : HangsBelow(n, k)
  <2>1. PICK k \in tree : HangsBelow(n, k)
    BY <1>5
  <2>2. k.path \in Seq(Names) /\ n.name \in Names
    BY <1>5, NodeFacts DEF Names
  <2>3. k.path = m.path /\ n.name = name
    <3>1. Append(k.path, n.name) = Append(m.path, name)
      BY <2>1 DEF HangsBelow
    <3> QED
      BY <1>1, <2>2, <3>1, AppendsMatch
  <2>4. k = m
    BY <2>3
  <2>5. n \in Named(m.id, name)
    BY <1>3, <2>1, <2>3, <2>4 DEF Named, Children, HangsBelow
  <2> QED
    BY <2>5
<1> QED
  BY <1>4, <1>5 DEF TreeSound

(***************************************************************************)
(* The calls.  A child that has the wanted name, found or made, is at the  *)
(* pathname of its parent and that name.                                   *)
(***************************************************************************)
LEMMA NamedIsBelow ==
    ASSUME TypeOK, TreeSound, NEW m \in tree, NEW name \in Name,
           NEW n \in Named(m.id, name)
    PROVE  /\ n \in tree /\ n.id \in 1..made
           /\ n.path = Append(m.path, name)
<1>1. n \in tree /\ n.parent = m.id /\ n.id # m.id /\ n.name = name
  BY DEF Named, Children
<1>2. ~ (n.id \in Group /\ n = Root(n.id))
  BY <1>1 DEF Root
<1>3. PICK k \in tree : HangsBelow(n, k)
  BY <1>1, <1>2 DEF TreeSound
<1>4. k = m
  BY <1>1, <1>3 DEF TreeSound, HangsBelow
<1>5. n.id \in 1..made
  BY <1>1, <1>2 DEF TreeSound
<1> QED
  BY <1>1, <1>3, <1>4, <1>5 DEF HangsBelow

LEMMA TreeMoves ==
    ASSUME TypeOK, [Next]_vars
    PROVE  /\ made' \in {made, made + 1}
           /\ \A n \in tree' : n \in tree \/ n.id = made + 1
<1>1. ASSUME NEW id, NEW name, Created(id, name)
      PROVE  /\ made' = made + 1
             /\ \A n \in tree' : n \in tree \/ n.id = made + 1
  BY <1>1 DEF Created, Child
<1>2. ASSUME NEW c \in Caller, Make(c)
      PROVE  /\ made' = made + 1
             /\ \A n \in tree' : n \in tree \/ n.id = made + 1
  BY <1>1, <1>2 DEF Make
<1>3. ASSUME NEW l \in late, LateCreation(l)
      PROVE  /\ made' \in {made, made + 1}
             /\ \A n \in tree' : n \in tree \/ n.id = made + 1
  BY <1>1, <1>3 DEF LateCreation
<1>4. ASSUME NEW n \in tree, Remove(n)
      PROVE  made' = made /\ tree' \subseteq tree
  BY <1>4 DEF Remove
<1>5. ASSUME NEW c \in Caller,
             Call(c) \/ Find(c) \/ Miss(c) \/ Gone(c) \/ RequestFails(c)
      PROVE  made' = made /\ tree' = tree
  BY <1>5 DEF Call, Find, Miss, Gone, RequestFails
<1>6. CASE UNCHANGED vars
  BY <1>6 DEF vars
<1> QED
  BY <1>2, <1>3, <1>4, <1>5, <1>6 DEF Next, CallStep

(* Where a call is: the folder, if it is there, is at what it went through. *)
Placed(c) ==
    /\ caller[c].at \in 1..made \cup Group
    /\ \A n \in tree : n.id = caller[c].at => n.path = Prefix(c)

LEMMA StaysPlaced ==
    ASSUME TypeOK, TreeSound, [Next]_vars, NEW c \in Caller, Placed(c),
           caller'[c].at = caller[c].at, caller'[c].depth = caller[c].depth
    PROVE  Placed(c)'
<1>1. /\ made' \in {made, made + 1}
      /\ \A n \in tree' : n \in tree \/ n.id = made + 1
  BY TreeMoves
<1>2. made + 1 \notin 1..made \cup Group
  BY PathnameAssumption DEF TypeOK
<1>3. caller'[c].at \in 1..made' \cup Group
  BY <1>1 DEF Placed, TypeOK
<1>4. Prefix(c)' = Prefix(c)
  BY DEF Prefix
<1> QED
  BY <1>1, <1>2, <1>3, <1>4 DEF Placed

LEMMA ReachedIsPlaced ==
    ASSUME TypeOK, DepthSound, TreeSound, NEW c \in Caller, InFlight(c),
           Placed(c), NEW m \in tree, m.id = caller[c].at,
           NEW id \in 1..made', Reached(c, id),
           \A n \in tree' : n.id = id => n.path = Append(m.path, Wanted(c))
    PROVE  Placed(c)' /\ \A b \in Caller \ {c} : caller'[b] = caller[b]
<1> DEFINE depth == caller[c].depth + 1
<1>1. /\ caller'[c].at = id /\ caller'[c].depth = depth
      /\ \A b \in Caller \ {c} : caller'[b] = caller[b]
  BY DEF Reached, TypeOK
<1>2. /\ caller[c].depth \in 1..Len(Goal[c])
      /\ caller[c].depth < Len(Goal[c])
  BY DEF DepthSound
<1>3. SubSeq(Goal[c], 1, depth) = Append(Prefix(c), Wanted(c))
  BY <1>2, PrefixGrows DEF Prefix, Wanted
<1>4. m.path = Prefix(c)
  BY DEF Placed
<1>5. Prefix(c)' = SubSeq(Goal[c], 1, depth)
  BY <1>1 DEF Prefix
<1>6. \A n \in tree' : n.id = caller'[c].at => n.path = Prefix(c)'
  BY <1>1, <1>3, <1>4, <1>5
<1> QED
  BY <1>1, <1>6 DEF Placed

LEMMA StartIsPlaced ==
    ASSUME TypeOK, TreeSound, NEW c \in Caller, Call(c)
    PROVE  Placed(c)' /\ \A b \in Caller \ {c} : caller'[b] = caller[b]
<1>1. /\ caller'[c].at = Goal[c][1] /\ caller'[c].depth = 1
      /\ \A b \in Caller \ {c} : caller'[b] = caller[b]
      /\ tree' = tree /\ made' = made
  BY DEF Call, TypeOK
<1>2. Goal[c][1] \in Group /\ Root(Goal[c][1]) \in tree
  BY GoalFacts DEF TreeSound
<1>3. Root(Goal[c][1]).id = Goal[c][1] /\ Root(Goal[c][1]).path = <<Goal[c][1]>>
  BY DEF Root
<1>4. \A n \in tree : n.id = Goal[c][1] => n.path = <<Goal[c][1]>>
  BY <1>2, <1>3 DEF TreeSound
<1>5. Prefix(c)' = <<Goal[c][1]>>
  BY <1>1, PrefixStarts DEF Prefix
<1> QED
  BY <1>1, <1>2, <1>4, <1>5 DEF Placed

LEMMA FindIsPlaced ==
    ASSUME TypeOK, DepthSound, TreeSound, NEW c \in Caller, Placed(c), Find(c)
    PROVE  Placed(c)' /\ \A b \in Caller \ {c} : caller'[b] = caller[b]
<1>1. InFlight(c) /\ Wanted(c) \in Name /\ tree' = tree /\ made' = made
  BY WantedType DEF Find, InFlight
<1>2. PICK m \in tree : m.id = caller[c].at
  BY DEF Find, Ids
<1>3. PICK n \in Named(m.id, Wanted(c)) : Reached(c, n.id)
  BY <1>2 DEF Find
<1>4. n \in tree /\ n.id \in 1..made /\ n.path = Append(m.path, Wanted(c))
  BY <1>1, NamedIsBelow
<1>5. \A k \in tree' : k.id = n.id => k.path = Append(m.path, Wanted(c))
  BY <1>1, <1>4 DEF TreeSound
<1>6. n.id \in 1..made'
  BY <1>1, <1>4
<1> QED
  BY <1>1, <1>2, <1>3, <1>5, <1>6, ReachedIsPlaced

LEMMA MakeIsPlaced ==
    ASSUME TypeOK, DepthSound, TreeSound, NEW c \in Caller, Placed(c), Make(c)
    PROVE  Placed(c)' /\ \A b \in Caller \ {c} : caller'[b] = caller[b]
<1>1. InFlight(c)
  BY DEF Make, InFlight
<1>2. PICK m \in tree : m.id = caller[c].at
                        /\ tree' = tree \cup {Child(m, Wanted(c))}
  BY DEF Make, Created
<1>3. made' = made + 1 /\ Reached(c, made + 1) /\ made + 1 \in 1..made'
  BY DEF Make, Created, TypeOK
<1>4. Child(m, Wanted(c)).path = Append(m.path, Wanted(c))
  BY DEF Child
<1>5. \A n \in tree' : n.id = made + 1 => n.path = Append(m.path, Wanted(c))
  BY <1>2, <1>4, NodeFacts
<1> QED
  BY <1>1, <1>2, <1>3, <1>5, ReachedIsPlaced

LEMMA CallsInductive ==
    ASSUME TypeOK, DepthSound, TreeSound, CallsSound, [Next]_vars
    PROVE  CallsSound'
<1>1. \A c \in Caller : Placed(c)
  BY DEF CallsSound, Placed
<1> SUFFICES ASSUME NEW b \in Caller PROVE Placed(b)'
  BY DEF CallsSound, Placed
<1>2. ASSUME caller'[b] = caller[b] PROVE Placed(b)'
  BY <1>1, <1>2, StaysPlaced
<1>3. ASSUME NEW c \in Caller, Call(c) PROVE Placed(b)'
  BY <1>2, <1>3, StartIsPlaced
<1>4. ASSUME NEW c \in Caller, Find(c) PROVE Placed(b)'
  BY <1>1, <1>2, <1>4, FindIsPlaced
<1>5. ASSUME NEW c \in Caller, Make(c) PROVE Placed(b)'
  BY <1>1, <1>2, <1>5, MakeIsPlaced
<1>6. ASSUME NEW c \in Caller, Miss(c) \/ Gone(c) \/ RequestFails(c)
      PROVE  Placed(b)'
  <2>1. PICK label \in {"make", "failed"} : caller' = [caller EXCEPT ![c].pc = label]
    BY <1>6 DEF Miss, Gone, RequestFails, Failed
  <2>2. caller'[b].at = caller[b].at /\ caller'[b].depth = caller[b].depth
    BY <2>1 DEF TypeOK, CallType
  <2> QED
    BY <1>1, <2>2, StaysPlaced
<1>7. ASSUME NEW l \in late, LateCreation(l) PROVE Placed(b)'
  BY <1>2, <1>7 DEF LateCreation
<1>8. ASSUME NEW n \in tree, Remove(n) PROVE Placed(b)'
  BY <1>2, <1>8 DEF Remove
<1>9. CASE UNCHANGED vars
  BY <1>2, <1>9 DEF vars
<1> QED
  BY <1>3, <1>4, <1>5, <1>6, <1>7, <1>8, <1>9 DEF Next, CallStep

LEMMA LateInductive ==
    ASSUME TypeOK, CallsSound, LateSound, [Next]_vars
    PROVE  LateSound'
<1>1. 1..made \cup Group \subseteq 1..made' \cup Group
  BY TreeMoves DEF TypeOK
<1>2. ASSUME NEW c \in Caller, RequestFails(c) PROVE LateSound'
  <2>1. caller[c].at \in 1..made \cup Group
    BY DEF CallsSound
  <2> QED
    BY <1>1, <1>2, <2>1 DEF RequestFails, LateSound
<1>3. ASSUME late' \subseteq late PROVE LateSound'
  BY <1>1, <1>3 DEF LateSound
<1>4. ASSUME NEW c \in Caller, Call(c) \/ CallStep(c) PROVE LateSound'
  BY <1>3, <1>4 DEF Call, CallStep, Find, Miss, Make, Gone
<1>5. ASSUME NEW l \in late, LateCreation(l) PROVE LateSound'
  BY <1>3, <1>5 DEF LateCreation
<1>6. ASSUME NEW n \in tree, Remove(n) PROVE LateSound'
  BY <1>3, <1>6 DEF Remove
<1>7. CASE UNCHANGED vars
  BY <1>3, <1>7 DEF vars
<1> QED
  BY <1>2, <1>4, <1>5, <1>6, <1>7 DEF Next

(***************************************************************************)
(* A call that nothing overlaps.  Only its own creation, or the one that   *)
(* its failure left behind, can add a folder, and what it adds is missing. *)
(***************************************************************************)
LEMMA AloneInductive ==
    ASSUME TypeOK, AloneSound, [Next]_vars
    PROVE  AloneSound'
<1> SUFFICES ASSUME ~ raced'
             PROVE  /\ \A b, c \in Caller : InFlight(b)' /\ InFlight(c)' => b = c
                    /\ late' # {} => \A c \in Caller : ~ InFlight(c)'
                    /\ \A k, l \in late' : k = l
                    /\ \A c \in Caller : caller'[c].pc = "make" =>
                          Named(caller[c].at, Wanted(c))' = {}
                    /\ \A l \in late' : Named(l.parent, l.name)' = {}
  BY DEF AloneSound
<1>1. ~ raced
  BY DEF Next, Call, CallStep, Find, Miss, Make, Gone, RequestFails,
         LateCreation, Remove, vars
<1>2. ASSUME NEW c \in Caller, Call(c) PROVE AloneSound'
  <2>1. late' = {} /\ \A b \in Caller : ~ InFlight(b)
    BY <1>2 DEF Call
  <2>2. caller' = [caller EXCEPT ![c] = [pc |-> "look", depth |-> 1,
                                         at |-> Goal[c][1]]]
    BY <1>2 DEF Call
  <2>3. \A b \in Caller : /\ InFlight(b)' => b = c
                          /\ caller'[b].pc # "make"
    BY <2>1, <2>2 DEF InFlight, TypeOK
  <2> QED
    BY <2>1, <2>3 DEF AloneSound
<1>3. ASSUME NEW c \in Caller, InFlight(c), late' \subseteq late,
             \A b \in Caller \ {c} : caller'[b] = caller[b],
             caller'[c].pc # "make"
      PROVE  AloneSound'
  <2>1. \A b \in Caller : InFlight(b) => b = c
    BY <1>1, <1>3 DEF AloneSound
  <2>2. \A b \in Caller : InFlight(b)' => b = c
    BY <1>3, <2>1 DEF InFlight
  <2>3. late' = {}
    BY <1>1, <1>3 DEF AloneSound
  <2>4. \A b \in Caller : caller'[b].pc # "make"
    BY <1>3, <2>2 DEF InFlight
  <2> QED
    BY <2>2, <2>3, <2>4 DEF AloneSound
<1>4. ASSUME NEW c \in Caller, Find(c) \/ Make(c) PROVE AloneSound'
  <2>1. PICK id : Reached(c, id)
    BY <1>4 DEF Find, Make
  <2>2. caller'[c].pc # "make" /\ \A b \in Caller \ {c} : caller'[b] = caller[b]
    BY <2>1 DEF Reached, TypeOK
  <2> QED
    BY <1>3, <1>4, <2>2 DEF Find, Make, InFlight
<1>5. ASSUME NEW c \in Caller, Gone(c) PROVE AloneSound'
  <2>1. caller'[c].pc # "make" /\ \A b \in Caller \ {c} : caller'[b] = caller[b]
    BY <1>5 DEF Gone, Failed, TypeOK, CallType
  <2> QED
    BY <1>3, <1>5, <2>1 DEF Gone
<1>6. ASSUME NEW c \in Caller, Miss(c) PROVE AloneSound'
  <2>1. InFlight(c) /\ Named(caller[c].at, Wanted(c)) = {}
    BY <1>6 DEF Miss, InFlight
  <2>2. /\ caller'[c].at = caller[c].at /\ caller'[c].depth = caller[c].depth
        /\ \A b \in Caller \ {c} : caller'[b] = caller[b]
    BY <1>6 DEF Miss, TypeOK, CallType
  <2>3. \A b \in Caller : InFlight(b) => b = c
    BY <1>1, <2>1 DEF AloneSound
  <2>4. \A b \in Caller : InFlight(b)' => b = c
    BY <2>2, <2>3 DEF InFlight
  <2>5. late' = {}
    BY <1>1, <1>6, <2>1 DEF AloneSound, Miss
  <2>6. Named(caller[c].at, Wanted(c))' = {}
    BY <1>6, <2>1, <2>2 DEF Miss, Named, Children, Wanted
  <2>7. \A b \in Caller : caller'[b].pc = "make" => b = c
    BY <2>4 DEF InFlight
  <2> QED
    BY <2>4, <2>5, <2>6, <2>7 DEF AloneSound
<1>7. ASSUME NEW c \in Caller, RequestFails(c) PROVE AloneSound'
  <2>1. late = {} /\ \A b \in Caller : InFlight(b) => b = c
    BY <1>1, <1>7 DEF AloneSound, RequestFails
  <2>2. /\ caller'[c].pc = "failed"
        /\ \A b \in Caller \ {c} : caller'[b] = caller[b]
    BY <1>7 DEF RequestFails, Failed, TypeOK, CallType
  <2>3. \A b \in Caller : ~ InFlight(b)'
    BY <2>1, <2>2 DEF InFlight
  <2>4. \A b \in Caller : caller'[b].pc # "make"
    BY <2>3 DEF InFlight
  <2>5. /\ \A k, l \in late' : k = l
        /\ \A l \in late' : /\ caller[c].pc = "make"
                            /\ l.parent = caller[c].at /\ l.name = Wanted(c)
    BY <1>7, <2>1 DEF RequestFails
  <2>6. caller[c].pc = "make" => Named(caller[c].at, Wanted(c)) = {}
    BY <1>1 DEF AloneSound
  <2>7. tree' = tree
    BY <1>7 DEF RequestFails
  <2>8. \A l \in late' : Named(l.parent, l.name)' = {}
    BY <2>5, <2>6, <2>7 DEF Named, Children
  <2> QED
    BY <2>3, <2>4, <2>5, <2>8 DEF AloneSound
<1>8. ASSUME NEW l \in late, LateCreation(l) PROVE AloneSound'
  <2>1. late' = {} /\ caller' = caller
    BY <1>1, <1>8 DEF AloneSound, LateCreation
  <2>2. \A c \in Caller : ~ InFlight(c)
    BY <1>1, <1>8 DEF AloneSound
  <2>3. \A c \in Caller : ~ InFlight(c)' /\ caller'[c].pc # "make"
    BY <2>1, <2>2 DEF InFlight
  <2> QED
    BY <2>1, <2>3 DEF AloneSound
<1>9. ASSUME tree' \subseteq tree, caller' = caller, late' = late
      PROVE  AloneSound'
  <2>1. \A id, name : Named(id, name) = {} => Named(id, name)' = {}
    BY <1>9 DEF Named, Children
  <2>2. \A c \in Caller : InFlight(c)' = InFlight(c) /\ Wanted(c)' = Wanted(c)
    BY <1>9 DEF InFlight, Wanted
  <2>3. \A b, c \in Caller : InFlight(b)' /\ InFlight(c)' => b = c
    BY <1>1, <2>2 DEF AloneSound
  <2>4. late' # {} => \A c \in Caller : ~ InFlight(c)'
    BY <1>1, <1>9, <2>2 DEF AloneSound
  <2>5. \A c \in Caller : caller'[c].pc = "make" =>
           Named(caller[c].at, Wanted(c))' = {}
    BY <1>1, <1>9, <2>1 DEF AloneSound, Named, Children, Wanted
  <2>6. \A l \in late' : Named(l.parent, l.name)' = {}
    BY <1>1, <1>9, <2>1 DEF AloneSound, Named, Children
  <2> QED
    BY <1>1, <1>9, <2>3, <2>4, <2>5, <2>6 DEF AloneSound
<1>10. ASSUME NEW n \in tree, Remove(n) PROVE AloneSound'
  BY <1>9, <1>10 DEF Remove
<1>11. ASSUME UNCHANGED vars PROVE AloneSound'
  <2>1. tree' \subseteq tree /\ caller' = caller /\ late' = late
    BY <1>11 DEF vars
  <2> QED
    BY <1>9, <2>1
<1> QED
  BY <1>2, <1>4, <1>5, <1>6, <1>7, <1>8, <1>10, <1>11
     DEF Next, CallStep, AloneSound

(* What one creation adds is at a pathname that nothing else is at. *)
LEMMA CreatedIsAlone ==
    ASSUME TypeOK, TreeSound, NEW id, NEW name \in Name, Created(id, name),
           Named(id, name) = {}, \A n, k \in tree : n.path = k.path => n = k
    PROVE  \A n, k \in tree' : n.path = k.path => n = k
<1>1. PICK m \in tree : m.id = id /\ tree' = tree \cup {Child(m, name)}
  BY DEF Created
<1>2. Child(m, name).path = Append(m.path, name)
  BY DEF Child
<1>3. \A n \in tree : n.path # Append(m.path, name)
  BY <1>1, NoTwin
<1> QED
  BY <1>1, <1>2, <1>3

LEMMA OneFolderInductive ==
    ASSUME TypeOK, DepthSound, TreeSound, AloneSound, OneFolderPerPath,
           [Next]_vars
    PROVE  OneFolderPerPath'
<1> SUFFICES ASSUME ~ raced'
             PROVE  \A n, k \in tree' : n.path = k.path => n = k
  BY DEF OneFolderPerPath
<1>1. ~ raced
  BY DEF Next, Call, CallStep, Find, Miss, Make, Gone, RequestFails,
         LateCreation, Remove, vars
<1>2. \A n, k \in tree : n.path = k.path => n = k
  BY <1>1 DEF OneFolderPerPath
<1>3. ASSUME tree' \subseteq tree
      PROVE  \A n, k \in tree' : n.path = k.path => n = k
  BY <1>2, <1>3
<1>4. ASSUME NEW c \in Caller, Make(c)
      PROVE  \A n, k \in tree' : n.path = k.path => n = k
  <2>1. Wanted(c) \in Name /\ Named(caller[c].at, Wanted(c)) = {}
    BY <1>1, <1>4, WantedType DEF AloneSound, Make, InFlight
  <2>2. Created(caller[c].at, Wanted(c))
    BY <1>4 DEF Make
  <2> QED
    BY <1>2, <2>1, <2>2, CreatedIsAlone
<1>5. ASSUME NEW l \in late, LateCreation(l)
      PROVE  \A n, k \in tree' : n.path = k.path => n = k
  <2>1. l.name \in Name /\ Named(l.parent, l.name) = {}
    BY <1>1 DEF AloneSound, TypeOK
  <2>2. CASE Created(l.parent, l.name)
    BY <1>2, <2>1, <2>2, CreatedIsAlone
  <2>3. CASE UNCHANGED <<tree, made>>
    BY <1>3, <2>3
  <2> QED
    BY <1>5, <2>2, <2>3 DEF LateCreation
<1>6. ASSUME NEW c \in Caller,
             Call(c) \/ Find(c) \/ Miss(c) \/ Gone(c) \/ RequestFails(c)
      PROVE  tree' \subseteq tree
  BY <1>6 DEF Call, Find, Miss, Gone, RequestFails
<1>7. ASSUME NEW n \in tree, Remove(n) PROVE tree' \subseteq tree
  BY <1>7 DEF Remove
<1>8. CASE UNCHANGED vars
  BY <1>3, <1>8 DEF vars
<1> QED
  BY <1>3, <1>4, <1>5, <1>6, <1>7, <1>8 DEF Next, CallStep

-----------------------------------------------------------------------------
LEMMA IInvInit == Init => IInv
<1> SUFFICES ASSUME Init PROVE IInv
  OBVIOUS
<1>1. TypeOK /\ DepthSound
  BY TypeInit
<1>2. \A n \in tree : n.id \in Group /\ n = Root(n.id) /\ n.path = <<n.id>>
  <2>1. ASSUME NEW g \in Group PROVE Root(g).id = g /\ Root(g).path = <<g>>
    BY DEF Root
  <2> QED
    BY <2>1 DEF Init
<1>3. \A g \in Group : Root(g) \in tree
  BY DEF Init
<1>4. TreeSound
  <2>1. \A n \in tree : Len(n.path) > 0
    BY <1>2
  <2>2. \A n, m \in tree : n.id = m.id => n = m
    BY <1>2
  <2> QED
    BY <1>2, <1>3, <2>1, <2>2 DEF TreeSound
<1>5. ASSUME NEW c \in Caller
      PROVE  /\ caller[c].pc = "idle" /\ caller[c].depth = 1
             /\ caller[c].at = Goal[c][1]
  BY DEF Init
<1>6. CallsSound
  <2>1. ASSUME NEW c \in Caller
        PROVE  Prefix(c) = <<caller[c].at>> /\ caller[c].at \in Group
    BY <1>5, PrefixStarts, GoalFacts DEF Prefix
  <2> QED
    BY <1>2, <2>1 DEF CallsSound
<1>7. late = {} /\ \A c \in Caller : ~ InFlight(c) /\ caller[c].pc # "make"
  <2>1. late = {}
    BY DEF Init
  <2> QED
    BY <1>5, <2>1 DEF InFlight
<1>8. LateSound /\ AloneSound
  BY <1>7 DEF LateSound, AloneSound
<1>9. OneFolderPerPath
  <2>1. ASSUME NEW n \in tree, NEW m \in tree, n.path = m.path PROVE n = m
    <3>1. n.id = m.id
      BY <1>2, <2>1
    <3> QED
      BY <1>2, <3>1
  <2> QED
    BY <2>1 DEF OneFolderPerPath
<1> QED
  BY <1>1, <1>4, <1>6, <1>8, <1>9 DEF IInv

LEMMA IInvInductive == TypeOK /\ IInv /\ [Next]_vars => TypeOK' /\ IInv'
<1> SUFFICES ASSUME TypeOK, IInv, [Next]_vars PROVE TypeOK' /\ IInv'
  OBVIOUS
<1>1. /\ DepthSound /\ TreeSound /\ CallsSound /\ LateSound
      /\ AloneSound /\ OneFolderPerPath
  BY DEF IInv
<1>2. TypeOK' /\ DepthSound'
  BY <1>1, TypeInductive
<1>3. TreeSound'
  BY <1>1, TreeInductive
<1>4. CallsSound'
  BY <1>1, CallsInductive
<1>5. LateSound'
  BY <1>1, LateInductive
<1>6. AloneSound'
  BY <1>1, AloneInductive
<1>7. OneFolderPerPath'
  BY <1>1, OneFolderInductive
<1> QED
  BY <1>2, <1>3, <1>4, <1>5, <1>6, <1>7 DEF IInv

(***************************************************************************)
(* The inductive invariant of ensure_pathname: the folders form a tree, a  *)
(* call is where the names it has gone through lead, and what a call that  *)
(* nothing overlaps is about to create is not there.                       *)
(***************************************************************************)
THEOREM Invariance == Spec => []IInv
<1>1. Init => TypeOK /\ IInv
  BY TypeInit, IInvInit
<1>2. Spec => [](TypeOK /\ IInv)
  BY <1>1, IInvInductive, PTL DEF Spec
<1> QED
  BY <1>2, PTL

(***************************************************************************)
(* What ensure_pathname returns is the folder at the pathname asked for,   *)
(* whatever others create and remove while it walks down.                  *)
(***************************************************************************)
THEOREM FolderAtPathname == Spec => []FolderIsAtPath
<1>1. IInv => FolderIsAtPath
  <2> SUFFICES ASSUME IInv, NEW c \in Caller, caller[c].pc = "done",
                      NEW n \in tree, n.id = caller[c].at
               PROVE  n.path = Goal[c]
    BY DEF FolderIsAtPath
  <2>1. caller[c].depth = Len(Goal[c]) /\ n.path = Prefix(c)
    BY DEF IInv, DepthSound, CallsSound
  <2>2. SubSeq(Goal[c], 1, Len(Goal[c])) = Goal[c]
    BY GoalFacts, SubSeqFull
  <2> QED
    BY <2>1, <2>2 DEF Prefix
<1> QED
  BY <1>1, Invariance, PTL

(***************************************************************************)
(* Calls of ensure_pathname that do not overlap make no pathname twice.    *)
(***************************************************************************)
THEOREM NoDoubles == Spec => []OneFolderPerPath
<1>1. IInv => OneFolderPerPath
  BY DEF IInv
<1> QED
  BY <1>1, Invariance, PTL

-----------------------------------------------------------------------------
(***************************************************************************)
(* Refinement.  The pathnames of the tree only grow by one below one that  *)
(* is there, and a call is done when its pathname is among them.           *)
(***************************************************************************)
PathsOf == {n.path : n \in tree}
Given == {c \in Caller : caller[c].pc = "done"}

LEMMA RootsArePaths ==
    ASSUME TypeOK, TreeSound
    PROVE  Paths!Roots \subseteq PathsOf
<1> SUFFICES ASSUME NEW g \in Group PROVE <<g>> \in PathsOf
  BY DEF Paths!Roots
<1>1. Root(g) \in tree /\ Root(g).path = <<g>>
  <2>1. Root(g).path = <<g>>
    BY DEF Root
  <2> QED
    BY <2>1 DEF TreeSound
<1> QED
  BY <1>1 DEF PathsOf

LEMMA PathsHang ==
    ASSUME TypeOK, TreeSound
    PROVE  \A p \in PathsOf \ Paths!Roots :
              \E q \in PathsOf : p \in Paths!Below(q)
<1> SUFFICES ASSUME NEW n \in tree, n.path \notin Paths!Roots
             PROVE  \E q \in PathsOf : n.path \in Paths!Below(q)
  BY DEF PathsOf
<1>1. ~ (n.id \in Group /\ n = Root(n.id))
  <2>1. ASSUME n.id \in Group, n = Root(n.id)
        PROVE  FALSE
    <3>1. Root(n.id).path = <<n.id>>
      BY DEF Root
    <3>2. n.path = <<n.id>>
      BY <2>1, <3>1, Zenon
    <3> QED
      BY <2>1, <3>2 DEF Paths!Roots
  <2> QED
    BY <2>1
<1>2. PICK m \in tree : HangsBelow(n, m) /\ n.name \in Name
  BY <1>1 DEF TreeSound
<1>3. n.path = Append(m.path, n.name)
  BY <1>2 DEF HangsBelow
<1>4. m.path \in PathsOf
  BY DEF PathsOf
<1>5. n.path \in Paths!Below(m.path)
  BY <1>2, <1>3 DEF Paths!Below
<1> QED
  BY <1>4, <1>5

LEMMA CreatedAdds ==
    ASSUME TypeOK, NEW id, NEW name \in Name, Created(id, name)
    PROVE  \E m \in tree :
              /\ m.id = id
              /\ m.path \in PathsOf
              /\ Append(m.path, name) \in Paths!Below(m.path)
              /\ PathsOf' = PathsOf \cup {Append(m.path, name)}
<1>1. PICK m \in tree : m.id = id /\ tree' = tree \cup {Child(m, name)}
  BY DEF Created
<1>2. Child(m, name).path = Append(m.path, name)
  BY DEF Child
<1>3. PathsOf' = PathsOf \cup {Append(m.path, name)}
  BY <1>1, <1>2 DEF PathsOf
<1>4. m.path \in PathsOf /\ Append(m.path, name) \in Paths!Below(m.path)
  BY DEF PathsOf, Paths!Below
<1> QED
  BY <1>1, <1>3, <1>4

LEMMA RefinesInit == Init => Paths!Init
<1> SUFFICES ASSUME Init PROVE Paths!Init
  OBVIOUS
<1>1. TypeOK /\ TreeSound /\ \A n \in tree : n.id \in Group /\ n = Root(n.id)
  <2>1. ASSUME NEW g \in Group PROVE Root(g).id = g
    BY DEF Root
  <2>2. \A n \in tree : n.id \in Group /\ n = Root(n.id)
    BY <2>1 DEF Init
  <2> QED
    BY <2>2, TypeInit, IInvInit DEF IInv
<1>2. \A n \in tree : n.path \in Paths!Roots
  <2>1. ASSUME NEW n \in tree PROVE n.path \in Paths!Roots
    <3>1. Root(n.id).path = <<n.id>>
      BY DEF Root
    <3>2. n.path = <<n.id>> /\ n.id \in Group
      BY <1>1, <3>1
    <3> QED
      BY <3>2 DEF Paths!Roots
  <2> QED
    BY <2>1
<1>3. PathsOf = Paths!Roots
  BY <1>1, <1>2, RootsArePaths DEF PathsOf
<1>4. Given = {}
  <2>1. ASSUME NEW c \in Caller PROVE caller[c].pc # "done"
    BY DEF Init
  <2> QED
    BY <2>1 DEF Given
<1> QED
  BY <1>3, <1>4 DEF Paths!Init, PathsOf, Given

(* A call that comes to a folder: it is given it at the end of its pathname. *)
LEMMA ReachedGives ==
    ASSUME TypeOK, DepthSound, NEW c \in Caller, InFlight(c), NEW id,
           Reached(c, id)
    PROVE  \/ Given' = Given
           \/ /\ Given' = Given \cup {c}
              /\ caller'[c].pc = "done" /\ caller'[c].at = id
<1>1. /\ caller'[c].at = id /\ caller[c].pc # "done"
      /\ caller'[c].pc \in {"done", "look"}
      /\ \A b \in Caller \ {c} : caller'[b] = caller[b]
  BY DEF Reached, TypeOK, InFlight
<1>2. CASE caller'[c].pc = "done"
  BY <1>1, <1>2 DEF Given
<1>3. CASE caller'[c].pc = "look"
  BY <1>1, <1>3 DEF Given
<1> QED
  BY <1>1, <1>2, <1>3

LEMMA PathsAreATree ==
    TypeOK /\ TreeSound =>
        /\ Paths!Roots \subseteq PathsOf
        /\ \A p \in PathsOf \ Paths!Roots :
              \E q \in PathsOf : p \in Paths!Below(q)
BY RootsArePaths, PathsHang

LEMMA PathsStayATree ==
    (TypeOK /\ TreeSound =>
        /\ Paths!Roots \subseteq PathsOf
        /\ \A p \in PathsOf \ Paths!Roots :
              \E q \in PathsOf : p \in Paths!Below(q))'
BY PathsAreATree, PTL

(* A creation adds one pathname, perhaps that of the call it is made for. *)
LEMMA CreationIsAdd ==
    ASSUME TypeOK, NEW C \in SUBSET Caller, NEW id, NEW name \in Name,
           Created(id, name), Given' = Given \cup C,
           \A m \in tree : m.id = id =>
              \A c \in C : Goal[c] = Append(m.path, name)
    PROVE  Paths!Next
<1>1. PICK m \in tree :
         /\ m.id = id
         /\ m.path \in PathsOf
         /\ Append(m.path, name) \in Paths!Below(m.path)
         /\ PathsOf' = PathsOf \cup {Append(m.path, name)}
  BY CreatedAdds
<1>2. C \in SUBSET {c \in Caller : Goal[c] = Append(m.path, name)}
  BY <1>1
<1>3. Paths!Add(m.path, Append(m.path, name))
  BY <1>1, <1>2 DEF Paths!Add, PathsOf, Given
<1> QED
  BY <1>1, <1>3 DEF Paths!Next, PathsOf

LEMMA RefinesStep ==
    TypeOK /\ IInv /\ TypeOK' /\ IInv' /\ [Next]_vars => [Paths!Next]_(Paths!vars)
<1> SUFFICES ASSUME TypeOK, IInv, TypeOK', IInv', [Next]_vars
             PROVE  \/ Paths!Next
                    \/ PathsOf' = PathsOf /\ Given' = Given
  BY DEF Paths!vars, PathsOf, Given
<1>1. DepthSound /\ TreeSound /\ CallsSound
  BY DEF IInv
<1>2. DepthSound' /\ TreeSound' /\ CallsSound'
  BY DEF IInv
<1> DEFINE Step == Paths!Next \/ (PathsOf' = PathsOf /\ Given' = Given)
<1>3. ASSUME NEW c \in Caller, Call(c) PROVE Step
  <2>1. PathsOf' = PathsOf
    BY <1>3 DEF Call, PathsOf
  <2>2. /\ caller'[c].pc = "look"
        /\ \A b \in Caller \ {c} : caller'[b] = caller[b]
    BY <1>3 DEF Call, TypeOK
  <2>3. Given' = Given \ {c}
    BY <2>2 DEF Given
  <2>4. Paths!Ask(c)
    BY <2>1, <2>3 DEF Paths!Ask, PathsOf, Given
  <2> QED
    BY <2>4 DEF Paths!Next
<1>4. ASSUME NEW c \in Caller, Find(c) PROVE Step
  <2>1. PathsOf' = PathsOf /\ tree' = tree
    BY <1>4 DEF Find, PathsOf
  <2>2. PICK n \in tree : Reached(c, n.id)
    BY <1>4 DEF Find, Named, Children
  <2>3. InFlight(c)
    BY <1>4 DEF Find, InFlight
  <2>4. CASE Given' = Given
    BY <2>1, <2>4
  <2>5. CASE /\ Given' = Given \cup {c}
             /\ caller'[c].pc = "done" /\ caller'[c].at = n.id
    <3>1. n.path = Goal[c]
      <4>1. caller'[c].depth = Len(Goal[c]) /\ n.path = Prefix(c)'
        BY <1>2, <2>1, <2>5 DEF DepthSound, CallsSound
      <4>2. SubSeq(Goal[c], 1, Len(Goal[c])) = Goal[c]
        BY GoalFacts, SubSeqFull
      <4> QED
        BY <4>1, <4>2 DEF Prefix
    <3>2. Goal[c] \in PathsOf
      BY <3>1 DEF PathsOf
    <3>3. Paths!Give(c)
      BY <2>1, <2>5, <3>2 DEF Paths!Give, PathsOf, Given
    <3> QED
      BY <3>3 DEF Paths!Next
  <2> QED
    BY <1>1, <2>2, <2>3, <2>4, <2>5, ReachedGives
<1>5. ASSUME NEW c \in Caller, Miss(c) \/ Gone(c) \/ RequestFails(c)
      PROVE  Step
  <2>1. tree' = tree /\ InFlight(c)
    BY <1>5 DEF Miss, Gone, RequestFails, InFlight
  <2>2. PICK label \in {"make", "failed"} :
           caller' = [caller EXCEPT ![c].pc = label]
    BY <1>5 DEF Miss, Gone, RequestFails, Failed
  <2>3. \A b \in Caller : caller'[b].pc = "done" <=> caller[b].pc = "done"
    BY <2>1, <2>2 DEF TypeOK, CallType, InFlight
  <2> QED
    BY <2>1, <2>3 DEF PathsOf, Given
<1>6. ASSUME NEW id, NEW name \in Name, Created(id, name), Given' = Given
      PROVE  Step
  <2>1. {} \in SUBSET Caller /\ Given' = Given \cup {}
    BY <1>6
  <2> QED
    BY <1>6, <2>1, CreationIsAdd
<1>7. ASSUME NEW c \in Caller, Make(c) PROVE Step
  <2>1. InFlight(c)
    BY <1>7 DEF Make, InFlight
  <2>2. /\ Wanted(c) \in Name /\ Created(caller[c].at, Wanted(c))
        /\ Reached(c, made + 1)
    BY <1>1, <1>7, <2>1, WantedType DEF Make
  <2>3. CASE Given' = Given
    BY <1>6, <2>2, <2>3
  <2>4. CASE /\ Given' = Given \cup {c}
             /\ caller'[c].pc = "done" /\ caller'[c].at = made + 1
    <3>1. PICK k \in tree : /\ k.id = caller[c].at
                            /\ tree' = tree \cup {Child(k, Wanted(c))}
      BY <2>2 DEF Created
    <3>2. /\ Child(k, Wanted(c)).id = made + 1
          /\ Child(k, Wanted(c)).path = Append(k.path, Wanted(c))
      BY DEF Child
    <3>3. Append(k.path, Wanted(c)) = Goal[c]
      <4>1. /\ caller'[c].depth = Len(Goal[c])
            /\ Child(k, Wanted(c)).path = Prefix(c)'
        BY <1>2, <2>4, <3>1, <3>2 DEF DepthSound, CallsSound
      <4>2. SubSeq(Goal[c], 1, Len(Goal[c])) = Goal[c]
        BY GoalFacts, SubSeqFull
      <4> QED
        BY <3>2, <4>1, <4>2 DEF Prefix
    <3>4. \A m \in tree : m.id = caller[c].at => m = k
      BY <1>1, <3>1 DEF TreeSound
    <3>5. {c} \in SUBSET Caller
      OBVIOUS
    <3>6. \A m \in tree : m.id = caller[c].at =>
             \A b \in {c} : Goal[b] = Append(m.path, Wanted(c))
      BY <3>3, <3>4
    <3>7. Paths!Next
      BY <2>2, <2>4, <3>5, <3>6, CreationIsAdd, Zenon
    <3> QED
      BY <3>7
  <2> QED
    BY <1>1, <2>1, <2>2, <2>3, <2>4, ReachedGives
<1>8. ASSUME NEW l \in late, LateCreation(l) PROVE Step
  <2>1. l.name \in Name /\ Given' = Given
    BY <1>8 DEF LateCreation, TypeOK, Given
  <2>2. CASE Created(l.parent, l.name)
    BY <1>6, <2>1, <2>2
  <2>3. CASE UNCHANGED <<tree, made>>
    BY <2>1, <2>3 DEF PathsOf
  <2> QED
    BY <1>8, <2>2, <2>3 DEF LateCreation
<1>9. ASSUME NEW n \in tree, Remove(n) PROVE Step
  <2>1. PathsOf' \subseteq PathsOf /\ Given' = Given
    BY <1>9 DEF Remove, PathsOf, Given
  <2>2. /\ Paths!Roots \subseteq PathsOf'
        /\ \A p \in PathsOf' \ Paths!Roots :
              \E q \in PathsOf' : p \in Paths!Below(q)
    BY <1>2, PathsStayATree DEF Paths!Roots, Paths!Below
  <2>3. Paths!Prune
    BY <2>1, <2>2 DEF Paths!Prune, PathsOf, Given
  <2> QED
    BY <2>3 DEF Paths!Next
<1>10. CASE UNCHANGED vars
  BY <1>10 DEF vars, PathsOf, Given
<1> QED
  BY <1>3, <1>4, <1>5, <1>7, <1>8, <1>9, <1>10 DEF Next, CallStep

(***************************************************************************)
(* ensure_pathname keeps the promise of PathTree: the pathnames stay a     *)
(* tree of the groups, and a caller is given a pathname that is there.     *)
(***************************************************************************)
THEOREM Refinement == Spec => ImplementsPathTree
<1>1. Init => TypeOK /\ IInv
  BY TypeInit, IInvInit
<1>2. Spec => [](TypeOK /\ IInv)
  BY <1>1, IInvInductive, PTL DEF Spec
<1>3. Spec => Paths!Init /\ [][Paths!Next]_(Paths!vars)
  BY <1>2, RefinesInit, RefinesStep, PTL DEF Spec
<1> QED
  BY <1>3 DEF ImplementsPathTree, Paths!Spec
=============================================================================
