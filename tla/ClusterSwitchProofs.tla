------------------------ MODULE ClusterSwitchProofs ------------------------
(***************************************************************************)
(* ClusterSwitch, for every set of configurations, contexts, ports and     *)
(* requests: with switches one at a time, kubectl, the synchronous client  *)
(* and the proxy follow the cached configuration.                          *)
(***************************************************************************)
EXTENDS ClusterSwitch, TLAPS

(* ---- type correctness ---- *)

(* A load keeps the types: its configuration is one safe_load accepts. *)
LEMMA LoadTypes ==
    ASSUME TypeOK, NEW t \in Task, NEW c \in Valid, Load(t, c)
    PROVE  /\ sync' \in Ctx \cup {NoCtx}
           /\ spawned' \in [Conf -> Nat]
           /\ load' \in [Task -> LoadType]
<1>1. c \in Conf /\ ContextName[c] \in Ctx
    BY SwitchAssumption
<1>2. [pc |-> "token", conf |-> c] \in LoadType
    BY DEF LoadType
<1> QED
    BY <1>1, <1>2 DEF TypeOK, Load, SyncClient

(* The proxy told to stop is one of a local port. *)
LEMMA KillTypes ==
    ASSUME TypeOK, cached # NoConf, KillProxy
    PROVE  leaving' \subseteq Port
BY SwitchAssumption DEF TypeOK, KillProxy

LEMMA TypeStep == TypeOK /\ [Next]_vars => TypeOK'
<1> SUFFICES ASSUME TypeOK, [Next]_vars
             PROVE  TypeOK'
    OBVIOUS
<1> USE SwitchAssumption
<1>1. ASSUME NEW t \in Task, InitConf(t) PROVE TypeOK'
    <2>1. Load(t, StartConf)
        BY <1>1 DEF InitConf
    <2> QED
        BY <1>1, <2>1, LoadTypes DEF TypeOK, InitConf, proxies
<1>2. ASSUME NEW t \in Task, NEW c \in Conf, Switch(t, c) PROVE TypeOK'
    <2>1. c \in Valid /\ Load(t, c)
        BY <1>2 DEF Switch, Accepts
    <2>2. leaving' \subseteq Port
        BY <1>2, KillTypes DEF Switch
    <2> QED
        BY <1>2, <2>1, <2>2, LoadTypes DEF TypeOK, Switch
<1>3. ASSUME NEW c \in Conf, SwitchRefused(c) PROVE TypeOK'
    <2>1. leaving' \subseteq Port
        BY <1>3, KillTypes DEF SwitchRefused
    <2> QED
        BY <1>3, <2>1 DEF TypeOK, SwitchRefused, shells
<1>4. ASSUME NEW t \in Task, AccessToken(t) PROVE TypeOK'
    <2>1. load' \in [Task -> LoadType]
        BY <1>4 DEF TypeOK, AccessToken, LoadType
    <2> QED
        BY <1>4, <2>1 DEF TypeOK, AccessToken, shells, proxies
<1>5. ASSUME NEW t \in Task, Loaded(t) PROVE TypeOK'
    <2>1. NoLoad \in LoadType /\ load[t].conf \in Valid \cup {NoConf}
        BY DEF TypeOK, NoLoad, LoadType
    <2> QED
        BY <1>5, <2>1 DEF TypeOK, Loaded, CachedBy, targets, shells, proxies
<1>6. ASSUME NEW t \in Task, LoadRaises(t) PROVE TypeOK'
    <2>1. NoLoad \in LoadType
        BY DEF NoLoad, LoadType
    <2> QED
        BY <1>6, <2>1 DEF TypeOK, LoadRaises, targets, shells, proxies
<1>7. ASSUME NEW c \in Conf, UseContext(c) PROVE TypeOK'
    BY <1>7 DEF TypeOK, UseContext, proxies
<1>8. ASSUME NEW c \in Conf, Serve(c) PROVE TypeOK'
    BY <1>8 DEF TypeOK, Serve
<1>9. CASE Restart
    <2>1. NoLoad \in LoadType
        BY DEF NoLoad, LoadType
    <2> QED
        BY <1>9, <2>1 DEF TypeOK, Restart, shells, proxies
<1>10. CASE UNCHANGED vars
    BY <1>10 DEF TypeOK, vars, targets, shells, proxies
<1>11. ASSUME NEW p \in Port, ProxyExits(p) PROVE TypeOK'
    BY <1>11 DEF TypeOK, ProxyExits, shells
<1> QED
    BY <1>1, <1>2, <1>3, <1>4, <1>5, <1>6, <1>7, <1>8, <1>9, <1>10, <1>11
    DEF Next, LoadStep, Shell

(***************************************************************************)
(* What is cached is a configuration safe_load accepted, and the clients   *)
(* and the proxies have contexts of kubectl.                               *)
(***************************************************************************)
THEOREM TypeCorrect == Spec => []TypeOK
<1>1. Init => TypeOK
    <2>1. NoLoad \in LoadType
        BY DEF NoLoad, LoadType
    <2> QED
        BY <2>1, SwitchAssumption DEF Init, TypeOK
<1> QED
    BY <1>1, TypeStep, PTL DEF Spec

-----------------------------------------------------------------------------
(* ---- the targets ---- *)

(* A load of c, alone or with others of c, is the configuration to follow. *)
LEMMA LoadOfOne ==
    ASSUME TypeOK, NEW t \in Task, NEW c \in Valid, Load(t, c), Single(c),
           serving' = serving, kube' = kube, outcome' = outcome,
           cached' = cached,
           serving[c] > 0 => kube = ContextName[c],
           cached = NoConf => c = StartConf
    PROVE  Single(c)' /\ Moved(c)'
<1>1. c \in Conf
    BY SwitchAssumption
<1>2. /\ load[t]' = [pc |-> "token", conf |-> c]
      /\ \A u \in Task \ {t} : load[u]' = load[u]
    BY DEF TypeOK, Load
<1>3. /\ spawned'[c] > 0
      /\ \A d \in Conf \ {c} : spawned'[d] = spawned[d]
    BY <1>1 DEF TypeOK, Load
<1>4. Single(c)'
    BY <1>2, <1>3 DEF Single
<1>5. ~Idle'
    BY <1>2 DEF Idle
<1>6. sync' = ContextName[c]
    BY DEF Load, SyncClient
<1> QED
    BY <1>3, <1>4, <1>5, <1>6 DEF Moved

LEMMA TargetsStep ==
    ASSUME Patient, TypeOK, IInv, [Next]_vars
    PROVE  IInv'
<1> USE SwitchAssumption
<1>0. PICK c \in Valid : Single(c) /\ Moved(c)
    BY DEF IInv
<1>c. c \in Conf /\ c # NoConf
    OBVIOUS
<1>p. ProxiesApart
    BY DEF IInv
<1>1. ASSUME NEW t \in Task, InitConf(t) PROVE IInv'
    <2>1. c = StartConf /\ Load(t, c)
        BY <1>0, <1>1 DEF InitConf, Moved
    <2>2. Single(c)' /\ Moved(c)'
        BY <1>0, <1>1, <2>1, LoadOfOne DEF InitConf, Moved
    <2>3. ProxiesApart'
        BY <1>p, <1>1 DEF InitConf, ProxiesApart, proxies
    <2> QED
        BY <2>2, <2>3 DEF IInv
<1>2. ASSUME NEW t \in Task, NEW d \in Conf, Switch(t, d) PROVE IInv'
    <2>1. Quiet /\ d \in Valid /\ Load(t, d) /\ cached # NoConf
        BY <1>2 DEF Switch, Accepts
    <2>2. Single(d)
        BY <2>1 DEF Single, Quiet, Idle, ShellsEnded, TypeOK
    <2>3. serving[d] = 0
        BY <2>1 DEF Quiet, ShellsEnded
    <2>4. Single(d)' /\ Moved(d)'
        BY <1>2, <2>1, <2>2, <2>3, LoadOfOne DEF Switch
    <2>5. ProxiesApart'
        BY <1>p, <1>2 DEF Switch, ProxiesApart
    <2> QED
        BY <2>1, <2>4, <2>5 DEF IInv
<1>3. ASSUME NEW d \in Conf, SwitchRefused(d) PROVE IInv'
    <2>1. ProxiesApart'
        BY <1>p, <1>3 DEF SwitchRefused, ProxiesApart
    <2>2. Single(c)' /\ Moved(c)'
        BY <1>0, <1>3 DEF SwitchRefused, Single, Moved, Idle, shells
    <2> QED
        BY <2>1, <2>2 DEF IInv
<1>4. ASSUME NEW t \in Task, AccessToken(t) PROVE IInv'
    <2>1. \A u \in Task : /\ load'[u].conf = load[u].conf
                          /\ load'[u].pc = "idle" <=> load[u].pc = "idle"
        BY <1>4 DEF AccessToken, TypeOK, LoadType
    <2>2. Idle' <=> Idle
        BY <2>1 DEF Idle
    <2>3. Single(c)' /\ Moved(c)'
        BY <1>0, <1>4, <2>1, <2>2 DEF AccessToken, Single, Moved, shells
    <2>4. ProxiesApart'
        BY <1>p, <1>4 DEF AccessToken, ProxiesApart, proxies
    <2> QED
        BY <2>3, <2>4 DEF IInv
<1>5. ASSUME NEW t \in Task, Loaded(t) PROVE IInv'
    <2>1. load[t].pc # "idle" /\ cached' = c /\ ~Idle
        BY <1>0, <1>5 DEF Loaded, CachedBy, Single, Idle
    <2>2. \A u \in Task : load'[u].pc # "idle" => load'[u] = load[u]
        BY <1>5 DEF Loaded, NoLoad, TypeOK
    <2>3. Single(c)' /\ Moved(c)'
        BY <1>0, <1>c, <1>5, <2>1, <2>2
        DEF Loaded, Single, Moved, targets, shells
    <2>4. ProxiesApart'
        BY <1>p, <1>5 DEF Loaded, ProxiesApart, targets, proxies
    <2> QED
        BY <2>3, <2>4 DEF IInv
<1>6. ASSUME NEW t \in Task, LoadRaises(t) PROVE IInv'
    <2>1. \A u \in Task : load'[u].pc # "idle" => load'[u] = load[u]
        BY <1>6 DEF LoadRaises, NoLoad, TypeOK
    <2>2. ~Idle
        BY <1>6 DEF LoadRaises, Idle
    <2>3. Single(c)' /\ Moved(c)'
        BY <1>0, <1>6, <2>1, <2>2
        DEF LoadRaises, Single, Moved, targets, shells
    <2>4. ProxiesApart'
        BY <1>p, <1>6 DEF LoadRaises, ProxiesApart, targets, proxies
    <2> QED
        BY <2>3, <2>4 DEF IInv
<1>7. ASSUME NEW d \in Conf, UseContext(d) PROVE IInv'
    <2>1. d = c
        BY <1>0, <1>7 DEF UseContext, Single
    <2>2. \A e \in Conf \ {c} : /\ spawned'[e] = spawned[e]
                                /\ serving'[e] = serving[e]
        BY <1>7, <2>1 DEF UseContext, TypeOK
    <2>3. Idle' <=> Idle
        BY <1>7 DEF UseContext, Idle
    <2>4. Single(c)' /\ Moved(c)'
        BY <1>0, <1>7, <2>1, <2>2, <2>3 DEF UseContext, Single, Moved
    <2>5. ProxiesApart'
        BY <1>p, <1>7 DEF UseContext, ProxiesApart, proxies
    <2> QED
        BY <2>4, <2>5 DEF IInv
<1>8. ASSUME NEW d \in Conf, Serve(d) PROVE IInv'
    <2>1. d = c /\ kube = ContextName[c]
        BY <1>0, <1>8 DEF Serve, Single, Moved
    <2>2. \A e \in Conf \ {c} : serving'[e] = serving[e]
        BY <1>8, <2>1 DEF Serve, TypeOK
    <2>3. Idle' <=> Idle
        BY <1>8 DEF Serve, Idle
    <2>4. Single(c)'
        BY <1>0, <1>8, <2>2 DEF Serve, Single
    <2>5. Moved(c)'
        BY <1>0, <1>8, <2>1, <2>3 DEF Serve, Moved
    <2>6. ProxiesApart'
        BY <1>p, <1>8, <2>1, PortAssumption DEF Serve, ProxiesApart, TypeOK
    <2> QED
        BY <2>4, <2>5, <2>6 DEF IInv
<1>9. CASE Restart
    <2>1. Single(StartConf)' /\ Moved(StartConf)'
        BY <1>9 DEF Restart, ShellsEnded, Single, Moved, Idle, NoLoad, shells
    <2>2. ProxiesApart'
        BY <1>p, <1>9 DEF Restart, ProxiesApart, proxies
    <2> QED
        BY <2>1, <2>2 DEF IInv
<1>10. CASE UNCHANGED vars
    <2>1. Single(c)' /\ Moved(c)'
        BY <1>0, <1>10 DEF vars, targets, shells, Single, Moved, Idle
    <2>2. ProxiesApart'
        BY <1>p, <1>10 DEF vars, targets, proxies, ProxiesApart
    <2> QED
        BY <2>1, <2>2 DEF IInv
<1>11. ASSUME NEW p \in Port, ProxyExits(p) PROVE IInv'
    <2>1. Single(c)' /\ Moved(c)'
        BY <1>0, <1>11 DEF ProxyExits, Single, Moved, Idle, shells
    <2>2. ProxiesApart'
        BY <1>p, <1>11 DEF ProxyExits, ProxiesApart, TypeOK
    <2> QED
        BY <2>1, <2>2 DEF IInv
<1> QED
    BY <1>1, <1>2, <1>3, <1>4, <1>5, <1>6, <1>7, <1>8, <1>9, <1>10, <1>11
    DEF Next, LoadStep, Shell

(***************************************************************************)
(* With switches one at a time, the loads and the shells in flight are     *)
(* those of one configuration, whatever the loads that raise and the       *)
(* restarts of the server.                                                 *)
(***************************************************************************)
THEOREM Invariance ==
    ASSUME Patient
    PROVE  Spec => []IInv
<1>1. Init => IInv
    <2>1. Init => Single(StartConf) /\ Moved(StartConf)
        BY SwitchAssumption DEF Init, Single, Moved, Idle, NoLoad
    <2>2. Init => ProxiesApart
        BY SwitchAssumption DEF Init, ProxiesApart
    <2> QED
        BY <2>1, <2>2, SwitchAssumption DEF IInv
<1>2. TypeOK /\ IInv /\ [Next]_vars => IInv'
    BY TargetsStep
<1> QED
    BY <1>1, <1>2, TypeCorrect, PTL DEF Spec

(***************************************************************************)
(* After a switch that succeeds, helm and kubectl, the objects the         *)
(* synchronous client creates and the proxy are in the cluster of the      *)
(* cached configuration.                                                   *)
(***************************************************************************)
THEOREM TargetsFollowCache ==
    ASSUME Patient
    PROVE  Spec => []TargetsFollow
<1>1. TypeOK /\ IInv => TargetsFollow
    <2> SUFFICES ASSUME TypeOK, IInv, Quiet, outcome = "done"
                 PROVE  /\ kube = ContextName[cached]
                        /\ sync = ContextName[cached]
                        /\ proxy[ProxyPort[cached]] \in {ContextName[cached], NoCtx}
        BY DEF TargetsFollow
    <2>1. PICK c \in Valid : Single(c) /\ Moved(c)
        BY DEF IInv
    <2>2. c \in Conf
        BY SwitchAssumption
    <2>3. cached = c /\ spawned[c] = 0
        BY <2>1, <2>2 DEF Moved, Quiet, ShellsEnded
    <2> QED
        BY <2>1, <2>2, <2>3 DEF Moved, IInv, ProxiesApart
<1> QED
    BY <1>1, Invariance, TypeCorrect, PTL
=============================================================================
