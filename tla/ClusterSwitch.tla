--------------------------- MODULE ClusterSwitch ---------------------------
(***************************************************************************)
(* dynamic_configuration.py: which cluster the server works on.            *)
(*                                                                         *)
(* The cached configuration names a kubectl context, but nothing reads it  *)
(* there once it is loaded.  Loading it moves four targets, one after the  *)
(* other, and those are what the server uses:                              *)
(*                                                                         *)
(*   kube    the current context of kubectl, moved by a shell that is      *)
(*           started and not awaited: helm, kubectl exec and port-forward  *)
(*   sync    the context of the synchronous kubernetes client: creation of *)
(*           secrets, ingresses, manifests                                 *)
(*   async   the context of the asynchronous client: lists of namespaces,  *)
(*           secrets and services                                          *)
(*   proxy   the kubectl proxy of a local port, started by the same shell  *)
(*           once the current context is moved: the dashboard              *)
(*                                                                         *)
(* A load that raises half way leaves the targets it has moved.  The proxy *)
(* of the configuration that is left is told to stop, and not waited for.  *)
(***************************************************************************)
EXTENDS Naturals

CONSTANTS
    Conf,        \* configuration files
    NoConf,      \* nothing is cached
    Valid,       \* the ones safe_load accepts
    StartConf,   \* starting_config_path
    Ctx,         \* kubectl contexts
    NoCtx,       \* no context: a client not loaded yet, a port without proxy
    ContextName, \* Conf -> general.contextName
    ProxyPort,   \* Conf -> general.proxyPort
    Port,        \* local ports
    Task,        \* slots for requests in flight
    Patient,     \* are configurations switched one at a time?
    MaxFaults,   \* bound on loads that raise
    MaxRestarts  \* bound on restarts of the server

ASSUME SwitchAssumption ==
    /\ NoConf \notin Conf /\ NoCtx \notin Ctx
    /\ Valid \subseteq Conf /\ StartConf \in Valid
    /\ ContextName \in [Conf -> Ctx] /\ ProxyPort \in [Conf -> Port]
    /\ Patient \in BOOLEAN
    /\ MaxFaults \in Nat /\ MaxRestarts \in Nat

(* Two configurations of one cluster or of two do not share a proxy port   *)
(* unless they share the context too, as those of the repository.          *)
ASSUME PortAssumption ==
    \A c, d \in Conf :
        ProxyPort[c] = ProxyPort[d] => ContextName[c] = ContextName[d]

VARIABLES
    cached,   \* DynamicConfigurationFactory.__cached_config
    kube, sync, async, proxy,
    leaving,  \* the ports whose proxy has been sent SIGTERM
    spawned,  \* Conf -> the shells that have not run use-context
    serving,  \* Conf -> the shells that have, and start their proxy
    load,     \* Task -> the load in flight
    outcome,  \* of the last load that moved a target
    faults, restarts

proxies == <<proxy, leaving>>
targets == <<kube, sync, async, proxies>>
shells == <<spawned, serving>>
vars == <<cached, targets, shells, load, outcome, faults, restarts>>

LoadType == [pc : {"idle", "token", "service"}, conf : Valid \cup {NoConf}]
NoLoad == [pc |-> "idle", conf |-> NoConf]

TypeOK ==
    /\ cached \in Valid \cup {NoConf}
    /\ kube \in Ctx
    /\ sync \in Ctx \cup {NoCtx}
    /\ async \in Ctx \cup {NoCtx}
    /\ proxy \in [Port -> Ctx \cup {NoCtx}]
    /\ leaving \subseteq Port
    /\ spawned \in [Conf -> Nat] /\ serving \in [Conf -> Nat]
    /\ load \in [Task -> LoadType]
    /\ outcome \in {"none", "done", "raised"}
    /\ faults \in 0..MaxFaults /\ restarts \in 0..MaxRestarts

Init ==
    /\ cached = NoConf
    /\ kube \in Ctx
    /\ sync = NoCtx /\ async = NoCtx
    /\ proxy = [p \in Port |-> NoCtx] /\ leaving = {}
    /\ spawned = [c \in Conf |-> 0] /\ serving = [c \in Conf |-> 0]
    /\ load = [t \in Task |-> NoLoad]
    /\ outcome = "none"
    /\ faults = 0 /\ restarts = 0

Idle == \A t \in Task : load[t].pc = "idle"
ShellsEnded == \A c \in Conf : spawned[c] = 0 /\ serving[c] = 0
Quiet == Idle /\ ShellsEnded

(* Seeded fault: safe_load does not look at what the file returns. *)
AcceptsAny(c) == c \in Conf

(* The checks of safe_load: path, text, python script, configuration. *)
Accepts(c) == c \in Valid

(* Seeded fault: load_kube_config without its context. *)
SyncClientDefault(c) == kube

(* load_kube_config(context=contextName) *)
SyncClient(c) == ContextName[c]

(***************************************************************************)
(* safe_load of a file it accepts, up to its first await: the synchronous  *)
(* client is loaded and the shell is started.                              *)
(***************************************************************************)
Load(t, c) ==
    /\ sync' = SyncClient(c)
    /\ spawned' = [spawned EXCEPT ![c] = @ + 1]
    /\ load' = [load EXCEPT ![t] = [pc |-> "token", conf |-> c]]

(* The dependency of every request: nothing cached, the load of init. *)
InitConf(t) ==
    /\ cached = NoConf
    /\ load[t].pc = "idle"
    /\ Load(t, StartConf)
    /\ UNCHANGED <<cached, kube, async, proxies, serving, outcome, faults,
                   restarts>>

(***************************************************************************)
(* POST switch-configuration: the proxy of the cached configuration is     *)
(* sent SIGTERM before the file is looked at, if psutil can look at it (an *)
(* exception is swallowed).  Nothing keeps two switches apart but the      *)
(* patience of the user.                                                   *)
(***************************************************************************)
KillProxy ==
    LET p == ProxyPort[cached]
    IN  leaving' \in {leaving, leaving \cup {q \in {p} : proxy[q] # NoCtx}}

Switch(t, c) ==
    /\ cached # NoConf
    /\ load[t].pc = "idle"
    /\ Patient => Quiet
    /\ Accepts(c)
    /\ KillProxy
    /\ Load(t, c)
    /\ UNCHANGED <<cached, kube, async, proxy, serving, outcome, faults,
                   restarts>>

(* A file safe_load refuses: abort raises, as it has no argument content. *)
SwitchRefused(c) ==
    /\ cached # NoConf
    /\ Patient => Quiet
    /\ ~Accepts(c)
    /\ KillProxy
    /\ UNCHANGED <<cached, kube, sync, async, proxy, shells, load, outcome,
                   faults, restarts>>

(* k8s_access_token: load_kube_config reads the current context. *)
AccessToken(t) ==
    /\ load[t].pc = "token"
    /\ async' = kube
    /\ load' = [load EXCEPT ![t].pc = "service"]
    /\ UNCHANGED <<cached, kube, sync, proxies, shells, outcome, faults,
                   restarts>>

(* Seeded fault: switch does not keep the configuration it has loaded. *)
CachedForgotten(t) == IF cached = NoConf THEN load[t].conf ELSE cached

CachedBy(t) == load[t].conf

(* get_cluster_info and the log of switch are over: the cache is set. *)
Loaded(t) ==
    /\ load[t].pc = "service"
    /\ cached' = CachedBy(t)
    /\ outcome' = "done"
    /\ load' = [load EXCEPT ![t] = NoLoad]
    /\ UNCHANGED <<targets, shells, faults, restarts>>

(***************************************************************************)
(* An await of the load raises: no token in the context, the nodes or the  *)
(* services cannot be listed, the page of the logs is gone.                *)
(***************************************************************************)
LoadRaises(t) ==
    /\ faults < MaxFaults
    /\ faults' = faults + 1
    /\ load[t].pc # "idle"
    /\ outcome' = "raised"
    /\ load' = [load EXCEPT ![t] = NoLoad]
    /\ UNCHANGED <<cached, targets, shells, restarts>>

(* The shell: kubectl config use-context ... *)
UseContext(c) ==
    /\ spawned[c] > 0
    /\ kube' = ContextName[c]
    /\ spawned' = [spawned EXCEPT ![c] = @ - 1]
    /\ serving' = [serving EXCEPT ![c] = @ + 1]
    /\ UNCHANGED <<cached, sync, async, proxies, load, outcome, faults,
                   restarts>>

(* ... && kubectl proxy, which exits when the port is taken. *)
Serve(c) ==
    /\ serving[c] > 0
    /\ serving' = [serving EXCEPT ![c] = @ - 1]
    /\ proxy' = IF proxy[ProxyPort[c]] = NoCtx
                THEN [proxy EXCEPT ![ProxyPort[c]] = kube] ELSE proxy
    /\ UNCHANGED <<cached, kube, sync, async, leaving, spawned, load, outcome,
                   faults, restarts>>

(* A proxy that was told to stop frees its port, at a time of its own. *)
ProxyExits(p) ==
    /\ p \in leaving
    /\ proxy' = [proxy EXCEPT ![p] = NoCtx]
    /\ leaving' = leaving \ {p}
    /\ UNCHANGED <<cached, kube, sync, async, shells, load, outcome, faults,
                   restarts>>

(* The server is started again, which takes longer than its shells take to *)
(* end: the proxies go on.                                                 *)
Restart ==
    /\ ShellsEnded
    /\ restarts < MaxRestarts
    /\ restarts' = restarts + 1
    /\ cached' = NoConf
    /\ sync' = NoCtx /\ async' = NoCtx
    /\ load' = [t \in Task |-> NoLoad]
    /\ outcome' = "none"
    /\ UNCHANGED <<kube, proxies, shells, faults>>

LoadStep(t) == AccessToken(t) \/ Loaded(t)
Shell == \E c \in Conf : UseContext(c) \/ Serve(c)

Next ==
    \/ \E t \in Task : InitConf(t) \/ LoadStep(t) \/ LoadRaises(t)
    \/ \E t \in Task, c \in Conf : Switch(t, c)
    \/ \E c \in Conf : SwitchRefused(c)
    \/ Shell
    \/ \E p \in Port : ProxyExits(p)
    \/ Restart

Spec == Init /\ [][Next]_vars

(* The event loop runs the loads, and the shells run. *)
FairSpec ==
    /\ Spec
    /\ \A t \in Task : WF_vars(LoadStep(t))
    /\ WF_vars(Shell)

-----------------------------------------------------------------------------
(***************************************************************************)
(* What the log of switch says, 'Switched to new conf. successful': once   *)
(* nothing runs and the last load succeeded, what helm and kubectl work on *)
(* and what the synchronous client creates are in the cluster of the       *)
(* cached configuration, and its proxy serves no other one.                *)
(***************************************************************************)
TargetsFollow ==
    LET ctx == ContextName[cached]
    IN  Quiet /\ outcome = "done" =>
            /\ kube = ctx
            /\ sync = ctx
            /\ proxy[ProxyPort[cached]] \in {ctx, NoCtx}

(***************************************************************************)
(* The inductive invariant: with switches one at a time, the loads and the *)
(* shells in flight are those of one configuration c, that becomes the     *)
(* cached one, and its shells have not moved kubectl yet or have moved it  *)
(* to its context; and a proxy serves the context of its port.             *)
(***************************************************************************)
Single(c) ==
    /\ \A t \in Task : load[t].pc # "idle" => load[t].conf = c
    /\ \A d \in Conf : spawned[d] > 0 \/ serving[d] > 0 => d = c

Moved(c) ==
    /\ outcome = "done" \/ ~Idle =>
          /\ sync = ContextName[c]
          /\ spawned[c] > 0 \/ kube = ContextName[c]
    /\ serving[c] > 0 => kube = ContextName[c]
    /\ cached = NoConf => c = StartConf
    /\ outcome = "done" /\ Idle => cached = c

ProxiesApart == \A c \in Conf : proxy[ProxyPort[c]] \in {ContextName[c], NoCtx}

IInv == ProxiesApart /\ \E c \in Valid : Single(c) /\ Moved(c)

(***************************************************************************)
(* And so does the asynchronous client, that lists the secrets the         *)
(* synchronous one creates.                                                *)
(***************************************************************************)
AsyncFollows == Quiet /\ outcome = "done" => async = ContextName[cached]

(***************************************************************************)
(* With switches one at a time, and unless a load raises or the server is  *)
(* restarted, a configuration that is loaded becomes the cached one.  Its  *)
(* proxy serves its cluster when the former one has left the port by the   *)
(* time the shell starts it: also when both are of one port, and when a    *)
(* switch refused before has left the cached configuration without one.    *)
(***************************************************************************)
Serves(c) == cached = c /\ proxy[ProxyPort[c]] = ContextName[c]

ShellOf(c) == spawned[c] > 0 \/ serving[c] > 0

Stopped == faults > 0 \/ restarts > 0

SwitchServes ==
    \A c \in Valid :
        /\ \A t \in Task : load[t].pc = "token" /\ load[t].conf = c
              ~> cached = c \/ Stopped
        /\ ShellOf(c) /\ ProxyPort[c] \notin leaving ~> Serves(c) \/ Stopped
=============================================================================
