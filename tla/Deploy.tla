------------------------------- MODULE Deploy -------------------------------
(***************************************************************************)
(* The install / upgrade / status flow of youwol-infra.                    *)
(*                                                                         *)
(* The server is one asyncio loop: a request runs until it awaits, so an   *)
(* action below is the code between two awaits that matter, and requests   *)
(* interleave only there.  Everything that lasts is outside the server:    *)
(* the helm releases, the namespaces and secrets of the cluster and the    *)
(* roles and databases of its PostgreSQL.  What the user sees is outside   *)
(* too: the last status each open page received on its web socket.         *)
(*                                                                         *)
(*   WebSocketsStore.ws    the page statuses go to: overwritten by each    *)
(*                         page that connects, never reset                 *)
(*   WebSocketsStore.logs  where Context.info and abort send: nothing is   *)
(*                         sent when it is unset, and a send on a socket   *)
(*                         whose page is gone raises                       *)
(*   task[t]               a request in flight, and then the send_status   *)
(*                         coroutine its finally clause spawns             *)
(*                                                                         *)
(* External failures (helm, kubernetes, psql, a restart of the server) are *)
(* counted, and MaxFaults bounds them.  Flaky names the pages that close.  *)
(***************************************************************************)
EXTENDS Naturals, Sequences, FiniteSets

CONSTANTS
    Pkg,         \* the packages of the deployment configuration
    Profile,     \* Pkg -> profile, see module Catalogue
    Ns,          \* namespaces
    Secret,      \* names of secrets
    Stmt,        \* SQL statements
    StmtNeeds,   \* Stmt -> the statements whose effect it relies on
    Repeats,     \* the statements that can be run twice
    Postgres,    \* the package whose pod runs the statements
    Task,        \* slots for requests in flight
    Sock,        \* web sockets
    NoSock,      \* None, the store before any page connects
    Namespaces0, \* namespaces of the cluster before the server is used
    Flaky,       \* which pages close: "status", "logs"
    MaxFaults    \* bound on external failures

StepKind == {"log", "namespaces", "secrets", "quiet secrets", "sql", "helm",
             "manifest"}

ASSUME ProfileAssumption ==
    Profile \in [Pkg -> [ns : Ns, secrets : SUBSET Secret,
                         install : Seq(StepKind), upgrade : Seq(StepKind),
                         sql : Seq(Stmt),
                         probe : {"none", "reads", "forward"}, local : Nat]]

ASSUME SocketAssumption == NoSock \notin Sock

ASSUME ConstantsAssumption ==
    /\ Pkg # {}
    /\ StmtNeeds \in [Stmt -> SUBSET Stmt]
    /\ Repeats \subseteq Stmt
    /\ Namespaces0 \subseteq Ns
    /\ Flaky \subseteq {"status", "logs"}
    /\ MaxFaults \in Nat

VARIABLES
    releases,   \* Pkg -> what the cluster holds of the package
    helming,    \* the packages a helm process is working on
    namespaces, \* the namespaces of the cluster
    secrets,    \* Ns -> the secrets created there
    database,   \* the statements whose effect is in PostgreSQL
    task,       \* Task -> the request in flight
    ws,         \* WebSocketsStore.ws
    live,       \* the sockets whose page is open
    logs,       \* WebSocketsStore.logs: the page it is set to is gone, or not
    shown,      \* Sock -> Pkg -> the last status the page received
    faults      \* external failures so far

cluster == <<releases, helming, namespaces, secrets, database>>
pages   == <<ws, live, logs, shown>>
vars    == <<cluster, task, pages, faults>>

ReleaseState ==
    {"absent", "pending-install", "deployed", "pending-upgrade", "partial"}

(* What a status message says: installed and pending. *)
ShownState == {"unknown", "installing", "upgrading", "installed", "missing"}
Pending(installed) == IF installed THEN "upgrading" ELSE "installing"
Settled(installed) == IF installed THEN "installed" ELSE "missing"

Label == {"idle", "check", "announce", "step", "secrets", "helm",
          "read", "probe", "send"}

TaskType ==
    [op : {"none", "install", "upgrade", "status"}, pkg : Pkg, pc : Label,
     channel : Sock \cup {NoSock}, seen : BOOLEAN, at : Nat,
     needed : SUBSET Secret, ran : Nat]

Idle == [op |-> "none", pkg |-> CHOOSE p \in Pkg : TRUE, pc |-> "idle",
         channel |-> NoSock, seen |-> FALSE, at |-> 0,
         needed |-> {}, ran |-> 0]

TypeOK ==
    /\ releases \in [Pkg -> ReleaseState]
    /\ helming \in SUBSET Pkg
    /\ namespaces \in SUBSET Ns
    /\ secrets \in [Ns -> SUBSET Secret]
    /\ database \in SUBSET Stmt
    /\ task \in [Task -> TaskType]
    /\ ws \in Sock \cup {NoSock}
    /\ live \in SUBSET Sock
    /\ logs \in {"heard", "gone"}
    /\ shown \in [Sock -> [Pkg -> ShownState]]
    /\ faults \in 0..MaxFaults

Init ==
    /\ releases = [p \in Pkg |-> "absent"]
    /\ helming = {}
    /\ namespaces = Namespaces0
    /\ secrets = [n \in Ns |-> {}]
    /\ database = {}
    /\ task = [t \in Task |-> Idle]
    /\ ws = NoSock
    /\ live = {}
    /\ logs = "heard"
    /\ shown = [s \in Sock |-> [p \in Pkg |-> "unknown"]]
    /\ faults = 0

-----------------------------------------------------------------------------
(* ---- helpers ---- *)

Fault == faults < MaxFaults /\ faults' = faults + 1
NoFault == faults' = faults

PlanOf(r) == IF r.op = "install" THEN Profile[r.pkg].install
                                 ELSE Profile[r.pkg].upgrade
Of(t) == Profile[task[t].pkg]
Plan(t) == PlanOf(task[t])
Doing(t, step) ==
    /\ task[t].pc = "step"
    /\ task[t].at \in 1..Len(Plan(t))
    /\ Plan(t)[task[t].at] = step

Steps(plan) == {plan[i] : i \in 1..Len(plan)}

(* The dashboard is the only package that is not a helm release. *)
IsManifest(p) == "manifest" \in Steps(Profile[p].install)

(***************************************************************************)
(* Every plan creates the secrets before it starts helm, and a package     *)
(* created from a manifest has nothing to do with helm.  Every install     *)
(* creates the release, and runs the statements there are.                 *)
(***************************************************************************)
Planned(profile) ==
    \A plan \in {profile.install, profile.upgrade} :
        \A i \in 1..Len(plan) :
            /\ plan[i] = "helm" =>
                  /\ "manifest" \notin Steps(profile.install)
                  /\ \E j \in 1..(i - 1) : plan[j] = "secrets"
            /\ plan[i] = "manifest" => "manifest" \in Steps(profile.install)

Installs(profile) ==
    /\ Steps(profile.install) \cap {"helm", "manifest"} # {}
    /\ profile.sql # <<>> => "sql" \in Steps(profile.install)

ASSUME PlanAssumption ==
    \A p \in Pkg : Planned(Profile[p]) /\ Installs(Profile[p])

(* The namespace of a package created from a manifest is its own. *)
ManifestsApart(profiles) ==
    \A p, q \in DOMAIN profiles :
        "manifest" \in Steps(profiles[p].install) /\ q # p =>
            profiles[q].ns # profiles[p].ns

(* Seeded fault: helm list --all, a pending release counts as installed. *)
IsInstalledPending(p) ==
    \/ IsManifest(p) /\ Profile[p].ns \in namespaces
    \/ ~IsManifest(p) /\ releases[p] # "absent"

(***************************************************************************)
(* Package.is_installed.  helm list shows the releases that are deployed:  *)
(* the pending ones are hidden.  The dashboard asks for its namespace.     *)
(***************************************************************************)
IsInstalled(p) ==
    \/ IsManifest(p) /\ Profile[p].ns \in namespaces
    \/ ~IsManifest(p) /\ releases[p] = "deployed"

(* Request t becomes r. *)
Put(t, r) == [task EXCEPT ![t] = r]

At(r, label) == [r EXCEPT !.pc = label]
Seeing(r, label, installed) == [r EXCEPT !.pc = label, !.seen = installed]

(* Entering Package.install or .upgrade: the answer of is_installed and    *)
(* the captured page are not used any more.                                *)
Entered(r) == [r EXCEPT !.pc = "step", !.at = 1, !.seen = FALSE,
                        !.channel = NoSock]

(* The next step of the plan. *)
Advanced(r) == [r EXCEPT !.pc = "step", !.at = @ + 1, !.ran = 0]

(* Inside k8s_create_secrets_if_needed, inside sql_exec_commands. *)
Needing(r, names) == [r EXCEPT !.pc = "secrets", !.needed = names]
OneMore(r) == [r EXCEPT !.ran = @ + 1]

(* Seeded fault: no finally clause. *)
FinallyForgotten(t) == Put(t, Idle)

(***************************************************************************)
(* Every way out of install_pack and upgrade_pack, return or exception,    *)
(* goes through the finally clause: status(), that spawns send_status.     *)
(***************************************************************************)
Reporting(p) == [Idle EXCEPT !.op = "status", !.pkg = p, !.pc = "read"]
Finally(t) == Put(t, Reporting(task[t].pkg))

(* Seeded fault: send_status polls instead of sending once. *)
QuitPolling(t) == Finally(t)

(* The coroutine ends, by a return or by an exception nobody retrieves. *)
Quit(t) == Put(t, Idle)

(* send_json: a status reaches the page the socket belongs to. *)
Deliver(s, p, status) == shown' = [shown EXCEPT ![s][p] = status]

-----------------------------------------------------------------------------
(* ---- the endpoints ---- *)

(***************************************************************************)
(* GET status, POST install and POST upgrade.  The page that will receive  *)
(* the pending status is captured now; Context.start logs before anything  *)
(* else, and when that fails only the finally clause is left to run.       *)
(***************************************************************************)
Starting(o, p) ==
    [Idle EXCEPT !.op = o, !.pkg = p, !.channel = ws, !.pc = "check"]

Request(t, o, p) ==
    /\ task[t].op = "none"
    /\ o = "upgrade" => Profile[p].upgrade # <<>>
    /\ task' = Put(t, IF o = "status" \/ logs = "gone" THEN Reporting(p)
                                                       ELSE Starting(o, p))
    /\ UNCHANGED <<cluster, pages, faults>>

(***************************************************************************)
(* is_installed = await package.is_installed().  An install stops there    *)
(* when the answer is yes.  A helm list that fails prints nothing, which   *)
(* reads as "not installed"; a failed kubernetes read raises.              *)
(***************************************************************************)
Checked(t, installed) ==
    IF task[t].op = "install" /\ installed
    THEN Finally(t)
    ELSE Put(t, Seeing(task[t], "announce", installed))

Check(t) ==
    /\ task[t].pc = "check"
    /\ \/ NoFault /\ task' = Checked(t, IsInstalled(task[t].pkg))
       \/ Fault /\ task' = IF IsManifest(task[t].pkg) THEN Finally(t)
                           ELSE Checked(t, FALSE)
    /\ UNCHANGED <<cluster, pages>>

(* await channel_ws.send_json(pending), then Package.install or .upgrade. *)
Announce(t) ==
    /\ task[t].pc = "announce"
    /\ IF task[t].channel \in live
       THEN /\ Deliver(task[t].channel, task[t].pkg, Pending(task[t].seen))
            /\ task' = Put(t, Entered(task[t]))
       ELSE /\ task' = Finally(t)
            /\ UNCHANGED shown
    /\ UNCHANGED <<cluster, ws, live, logs, faults>>

(* The plan is done: Context.start logs it, and the finally clause runs. *)
Finish(t) ==
    /\ task[t].pc = "step"
    /\ task[t].at > Len(Plan(t))
    /\ task' = Finally(t)
    /\ UNCHANGED <<cluster, pages, faults>>

-----------------------------------------------------------------------------
(* ---- the steps of Package.install and Package.upgrade ---- *)

(* await context.info(...): raises when the page of the logs is gone. *)
LogStep(t) ==
    /\ Doing(t, "log")
    /\ task' = IF logs = "gone" THEN Finally(t) ELSE Put(t, Advanced(task[t]))
    /\ UNCHANGED <<cluster, pages, faults>>

(***************************************************************************)
(* Kong: "if self.namespace not in k8s_namespaces()" tests membership in   *)
(* a coroutine nobody awaits, which raises a TypeError.                    *)
(***************************************************************************)
TestNamespace(t) ==
    /\ Doing(t, "namespaces")
    /\ task' = Finally(t)
    /\ UNCHANGED <<cluster, pages, faults>>

(* k8s_create_secrets_if_needed reads the secrets that exist ... *)
ListSecrets(t) ==
    /\ Doing(t, "secrets") \/ Doing(t, "quiet secrets")
    /\ \/ /\ NoFault
          /\ task' = Put(t, Needing(task[t],
                                    Of(t).secrets \ secrets[Of(t).ns]))
       \/ Fault /\ task' = Finally(t)
    /\ UNCHANGED <<cluster, pages>>

(***************************************************************************)
(* ... and creates the missing ones, a log before each.  The api refuses   *)
(* (404) when the namespace does not exist and (409) when another request  *)
(* created the secret since it was listed: both raise.  Without a context  *)
(* nothing awaits between two creations; letting other requests in there   *)
(* adds interleavings and takes none away.                                 *)
(***************************************************************************)
SecretLogFails(t) == logs = "gone" /\ Plan(t)[task[t].at] = "secrets"

(* Seeded fault: a secret that is refused is listed again, and retried. *)
CreateSecretRetried(t) ==
    \E name \in task[t].needed :
        LET ns == Of(t).ns
            accepted == ns \in namespaces /\ name \notin secrets[ns]
        IN  /\ task[t].pc = "secrets"
            /\ IF accepted
               THEN /\ secrets' = [secrets EXCEPT ![ns] = @ \cup {name}]
                    /\ task' = Put(t, Needing(task[t], task[t].needed \ {name}))
               ELSE /\ task' = Put(t, At(task[t], "step"))
                    /\ UNCHANGED secrets
            /\ UNCHANGED <<releases, helming, namespaces, database, pages,
                           faults>>

CreateSecret(t) ==
    \E name \in task[t].needed :
        LET ns == Of(t).ns
            accepted == ns \in namespaces /\ name \notin secrets[ns]
        IN  /\ task[t].pc = "secrets"
            /\ IF accepted /\ ~SecretLogFails(t)
               THEN /\ secrets' = [secrets EXCEPT ![ns] = @ \cup {name}]
                    /\ task' = Put(t, Needing(task[t], task[t].needed \ {name}))
               ELSE /\ task' = Finally(t)
                    /\ UNCHANGED secrets
            /\ UNCHANGED <<releases, helming, namespaces, database, pages,
                           faults>>

(* Seeded fault: nobody awaits the creation of the secrets. *)
SecretsNotAwaited(t) ==
    /\ task[t].pc = "secrets"
    /\ task' = Put(t, Advanced(task[t]))
    /\ UNCHANGED <<cluster, pages, faults>>

SecretsDone(t) ==
    /\ task[t].pc = "secrets"
    /\ task[t].needed = {}
    /\ task' = Put(t, Advanced(task[t]))
    /\ UNCHANGED <<cluster, pages, faults>>

(* Seeded fault: the closure of the loop sees the last statement only. *)
StatementLast(t) == Of(t).sql[Len(Of(t).sql)]

(***************************************************************************)
(* sql_exec_commands runs one statement after the other with kubectl exec, *)
(* and raises on the first that prints an error: no pod to run it, an      *)
(* object it needs that does not exist, an object it creates that does.    *)
(* While the release of PostgreSQL is pending its pod may be up or not.    *)
(* Keycloak and PostgreSQL pass no context: their statements log nothing.  *)
(***************************************************************************)
Statement(t) == Of(t).sql[task[t].ran + 1]
PodIn(states) == Postgres \in Pkg /\ releases[Postgres] \in states
PodMayBeUp == PodIn({"deployed", "pending-install", "pending-upgrade"})
PodIsUp == PodIn({"deployed"})
Runs(stmt) == /\ StmtNeeds[stmt] \subseteq database
              /\ stmt \in database => stmt \in Repeats

(* Seeded fault: sql_exec_commands returns inside its loop. *)
RunFirstStatement(t) ==
    /\ Doing(t, "sql")
    /\ task[t].ran < Len(Of(t).sql)
    /\ PodMayBeUp
    /\ Runs(Statement(t))
    /\ database' = database \cup {Statement(t)}
    /\ NoFault
    /\ task' = Put(t, Advanced(task[t]))
    /\ UNCHANGED <<releases, helming, namespaces, secrets, pages>>

RunStatement(t) ==
    /\ Doing(t, "sql")
    /\ task[t].ran < Len(Of(t).sql)
    /\ PodMayBeUp
    /\ Runs(Statement(t))
    /\ database' = database \cup {Statement(t)}
    /\ \/ /\ NoFault
          /\ task' = Put(t, IF task[t].ran + 1 = Len(Of(t).sql)
                            THEN Advanced(task[t]) ELSE OneMore(task[t]))
       \/ Fault /\ task' = Finally(t)
    /\ UNCHANGED <<releases, helming, namespaces, secrets, pages>>

(* Seeded fault: what the statement prints is ignored. *)
StatementIgnored(t) ==
    /\ Doing(t, "sql")
    /\ task[t].ran < Len(Of(t).sql)
    /\ NoFault /\ (~PodIsUp \/ ~Runs(Statement(t)))
    /\ task' = Put(t, Advanced(task[t]))
    /\ UNCHANGED <<cluster, pages>>

StatementFails(t) ==
    /\ Doing(t, "sql")
    /\ task[t].ran < Len(Of(t).sql)
    /\ \/ NoFault /\ (~PodIsUp \/ ~Runs(Statement(t)))
       \/ Fault
    /\ task' = Finally(t)
    /\ UNCHANGED <<cluster, pages>>

(* Seeded fault: helm upgrade --install --force, no name is refused. *)
HelmAcceptsAny(t) == task[t].pkg \in Pkg

(* Seeded fault: no --atomic. *)
FailedReleaseStays == "failed"

(* What helm leaves of an install that fails: nothing, it has --atomic. *)
FailedRelease == "absent"

(***************************************************************************)
(* helm install --create-namespace --atomic and helm upgrade --atomic.     *)
(* helm refuses a name in use, and the upgrade of what is not deployed.    *)
(* exec_command ignores the return code: a helm that fails at once is a    *)
(* step that is over, unless the line it prints cannot be logged.          *)
(***************************************************************************)
HelmAccepts(t) ==
    releases[task[t].pkg] =
        IF task[t].op = "install" THEN "absent" ELSE "deployed"

StartHelm(t) ==
    LET p == task[t].pkg
    IN  /\ Doing(t, "helm")
        /\ HelmAccepts(t)
        /\ releases' = [releases EXCEPT ![p] =
                           IF task[t].op = "install" THEN "pending-install"
                                                     ELSE "pending-upgrade"]
        /\ helming' = helming \cup {p}
        /\ namespaces' = namespaces \cup {Profile[p].ns}
        /\ task' = Put(t, At(task[t], "helm"))
        /\ UNCHANGED <<secrets, database, pages, faults>>

HelmRefuses(t) ==
    /\ Doing(t, "helm")
    /\ \/ ~HelmAccepts(t) /\ NoFault
       \/ Fault
    /\ task' = IF logs = "gone" THEN Finally(t) ELSE Put(t, Advanced(task[t]))
    /\ UNCHANGED <<cluster, pages>>

(***************************************************************************)
(* A helm process ends.  --atomic leaves no release when an install fails, *)
(* and the previous revision when an upgrade does.  The request that waits *)
(* logs what helm printed, and goes on whatever the outcome.               *)
(***************************************************************************)
HelmSettles(p) ==
    /\ p \in helming
    /\ helming' = helming \ {p}
    /\ \/ NoFault /\ releases' = [releases EXCEPT ![p] = "deployed"]
       \/ /\ Fault
          /\ releases[p] = "pending-install"
          /\ releases' = [releases EXCEPT ![p] = FailedRelease]
    /\ task' = [t \in Task |->
                   IF task[t].pc = "helm" /\ task[t].pkg = p
                   THEN IF logs = "gone" THEN Reporting(p)
                                         ELSE Advanced(task[t])
                   ELSE task[t]]
    /\ UNCHANGED <<namespaces, secrets, database, pages>>

(* A line helm prints cannot be logged: the request leaves helm behind. *)
HelmOutputLost(t) ==
    /\ task[t].pc = "helm"
    /\ logs = "gone"
    /\ task' = Finally(t)
    /\ UNCHANGED <<cluster, pages, faults>>

(***************************************************************************)
(* Deployment.install: fetch the manifest and create its objects, the      *)
(* namespace first.  An object that exists does not stop the creation of   *)
(* the others, and raises in the end.                                      *)
(***************************************************************************)
ApplyManifest(t) ==
    LET p == task[t].pkg
        ns == Profile[p].ns
    IN  /\ Doing(t, "manifest")
        /\ \/ /\ NoFault
              /\ namespaces' = namespaces \cup {ns}
              /\ releases' = [releases EXCEPT ![p] = "deployed"]
              /\ task' = IF ns \in namespaces
                         THEN Finally(t) ELSE Put(t, Advanced(task[t]))
           \/ /\ Fault
              /\ namespaces' \in {namespaces, namespaces \cup {ns}}
              /\ releases' = IF ns \in namespaces' /\ releases[p] = "absent"
                             THEN [releases EXCEPT ![p] = "partial"]
                             ELSE releases
              /\ task' = Finally(t)
        /\ UNCHANGED <<helming, secrets, database, pages>>

-----------------------------------------------------------------------------
(* ---- send_status ---- *)

(* is_installed = await package.is_installed() *)
Read(t, installed) ==
    Put(t, Seeing(task[t],
                  IF installed /\ Of(t).probe # "none" THEN "probe" ELSE "send",
                  installed))

ReadStatus(t) ==
    /\ task[t].pc = "read"
    /\ \/ NoFault /\ task' = Read(t, IsInstalled(task[t].pkg))
       \/ Fault /\ task' = IF IsManifest(task[t].pkg) THEN Quit(t)
                           ELSE Read(t, FALSE)
    /\ UNCHANGED <<cluster, pages>>

(***************************************************************************)
(* k8s_port_forward, or the ingress and the secret of minio: what is read  *)
(* may be missing (None has no attribute spec), and the port forward logs. *)
(* An exception here ends the coroutine before any status is sent.         *)
(***************************************************************************)
Probe(t) ==
    /\ task[t].pc = "probe"
    /\ \/ /\ NoFault
          /\ task' = IF Of(t).probe = "forward" /\ logs = "gone"
                     THEN Quit(t) ELSE Put(t, At(task[t], "send"))
       \/ Fault /\ task' = Quit(t)
    /\ UNCHANGED <<cluster, pages>>

(* The status goes to the page WebSocketsStore.ws holds by now. *)
SendStatus(t) ==
    /\ task[t].pc = "send"
    /\ IF ws \in live
       THEN Deliver(ws, task[t].pkg, Settled(task[t].seen))
       ELSE UNCHANGED shown
    /\ task' = Quit(t)
    /\ UNCHANGED <<cluster, ws, live, logs, faults>>

-----------------------------------------------------------------------------
(* ---- pages and server ---- *)

(* main.ws_endpoint.  A socket object is fresh: nobody else refers to it. *)
Connect(s) ==
    /\ s \notin live
    /\ s # ws
    /\ \A t \in Task : task[t].channel # s
    /\ ws' = s
    /\ live' = live \cup {s}
    /\ UNCHANGED <<cluster, task, logs, shown, faults>>

(* A page closes; the store keeps its socket. *)
Disconnect(s) ==
    /\ "status" \in Flaky
    /\ s \in live
    /\ live' = live \ {s}
    /\ shown' = [shown EXCEPT ![s] = [p \in Pkg |-> "unknown"]]
    /\ UNCHANGED <<cluster, task, ws, logs, faults>>

(* A page closes after logs.ws_endpoint stored its socket. *)
LogsDisconnect ==
    /\ "logs" \in Flaky
    /\ logs = "heard"
    /\ logs' = "gone"
    /\ UNCHANGED <<cluster, task, ws, live, shown, faults>>

(* logs.ws_endpoint: a new page takes the place of the one that is gone. *)
LogsConnect ==
    /\ logs = "gone"
    /\ logs' = "heard"
    /\ UNCHANGED <<cluster, task, ws, live, shown, faults>>

(***************************************************************************)
(* The server is stopped and started again.  The helm processes it had     *)
(* started go on, or die with it and leave their release pending.          *)
(***************************************************************************)
Restart ==
    /\ Fault
    /\ helming' \in SUBSET helming
    /\ task' = [t \in Task |-> Idle]
    /\ ws' = NoSock
    /\ live' = {}
    /\ logs' = "heard"
    /\ shown' = [s \in Sock |-> [p \in Pkg |-> "unknown"]]
    /\ UNCHANGED <<releases, namespaces, secrets, database>>

-----------------------------------------------------------------------------
PlanStep(t) ==
    \/ LogStep(t) \/ TestNamespace(t)
    \/ ListSecrets(t) \/ CreateSecret(t) \/ SecretsDone(t)
    \/ RunStatement(t) \/ StatementFails(t)
    \/ StartHelm(t) \/ HelmRefuses(t)
    \/ ApplyManifest(t)
    \/ Finish(t)

ServerStep(t) ==
    \/ Check(t) \/ Announce(t) \/ PlanStep(t)
    \/ ReadStatus(t) \/ Probe(t) \/ SendStatus(t)

UserStep ==
    \/ \E t \in Task, o \in {"install", "upgrade", "status"}, p \in Pkg :
           Request(t, o, p)
    \/ \E s \in Sock : Connect(s) \/ Disconnect(s)
    \/ LogsConnect \/ LogsDisconnect

Next ==
    \/ \E t \in Task : ServerStep(t) \/ HelmOutputLost(t)
    \/ \E p \in Pkg : HelmSettles(p)
    \/ UserStep
    \/ Restart

Spec == Init /\ [][Next]_vars

(***************************************************************************)
(* The event loop runs every coroutine that is ready, and a helm process   *)
(* ends: its --timeout bounds it.                                          *)
(***************************************************************************)
FairSpec ==
    /\ Spec
    /\ \A t \in Task : WF_vars(ServerStep(t))
    /\ \A p \in Pkg : WF_vars(HelmSettles(p))

-----------------------------------------------------------------------------
(* ---- properties ---- *)

(***************************************************************************)
(* A helm release never exists, not even pending, without the secrets its  *)
(* pods mount: HelmPackage.install and upgrade start helm only once every  *)
(* secret was found or created, however other requests interleave.         *)
(***************************************************************************)
SecretsInPlace ==
    \A p \in Pkg : releases[p] # "absent" /\ ~IsManifest(p) =>
        Profile[p].secrets \subseteq secrets[Profile[p].ns]

(***************************************************************************)
(* A package whose plan runs SQL before helm (Keycloak) has no release     *)
(* unless every one of its statements took effect: sql_exec_commands       *)
(* raises on the first one that fails.                                     *)
(***************************************************************************)
SqlBeforeHelm(p) ==
    LET plan == Profile[p].install
    IN  /\ ~IsManifest(p)
        /\ \A j \in 1..Len(plan) : plan[j] = "helm" =>
              \E i \in 1..(j - 1) : plan[i] = "sql"

DatabaseInPlace ==
    \A p \in Pkg : SqlBeforeHelm(p) /\ releases[p] # "absent" =>
        \A i \in 1..Len(Profile[p].sql) : Profile[p].sql[i] \in database

(***************************************************************************)
(* Two requests never wait for helm on the same package, although nothing  *)
(* in install_pack excludes it (is_installed does not see a pending        *)
(* release), and the one that waits has a process to wait for.             *)
(***************************************************************************)
OneWaiterPerRelease ==
    \A t, u \in Task :
        /\ task[t].pc = "helm" => task[t].pkg \in helming
        /\ task[t].pc = "helm" /\ task[u].pc = "helm"
              /\ task[t].pkg = task[u].pkg => t = u

(***************************************************************************)
(* A page that shows a helm package as installed is right, for as long as  *)
(* it shows it: the answer is_installed gave before a delayed send is not  *)
(* undone by a failed upgrade or by a second install.                      *)
(***************************************************************************)
Upgradable == {"deployed", "pending-upgrade"}

ShownInstalledIsReal ==
    \A s \in Sock, p \in Pkg :
        shown[s][p] \in {"installed", "upgrading"} /\ ~IsManifest(p) =>
            releases[p] \in Upgradable

(***************************************************************************)
(* When the current page shows a package as pending, a request that will   *)
(* send its status is in flight: no way out of install_pack or             *)
(* upgrade_pack leaves the page waiting.  This is so for the packages      *)
(* whose send_status has nothing between is_installed and the send.        *)
(***************************************************************************)
IsPlain(p) == Profile[p].probe = "none" /\ ~IsManifest(p)

PendingIsInFlight ==
    \A p \in Pkg : IsPlain(p) /\ ws \in Sock =>
        (shown[ws][p] \in {"installing", "upgrading"} =>
            \E t \in Task : task[t].op # "none" /\ task[t].pkg = p)

(***************************************************************************)
(* The inductive invariant behind the properties above.  A request r       *)
(* inside its plan is at the step its label says; the secrets of the       *)
(* "secrets" steps behind it are in place, with what it still has to       *)
(* create as the only ones missing; the statements it has run took effect; *)
(* an answer of is_installed it carries is true; and a helm process works  *)
(* on pending releases only.                                               *)
(***************************************************************************)
InPlan(r) == r.pc \in {"step", "secrets", "helm"}

AtItsStep(r) ==
    /\ r.pc = "helm" => /\ r.at \in 1..Len(PlanOf(r))
                        /\ PlanOf(r)[r.at] = "helm"
    /\ r.pc = "secrets" => /\ r.at \in 1..Len(PlanOf(r))
                           /\ PlanOf(r)[r.at] \in {"secrets", "quiet secrets"}

SecretsBehind(r, S) ==
    LET created == S[Profile[r.pkg].ns]
    IN  /\ InPlan(r) =>
              \A i \in 1..Len(PlanOf(r)) :
                  i < r.at /\ PlanOf(r)[i] = "secrets" =>
                      Profile[r.pkg].secrets \subseteq created
        /\ r.pc = "secrets" => Profile[r.pkg].secrets \ r.needed \subseteq created

SqlBehind(r, D) ==
    LET sql == Profile[r.pkg].sql
    IN  /\ \A k \in 1..Len(sql) : k <= r.ran => sql[k] \in D
        /\ InPlan(r) =>
              \A i \in 1..Len(PlanOf(r)) :
                  i < r.at /\ PlanOf(r)[i] = "sql" =>
                      \A k \in 1..Len(sql) : sql[k] \in D

SeenIsReal(r, R) == r.seen => IsManifest(r.pkg) \/ R[r.pkg] \in Upgradable

Sound(r, S, D, R) ==
    AtItsStep(r) /\ SecretsBehind(r, S) /\ SqlBehind(r, D) /\ SeenIsReal(r, R)

IInv ==
    /\ \A t \in Task : Sound(task[t], secrets, database, releases)
    /\ \A p \in helming : /\ releases[p] \in {"pending-install",
                                              "pending-upgrade"}
                          /\ ~IsManifest(p)

(* Every request ends, whatever fails while it runs. *)
RequestsEnd == \A t \in Task : task[t].op # "none" ~> task[t].op = "none"

(***************************************************************************)
(* With requests one at a time and until something fails, what the page    *)
(* shows when no request is in flight is what the cluster holds: the       *)
(* finally clause reads the status again after helm.                       *)
(***************************************************************************)
QuietPageIsRight ==
    faults = 0 /\ (\A t \in Task : task[t].op = "none") =>
        \A s \in live, p \in Pkg :
            s = ws /\ shown[s][p] # "unknown" =>
                shown[s][p] = Settled(IsInstalled(p))

(***************************************************************************)
(* With requests one at a time, and unless something fails, an install of  *)
(* a package that has what it needs ends with the release deployed and     *)
(* all its statements run: Package.install of HelmPackage, PostgreSQL,     *)
(* Keycloak and K8sDashboard.  Kong's own never does, as below.            *)
(***************************************************************************)
Ready(p) ==
    /\ "namespaces" \notin Steps(Profile[p].install)
    /\ Profile[p].secrets # {} => Profile[p].ns \in namespaces
    /\ SqlBeforeHelm(p) => /\ releases[Postgres] = "deployed"
                           /\ \A i \in 1..Len(Profile[Postgres].sql) :
                                 Profile[Postgres].sql[i] \in database

Complete(p) ==
    /\ releases[p] = "deployed"
    /\ \A i \in 1..Len(Profile[p].sql) : Profile[p].sql[i] \in database

InstallCompletes ==
    \A t \in Task, p \in Pkg :
        /\ task[t].op = "install"
        /\ task[t].pkg = p
        /\ task[t].pc = "announce"
        /\ task[t].channel \in live
        /\ Ready(p)
        /\ faults = 0
        ~> Complete(p) \/ faults > 0

(***************************************************************************)
(* And nothing but an exception stops it half way: with requests one at a  *)
(* time, and unless something fails, an install that comes to the end of   *)
(* its plan has its release deployed and all its statements run, although  *)
(* exec_command ignores the return code of helm.                           *)
(***************************************************************************)
InstallIsComplete ==
    \A t \in Task :
        /\ task[t].op = "install"
        /\ task[t].pc = "step"
        /\ task[t].at > Len(Plan(t))
        /\ faults = 0
        => Complete(task[t].pkg)

(***************************************************************************)
(* No request goes back.  A step that changes a request ends it, sends it  *)
(* to its finally clause, or brings it further: to a later part of         *)
(* install_pack or send_status, to a later step of its plan or, inside a   *)
(* step, to one statement more or one secret less.  There are finitely     *)
(* many of each, so no refusal, retry of the user, restart or other        *)
(* request makes one go on for ever.                                       *)
(***************************************************************************)
Stage(r) == CASE r.pc \in {"check", "read"}     -> 1
              [] r.pc \in {"announce", "probe"} -> 2
              [] r.pc \in {"step", "secrets", "helm", "send"} -> 3
              [] r.pc = "idle"                  -> 4

FurtherInStep(r, q) ==
    \/ r.pc = "step" /\ q.pc \in {"secrets", "helm"}
    \/ r.pc = "step" /\ q.pc = "step" /\ q.ran > r.ran
    \/ /\ r.pc = "secrets" /\ q.pc = "secrets"
       /\ q.needed \subseteq r.needed /\ q.needed # r.needed

FurtherInPlan(r, q) ==
    /\ q.at \in 1..(Len(PlanOf(r)) + 1)
    /\ q.ran \in 0..Len(Profile[r.pkg].sql)
    /\ q.at > r.at \/ (q.at = r.at /\ FurtherInStep(r, q))

Further(r, q) ==
    /\ q.op = r.op /\ q.pkg = r.pkg
    /\ \/ Stage(q) > Stage(r)
       \/ Stage(q) = Stage(r) /\ r.op # "status" /\ FurtherInPlan(r, q)

Advances(r, q) ==
    \/ q = Idle
    \/ r.op # "status" /\ q = Reporting(r.pkg)
    \/ Further(r, q)

RequestsAdvance ==
    [][\A t \in Task : task[t].op # "none" /\ task'[t] # task[t] =>
           Advances(task[t], task'[t])]_vars

(***************************************************************************)
(* What kong/router.py says it does (info "Create namespace ..."): the     *)
(* install of a package whose plan looks for its namespace creates it.     *)
(***************************************************************************)
KongCreatesItsNamespace ==
    \A t \in Task, p \in Pkg :
        Doing(t, "namespaces") /\ task[t].pkg = p
            ~> Profile[p].ns \in namespaces

-----------------------------------------------------------------------------
(***************************************************************************)
(* Deploy implements Rollout: whatever the requests in flight, the secrets *)
(* created by others and the failures, the releases of the cluster change  *)
(* only the way Rollout says.                                              *)
(***************************************************************************)
Prepared(p) ==
    /\ Profile[p].secrets \subseteq secrets[Profile[p].ns]
    /\ SqlBeforeHelm(p) =>
          \A i \in 1..Len(Profile[p].sql) : Profile[p].sql[i] \in database

Manifest == {p \in Pkg : IsManifest(p)}
Abstract == INSTANCE Rollout
            WITH release <- releases, ready <- {p \in Pkg : Prepared(p)}

ImplementsRollout == Abstract!Spec
=============================================================================
