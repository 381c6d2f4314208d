# Verification of youwol-infra

youwol-infra is a local web server (FastAPI on one asyncio loop) with which an
operator installs and upgrades the packages of the YouWol platform in a
kubernetes cluster: helm charts, a manifest, SQL statements, secrets, port
forwards, and a page that shows the state of each package. This directory holds
TLA+ models of it, what TLC checks on small instances and what TLAPS proves for
every instance. Paths below are relative to the root of the repository.

## 1. Inventory

| Component | State it keeps | Operations | Interacts with |
|---|---|---|---|
| Install, upgrade, status (`routers/common.py`, `deployment_models.py`, `utils/helm_utils.py`) | nothing in the server but the requests in flight; the helm releases outside | `install_pack`, `upgrade_pack`, `HelmPackage.install/upgrade/is_installed`, `Deployment.install`, `send_status` | helm, kubernetes, PostgreSQL, the web sockets |
| Service and infrastructure routers (`routers/*/router.py`) | none | status, install and upgrade of one package, with its own steps | the component above |
| Web sockets and contexts (`web_sockets.py`, `context.py`, `main.py`, `routers/logs`) | `WebSocketsStore.ws`, `.logs`, `.environment`: the last page that connected | connect, disconnect, `Context.start/info/abort` | every request, which raises when the page of its logs is gone |
| Kubernetes, SQL and process helpers (`utils/*.py`) | processes of the machine (kubectl, helm), secrets and pods of the cluster | `k8s_create_secrets_if_needed`, `k8s_pod_exec`, `k8s_port_forward`, `sql_exec_commands`, `exec_command` | the requests |
| DocDb router (`routers/docdb/router.py`) | the local port of DocDb and who listens to it | status with its port forward, `sync_local_tables` | kubectl, DocDb, the page of the synchronisation |
| Dynamic configuration (`dynamic_configuration.py`, `routers/environment`) | the cached configuration; the context of kubectl, the two kubernetes clients, the proxy; the token cache | `init`, `switch`, `safe_load` | every request depends on the cached configuration |
| DocDb client (`youwol_utils/clients/docdb/docdb.py`) | keyspaces, tables and indexes of DocDb | `ensure_table`, `delete_table`, requests on documents | the services that share a table |
| Deployment configurations (`gg_infra_config.py`, `tricot_infra_config.py`) | none | which packages, in which namespaces, with which secrets | all of the above |
| Local document tables (`youwol_utils/clients/docdb/local_docdb.py`) | the folder of a table and its file `data.json` | `ensure_table`, `delete_table`, `create_document`, `update_document`, `delete_document` | the processes that share the folder; `sync_local_tables`, which reads it |
| Tree database pathnames (`youwol_utils/clients/treedb/treedb_utils.py`) | drives and folders of the tree database | `ensure_pathname` | other callers; whoever removes drives or folders |
| HTTP clients, storage, in-memory client, caches, middlewares (`youwol_utils`) | files and dictionaries of a client | see section 8 | |

What is hard to get right here:

- **Interleaving at awaits.** Nothing keeps two requests on one package apart.
  `is_installed` does not see a release that is pending; a secret listed as
  missing may have been created when it is created; a port is killed under a
  synchronisation; two configurations load at once; two services create a table;
  two callers create a folder that both found missing; two processes write a
  file that both have read.
- **Stale answers.** The answer of `helm list`, of `_table_exists`, or the page
  that was captured, are used after later awaits.
- **Partial failure.** Each plan is a sequence of calls that may each raise: a
  log raises when its page is gone, `psql` prints an error, helm fails or is
  refused. What was done stays, and the page must be told.
- **Crash and restart.** The server is stopped while helm runs, a service while
  it creates its indexes, a process between the truncation of a file and the end
  of its write.
- **Late effects.** A request that failed for its caller may still be handled:
  a post of a synchronisation, the creation of a folder.
- **Ordering of processes nobody awaits.** `Popen` of `kubectl`.

What makes each component correct, in short: a release exists only with what
its pods need; a page that shows something is right, and is not left waiting;
one helm operation per release; requests end; the progress told is true; the
cluster that is used is the one that is shown; a service runs on a table of its
version, with its indexes; a local table stays readable with one document per
key, and what is synchronised is what it holds; a pathname leads to one folder.

## 2. Plan

Done, in this order: `Catalogue`, `Rollout` (abstract) and `Deploy`;
`PortForward` and `DocDbSync`; `ClusterSwitch`; `EnsureTable`; `DocumentTable`
(abstract), `LocalDocDb` and its composition with the synchronisation
`LocalTableSync`; `PathTree` (abstract) and `EnsurePathname`; a proof module for
each of the six state machines, and a second one for `Deploy`.

Left, by importance:

1. `Deploy` with `ClusterSwitch`: `Deploy` is about one cluster; a switch in the
   middle of an install moves helm and the clients to another. Abstract
   specification: every release is started in the cluster its request was for,
   which the code keeps only when the shell of `start_k8s_proxy` has run before
   the first request.
2. The moves and updates of the tree database client, if something in the
   repository comes to compose them as `ensure_pathname` does.
3. `merge` of the two streams of a process (`utils/utils.py`), and the group
   hierarchy of `youwol_utils/utils.py`, as pure algorithms against a reference.
4. The ACME certificates of Kong (`install_certificate`): a call that fails
   between the service and the route of a host is not repaired by the next one,
   which finds the service and skips the route.

## 3. Modules

| Module | What it is |
|---|---|
| `Catalogue` | one profile per router: its namespace, secrets, steps, statements, status |
| `Rollout` | what install and upgrade promise of a release, with no requests in it |
| `Deploy` | install, upgrade and status, pages, secrets, SQL, helm, restarts |
| `MCDeploy` | `Deploy` on groups of packages of `gg_infra_config.py` |
| `DeployProofs` | theorems about the cluster and the pages of `Deploy` |
| `DeployRequestProofs` | theorems about one request of `Deploy`: it advances, what an install that ends has done, what the page shows after it |
| `PortForward` | the local port of a package and its kubectl processes |
| `DocDbSync` | `sync_local_tables`; extends `PortForward` |
| `MCDocDbSync`, `DocDbSyncProofs` | instances and theorems |
| `ClusterSwitch` | loading and switching configurations |
| `MCClusterSwitch`, `ClusterSwitchProofs` | instances and theorems |
| `EnsureTable` | `ensure_table` and `delete_table` by several services |
| `MCEnsureTable`, `EnsureTableProofs` | instances and theorems |
| `DocumentTable` | what a table of documents promises to those that write it |
| `LocalDocDb` | the table in one file, written by several processes |
| `LocalTableSync` | `sync_local_tables` on that file; extends `LocalDocDb` |
| `MCLocalTableSync`, `LocalTableSyncProofs` | instance and theorems |
| `PathTree` | what `ensure_pathname` promises of the tree of pathnames |
| `EnsurePathname` | `ensure_pathname` by several callers, with removals by others |
| `MCEnsurePathname`, `EnsurePathnameProofs` | instance and theorems |

### Deploy

An action is the code between two awaits that matter: the loop runs a coroutine
until it awaits. `task[t]` is a request in flight; its `pc` says which await it
is at:

| `pc` | Code | Actions |
|---|---|---|
| `check` | `await package.is_installed()` in `install_pack`/`upgrade_pack` | `Check` |
| `announce` | `await channel_ws.send_json(pending)` | `Announce` |
| `step` | the steps of `Package.install`/`upgrade`, one after the other, as `Catalogue` lists them | `LogStep`, `TestNamespace`, `ListSecrets`, `RunStatement`, `StatementFails`, `StartHelm`, `HelmRefuses`, `ApplyManifest`, `Finish` |
| `secrets` | the loop of `k8s_create_secrets_if_needed` | `CreateSecret`, `SecretsDone` |
| `helm` | `exec_command` reads the output of helm | `HelmSettles`, `HelmOutputLost` |
| `read`, `probe`, `send` | `send_status`, spawned by the `finally` clause | `ReadStatus`, `Probe`, `SendStatus` |

Variables: `releases`, `helming` (the packages a helm process works on),
`namespaces`, `secrets`, `database` are the cluster; `ws`, `live`, `logs` are
`WebSocketsStore` and the pages; `shown` is what each page received last;
`faults` counts external failures. Every exit of `install_pack` goes through
`Finally`, as the `finally` clause does. `HelmAccepts` is external: helm refuses
an operation on a release that is pending, and an install of a name in use.

`Rollout` knows of a release only its state, and of a package whether what it
needs is in place and whether it is created from a manifest, by `Apply` alone. `ImplementsRollout` maps `release` to `releases` and `ready`
to the packages whose secrets and statements are there.

### PortForward and DocDbSync

`Forward` is `k8s_port_forward`: send SIGTERM to the process that holds the port
(`Kill`, which the swallowed exceptions of psutil may make a no-op), then start
kubectl, with no await between. `Bind`, `Leave`, `Drop` are kubectl itself: it
binds the port or exits because it is held, stops some time after it was told to
(`leaving`), or dies by itself. `overtook` and `dropped` are history: the last
call found the port held, and the process that held it has died since. The port
depends on the name of the package alone, so two namespaces share it. A
synchronisation `sync[s]` is at
the token, between two batches, or has the posts of a batch in flight (`gather`):
each arrives at whatever DocDb the port is forwarded to.

### ClusterSwitch

`kube`, `sync`, `async` and `proxy` are the four targets a load moves, `cached`
the configuration the requests see. `Load` is `safe_load` up to its first await;
then `AccessToken`, `Loaded` or `LoadRaises`. `UseContext` and `Serve` are the
two halves of the shell of `start_k8s_proxy`. `InitConf` is the dependency of a
request on a server that has not loaded anything; `Switch` and `SwitchRefused`
the route `switch-configuration`. Both send SIGTERM to the proxy of the cached
configuration (`KillProxy`), which stays in `leaving` until `ProxyExits`.

### EnsureTable

`client[c].pc` is the HTTP request a service is at. `Answered` is a request
whose answer arrives or is lost; `RequestFails` one that fails before any effect.
`Ensure` is also the restart of a service whose call raised. That DocDb refuses
to create what exists is external.

### LocalDocDb and LocalTableSync

`file` is the folder and the file, `call[w]` the write a process is at. A write
reads the file and computes the new content (`pc` `write`), opens it with mode
`'w'`, which truncates it (`flush`), and writes it. Nothing awaits in between,
so the coroutines of one process do not interleave; those of two processes do,
and either may be stopped between two steps. `age` says what has become of the
file since the content was computed: it is `fresh`, `stale` when another content
was written, `overlaid` when that happened after this call had truncated it, or
`orphan` when the file was removed while it was open. `trusted` is a history: no
write has been lost or mixed since the table was last emptied. The default
owner, the way a document is found by its primary key and the asymmetry between
update (key alone) and delete (key and owner) are the code's.

`LocalTableSync` adds the requests `sync[r]`: each reads the file once and posts
what it read. A post whose request failed may be handled later. `current` is a
history: nothing was written since this request read the table, and no post of
another content was on its way then. `DocDbSync` has the batches, the progress
and the port; here it is the content that matters.

`ImplementsTable` maps `table` to the documents of the file, key by key: a write
that is acknowledged takes effect at once and stays, and it is lost (`Lose`)
only by processes that overlap or stop.

### EnsurePathname

A call is at a folder `at`, that it has reached by the first `depth` names of
its pathname `Goal[c]` (the group, the drive, the folders). `Find` and `Miss`
are the answer to `get_drives` or `get_children`, `Make` that of `create_drive`
or `create_folder`, `Gone` an error because the folder is no longer there.
`RequestFails` is a request lost before or after it reached the server, which
may handle a creation later (`LateCreation`). `Remove` is somebody else's removal of
a folder with all below it. `raced` is a history: a call has started while
another call, or a late creation, was on its way.

`ImplementsPathTree` maps `paths` to the pathnames of the folders and `given` to
the calls that returned.

## 4. Runs

| Run | Instance | Shows |
|---|---|---|
| `pages` | one service with 2 secrets, 2 requests, 2 pages that open and close, logs page that closes, 1 fault | `TypeOK`; a page that shows "installed" is right as long as it shows it; one that shows "pending" has a request in flight; one request waits for helm per release; no release without its secrets; no request goes back to an earlier part of itself (`RequestsAdvance`); `Deploy` implements `Rollout` |
| `sequential` | PostgreSQL, Keycloak, the dashboard and Kong, 1 request at a time, 1 fault, fair | no release of Keycloak without its database; `IInv`; without the fault, an install completes (Kong's excepted), what it leaves when it ends is a release that is deployed and statements that ran (`InstallIsComplete`), and the page is right when nothing runs |
| `termination` | Redis and the dashboard, 2 requests, logs page that closes, 1 fault, fair | every request ends; `Deploy` implements `Rollout`, the manifest included |
| `kong` (violated) | Kong and Redis, 1 request, fair | Kong never creates its namespace |
| `sync` | 1 namespace, 2 synchronisations of 3 documents in batches of 2, 3 forwards, 2 faults, fair | the progress told is backed by documents; the port is left unserved only by a forward that found it held or a kubectl that died, and the next forward serves it (`PortRecovers`); a synchronisation ends; `IInv` |
| `sync_namespaces` (violated) | the 3 namespaces of `tricot_infra_config.py` | documents go to the namespace whose status was asked last |
| `cluster` | 4 files of 2 clusters, 2 requests, 1 fault, 1 restart, switches one at a time, fair | helm, kubectl and the synchronous client follow the cached configuration, and its proxy serves no other; a load that does not raise ends cached, with its cluster behind the proxy when the former proxy has left the port by then; `IInv` |
| `cluster_async` (violated) | the same without faults | the asynchronous client is of the former context after a load, the first one or that of a switch |
| `ensure` | services of versions 1.0, 1.1, 2.0, 2 indexes, 1 fault, 1 deletion, fair | one creator of indexes; a service runs on its version; without faults the table ends with its indexes; each ends ensured, or refused by another version; `IInv` |
| `ensure_crash` (violated) | 2 services of one version, 1 fault | a table "up-to-date" without its indexes |
| `local_tables` | 2 processes, 3 documents of 2 keys, 2 synchronisations, stops and lost posts without a bound | a table nobody writes can be read, and a synchronisation that is done has put it in DocDb, unless writes overlapped or were cut; `IInv`; the store implements `DocumentTable` |
| `tree_paths` | 2 callers of one pathname, 1 fault, 1 removal, fair | a call that returns holds the folder of its pathname; calls one at a time make no folder twice; `IInv`; the calls implement `PathTree`; every call ends |

**Bounds.** `MaxFaults` bounds external failures, `MaxForwards` the port
forwards, `MaxRestarts` the restarts, `MaxDeletes` the deletions. Two requests
are enough for the hazards listed: each is a race between two, or a request and
a failure; a third only adds an order between pairs. Three documents in batches
of two have a full batch and a partial one. Two indexes have a state in
between. Three services have both an equal and a different major version. The three
documents of `local_tables` are of two keys and three owners, so that an update
replaces, changes the owner, or adds; two processes are what it takes to overlap. Two
callers of one pathname reach a drive and a folder each, so that a race is lost
at either level; one removal takes what a call has just reached. One
fault is needed for each partial failure; a synchronisation has two, so that a
request fails while another one has failed. The proofs drop all of these bounds (they hold for every value of the
constants, the bounds included). Symmetry is over requests and pages, which no
property tells apart, or over processes and synchronisations in `local_tables`,
and only in runs without a liveness property (the refinements of `pages` and
`local_tables` are safety properties).

**Deadlock.** It is checked in every run. No model ends: a user may always ask
again.

**Seeded faults.** Each property has a definition, placed before the one it
stands in for and commented "Seeded fault", that is what a plausible slip in the
code would be (a `finally` forgotten, `helm list --all`, secrets not awaited, a
batch count rounded down, `load_kube_config` without its context, a comparison
of major versions only, a loop of statements that returns after the first, a
secret that is refused and tried again). With it the property is violated.

**Assumptions on the catalogue.** Every run of `MCDeploy` evaluates
`ConfigurationIsPlanned`: each package of `gg_infra_config.py`, not only those of
the run, has a plan that satisfies `PlanAssumption`, and `ManifestsApart` holds.

## 5. Fairness

- `Deploy`: weak fairness of each request's own steps, since the loop runs a
  coroutine that is ready, and of `HelmSettles`, since helm is given a timeout.
  Not of the user, nor of `HelmOutputLost` or of failures.
- `DocDbSync`: of each synchronisation, and of a kubectl that starts (it binds
  the port or exits). Not of a status request, nor of a process that was told to
  stop: how long it takes, or whether it does, no property depends on.
- `ClusterSwitch`: of each load, and of the shells. Not of a switch, nor of a
  proxy that was told to stop.
- `EnsureTable`: of each call, and of the start of a service that is idle or
  has raised (its supervisor restarts it). Not of a deletion.
- `EnsurePathname`: of each call's own steps. Not of a new call, of a late
  creation or of a removal.
- `LocalTableSync`: none; its properties are safety properties.

## 6. Proofs

| Theorem | Statement | Assumption |
|---|---|---|
| `DeployProofs!TypeCorrect` | `Spec => []TypeOK` | |
| `DeployProofs!Invariance` | `Spec => []IInv` | |
| `DeployProofs!SecretsAreInPlace` | `[]SecretsInPlace` | |
| `DeployProofs!DatabaseIsInPlace` | `[]DatabaseInPlace` | |
| `DeployProofs!ShownIsReal` | `[]ShownInstalledIsReal` | |
| `DeployProofs!OneWaiter` | `[]OneWaiterPerRelease` | |
| `DeployProofs!PageIsAnswered` | `[]PendingIsInFlight` | |
| `DeployProofs!NothingTakenAway` | `[][ClusterGrows]_vars`: no secret, statement or deployed release is taken away | |
| `DeployProofs!Refinement` | `Spec => ImplementsRollout` | |
| `DeployRequestProofs!RequestsOnlyAdvance` | `Spec => RequestsAdvance` | |
| `DeployRequestProofs!InstallEnds` | `[]InstallIsComplete` | `OneAtATime` |
| `DeployRequestProofs!QuietPage` | `[]QuietPageIsRight` | `OneAtATime`, `ManifestsApart` |
| `DocDbSyncProofs!TypeCorrect` | `[]TypeOK` | |
| `DocDbSyncProofs!Invariance`, `ProgressIsTrue` | `[]IInv`, `[]ProgressIsBacked` | DocDb is in one namespace |
| `DocDbSyncProofs!PortIsRecovered` | `[]PortRecovers` | |
| `DocDbSyncProofs!NothingIsDropped` | `[]ProgressIsSomewhere`: what is told is in the DocDb of some namespace | |
| `DocDbSyncProofs!SyncOnlyAdvances` | `[][AllAdvance]_vars`: batches once each, progress never less | |
| `ClusterSwitchProofs!TypeCorrect` | `[]TypeOK` | |
| `ClusterSwitchProofs!Invariance`, `TargetsFollowCache` | `[]IInv`, `[]TargetsFollow` | `Patient` |
| `EnsureTableProofs!TypeCorrect` | `[]TypeOK` | |
| `EnsureTableProofs!Invariance`, `RunsOnItsVersion`, `OneCreates` | `[]IInv`, `[]EnsuredIsOfItsVersion`, `[]OneCreator` | |
| `EnsureTableProofs!SettledTable` | `[]SettledHasIndexes` | |
| `EnsureTableProofs!CallsOnlyAdvance` | `[][AllAdvance]_vars`: each request takes a call closer to its end | |
| `EnsureTableProofs!NothingReplaced` | `[][TableStays]_vars`: a table keeps its version and its indexes unless one is deleted | |
| `LocalTableSyncProofs!TypeCorrect`, `Invariance` | `[]TypeOK`, `[]IInv` | |
| `LocalTableSyncProofs!TableIsReadable`, `DoneIsCurrent` | `[]TrustedIsReadable`, `[]SyncedIsCurrent` | |
| `LocalTableSyncProofs!Refinement` | `Spec => ImplementsTable` | |
| `EnsurePathnameProofs!TypeCorrect`, `Invariance` | `[]TypeOK`, `[]IInv` | |
| `EnsurePathnameProofs!CallsOnlyAdvance` | each level of the pathname once | |
| `EnsurePathnameProofs!FolderAtPathname`, `NoDoubles` | `[]FolderIsAtPath`, `[]OneFolderPerPath` | |
| `EnsurePathnameProofs!Refinement` | `Spec => ImplementsPathTree` | |

The assumptions on constants are those of the modules; TLC evaluates them on
every run. `PlanAssumption` of `Deploy` (secrets before helm in every plan, and
an install that creates the release and runs the statements) is what the
profiles of `Catalogue` satisfy. `OneAtATime` says that there is one slot for
requests and that the page of the logs stays open, as in the `sequential` run:
a second install is refused by helm and ends without its release, and a log
that raises ends a plan half way. `ManifestsApart` says that a package applied
as a manifest is alone in its namespace, as that namespace is what its status
looks for. Both properties speak of the time before a first failure or restart
(`faults = 0`); the page of the status may close and open at any time.

Why the invariants are what they are:

- `Deploy`: none of the properties is inductive. That a release has its secrets
  rests on what the request that starts helm has done before. `Sound` says of a
  request, at each place of its plan, what the steps behind it have put in the
  cluster (`SecretsBehind`, `SqlBehind`), that it is at the step its label says
  (`AtItsStep`), and that the answer of `is_installed` it carries is still true
  (`SeenIsReal`). It is kept because secrets and statements are never taken
  away, and a deployed release is only ever upgraded (`StepGrows`). A release
  that appears is then prepared (`HelmIsPrepared`), from which the two
  properties and the refinement follow. `OneWaiter` and `ShownIsReal` have
  their own small induction on top. For `PageIsAnswered` (`PageInv`) a page that
  shows "pending" has a request on that package that is not over, and a page
  that is closed shows nothing: what keeps it, whichever call raises, is that
  every exit of a request goes through `Finally`, and that a request on a
  package whose status can be left unsent (a manifest, an ingress that is
  probed) is told apart.
- `Deploy`, one request: `RequestsAdvance` compares a request with what it was,
  place by place, so `FitInv` says which places belong to which operation (a
  status is read, probed or sent, a request that is over is idle) and that the
  statements that ran are within the list. For `InstallIsComplete`, `CalmInv`
  says what holds until something fails: the page of the logs hears, helm works
  exactly on the package of the request that waits for it, every other release
  of helm is absent or deployed, and an install is before its release or has it.
  For `QuietPageIsRight`, `TruthInv` adds that what a status request has read is
  still so when it sends it, and that of a package no request works on the page
  shows nothing or the truth, which a page that connects in between needs too;
  `PageInv` brings in the package that is pending.
- `DocDbSync`: the progress is told one batch late, so `Backed` also speaks of the
  batch in flight: what has left `posts` is stored. At the end `ChunksCover`, the
  arithmetic of the rounded up division, gives all of the documents. With
  several namespaces the same argument on the union of them (`KeptInv`) bounds
  what finding 2 costs: documents are misplaced, never lost.
- `DocDbSync`, the port: `PortInv` says that only a call that found the port held
  makes its process leave, and that after a call that found it free a process
  holds it or one is starting, until it dies by itself.
- `ClusterSwitch`: while one configuration is switched at a time there is one
  configuration `c` such that everything in flight is of `c`, the shells that
  have run `use-context` have moved kubectl to its context, and it becomes the
  cached one (`Single`, `Moved`). Two loads of one configuration may be in
  flight, and the shell of an earlier one may still run: it moves to the same
  place.
- `EnsureTable`: a service past the creation of the table has its version; the
  one that creates indexes has created only those before the next. DocDb
  refusing a second creation is what makes it the only one.

- `EnsureTable`, `SettledTable`: `LoopInv` says which indexes the creator has
  behind it at each step of its loop, and that a table without its indexes has
  a service on its way to create them, as long as nothing failed and nothing
  was deleted.
- `LocalTableSync`: keys are unique in the file and in every content about to be
  written; a content that is fresh is what the code makes of what the file
  holds (`Computed`), which is what lets its write map to `Put` or `Remove`;
  while a request is `current` no post on its way has another content, so a
  document that has left its posts is in DocDb as the file has it.
- `EnsurePathname`: the folders are a tree of unique ids that hang below one
  another (`TreeSound`); the folder a call is at has the names the call has gone
  through (`CallsSound`), also when it is gone; a single undisturbed call, or a
  single late creation, is about to make what is missing (`AloneSound`). A
  removal keeps a tree because it takes away all that has the folder above it.

Only model-checked: the liveness properties (`RequestsEnd`, `InstallCompletes`,
`SyncEnds`, `SwitchServes`, `EnsureConverges`, `CallsEnd`), as fairness and
`ENABLED` are out of reach of the prover. Their safety halves are proved: each
step of a request, a synchronisation, a table call or a pathname call takes it
further along a way that is bounded (`RequestsOnlyAdvance`, `SyncOnlyAdvances`
and the two `CallsOnlyAdvance`), and an install that ends with nothing failed is
complete (`InstallEnds`); what remains for TLC is that a step that can be taken
is. Every invariant a passing run checks is also a theorem. No
model has a `RECURSIVE` operator; nothing proved needs induction over data.

## 7. What the checks found

1. `routers/kong/router.py:62` tests membership in a coroutine that nobody
   awaits: the install of Kong always ends in an exception, and its namespace
   is never created (`kong`).
2. `routers/docdb/router.py:321` posts to a port that depends on the name `docdb`
   alone: the documents of a synchronisation for one namespace go to the DocDb
   of the namespace whose status was asked last (`sync_namespaces`).
3. `utils/k8s_utils.py:19` reads the current context before the shell that moves
   it has run: after a switch the lists of secrets and namespaces are those of
   the former cluster (`cluster_async`).
4. `docdb.py:227`: a service that stops between its table and its indexes leaves
   a table that is later found "up-to-date" and never gets them
   (`ensure_crash`).

More that the code and the models show without a run of their own:

- `docdb.py:217` refuses the minor update that the comment at line 66 calls
  possible.
- With two switches of configuration that overlap (`Patient = FALSE`) the cache is
  of the one that ends last and the synchronous client of the one that started
  last (`dynamic_configuration.py:275` and `:144`), which is why `TargetsFollow`
  assumes switches one at a time.
- `kill_k8s_proxy` sends SIGTERM and nothing waits for the process to end
  (`utils/k8s_utils.py:92`). `k8s_port_forward` starts kubectl at once (`:113`):
  when the former one still holds the port the new one exits, then the former
  one ends, and nobody serves the port that the log says is forwarded (`:114`).
  Without its conjunct `~overtook`, `PortRecovers` is violated that way: a
  forward, kubectl binds the port, a second forward, the second kubectl exits.
  A third forward repairs it, which is what `PortRecovers` states. A switch
  between two configurations of one proxy port races in the same way
  (`dynamic_configuration.py:132`), though its shell has `use-context` to run first:
  without the condition that the former proxy has left, `SwitchServes` is violated.
- The status of an installed Minio without its ingress raises before it is sent
  (`routers/minio/router.py:84`): the page stays pending, which is why
  `PendingIsInFlight` is about packages with nothing between `is_installed` and
  the send (`IsPlain`).
- `switch` kills the proxy of the cached configuration before `safe_load` looks at
  the file (`dynamic_configuration.py:132`): a file that is refused leaves the
  cached configuration without its proxy until the next load that succeeds.

## 8. What is assumed or left out

External behaviour, taken from how the code uses it:

- helm refuses an operation on a pending release and an install of an existing
  one, `--atomic` purges a failed install, `helm list` hides pending releases.
- A process that is sent SIGTERM ends and frees its port at a time of its own, or
  never, and goes on forwarding until then.
- kubectl exits when its port is taken.
- The current context of kubectl is moved by the server only, and a restart of
  the server takes longer than the shells it had started.
- DocDb refuses to create a keyspace, a table or an index that exists.
- The statements of PostgreSQL need what `StatementNeeds` says.
- The file system: a file opened with mode `'w'` is empty until it is written;
  two processes that have it open write over each other, and the content may be
  of either or torn; a file that was removed while open is not seen again.
- The tree database gives each folder an id of its own, accepts any number of
  folders of one name, refuses to create below a folder that is gone, and may
  handle a creation after its caller has given up.

Left out:

- the contents of values, charts and messages; the text of logs; the read-only
  routes (keyspaces, tables, queries, files, chart rendering, folder contents);
- `sync_local_buckets`, which is commented out in the code;
- the in-memory document client: the operations of `LocalDocDb` on a list of one
  process, with no await in them and nothing written back;
- the storage clients and the caches: one file or one dictionary entry per call;
- the other requests of the tree database client, the HTTP clients: one request
  and its answer each, which nothing in this repository composes;
- the cache of client tokens: one comparison with a deadline, with no step of
  another between the test and the use;
- the authentication middlewares, which keep nothing, and the utilities
  (encodings, logging);
- the helm router and the service configuration (no state that changes), the
  Prometheus router (no endpoint);
- what section 2 lists as left. `Deploy` is about one cluster; switching in the
  middle of an install is not covered.
