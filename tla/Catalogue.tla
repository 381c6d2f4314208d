----------------------------- MODULE Catalogue -----------------------------
(***************************************************************************)
(* The packages youwol-infra deploys, one profile per router.              *)
(*                                                                         *)
(* Every router of youwol_infra/routers has the same shape: a dataclass    *)
(* deriving from HelmPackage or Deployment, a send_status coroutine and    *)
(* the /status, /install and /upgrade endpoints that call install_pack and *)
(* upgrade_pack.  What differs from one router to the next, and that       *)
(* changes the control, is what a profile records:                         *)
(*                                                                         *)
(*   ns       the namespace the release lives in                           *)
(*   secrets  the secrets the package needs in that namespace, as given by *)
(*            gg_infra_config.py                                           *)
(*   install  the steps Package.install runs, in order                     *)
(*   upgrade  the steps Package.upgrade runs; empty when the router has no *)
(*            /upgrade endpoint                                            *)
(*   sql      the statements of postgres_commands                          *)
(*   probe    what send_status does between reading is_installed and       *)
(*            sending: "none", "reads" (kubernetes reads that may find     *)
(*            nothing) or "forward" (k8s_port_forward)                     *)
(*   local    the local port that forward uses, 0 when there is none       *)
(*                                                                         *)
(* Steps: "log" is a Context.info, "namespaces" Kong's own check of its    *)
(* namespace, "secrets" k8s_create_secrets_if_needed ("quiet secrets" when *)
(* no context is given to it, so that it logs nothing), "sql"              *)
(* sql_exec_commands, "helm" the helm command, "manifest" the creation of  *)
(* kubernetes objects from a yaml file.                                    *)
(***************************************************************************)
EXTENDS Naturals, Sequences, TLC

(* HelmPackage.install and .upgrade: the secrets, then the helm command. *)
HelmSteps == <<"secrets", "log", "helm">>

(***************************************************************************)
(* get_port_number: the sum of the character codes of the name, folded in  *)
(* the range 2000..3000.  The sums of the three names the code uses:       *)
(* 'docdb' is 508, 'kong-admin' 997 and 'keycloak_http' 1394.              *)
(***************************************************************************)
PortNumber(codes) == 2000 + (codes % (3000 - 2000))

(* A HelmPackage that overrides nothing. *)
Helm(ns, secrets) ==
    [ns |-> ns, secrets |-> secrets, install |-> HelmSteps,
     upgrade |-> HelmSteps, sql |-> <<>>, probe |-> "none", local |-> 0]

GitlabDocker == {"gitlab-docker"}
Authenticated == {"youwol-auth", "gitlab-docker"}

(* ---- services of namespace prod whose router overrides nothing ---- *)
Storage           == Helm("prod", {"gitlab-docker", "keycloak"})
CDN               == Helm("prod", Authenticated)
TreedbBackend     == Helm("prod", Authenticated)
AssetsBackend     == Helm("prod", Authenticated)
FluxBackend       == Helm("prod", Authenticated)
AssetsGateway     == Helm("prod", Authenticated)
FrontApi          == Helm("prod", GitlabDocker)
WorkspaceExplorer == Helm("prod", GitlabDocker)
FluxBuilder       == Helm("prod", GitlabDocker)
FluxRunner        == Helm("prod", GitlabDocker)
Network           == Helm("prod", GitlabDocker)
NetworkBackend    == Helm("prod", Authenticated)
Stories           == Helm("prod", GitlabDocker)
StoriesBackend    == Helm("prod", Authenticated)
ExhibitionHalls   == Helm("prod", GitlabDocker)
CdnAppsServer     == Helm("prod", Authenticated)

(* ---- third-party charts ---- *)
Scylla == Helm("infra", {})

(* Redis has no /upgrade endpoint. *)
Redis == [Helm("infra", {}) EXCEPT !.upgrade = <<>>]

(* Minio's status reads the ingress and the secret of the release. *)
Minio == [Helm("prod", {}) EXCEPT !.probe = "reads"]

(* The status of docdb forwards its service to a local port. *)
DocDb == [Helm("prod", {"gitlab-docker", "keycloak"})
            EXCEPT !.probe = "forward", !.local = PortNumber(508)]

(* PostgreSQL creates its role and its group once the chart is installed. *)
PostgreSQL ==
    [Helm("infra", {}) EXCEPT
        !.install = HelmSteps \o <<"log", "sql">>,
        !.sql = <<"role youwoluser", "group youwol">>]

(* Keycloak creates its user and database before the chart is installed. *)
Keycloak ==
    [Helm("infra", {}) EXCEPT
        !.install = <<"sql">> \o HelmSteps,
        !.sql = <<"user keycloak", "database keycloak", "grant keycloak">>,
        !.probe = "forward",
        !.local = PortNumber(1394)]

(***************************************************************************)
(* Kong looks for its namespace, creates its secrets and its database, and *)
(* then runs HelmPackage.install; its upgrade creates the secrets twice.   *)
(***************************************************************************)
Kong ==
    [Helm("api-gateway", {"gitlab-docker", "oidc"}) EXCEPT
        !.install = <<"namespaces", "log", "quiet secrets", "log", "sql">>
                    \o HelmSteps,
        !.upgrade = <<"log", "quiet secrets">> \o HelmSteps,
        !.sql = <<"user kong", "database kong", "grant kong">>,
        !.probe = "forward",
        !.local = PortNumber(997)]

(* The dashboard is a manifest: no release, no secret, no upgrade. *)
K8sDashboard ==
    [Helm("kubernetes-dashboard", {}) EXCEPT
        !.install = <<"log", "manifest">>, !.upgrade = <<>>]

(* ---- the statements of the postgres_commands ---- *)

(* What a statement needs to find: CREATE USER names the group to join. *)
StatementNeeds(stmt) ==
    CASE stmt = "group youwol"   -> {"role youwoluser"}
      [] stmt = "user keycloak"  -> {"group youwol"}
      [] stmt = "user kong"      -> {"group youwol"}
      [] stmt = "grant keycloak" -> {"user keycloak", "database keycloak"}
      [] stmt = "grant kong"     -> {"user kong", "database kong"}
      [] OTHER                   -> {}

(* A GRANT can be repeated, a CREATE of what exists is an error. *)
Repeatable(stmt) == stmt \in {"grant keycloak", "grant kong"}

(***************************************************************************)
(* The deployment configuration of gg_infra_config.py, by package name.    *)
(***************************************************************************)
Platform ==
    [k8sDashboard |-> K8sDashboard, postgresql |-> PostgreSQL, api |-> Kong,
     minio |-> Minio, scylla |-> Scylla, redis |-> Redis, auth |-> Keycloak]

Stores == "docdb" :> DocDb @@ "storage" :> Storage @@ "cdn-backend" :> CDN

Backends ==
    "treedb-backend" :> TreedbBackend @@ "assets-backend" :> AssetsBackend
    @@ "flux-backend" :> FluxBackend @@ "assets-gateway" :> AssetsGateway

Frontends ==
    "front-api" :> FrontApi @@ "workspace-explorer" :> WorkspaceExplorer
    @@ "flux-builder" :> FluxBuilder @@ "flux-runner" :> FluxRunner
    @@ "network" :> Network

Extensions ==
    "network-backend" :> NetworkBackend @@ "stories" :> Stories
    @@ "stories-backend" :> StoriesBackend
    @@ "exhibition-halls" :> ExhibitionHalls
    @@ "cdn-apps-server" :> CdnAppsServer

GGConfiguration == Platform @@ Stores @@ Backends @@ Frontends @@ Extensions

(***************************************************************************)
(* tricot_infra_config.py deploys its stores once per namespace: what it   *)
(* lists is a set of packages, each a name and a namespace.                *)
(***************************************************************************)
NamespaceCharts(ns) == {"docdb", "storage", "minio"} \X {ns}

InfraPackages ==
    {<<"k8sDashboard", "kubernetes-dashboard">>, <<"postgresql", "infra">>,
     <<"api", "api-gateway">>, <<"minio", "infra">>, <<"scylla", "infra">>,
     <<"redis", "infra">>}

TricotConfiguration ==
    InfraPackages \cup NamespaceCharts("dev") \cup NamespaceCharts("prod")
    \cup NamespaceCharts("cdn")

NamespacesOf(name) == {p[2] : p \in {q \in TricotConfiguration : q[1] = name}}
=============================================================================
