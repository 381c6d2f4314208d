------------------------------ MODULE MCDeploy ------------------------------
(***************************************************************************)
(* Deploy on packages of the configuration of gg_infra_config.py: each     *)
(* group below is what the user of one run installs.                       *)
(***************************************************************************)
EXTENDS Catalogue, Deploy

OneService == "cdn-backend" :> CDN
Databases  == "postgresql" :> PostgreSQL @@ "auth" :> Keycloak
Sequential == Databases @@ "k8sDashboard" :> K8sDashboard
              @@ "api" :> Kong
Mixed      == "redis" :> Redis @@ "k8sDashboard" :> K8sDashboard
Gateway    == "api" :> Kong @@ "redis" :> Redis

ASSUME GroupsAreConfigured ==
    \A group \in {OneService, Databases, Sequential, Mixed, Gateway} :
        \A name \in DOMAIN group : group[name] = GGConfiguration[name]

(* What Deploy assumes of a group is so of the whole configuration. *)
ASSUME ConfigurationIsPlanned ==
    /\ \A name \in DOMAIN GGConfiguration :
           Planned(GGConfiguration[name]) /\ Installs(GGConfiguration[name])
    /\ ManifestsApart(GGConfiguration)

Names(profiles) == DOMAIN profiles
OneServiceNames == Names(OneService)
SequentialNames == Names(Sequential)
MixedNames      == Names(Mixed)
GatewayNames    == Names(Gateway)

MCNs == {"prod", "infra", "api-gateway", "kubernetes-dashboard"}
MCSecret == {"gitlab-docker", "youwol-auth", "keycloak", "oidc"}
MCStmt == {"role youwoluser", "group youwol", "user keycloak",
           "database keycloak", "grant keycloak",
           "user kong", "database kong", "grant kong"}
MCStmtNeeds == [stmt \in MCStmt |-> StatementNeeds(stmt)]
MCRepeats == {stmt \in MCStmt : Repeatable(stmt)}

NoNamespace == {}
Prod == {"prod"}

Symmetry == Permutations(Task) \cup Permutations(Sock)
=============================================================================
