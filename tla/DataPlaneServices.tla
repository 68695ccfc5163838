------------------------- MODULE DataPlaneServices -------------------------
(***************************************************************************)
(* The data plane with the plan of a deployment selected from what the     *)
(* user has written: spec.services of the node sets, spec.servicesOverride *)
(* of the deployment, and the OpenStackDataPlaneServices themselves.       *)
(***************************************************************************)
EXTENDS DataPlane, ServiceSelection

CONSTANTS
    Listed,     \* spec.services of every node set
    Override    \* spec.servicesOverride of every deployment

ListOf(d, n) == IF Override[d] # <<>> THEN Override[d] ELSE Listed[n]

Selected(d) == DedupeServices([i \in DOMAIN TargetsOf[d] |-> ListOf(d, TargetsOf[d][i])])

\* The map DedupeServices returns: a node set named twice has the later list.
SelectedPlan ==
    [d \in Deployments |-> [n \in NodeSets |->
        LET at == {i \in DOMAIN TargetsOf[d] : TargetsOf[d][i] = n}
        IN IF at = {} THEN <<>>
           ELSE Selected(d).map[CHOOSE i \in at : \A j \in at : j <= i]]]

ASSUME CatalogAssumption ==
    /\ DOMAIN Catalog \subseteq Services
    /\ \A d \in Deployments : ~Selected(d).err
    /\ Plan = SelectedPlan

\* Every service a node set lists exists, so that it can be deployed.
ServicesExist ==
    \A d \in Deployments : \A n \in Targets(d) : ListOf(d, n) \in Seq(DOMAIN Catalog)

\* No deployment names a node set twice: it would be deployed with the services
\* of its second mention, without the global ones of its first.
TargetsOnce ==
    \A d \in Deployments : \A i, j \in DOMAIN TargetsOf[d] :
       TargetsOf[d][i] = TargetsOf[d][j] => i = j

----------------------------------------------------------------------------

Ran(d, n, svc) == job[d][n][svc].state = "succeeded"

\* What a user asks for by listing a service: a deployment that is done has
\* run, on every node set that lists it, exactly one service of its type,
\* unless it is a global one that ran for another node set, although the
\* services are selected again in every reconcile.
ListedServicesRan ==
    \A d \in Deployments : \A n \in Targets(d) :
       dep[d].ready = "True" =>
          \A i \in DOMAIN ListOf(d, n) :
             LET svc == ListOf(d, n)[i]
                 same == {s \in DOMAIN Catalog : Catalog[s].type = Catalog[svc].type}
             IN \/ Cardinality({s \in same : Ran(d, n, s)}) = 1
                \/ Catalog[svc].global /\ \E m \in Targets(d) : Ran(d, m, svc)

\* A service that is deployed on all node sets at once is run for one of the
\* node sets of a deployment and ignored for those that follow.
GlobalOnce ==
    \A d \in Deployments, s \in DOMAIN Catalog :
       Catalog[s].global =>
          Cardinality({n \in NodeSets : job[d][n][s].state # "none"}) <= 1
=============================================================================
