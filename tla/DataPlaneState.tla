--------------------------- MODULE DataPlaneState ---------------------------
(***************************************************************************)
(* The objects of the data plane: the OpenStackDataPlaneNodeSets, the      *)
(* OpenStackDataPlaneDeployments, the Ansible jobs the deployments own and *)
(* the inventory secrets the jobs mount. Two controllers, each with one    *)
(* worker, read and patch them; neither locks anything.                    *)
(*                                                                         *)
(* The spec of a node set is its generation g; HashOf[g] is the hash of    *)
(* that spec, so a HashOf that is not injective is a user who goes back to *)
(* an earlier spec.                                                        *)
(***************************************************************************)
EXTENDS Naturals, Sequences, FiniteSets

CONSTANTS
    NodeSets,           \* the OpenStackDataPlaneNodeSets
    Deployments,        \* the OpenStackDataPlaneDeployments the user may create
    Services,           \* the OpenStackDataPlaneServices
    TargetsOf,          \* spec.nodeSets of every deployment, in order
    Plan,               \* the services a deployment runs on a node set
    UpdateDeployments,  \* those with a service of type update(-services)
    Deletable,          \* the deployments the user may delete
    VarsFrom,           \* the node sets with an ansibleVarsFrom config map
    Hashes,             \* hashes of node set specs
    HashOf,             \* the hash of the spec of a generation
    MaxGeneration,      \* bound: edits of a node set
    MaxData,            \* bound: edits of the config map of a node set
    MaxVersion,         \* bound: the last version the user targets
    MaxFaults,          \* bound: failures, retries and restarts
    MaxWakes,           \* bound: reconciles that no modelled change asks for
    Patient,            \* does the user wait until the operator has settled?
    Nil                 \* the nil pointer, the empty string, the missing key

Targets(d) == {TargetsOf[d][i] : i \in DOMAIN TargetsOf[d]}

ASSUME DeploymentsAssumption ==
    /\ IsFiniteSet(Deployments)
    /\ TargetsOf \in [Deployments -> Seq(NodeSets)]
    /\ Plan \in [Deployments -> [NodeSets -> Seq(Services)]]
    /\ UpdateDeployments \subseteq Deployments
    /\ Deletable \subseteq Deployments
    /\ VarsFrom \subseteq NodeSets

ASSUME BoundsAssumption ==
    /\ MaxGeneration \in Nat /\ MaxData \in Nat /\ MaxVersion \in Nat
    /\ MaxFaults \in Nat /\ MaxWakes \in Nat
    /\ Patient \in BOOLEAN
    /\ HashOf \in [0 .. MaxGeneration -> Hashes]

ASSUME NilAssumption ==
    /\ Nil \notin Hashes
    /\ Nil \notin Nat
    /\ Nil \notin [hash : Hashes, data : Nat, version : Nat]
    /\ Nil \notin {"Unknown", "Running", "Error", "Backoff", "True"}

VARIABLES
    gen,        \* metadata.generation of every node set
    data,       \* content of the config map of every node set
    target,     \* spec.targetVersion of the OpenStackVersion
    nss,        \* the status of every node set
    inventory,  \* the inventory secret of every node set
    dep,        \* the deployments
    older,      \* older[d]: those whose DeploymentReady changed before d's
    job,        \* the Ansible job of every deployment, node set and service
    nsQueue,    \* node sets an event has put into the work queue
    nsRetry,    \* node sets that are retried after the error backoff
    nsView,     \* the reconcile of a node set under way, or Nil
    depQueue,   \* deployments an event has put into the work queue
    depView,    \* the reconcile of a deployment under way, or Nil
    faults,     \* bound: failures, retries and restarts so far
    wakes       \* bound: reconciles nothing in the model has asked for

inputs == <<gen, data, target>>
bounds == <<faults, wakes>>
vars == <<inputs, nss, inventory, dep, older, job, nsQueue, nsRetry,
          nsView, depQueue, depView, bounds>>

----------------------------------------------------------------------------

\* A condition with its severity and reason, as far as anybody reads them:
\* False/Requested, False/Error, False/Error for BackoffLimitExceeded.
Conds == {"Unknown", "Running", "Error", "Backoff", "True"}

\* What an inventory says: the spec, the variables taken from the config map
\* and the container images of the version.
Inputs == [hash : Hashes, data : Nat, version : Nat]

Generations == 0 .. MaxGeneration

JobStates == {"none", "pending", "running", "succeeded", "failing", "failed"}

JobRec == [state : JobStates, inv : Inputs \cup {Nil}]

\* hash is ConfigHash; observed is ObservedGeneration.
NodeSetRec == [setup : BOOLEAN, ready : BOOLEAN, observed : Generations \cup {Nil},
               hash : Hashes \cup {Nil}, deployedHash : Hashes \cup {Nil},
               version : Nat \cup {Nil},
               statuses : [Deployments -> Conds \cup {Nil}]]

\* ready is DeploymentReady; Status.Deployed is set exactly when it is True.
DeploymentRec == [stage : {"absent", "live", "deleted"},
                  ready : Conds \cup {Nil},
                  cond : [NodeSets -> Conds \cup {Nil}],
                  hash : [NodeSets -> Hashes \cup {Nil}],
                  data : [NodeSets -> Nat \cup {Nil}],
                  version : Nat \cup {Nil}]

NodeSetViewRec == [ns : NodeSets, step : {"read", "checked", "written"},
                   gen : Generations, version : Nat,
                   running : BOOLEAN, failed : BOOLEAN, status : NodeSetRec]

DeploymentViewRec == [dep : Deployments, step : {"read", "ran"},
                      setup : SUBSET NodeSets,
                      hash : [NodeSets -> Hashes \cup {Nil}],
                      status : DeploymentRec, again : BOOLEAN]

ASSUME ViewsAssumption == Nil \notin NodeSetViewRec \cup DeploymentViewRec

\* Every object has its type.
TypeOK ==
    /\ gen \in [NodeSets -> Generations]
    /\ data \in [NodeSets -> Nat]
    /\ target \in Nat
    /\ nss \in [NodeSets -> NodeSetRec]
    /\ inventory \in [NodeSets -> Inputs \cup {Nil}]
    /\ dep \in [Deployments -> DeploymentRec]
    /\ older \in [Deployments -> SUBSET Deployments]
    /\ job \in [Deployments -> [NodeSets -> [Services -> JobRec]]]
    /\ nsQueue \subseteq NodeSets
    /\ nsRetry \subseteq NodeSets
    /\ nsView = Nil \/ nsView \in NodeSetViewRec
    /\ depQueue \subseteq Deployments
    /\ depView = Nil \/ depView \in DeploymentViewRec
    /\ faults \in Nat
    /\ wakes \in Nat

----------------------------------------------------------------------------

Live(d) == dep[d].stage = "live"

\* The deployment has done all it will ever do.
Finished(d) == dep[d].ready \in {"True", "Backoff"}

JobOf(d, n, i) == job[d][n][Plan[d][n][i]]

Succeeded(d, n, i) == JobOf(d, n, i).state = "succeeded"

\* Every service the deployment has for the node set has run.
DeployedOn(d, n) == \A i \in DOMAIN Plan[d][n] : Succeeded(d, n, i)

\* A failure the bound still allows.
Fault == faults < MaxFaults /\ faults' = faults + 1

\* Neither controller has anything to do but to wait for a retry.
Idle == nsQueue = {} /\ depQueue = {} /\ nsView = Nil /\ depView = Nil
=============================================================================
