------------------------------ MODULE Cluster ------------------------------
(***************************************************************************)
(* The API objects that the controllers of the OpenStack operator share    *)
(* during a minor update, and the vocabulary the controllers use on them.  *)
(* The controllers never talk to each other: the OpenStackVersion          *)
(* controller and the OpenStackControlPlane controller only read and patch *)
(* these objects, each from a copy that may be out of date when it is used.*)
(*                                                                         *)
(* An image is only ever compared for equality, so ImageOf[s][v], the      *)
(* container image of service s in version v, is all the model keeps of    *)
(* the defaults of a version.                                              *)
(***************************************************************************)
EXTENDS Naturals, Sequences, FiniteSets

CONSTANTS
    Versions,      \* versions the operator can ship: 1, 2, ... in release order
    Services,      \* parts of the control plane the model tells apart
    StagedOrder,   \* services a minor update moves one at a time, in order
    NormalOrder,   \* services in the order reconcileNormal visits them
    Enabled,       \* services enabled in the OpenStackControlPlane spec
    NicMappings,   \* does the OVNController template have any nicMappings?
    NodeSets,      \* OpenStackDataPlaneNodeSets of the namespace
    EmptyNodeSets, \* those of them without nodes
    Images,        \* container images
    ImageOf,       \* the image of a service in a version
    Nil            \* the nil pointer and the empty string

ASSUME VersionsAssumption ==
    /\ Versions \subseteq Nat \ {0}
    /\ 1 \in Versions
    /\ Nil \notin Versions

ASSUME ServicesAssumption ==
    /\ "ovn" \in Services
    /\ Enabled \subseteq Services
    /\ StagedOrder \in Seq(Services)
    /\ NormalOrder \in Seq(Services)
    /\ \A i \in DOMAIN StagedOrder :
          StagedOrder[i] \notin {"ovn", "ovnControlplane", "ovnDataplane", "controlplane", "dataplane"}
    /\ "version" \notin Services
    /\ Nil \notin {"ovn", "update"}

ASSUME ImagesAssumption ==
    /\ ImageOf \in [Services -> [Versions -> Images]]
    /\ Nil \notin Images

ASSUME NodeSetsAssumption ==
    /\ EmptyNodeSets \subseteq NodeSets
    /\ NicMappings \in BOOLEAN

VARIABLES
    env,        \* OPENSTACK_RELEASE_VERSION of the running operator
    ver,        \* the OpenStackVersion
    cp,         \* the status of the OpenStackControlPlane
    svc,        \* the service CRs the control plane owns
    ns,         \* the status of every node set
    dep,        \* the OpenStackDataPlaneDeployments
    verQueue,   \* is the OpenStackVersion in its controller's work queue?
    verView,    \* what the reconcile of it under way has read, or Nil
    cpQueue,    \* is the OpenStackControlPlane in its controller's work queue?
    cpView,     \* the OpenStackVersion its reconcile under way has read, or Nil
    rolledOut,  \* history: the images each service has ever been ready with
    updatedTo,  \* history: the versions finished update deployments recorded
    ovnSeen,    \* history: was an OVN deployment seen running in this update?
    retargets,  \* bound: how often the user has changed targetVersion
    disturbances \* bound: failures, flaps, restarts and edits so far

objects == <<ver, cp, svc, ns, dep>>
history == <<rolledOut, updatedTo, ovnSeen>>
bounds == <<retargets, disturbances>>
vars == <<env, objects, verQueue, verView, cpQueue, cpView, history, bounds>>

----------------------------------------------------------------------------

Staged == {StagedOrder[i] : i \in DOMAIN StagedOrder}

\* The conditions of a minor update, in the order they become True.
PhaseOrder == <<"ovnControlplane", "ovnDataplane">>
                  \o StagedOrder \o <<"controlplane", "dataplane">>

Phases == {"ovnControlplane", "ovnDataplane", "controlplane", "dataplane"} \cup Staged

Earlier == [p \in Phases |->
              {q \in Phases : \E i, j \in DOMAIN PhaseOrder :
                                 i < j /\ PhaseOrder[i] = q /\ PhaseOrder[j] = p}]

\* Status and reason of a condition, as far as the controllers tell them apart.
PhaseStates == {"Absent", "Unknown", "FalseInit", "FalseRequested",
                "FalseError", "True"}

CpConds == Services \cup {"version"}
CpStates == {"Absent", "Unknown", "False", "True"}

\* An OVNController without nicMappings is not deployed at all.
HasWorkload(s) == s # "ovn" \/ NicMappings

\* The sub-conditions of the control plane that exist are all True.
IsReady(c) == c.stage = "up" /\ \A x \in CpConds : c.cond[x] \in {"True", "Absent"}

\* A deployment of kind "ovn" runs a service of EDPMServiceType "ovn", one of
\* kind "update" a service of EDPMServiceType "update".
Kinds == {"ovn", "update"}

\* Every OVN deployment that is not Deployed counts, also one that has failed.
OvnDeploymentRunning ==
    /\ dep.active = "ovn" \/ "ovn" \in dep.failed
    /\ NodeSets # EmptyNodeSets

VersionRec == [stage : {"absent", "new", "up"}, target : Versions \cup {Nil},
               deployed : Versions \cup {Nil}, known : SUBSET Versions,
               images : Versions \cup {Nil}, init : BOOLEAN,
               cond : [Phases -> PhaseStates]]

ControlPlaneRec == [stage : {"absent", "new", "up"},
                    deployed : Versions \cup {Nil},
                    ovnVersion : Versions \cup {Nil},
                    images : [Services -> Images \cup {Nil}],
                    cond : [CpConds -> CpStates]]

ServiceRec == [image : Images \cup {Nil}, observed : BOOLEAN, ready : BOOLEAN]

NodeSetRec == [ovn : Images \cup {Nil}, version : Versions \cup {Nil},
               ready : BOOLEAN, current : BOOLEAN]

\* What the finished deployments that carry the present ConfigHash of a node
\* set have recorded: the image of the last OVN deployment, the version of the
\* last update deployment.
ResultRec == [done : BOOLEAN, ovn : Images \cup {Nil}, version : Versions \cup {Nil}]

\* The deployment under way, the kinds of the failed deployments that have not
\* been deleted, whether the latest deployment is one of these, the kinds the
\* user has created for the present target, and the finished deployments.
DeploymentsRec == [active : Kinds \cup {Nil}, failed : SUBSET Kinds,
                   latestFailed : BOOLEAN, made : SUBSET Kinds,
                   result : [NodeSets -> ResultRec]]

VersionViewRec == [target : Versions, cp : ControlPlaneRec,
                   ns : [NodeSets -> NodeSetRec]]

\* Every object has its type; a queue entry is a Boolean.
TypeOK ==
    /\ env \in Versions
    /\ ver \in VersionRec
    /\ cp \in ControlPlaneRec
    /\ svc \in [Services -> ServiceRec]
    /\ ns \in [NodeSets -> NodeSetRec]
    /\ dep \in DeploymentsRec
    /\ verQueue \in BOOLEAN
    /\ verView = Nil \/ verView \in VersionViewRec
    /\ cpQueue \in BOOLEAN
    /\ cpView = Nil \/ cpView \in VersionRec
    /\ rolledOut \in [Services -> SUBSET Images]
    /\ updatedTo \subseteq Versions
    /\ ovnSeen \in BOOLEAN
    /\ retargets \in Nat
    /\ disturbances \in Nat
=============================================================================
