---------------------------- MODULE MinorUpdate ----------------------------
(***************************************************************************)
(* A minor update from end to end: the two controllers, the operator that  *)
(* is upgraded under them, the service operators, the data plane, and the  *)
(* user, who changes targetVersion and creates the deployments.            *)
(*                                                                         *)
(* The procedure the code implements, for an update from v to w:           *)
(*   1. OVN on the control plane moves to w;                               *)
(*   2. the user deploys OVN of w on the data plane;                       *)
(*   3. RabbitMQ, MariaDB, Memcached and Keystone move to w, in order;     *)
(*   4. the rest of the control plane moves to w;                          *)
(*   5. the user deploys the update on the data plane.                     *)
(***************************************************************************)
EXTENDS VersionController, ControlPlaneController

CONSTANTS
    MaxRetargets,      \* bound on changes of targetVersion
    WaitsForDeployed,  \* does the user let an update finish before the next?
    FollowsProcedure   \* does the user wait for the documented conditions?

ASSUME BoundsAssumption == MaxRetargets \in Nat /\ MaxDisturbances \in Nat

ASSUME UserAssumption == WaitsForDeployed \in BOOLEAN /\ FollowsProcedure \in BOOLEAN

\* No finished deployment carries the ConfigHash of the node set.
NoResult == [done |-> FALSE, ovn |-> Nil, version |-> Nil]

\* Nothing has been created yet.
Init ==
    /\ env = 1
    /\ ver = [stage |-> "absent", target |-> Nil, deployed |-> Nil, known |-> {},
              images |-> Nil, init |-> FALSE, cond |-> [p \in Phases |-> "Absent"]]
    /\ cp = [stage |-> "absent", deployed |-> Nil, ovnVersion |-> Nil,
             images |-> [s \in Services |-> Nil],
             cond |-> [c \in CpConds |-> "Absent"]]
    /\ svc = [s \in Services |-> [image |-> Nil, observed |-> FALSE, ready |-> FALSE]]
    /\ ns = [n \in NodeSets |->
               [ovn |-> Nil, version |-> Nil, ready |-> FALSE, current |-> TRUE]]
    /\ dep = [active |-> Nil, failed |-> {}, latestFailed |-> FALSE, made |-> {},
              result |-> [n \in NodeSets |-> NoResult]]
    /\ verQueue = FALSE /\ verView = Nil
    /\ cpQueue = FALSE /\ cpView = Nil
    /\ rolledOut = [s \in Services |-> {}]
    /\ updatedTo = {} /\ ovnSeen = FALSE
    /\ retargets = 0 /\ disturbances = 0

\* A service that is deployed at all runs the image of version 1.
DeployedImage(s) == IF s \in Enabled THEN ImageOf[s][1] ELSE Nil

DeployedCond(c) ==
    IF c \in Enabled \cup {"version", "rabbitmq", "memcached"} THEN "True" ELSE "Absent"

\* Version 1 has been deployed, and nothing is left to do: where the greenfield
\* deployment that starts from Init comes to rest.
DeployedInit ==
    /\ env = 1
    /\ ver = [stage |-> "up", target |-> 1, deployed |-> 1, known |-> {1},
              images |-> 1, init |-> TRUE, cond |-> [p \in Phases |-> "Absent"]]
    /\ cp = [stage |-> "up", deployed |-> 1, ovnVersion |-> Nil,
             images |-> [s \in Services |-> DeployedImage(s)],
             cond |-> [c \in CpConds |-> DeployedCond(c)]]
    /\ svc = [s \in Services |->
                IF s \in Enabled /\ HasWorkload(s)
                THEN [image |-> ImageOf[s][1], observed |-> TRUE, ready |-> TRUE]
                ELSE [image |-> Nil, observed |-> FALSE, ready |-> FALSE]]
    /\ ns = [n \in NodeSets |-> [ovn |-> ImageOf["ovn"][1], version |-> Nil,
                                 ready |-> TRUE, current |-> TRUE]]
    /\ dep = [active |-> Nil, failed |-> {}, latestFailed |-> FALSE,
              made |-> IF NodeSets # {} THEN {"ovn"} ELSE {},
              result |-> [n \in NodeSets |->
                 [done |-> TRUE, ovn |-> ImageOf["ovn"][1], version |-> Nil]]]
    /\ verQueue = FALSE /\ verView = Nil
    /\ cpQueue = FALSE /\ cpView = Nil
    /\ rolledOut = [s \in Services |->
                      IF s \in Enabled /\ HasWorkload(s) THEN {ImageOf[s][1]} ELSE {}]
    /\ updatedTo = {} /\ ovnSeen = FALSE
    /\ retargets = 0 /\ disturbances = 0

----------------------------------------------------------------------------
(* The user and the administrator of the cluster.                          *)

CreateControlPlane ==
    /\ cp.stage = "absent"
    /\ cp' = [cp EXCEPT !.stage = "new"]
    /\ cpQueue' = TRUE
    /\ verQueue' = (ver.stage # "absent")
    /\ UNCHANGED <<env, ver, svc, ns, dep, verView, cpView, history, bounds>>

\* Default and ValidateCreate: the only instance, at the available version.
CreateVersion ==
    /\ ver.stage = "absent"
    /\ ver' = NewVersion(env)
    /\ verQueue' = TRUE
    /\ cpQueue' = (cp.stage # "absent")
    /\ UNCHANGED <<env, cp, svc, ns, dep, verView, cpView, history, bounds>>

\* ValidateUpdate: the available version or one whose defaults are known.
ValidTarget(v) == v \in ver.known \cup {env}

Retarget(v) ==
    /\ retargets < MaxRetargets
    /\ ver.stage # "absent"
    /\ v # ver.target
    /\ ValidTarget(v)
    /\ WaitsForDeployed => ver.deployed = ver.target
    /\ ver' = [ver EXCEPT !.target = v]
    /\ dep' = [dep EXCEPT !.made = {}]
    /\ retargets' = retargets + 1
    /\ ovnSeen' = FALSE
    /\ verQueue' = TRUE
    /\ cpQueue' = (cp.stage # "absent")
    /\ UNCHANGED <<env, cp, svc, ns, verView, cpView, rolledOut, updatedTo,
                   disturbances>>

\* A new release of the operator starts, with its own release version; both
\* controllers start over and reconcile every object.
UpgradeOperator(v) ==
    /\ v > env
    /\ env' = v
    /\ verView' = Nil /\ cpView' = Nil
    /\ verQueue' = (ver.stage # "absent")
    /\ cpQueue' = (cp.stage # "absent")
    /\ UNCHANGED <<objects, history, bounds>>

----------------------------------------------------------------------------
(* The service operators (external).                                       *)

\* A service operator takes up the new generation of its CR.
ServiceObserve(s) ==
    /\ svc[s].image # Nil
    /\ ~svc[s].observed
    /\ svc' = [svc EXCEPT ![s].observed = TRUE, ![s].ready = FALSE]
    /\ cpQueue' = TRUE
    /\ UNCHANGED <<env, ver, cp, ns, dep, verQueue, verView, cpView, history, bounds>>

\* The service has been rolled out with the image of its CR.
ServiceReady(s) ==
    /\ svc[s].observed
    /\ ~svc[s].ready
    /\ svc' = [svc EXCEPT ![s].ready = TRUE]
    /\ rolledOut' = [rolledOut EXCEPT ![s] = @ \cup {svc[s].image}]
    /\ cpQueue' = TRUE
    /\ UNCHANGED <<env, ver, cp, ns, dep, verQueue, verView, cpView, updatedTo,
                   ovnSeen, bounds>>

\* A running service loses its readiness for a while.
ServiceFlap(s) ==
    /\ disturbances < MaxDisturbances
    /\ svc[s].observed
    /\ svc[s].ready
    /\ svc' = [svc EXCEPT ![s].ready = FALSE]
    /\ disturbances' = disturbances + 1
    /\ cpQueue' = TRUE
    /\ UNCHANGED <<env, ver, cp, ns, dep, verQueue, verView, cpView, history, retargets>>

----------------------------------------------------------------------------
(* The data plane: deployments that the user creates, and the node sets    *)
(* that take over what the finished deployments recorded. A deployment     *)
(* covers every node set and finishes for all of them at once.             *)

\* The hash recorded by a deployment is no longer that of an edited node set.
MatchingResult(n) == IF ns[n].current THEN dep.result[n] ELSE NoResult

\* The status after checkDeployment, which visits the deployments from the
\* oldest to the latest; the latest decides whether the node set is ready.
NodeSetStatus(n) ==
    LET r == MatchingResult(n)
    IN [ovn     |-> IF r.ovn # Nil THEN r.ovn ELSE ns[n].ovn,
        version |-> IF r.version # Nil THEN r.version ELSE ns[n].version,
        ready   |-> r.done /\ dep.active = Nil /\ ~dep.latestFailed,
        current |-> TRUE]

NodeSetReconcile(n) ==
    /\ ns[n] # NodeSetStatus(n)
    /\ ns' = [ns EXCEPT ![n] = NodeSetStatus(n)]
    /\ dep' = [dep EXCEPT !.result[n] = MatchingResult(n)]
    /\ verQueue' = (ver.stage # "absent")
    /\ UNCHANGED <<env, ver, cp, svc, verView, cpQueue, cpView, history, bounds>>

\* A finished deployment did not bring a node set to the target, for instance
\* because the node set was edited while it ran.
LeftBehind(kind) ==
    \E n \in NodeSets \ EmptyNodeSets :
        /\ ns[n] = NodeSetStatus(n)
        /\ \/ kind = "ovn" /\ ns[n].ovn # ImageOf["ovn"][ver.images]
           \/ kind = "update" /\ (ns[n].version # ver.target \/ ~ns[n].ready)

\* The documented moment for each deployment of an update: OVN after
\* MinorUpdateOVNControlplane, the update after MinorUpdateControlplane. A
\* deployment is repeated only when it left a node set behind.
ProcedureAllows(kind) ==
    LET updating == ver.deployed # Nil /\ ver.target # ver.deployed
    IN /\ kind \in dep.made => LeftBehind(kind)
       /\ \/ kind = "ovn" /\ ~updating /\ \E n \in NodeSets : ns[n].ovn = Nil
          \/ kind = "ovn" /\ updating /\ ver.cond["ovnControlplane"] = "True"
          \/ kind = "update" /\ updating /\ ver.cond["controlplane"] = "True"

CreateDeployment(kind) ==
    /\ dep.active = Nil
    /\ ver.init
    /\ NodeSets # {}
    /\ \/ /\ ProcedureAllows(kind)
          /\ UNCHANGED disturbances
       \/ /\ ~FollowsProcedure
          /\ ~ProcedureAllows(kind)
          /\ disturbances < MaxDisturbances
          /\ disturbances' = disturbances + 1
    /\ dep' = [dep EXCEPT !.active = kind, !.latestFailed = FALSE, !.made = @ \cup {kind}]
    /\ UNCHANGED <<env, ver, cp, svc, ns, verQueue, verView, cpQueue, cpView,
                   history, retargets>>

\* The deployment records what the OpenStackVersion says when it finishes.
FinishDeployment ==
    /\ dep.active # Nil
    /\ dep' = [dep EXCEPT
                 !.active = Nil,
                 !.result = [n \in NodeSets |->
                    [done    |-> TRUE,
                     ovn     |-> IF dep.active = "ovn" THEN ImageOf["ovn"][ver.images]
                                 ELSE dep.result[n].ovn,
                     version |-> IF dep.active = "update" THEN ver.target
                                 ELSE dep.result[n].version]]]
    /\ updatedTo' = IF dep.active = "update" THEN updatedTo \cup {ver.target}
                    ELSE updatedTo
    /\ UNCHANGED <<env, ver, cp, svc, ns, verQueue, verView, cpQueue, cpView,
                   rolledOut, ovnSeen, bounds>>

\* A deployment whose job exhausts its retries never becomes Deployed.
FailDeployment ==
    /\ disturbances < MaxDisturbances
    /\ dep.active # Nil
    /\ dep' = [dep EXCEPT !.active = Nil, !.failed = @ \cup {dep.active},
                          !.latestFailed = TRUE, !.made = @ \ {dep.active}]
    /\ disturbances' = disturbances + 1
    /\ UNCHANGED <<env, ver, cp, svc, ns, verQueue, verView, cpQueue, cpView,
                   history, retargets>>

\* The user removes the failed deployments.
DeleteFailedDeployments ==
    /\ dep.failed # {}
    /\ dep' = [dep EXCEPT !.failed = {}, !.latestFailed = FALSE]
    /\ UNCHANGED <<env, ver, cp, svc, ns, verQueue, verView, cpQueue, cpView,
                   history, bounds>>

\* The user edits a node set; its controller has not seen the edit yet.
EditNodeSet(n) ==
    /\ disturbances < MaxDisturbances
    /\ ns[n].current
    /\ ns' = [ns EXCEPT ![n].current = FALSE]
    /\ disturbances' = disturbances + 1
    /\ verQueue' = (ver.stage # "absent")
    /\ UNCHANGED <<env, ver, cp, svc, dep, verView, cpQueue, cpView, history, retargets>>

----------------------------------------------------------------------------

Controllers == VersionRead \/ VersionReconcile \/ ControlPlaneRead \/ ControlPlaneStep

User ==
    \/ CreateControlPlane
    \/ CreateVersion
    \/ \E v \in Versions : Retarget(v) \/ UpgradeOperator(v)
    \/ \E kind \in Kinds : CreateDeployment(kind)
    \/ DeleteFailedDeployments
    \/ \E n \in NodeSets : EditNodeSet(n)

Environment ==
    \/ \E s \in Services : ServiceObserve(s) \/ ServiceReady(s) \/ ServiceFlap(s)
    \/ \E n \in NodeSets : NodeSetReconcile(n)
    \/ FinishDeployment
    \/ FailDeployment

Next == Controllers \/ User \/ Environment

Spec == Init /\ [][Next]_vars

DeployedSpec == DeployedInit /\ [][Next]_vars

\* Every queued reconcile runs and every running one ends; the service
\* operators and the data plane finish what they are given; the user takes the
\* steps of the procedure. Nobody has to change the target, fail or flap.
Fairness ==
    /\ WF_vars(VersionRead) /\ WF_vars(VersionReconcile)
    /\ WF_vars(ControlPlaneRead) /\ WF_vars(ControlPlaneStep)
    /\ \A s \in Services : WF_vars(ServiceObserve(s)) /\ WF_vars(ServiceReady(s))
    /\ \A n \in NodeSets : WF_vars(NodeSetReconcile(n))
    /\ WF_vars(FinishDeployment)
    /\ WF_vars(DeleteFailedDeployments)
    /\ \A kind \in Kinds : WF_vars(CreateDeployment(kind))

FairSpec == Spec /\ Fairness

FairDeployedSpec == DeployedSpec /\ Fairness

----------------------------------------------------------------------------
(* Properties of every user.                                               *)

\* An image that the control plane records in status.containerImages has been
\* rolled out by the operator of its service: a status that the service operator
\* wrote for an earlier generation of the CR is never mistaken for the new one.
RecordedWasRolledOut ==
    \A s \in Services :
        HasWorkload(s) /\ cp.images[s] # Nil => cp.images[s] \in rolledOut[s]

AtVersion(v) ==
    /\ \A s \in Enabled : HasWorkload(s) => ImageOf[s][v] \in rolledOut[s]
    /\ NodeSets # EmptyNodeSets => v \in updatedTo

\* However the user retargets meanwhile and however old the copies are that the
\* controllers work on, status.deployedVersion moves on to a version only after
\* every service has been rolled out with its images and, if there are nodes, an
\* update deployment has finished for it.
CompletionSound ==
    [][ver'.deployed # ver.deployed /\ ver.deployed # Nil => AtVersion(ver'.deployed)]_vars

\* The first deployedVersion is set only after every service has been rolled out
\* with the images of that version.
FirstDeploymentSound ==
    [][ver'.deployed # ver.deployed /\ ver.deployed = Nil =>
          \A s \in Enabled : HasWorkload(s) => ImageOf[s][ver'.deployed] \in rolledOut[s]]_vars

\* A control plane that is created is deployed: neither controller waits for
\* the other for ever. Undisturbed, it comes to rest in the state from which
\* updates start: recorded images, conditions, node sets. (An upgrade of the
\* operator in the meantime may leave a target that no longer has defaults.)
GreenfieldReachesDeployed ==
    cp.stage # "absent" ~>
        \/ DeployedInit
        \/ ver.deployed # Nil /\ disturbances > 0
        \/ env # 1

----------------------------------------------------------------------------
(* Properties of an update whose user follows the documented procedure.    *)

\* A pass moves service s to another image: the one of the version whose images
\* it has read, cpView.images.
Moves(s) == svc[s].image # Nil /\ svc'[s].image # svc[s].image

OvnOnNodes(v) ==
    \A n \in NodeSets \ EmptyNodeSets : ns[n].ovn \in {Nil, ImageOf["ovn"][v]}

\* No service of the control plane other than OVN is moved to a version before
\* OVN has been, on the control plane and then on the nodes: what the two OVN
\* phases of a minor update are for.
OvnBeforeServices ==
    [][\A s \in Services \ {"ovn"} :
          Moves(s) /\ "ovn" \in Enabled =>
             /\ OvnOnNodes(cpView.images)
             /\ NicMappings => ImageOf["ovn"][cpView.images] \in rolledOut["ovn"]]_vars

\* The staged services are moved one at a time, each after the ones before it
\* have been rolled out, and the rest of the control plane after all of them.
StagedInOrder ==
    [][\A s \in Services \ {"ovn"}, i \in DOMAIN StagedOrder :
          /\ Moves(s)
          /\ \A j \in 1..i : StagedOrder[j] # s
          /\ StagedOrder[i] \in Enabled
          => ImageOf[StagedOrder[i]][cpView.images] \in rolledOut[StagedOrder[i]]]_vars

\* The nodes get an OVN image only after the control plane has it.
OvnControlPlaneFirst ==
    "ovn" \in Enabled /\ NicMappings =>
        \A n \in NodeSets : ns[n].ovn # Nil => ns[n].ovn \in rolledOut["ovn"]

\* When an update is declared complete, every service CR asks for the image of
\* the target and no node runs another version, or another OVN if it is enabled.
CompletionCurrent ==
    [][LET v == ver'.deployed
       IN v # ver.deployed /\ ver.deployed # Nil =>
             /\ \A s \in Enabled : HasWorkload(s) => svc[s].image = ImageOf[s][v]
             /\ "ovn" \in Enabled => OvnOnNodes(v)
             /\ \A n \in NodeSets \ EmptyNodeSets : ns[n].version = v]_vars

\* An update that is started is completed.
UpdateCompletes == ver.deployed # ver.target ~> ver.deployed = ver.target

\* After the OVN deployment of this update has been seen to run and has ended,
\* the control plane goes on to the target by itself.
ProceedsAfterOvn ==
    ovnSeen /\ ~OvnDeploymentRunning ~> cp.deployed = ver.target
=============================================================================
