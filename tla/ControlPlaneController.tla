----------------------- MODULE ControlPlaneController -----------------------
(***************************************************************************)
(* The OpenStackControlPlane controller, as far as it depends on the       *)
(* OpenStackVersion. A reconcile reads the version (ControlPlaneRead),     *)
(* then patches the service CRs one after the other with the images it     *)
(* read and finally its own status. Which CRs it visits is its Plan: all   *)
(* of them when there is no update, and during one only those up to the    *)
(* first service the version does not yet report as updated.               *)
(***************************************************************************)
EXTENDS Cluster

CONSTANT MaxDisturbances   \* bound on failures, flaps, restarts and edits

\* Work item taken from the queue; the OpenStackVersion is read.
ControlPlaneRead ==
    /\ cpQueue
    /\ cpView = Nil
    /\ cp.stage # "absent"
    /\ cpQueue' = FALSE
    /\ cpView' = ver
    /\ UNCHANGED <<env, objects, verQueue, verView, history, bounds>>

\* InitConditions: Unknown for every enabled service, others keep their value.
InitCond(c) == IF c \in Enabled \cup {"version"} THEN "Unknown" ELSE cp.cond[c]

\* The deferred PatchInstance, and the events the writes of a reconcile cause:
\* both controllers watch the control plane, this one watches the service CRs.
PatchControlPlane(new, newSvc, requeue) ==
    /\ cp' = new
    /\ svc' = newSvc
    /\ cpView' = Nil
    /\ cpQueue' = (cpQueue \/ requeue \/ new # cp \/ newSvc # svc)
    /\ UNCHANGED <<env, ns, dep, verView, history, retargets>>

\* The first reconcile of a new object only registers the conditions.
ControlPlaneAdopt ==
    /\ cpView # Nil
    /\ cp.stage = "new"
    /\ PatchControlPlane([cp EXCEPT !.stage = "up",
                                    !.cond = [c \in CpConds |-> InitCond(c)]],
                         svc, FALSE)
    /\ verQueue' = TRUE
    /\ UNCHANGED <<ver, disturbances>>

\* Mutant: the webhook does not fill in the target.
NewVersionUndefaulted(v) == [ver EXCEPT !.stage = "new"]

NewVersion(v) == [ver EXCEPT !.stage = "new", !.target = v]

\* ReconcileVersion creates the OpenStackVersion when there is none; without
\* an initialized version there are no images to go on with.
ControlPlaneAwaitVersion ==
    /\ cpView # Nil
    /\ cp.stage = "up"
    /\ ~cpView.init
    /\ LET new == [cp EXCEPT !.cond = [c \in CpConds |->
                      IF c = "version" THEN "False" ELSE InitCond(c)]]
       IN PatchControlPlane(new, svc, ver.stage = "absent")
    /\ ver' = IF ver.stage = "absent" THEN NewVersion(env) ELSE ver
    /\ verQueue' = TRUE
    /\ UNCHANGED disturbances

----------------------------------------------------------------------------

\* Greenfield deployment, or no minor update in progress.
NormalPass == cp.deployed = Nil \/ cpView.target = cp.deployed

OvnPhaseDone == cpView.cond["ovnControlplane"] = "True"

\* Mutant: goes one service further.
StagedPlanOneAhead ==
    LET waiting == {i \in DOMAIN StagedOrder : cpView.cond[StagedOrder[i]] # "True"}
    IN IF waiting = {} THEN StagedOrder \o NormalOrder
       ELSE SubSeq(StagedOrder \o NormalOrder, 1,
                   1 + CHOOSE i \in waiting : \A j \in waiting : i <= j)

\* The staged services up to the first the version has not acknowledged.
StagedPlan ==
    LET waiting == {i \in DOMAIN StagedOrder : cpView.cond[StagedOrder[i]] # "True"}
    IN IF waiting = {} THEN StagedOrder \o NormalOrder
       ELSE SubSeq(StagedOrder, 1,
                   CHOOSE i \in waiting : \A j \in waiting : i <= j)

\* Mutant: does not wait for OVN on the data plane.
PlanWithoutDataplane ==
    IF NormalPass THEN NormalOrder
    ELSE IF ~OvnPhaseDone THEN <<"ovn">>
    ELSE StagedPlan

\* The service reconcilers this pass calls, in order.
Plan ==
    IF NormalPass THEN NormalOrder
    ELSE IF ~OvnPhaseDone THEN <<"ovn">>
    ELSE IF cpView.cond["ovnDataplane"] # "True" THEN <<>>
    ELSE StagedPlan

\* Does a pass that gets to the end of its plan include all of reconcileNormal?
FullPass ==
    \/ NormalPass
    \/ /\ OvnPhaseDone
       /\ cpView.cond["ovnDataplane"] = "True"
       /\ \A s \in Staged : cpView.cond[s] = "True"

VersionImage(s) == ImageOf[s][cpView.images]

\* Mutant: does not compare the observed generation.
RunsVersionImageUnobserved(s) == svc[s].image = VersionImage(s) /\ svc[s].ready

\* The CR exists with the wanted image, its generation has been observed and
\* it is ready: the service runs the image of the version.
RunsVersionImage(s) ==
    /\ svc[s].image = VersionImage(s)
    /\ svc[s].observed
    /\ svc[s].ready

\* CreateOrPatch: a changed spec is a generation that is not observed yet.
PatchedService(s) ==
    [svc[s] EXCEPT !.image = VersionImage(s),
                   !.observed = @ /\ svc[s].image = VersionImage(s)]

\* status.containerImages, recorded for a service that runs the image.
RecordedImage(s) ==
    IF s \notin Enabled THEN Nil
    ELSE IF RunsVersionImage(s) \/ ~HasWorkload(s) THEN VersionImage(s)
    ELSE cp.images[s]

\* What the reconciler of a service that is not enabled leaves behind: the
\* loops over RabbitMQ and Memcached templates still report True at the end.
DisabledCond(s) ==
    IF s \in {"rabbitmq", "memcached"} THEN "True"
    ELSE IF s = "ovn" /\ ~FullPass THEN "False"
    ELSE "Absent"

\* Mutant: reports a CR that is not ready as ready.
ServiceCondCreated(s) ==
    IF s \notin Enabled THEN DisabledCond(s)
    ELSE IF RunsVersionImage(s) \/ ~HasWorkload(s) \/ s # "rabbitmq" THEN "True"
    ELSE "False"

\* A CR that is not up to date has its own conditions mirrored, and they may
\* still be the True ones of the previous generation; RabbitMQ's are not
\* mirrored.
ServiceCond(s) ==
    IF s \notin Enabled THEN DisabledCond(s)
    ELSE IF RunsVersionImage(s) \/ ~HasWorkload(s) THEN "True"
    ELSE IF s # "rabbitmq" /\ svc[s].ready THEN "True"
    ELSE "False"

\* The conditions after a pass that visited the services in W and then failed
\* in the reconciler of the services in F (none, or one).
PassCond(c, W, F) ==
    IF c = "version" THEN "True"
    ELSE IF c \in F THEN "False"
    ELSE IF c \in W THEN ServiceCond(c)
    ELSE IF c = "ovn" /\ ~NormalPass /\ OvnPhaseDone THEN "True"
    ELSE InitCond(c)

\* One pass over the plan. It may end early, after any k reconcilers: the next
\* one failed, or asked to be called again.
ControlPlaneReconcile(k) ==
    /\ cpView # Nil
    /\ cp.stage = "up"
    /\ cpView.init
    /\ k \in 0..Len(Plan)
    /\ k < Len(Plan) => disturbances < MaxDisturbances
    /\ LET W == {Plan[i] : i \in 1..k}
           F == IF k < Len(Plan) THEN {Plan[k + 1]} ELSE {}
           complete == k = Len(Plan)
           new == [cp EXCEPT
                     !.images = [s \in Services |->
                         IF s \in W THEN RecordedImage(s) ELSE cp.images[s]],
                     !.cond = [c \in CpConds |-> PassCond(c, W, F)],
                     !.deployed = IF complete /\ FullPass THEN cpView.target ELSE @,
                     !.ovnVersion = IF complete /\ ~NormalPass /\ ~OvnPhaseDone
                                    THEN cpView.target ELSE @]
           newSvc == [s \in Services |->
                         IF s \in W \cap Enabled /\ HasWorkload(s)
                         THEN PatchedService(s) ELSE svc[s]]
       IN /\ PatchControlPlane(new, newSvc, ~complete)
          /\ verQueue' = (verQueue \/ (new # cp /\ ver.stage # "absent"))
          /\ disturbances' = IF complete THEN disturbances ELSE disturbances + 1
    /\ UNCHANGED ver

ControlPlaneStep ==
    \/ ControlPlaneAdopt
    \/ ControlPlaneAwaitVersion
    \/ \E k \in 0..(Len(StagedOrder) + Len(NormalOrder)) : ControlPlaneReconcile(k)
=============================================================================
