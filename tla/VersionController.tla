------------------------- MODULE VersionController -------------------------
(***************************************************************************)
(* The OpenStackVersion controller. A reconcile reads its own object, the  *)
(* control plane and the node sets (VersionRead), and later patches the    *)
(* status it has computed from what it read (the Version* actions). Only   *)
(* this controller writes ver.deployed, ver.known, ver.images, ver.init    *)
(* and ver.cond; the user writes ver.target at any time in between.        *)
(***************************************************************************)
EXTENDS Cluster

\* Work item taken from the queue; the objects are read.
VersionRead ==
    /\ verQueue
    /\ verView = Nil
    /\ ver.stage # "absent"
    /\ verQueue' = FALSE
    /\ verView' = [target |-> ver.target, cp |-> cp, ns |-> ns]
    /\ UNCHANGED <<env, objects, cpQueue, cpView, history, bounds>>

\* Mutant: the control plane controller does not watch the OpenStackVersion.
PatchVersionUnwatched(new) ==
    /\ ver' = new
    /\ verView' = Nil
    /\ verQueue' = (verQueue \/ new # ver)
    /\ UNCHANGED <<env, cp, svc, ns, dep, cpQueue, cpView, rolledOut, updatedTo, bounds>>

\* The deferred PatchInstance: the status is written, spec.targetVersion is
\* not. Both controllers watch the OpenStackVersion.
PatchVersion(new) ==
    /\ ver' = new
    /\ verView' = Nil
    /\ verQueue' = (verQueue \/ new # ver)
    /\ cpQueue' = (cpQueue \/ (new # ver /\ cp.stage # "absent"))
    /\ UNCHANGED <<env, cp, svc, ns, dep, cpView, rolledOut, updatedTo, bounds>>

\* A minor update is in progress when the target that was read is not deployed.
Updating(t) == ver.deployed # Nil /\ t # ver.deployed

\* Conditions.Init leaves a condition alone unless it is listed, and the
\* conditions of a minor update are listed only while one is in progress.
InitConditions(t) ==
    IF Updating(t) THEN [p \in Phases |-> "Unknown"] ELSE ver.cond

\* The first reconcile of a new object only registers the conditions.
VersionAdopt ==
    /\ verView # Nil
    /\ ver.stage = "new"
    /\ PatchVersion([ver EXCEPT !.stage = "up"])
    /\ UNCHANGED ovnSeen

KnownDefaults == ver.known \cup {env}

\* The target is not among the defaults of the versions known so far.
VersionUnknownTarget ==
    /\ verView # Nil
    /\ ver.stage = "up"
    /\ verView.target \notin KnownDefaults
    /\ PatchVersion([ver EXCEPT !.known = KnownDefaults, !.init = FALSE,
                                !.cond = InitConditions(verView.target)])
    /\ UNCHANGED ovnSeen

\* The part of the status every later return has in common.
InitializedStatus ==
    [ver EXCEPT !.known = KnownDefaults, !.images = verView.target,
                !.init = TRUE, !.cond = InitConditions(verView.target)]

\* Mutant: waits for the control plane and the node sets.
NothingDeployedBoth ==
    \/ verView.cp.stage = "absent"
    \/ verView.cp.deployed = Nil
    \/ \E n \in NodeSets : verView.ns[n].version = Nil

\* Nothing to update yet: no control plane, or a greenfield deployment that
\* neither the control plane nor every node set has finished.
NothingDeployed ==
    \/ verView.cp.stage = "absent"
    \/ /\ verView.cp.deployed = Nil
       /\ \E n \in NodeSets : verView.ns[n].version = Nil

VersionInitialize ==
    /\ verView # Nil
    /\ ver.stage = "up"
    /\ verView.target \in KnownDefaults
    /\ NothingDeployed
    /\ PatchVersion(InitializedStatus)
    /\ UNCHANGED ovnSeen

----------------------------------------------------------------------------

\* The *ImageMatch functions: true for a service that is not enabled.
ImageMatch(s) ==
    s \in Enabled => verView.cp.images[s] = ImageOf[s][verView.target]

ControlplaneContainerImageMatch == \A s \in Services : ImageMatch(s)

\* Mutant: any ready OVN counts as the updated one.
OVNControlplaneReady ==
    IF "ovn" \in Enabled => verView.cp.cond["ovn"] = "True"
    THEN "True" ELSE "FalseRequested"

OVNControlplaneOutcome ==
    IF "ovn" \in Enabled =>
          ImageMatch("ovn") /\ verView.cp.cond["ovn"] = "True"
    THEN "True" ELSE "FalseRequested"

DataplaneNodesetsOVNControllerImagesMatch ==
    \A n \in NodeSets :
        /\ verView.ns[n].current
        /\ n \notin EmptyNodeSets =>
              verView.ns[n].ovn \in {Nil, ImageOf["ovn"][verView.target]}

\* The OVN image of the deployed version is the OVN image of the target.
OVNImageUnchanged ==
    /\ ver.deployed \in KnownDefaults
    /\ ImageOf["ovn"][ver.deployed] = ImageOf["ovn"][verView.target]

OVNDataplaneOutcome ==
    IF "ovn" \notin Enabled THEN "True"
    ELSE IF ~DataplaneNodesetsOVNControllerImagesMatch THEN "FalseRequested"
    ELSE IF ~OVNImageUnchanged THEN "True"
    ELSE IF OvnDeploymentRunning THEN "FalseRequested"
    ELSE IF ver.cond["ovnDataplane"] # "FalseRequested" THEN "FalseInit"
    ELSE "True"

StagedOutcome(s) ==
    IF ImageMatch(s) /\ verView.cp.cond[s] = "True" THEN "True" ELSE "FalseRequested"

ControlplaneOutcome ==
    IF ~IsReady(verView.cp) THEN "FalseRequested"
    ELSE IF ~ControlplaneContainerImageMatch THEN "FalseError"
    ELSE "True"

\* Mutant: a ready node set counts as updated.
DataplaneNodesetsReady ==
    \A n \in NodeSets :
        /\ verView.ns[n].current
        /\ n \notin EmptyNodeSets => verView.ns[n].ready

DataplaneNodesetsDeployed ==
    \A n \in NodeSets :
        /\ verView.ns[n].current
        /\ n \notin EmptyNodeSets =>
              /\ verView.ns[n].ready
              /\ verView.ns[n].version = verView.target

DataplaneOutcome ==
    IF DataplaneNodesetsDeployed THEN "True" ELSE "FalseRequested"

Outcome(p) ==
    CASE p = "ovnControlplane" -> OVNControlplaneOutcome
      [] p = "ovnDataplane"    -> OVNDataplaneOutcome
      [] p = "controlplane"    -> ControlplaneOutcome
      [] p = "dataplane"       -> DataplaneOutcome
      [] OTHER                 -> StagedOutcome(p)

\* Every reconcile evaluates the phases from the first; the first that is not
\* True ends it, and the later ones stay as Conditions.Init left them.
PhaseConditions ==
    [p \in Phases |->
        IF \A q \in Earlier[p] : Outcome(q) = "True" THEN Outcome(p) ELSE "Unknown"]

\* Mutant: does not wait for the data plane.
UpdateCompleteControlplane ==
    \A p \in Phases \ {"dataplane"} : Outcome(p) = "True"

UpdateComplete == \A p \in Phases : Outcome(p) = "True"

\* A reconcile that got as far as the minor update, or has none to do.
VersionUpdate ==
    /\ verView # Nil
    /\ ver.stage = "up"
    /\ verView.target \in KnownDefaults
    /\ ~NothingDeployed
    /\ LET updating == Updating(verView.target)
           done     == (updating => UpdateComplete) /\ IsReady(verView.cp)
           seen     == /\ updating
                       /\ OVNControlplaneOutcome = "True"
                       /\ "ovn" \in Enabled
                       /\ DataplaneNodesetsOVNControllerImagesMatch
                       /\ OVNImageUnchanged
                       /\ OvnDeploymentRunning
       IN /\ PatchVersion(
                [InitializedStatus EXCEPT
                   !.cond = IF updating THEN PhaseConditions ELSE @,
                   !.deployed = IF done THEN verView.target ELSE @])
          /\ ovnSeen' = (~done /\ (ovnSeen \/ seen))

VersionReconcile ==
    VersionAdopt \/ VersionUnknownTarget \/ VersionInitialize \/ VersionUpdate
=============================================================================
