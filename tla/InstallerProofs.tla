-------------------------- MODULE InstallerProofs --------------------------
(***************************************************************************)
(* The initialization controller implements OperatorInstall, for any       *)
(* builds, operators and resources, when images are not rolled back and    *)
(* creation timestamps differ; OLM's Operator object goes last, whatever   *)
(* happens.                                                                *)
(*                                                                         *)
(* The invariant of the refinement says when the shortcut of the code      *)
(* (status.containerImage equals the running image: apply no CRDs and no   *)
(* Services) is right.                                                     *)
(***************************************************************************)
EXTENDS Installer, TLAPS, FiniteSetTheorems

\* OLM's Operator object refers at least to what is left of the old bundles.
OlmTracked == legacy \ {"operator"} \subseteq refs

\* Resources are created one after the other, and one that is being deleted
\* still has its finalizer.
CreatedInTurn ==
    /\ \A n, m \in Instances : Exists(n) /\ Exists(m) /\ crs[n].created = crs[m].created => n = m
    /\ \A n \in Instances : Exists(n) => crs[n].created <= clock /\ (crs[n].deleting => crs[n].finalizer)

\* A resource that cannot go away, and before which no other one is.
Served(n) == Exists(n) /\ crs[n].finalizer /\ \A m \in Instances : Exists(m) => crs[n].created <= crs[m].created

\* The manifests that status.containerImage stands for are there and ours.
Applied(n, cr) ==
    /\ cr.release = Release[running]
    /\ crds = {running} /\ services = {running} /\ owner = n

\* What a resource records: only the one that is served records an image, an
\* image of the past, and the running one only when its manifests are there.
RecordedImage ==
    \A n \in Instances : Exists(n) /\ crs[n].image # None =>
        /\ Served(n) /\ crs[n].image <= running
        /\ crs[n].image = running => Applied(n, crs[n])

\* The same for the copy a reconcile works on.
CopiedImage ==
    work # NoWork /\ work.cr.image # None =>
        /\ Served(work.name) /\ work.cr.image <= running
        /\ work.cr.image = running => Applied(work.name, work.cr)

\* A reconcile that has got past the beginning serves its resource, and until
\* it has applied the Services its copy is the resource's.
EarlyStages == {"cleanupObsolete", "cleanupRabbitMQ", "cleanupPlacement", "deleteDeployments", "deleteServices",
                "deleteWebhooks", "applyCRDs", "applyServices"}
DeleteStages == {"deleteDeployments", "deleteServices", "deleteWebhooks"}
LateStages == {"postCleanup", "countDeployments", "checkEndpoints"}

Stage ==
    work # NoWork =>
        /\ work.stage # "return" => Served(work.name)
        /\ work.stage \in EarlyStages =>
             work.cr.image = crs[work.name].image /\ work.cr.release = crs[work.name].release
        /\ work.stage \in DeleteStages => work.cr.release # Release[running]
        /\ work.stage \in {"applyCRDs", "applyServices"} => work.cr.release = Release[running]
        /\ work.stage = "applyServices" => crds = {running}
        /\ work.stage \in LateStages \cup {"applyOperator"} => work.cr.image = running
        /\ work.stage \in LateStages => OperatorsAre(running)

\* The finalizer of the copy: it is there unless the deletion is finished.
CopiedFinalizer ==
    work # NoWork =>
        /\ work.stage = "reconcileDelete" => crs[work.name].deleting
        /\ work.cr.finalizer \/ (work.stage = "return" /\ (Exists(work.name) => crs[work.name].deleting))

\* Ready is said of the running image, when everything has been applied.
CopiedReady ==
    work # NoWork /\ work.cr.ready =>
        work.stage = "return" /\ work.cr.image = running /\ OperatorsAre(running)

InstallInv == CreatedInTurn /\ RecordedImage /\ CopiedImage /\ Stage /\ CopiedFinalizer /\ CopiedReady

----------------------------------------------------------------------------
(* Types *)

LEMMA BusyWork ==
    ASSUME TypeOK, work.stage # "idle"
    PROVE  work \in Works /\ work # NoWork /\ work.cr \in CRs /\ work.name \in Instances
  BY DEF TypeOK, NoWork, Works

LEMMA GoType ==
    ASSUME work \in Works, NEW s \in Stages, NEW cr \in CRs, Go(s, cr)
    PROVE  /\ work' \in Works /\ work'.stage = s /\ work'.cr = cr /\ work'.name = work.name
  BY DEF Go, Works

LEMMA StartType ==
    ASSUME TypeOK, NEW n \in Instances, NEW s \in Stages, NEW cr \in CRs, Start(n, s, cr)
    PROVE  /\ work' \in Works /\ work'.stage = s /\ work'.cr = cr /\ work'.name = n
  BY DEF Start, Works, TypeOK

LEMMA CRType ==
    ASSUME TypeOK, NEW n \in Instances, Exists(n)
    PROVE  crs[n] \in CRs /\ InitConditions(crs[n]) \in CRs
<1>1. crs[n] \in CRs
  BY DEF TypeOK, Exists
<1> QED
  BY <1>1 DEF InitConditions, CRs

\* A new record for one resource, or none.
LEMMA CRsType ==
    ASSUME TypeOK, NEW n \in Instances, NEW cr \in CRs \cup {None}, crs' = [crs EXCEPT ![n] = cr]
    PROVE  crs' \in [Instances -> CRs \cup {None}]
  BY DEF TypeOK

LEMMA BeginType ==
    ASSUME TypeOK, NEW n \in Instances, AddFinalizer(n) \/ DeleteDuplicate(n) \/ BeginReconcile(n)
    PROVE  TypeOK'
<1>0. Exists(n) /\ crs[n] \in CRs /\ InitConditions(crs[n]) \in CRs
  BY CRType DEF AddFinalizer, DeleteDuplicate, BeginReconcile, Initialized
<1>1. CASE AddFinalizer(n)
  <2>1. [InitConditions(crs[n]) EXCEPT !.finalizer = @ \/ ~crs[n].deleting] \in CRs
    BY <1>0 DEF CRs
  <2>2. work' \in Works
    BY <1>1, <2>1, StartType DEF AddFinalizer, Stages
  <2> QED
    BY <1>1, <2>2 DEF AddFinalizer, cluster, TypeOK
<1>2. CASE DeleteDuplicate(n)
  <2>1. [crs[n] EXCEPT !.deleting = TRUE] \in CRs
    BY <1>0 DEF CRs
  <2>2. crs' \in [Instances -> CRs \cup {None}]
    BY <1>2, <2>1, CRsType DEF DeleteDuplicate, TypeOK
  <2>3. work' \in Works
    BY <1>0, <1>2, StartType DEF DeleteDuplicate, Stages
  <2>4. disturbed' \in 0..MaxDisturbed
    BY <1>2, InstallerAssumption DEF DeleteDuplicate, Disturb, TypeOK
  <2> QED
    BY <1>2, <2>2, <2>3, <2>4 DEF DeleteDuplicate, cluster, TypeOK
<1>3. CASE BeginReconcile(n)
  <2>1. work' \in Works
    BY <1>0, <1>3, StartType DEF BeginReconcile, Stages
  <2> QED
    BY <1>3, <2>1 DEF BeginReconcile, cluster, TypeOK
<1> QED
  BY <1>1, <1>2, <1>3

LEMMA CleanupType ==
    ASSUME TypeOK,
           \/ reconcileDelete \/ cleanupObsoleteResources
           \/ cleanupRabbitMQClusterOperator \/ cleanupPlacementOperator
           \/ DeleteDeployments \/ DeleteServices \/ DeleteWebhooks
    PROVE  TypeOK'
<1> USE InstallerAssumption
<1>0. work \in Works /\ work.cr \in CRs
  BY BusyWork DEF reconcileDelete, cleanupObsoleteResources, cleanupRabbitMQClusterOperator,
                  cleanupPlacementOperator, DeleteDeployments, DeleteServices, DeleteWebhooks
<1>1. CASE reconcileDelete
  <2>1. [work.cr EXCEPT !.finalizer = FALSE] \in CRs
    BY <1>0 DEF CRs
  <2>2. work' \in Works
    BY <1>0, <1>1, <2>1, GoType DEF reconcileDelete, Stages
  <2> QED
    BY <1>1, <2>2 DEF reconcileDelete, NoConfiguration, Configurations, TypeOK
<1>2. CASE cleanupObsoleteResources
  <2>1. work' \in Works
    BY <1>0, <1>2, GoType DEF cleanupObsoleteResources, Stages
  <2> QED
    BY <1>2, <2>1 DEF cleanupObsoleteResources, TypeOK
<1>3. CASE cleanupRabbitMQClusterOperator
  <2>1. work' \in Works
    BY <1>0, <1>3, GoType DEF cleanupRabbitMQClusterOperator, Stages
  <2>2. retired' \subseteq retired /\ disturbed' \in 0..MaxDisturbed
    BY <1>3 DEF cleanupRabbitMQClusterOperator, Retire, Disturb, TypeOK
  <2> QED
    BY <1>3, <2>1, <2>2 DEF cleanupRabbitMQClusterOperator, TypeOK
<1>4. CASE cleanupPlacementOperator
  <2>1. work' \in Works
    BY <1>0, <1>4, GoType DEF cleanupPlacementOperator, Stages
  <2>2. retired' \subseteq retired /\ disturbed' \in 0..MaxDisturbed
    BY <1>4 DEF cleanupPlacementOperator, Retire, Disturb, TypeOK
  <2> QED
    BY <1>4, <2>1, <2>2 DEF cleanupPlacementOperator, TypeOK
<1>5. CASE DeleteDeployments
  <2>1. work' \in Works
    BY <1>0, <1>5, GoType DEF DeleteDeployments, Stages
  <2>2. deploy' \in [Operators -> Deployments] /\ retired' \subseteq retired
    BY <1>5 DEF DeleteDeployments, NoDeployment, Deployments, TypeOK
  <2> QED
    BY <1>5, <2>1, <2>2 DEF DeleteDeployments, TypeOK
<1>6. CASE DeleteServices
  <2>1. work' \in Works
    BY <1>0, <1>6, GoType DEF DeleteServices, Stages
  <2> QED
    BY <1>6, <2>1 DEF DeleteServices, TypeOK
<1>7. CASE DeleteWebhooks
  <2>1. [work.cr EXCEPT !.image = None, !.release = Release[running]] \in CRs
    BY <1>0 DEF CRs, TypeOK
  <2>2. work' \in Works
    BY <1>0, <1>7, <2>1, GoType DEF DeleteWebhooks, Stages
  <2>3. webhooks' \in [WebhookKinds -> Configurations]
    BY <1>7 DEF DeleteWebhooks, NoConfiguration, Configurations, TypeOK
  <2> QED
    BY <1>7, <2>2, <2>3 DEF DeleteWebhooks, TypeOK
<1> QED
  BY <1>1, <1>2, <1>3, <1>4, <1>5, <1>6, <1>7

LEMMA ApplyType ==
    ASSUME TypeOK, applyCRDs \/ applyServices \/ ApplyPart \/ applyOperator \/ ApplyOperatorPart
    PROVE  TypeOK'
<1> USE InstallerAssumption
<1>0. work \in Works /\ work.cr \in CRs /\ work.name \in Instances
  BY BusyWork DEF applyCRDs, applyServices, ApplyPart, applyOperator, ApplyOperatorPart
<1>1. CASE applyCRDs
  <2>1. work' \in Works
    BY <1>0, <1>1, GoType DEF applyCRDs, Stages
  <2> QED
    BY <1>1, <2>1 DEF applyCRDs, TypeOK
<1>2. CASE applyServices
  <2>1. [work.cr EXCEPT !.image = running] \in CRs
    BY <1>0 DEF CRs, TypeOK
  <2>2. work' \in Works
    BY <1>0, <1>2, <2>1, GoType DEF applyServices, Stages
  <2> QED
    BY <1>0, <1>2, <2>2 DEF applyServices, TypeOK
<1>3. CASE ApplyPart
  <2>1. work' \in Works
    BY <1>0, <1>3, GoType DEF ApplyPart, Stages
  <2>2. disturbed' \in 0..MaxDisturbed
    BY <1>3 DEF ApplyPart, Disturb, TypeOK
  <2> QED
    BY <1>3, <2>1, <2>2 DEF ApplyPart, TypeOK
<1>4. CASE applyOperator \/ ApplyOperatorPart
  <2>1. PICK ops, kinds : ApplyManifests(ops, kinds)
    BY <1>4 DEF applyOperator, ApplyOperatorPart
  <2>2. CountedOperators \in CRs
    <3>1. Cardinality({o \in Operators : Replicas(o) = 1}) \in Nat
      BY FS_Subset, FS_CardinalityType
    <3> QED
      BY <1>0, <3>1 DEF CountedOperators, CRs
  <2>3. work' \in Works
    BY <1>0, <1>4, <2>2, GoType DEF applyOperator, ApplyOperatorPart, Stages
  <2>4. deploy' \in [Operators -> Deployments]
    BY <2>1 DEF ApplyManifests, MergedDeployment, Replicas, Deployments, TypeOK
  <2>5. webhooks' \in [WebhookKinds -> Configurations]
    <3>1. Template[running] \subseteq Hooks
      BY DEF TypeOK
    <3>2. \A w \in Configurations : MergedWebhooks(w) \in Configurations
      BY <3>1 DEF MergedWebhooks, Configurations
    <3> QED
      BY <2>1, <3>2 DEF ApplyManifests, TypeOK
  <2>6. slices' \in [WebhookOps -> {"absent", "empty", "notReady", "ready"}]
    BY <2>1 DEF ApplyManifests, TypeOK
  <2>7. disturbed' \in 0..MaxDisturbed
    BY <1>4 DEF applyOperator, ApplyOperatorPart, Disturb, TypeOK
  <2> QED
    BY <2>1, <2>3, <2>4, <2>5, <2>6, <2>7 DEF ApplyManifests, TypeOK
<1> QED
  BY <1>1, <1>2, <1>3, <1>4

LEMMA ReturnType ==
    ASSUME TypeOK,
           \/ postCleanupObsoleteResources \/ countDeployments \/ checkServiceEndpoints
           \/ PatchInstance \/ CallFails \/ ProcessStops
    PROVE  TypeOK'
<1> USE InstallerAssumption
<1>1. CASE postCleanupObsoleteResources
  <2>1. work' \in Works
    BY <1>1, BusyWork, GoType DEF postCleanupObsoleteResources, Stages
  <2> QED
    BY <1>1, <2>1 DEF postCleanupObsoleteResources, TypeOK
<1>2. CASE countDeployments
  <2>1. work \in Works /\ work.cr \in CRs
    BY <1>2, BusyWork DEF countDeployments
  <2>2. [work.cr EXCEPT !.deploymentsReady = TRUE] \in CRs
    BY <2>1 DEF CRs
  <2>3. work' \in Works
    BY <1>2, <2>1, <2>2, GoType DEF countDeployments, Stages
  <2> QED
    BY <1>2, <2>3 DEF countDeployments, cluster, TypeOK
<1>3. CASE checkServiceEndpoints
  <2>1. work \in Works /\ work.cr \in CRs
    BY <1>3, BusyWork DEF checkServiceEndpoints
  <2> DEFINE answered == \A o \in WebhookOps \ work.off : slices[o] # "empty"
  <2>2. [work.cr EXCEPT !.ready = answered] \in CRs
    BY <2>1 DEF CRs
  <2>3. Go("return", [work.cr EXCEPT !.ready = answered])
    BY <1>3 DEF checkServiceEndpoints
  <2> HIDE DEF answered
  <2>4. work' \in Works
    BY <2>1, <2>2, <2>3, GoType DEF Stages
  <2> QED
    BY <1>3, <2>4 DEF checkServiceEndpoints, cluster, TypeOK
<1>4. CASE PatchInstance
  <2>1. work \in Works /\ work.cr \in CRs /\ work.name \in Instances
    BY <1>4, BusyWork DEF PatchInstance
  <2> DEFINE n == work.name
             kept == [work.cr EXCEPT !.deleting = crs[n].deleting, !.created = crs[n].created]
             new == IF crs[n] = None \/ (crs[n].deleting /\ ~work.cr.finalizer) THEN None ELSE kept
  <2>2. new \in CRs \cup {None}
    <3>1. CASE crs[n] = None
      BY <3>1
    <3>2. CASE crs[n] # None
      <4>1. crs[n] \in CRs
        BY <2>1, <3>2 DEF TypeOK
      <4> QED
        BY <2>1, <4>1 DEF CRs
    <3> QED
      BY <3>1, <3>2
  <2>3. crs' = [crs EXCEPT ![n] = new]
    BY <1>4 DEF PatchInstance
  <2> HIDE DEF new
  <2>4. crs' \in [Instances -> CRs \cup {None}]
    BY <2>1, <2>2, <2>3, CRsType
  <2> QED
    BY <1>4, <2>4 DEF PatchInstance, cluster, TypeOK
<1>5. CASE CallFails
  <2>1. work \in Works /\ work.cr \in CRs
    BY <1>5, BusyWork DEF CallFails, Stages
  <2>2. work' \in Works
    BY <1>5, <2>1, GoType DEF CallFails, Stages
  <2>3. disturbed' \in 0..MaxDisturbed
    BY <1>5 DEF CallFails, Disturb, TypeOK
  <2> QED
    BY <1>5, <2>2, <2>3 DEF CallFails, cluster, TypeOK
<1>6. CASE ProcessStops
  <2>1. disturbed' \in 0..MaxDisturbed
    BY <1>6 DEF ProcessStops, Disturb, TypeOK
  <2> QED
    BY <1>6, <2>1 DEF ProcessStops, cluster, TypeOK
<1> QED
  BY <1>1, <1>2, <1>3, <1>4, <1>5, <1>6

LEMMA OthersType == ASSUME TypeOK, Environment \/ (\E o \in Operators : PodFails(o)) PROVE TypeOK'
<1> USE InstallerAssumption
<1>1. ASSUME NEW n \in Instances, CreateOpenStack(n) PROVE TypeOK'
  <2>1. PICK t \in {clock + 1, clock} :
          /\ t <= MaxTime /\ clock' = t
          /\ crs' = [crs EXCEPT ![n] = [created |-> t, deleting |-> FALSE, finalizer |-> FALSE,
                         conditions |-> FALSE, image |-> None, release |-> None, enabled |-> 0,
                         deploymentsReady |-> FALSE, ready |-> FALSE]]
    BY <1>1 DEF CreateOpenStack
  <2>2. t \in 0..MaxTime
    BY <2>1 DEF TypeOK
  <2> DEFINE new == [created |-> t, deleting |-> FALSE, finalizer |-> FALSE,
                     conditions |-> FALSE, image |-> None, release |-> None, enabled |-> 0,
                     deploymentsReady |-> FALSE, ready |-> FALSE]
  <2>3. new \in CRs
    BY <2>2 DEF CRs
  <2>4. crs' \in [Instances -> CRs \cup {None}]
    BY <2>1, <2>3, CRsType
  <2> QED
    BY <1>1, <2>1, <2>2, <2>4 DEF CreateOpenStack, cluster, TypeOK
<1>2. ASSUME NEW n \in Instances, DeleteOpenStack(n) PROVE TypeOK'
  <2>1. crs[n] \in CRs
    BY <1>2, CRType DEF DeleteOpenStack
  <2>2. [crs[n] EXCEPT !.deleting = TRUE] \in CRs
    BY <2>1 DEF CRs
  <2>3. crs' \in [Instances -> CRs \cup {None}]
    BY <1>2, <2>2, CRsType DEF DeleteOpenStack
  <2>4. disturbed' \in 0..MaxDisturbed
    BY <1>2 DEF DeleteOpenStack, Disturb, TypeOK
  <2> QED
    BY <1>2, <2>3, <2>4 DEF DeleteOpenStack, cluster, TypeOK
<1>3. ASSUME NEW o \in Operators, EditOverride(o) PROVE TypeOK'
  <2>1. disturbed' \in 0..MaxDisturbed
    BY <1>3 DEF EditOverride, Disturb, TypeOK
  <2> QED
    BY <1>3, <2>1 DEF EditOverride, cluster, TypeOK
<1>4. ASSUME NEW o \in Operators, PodRolls(o) \/ PodFails(o) PROVE TypeOK'
  <2>1. deploy' \in [Operators -> Deployments]
    BY <1>4 DEF PodRolls, PodFails, Deployments, TypeOK
  <2>2. disturbed' \in 0..MaxDisturbed
    BY <1>4 DEF PodRolls, PodFails, Disturb, TypeOK
  <2> QED
    BY <1>4, <2>1, <2>2 DEF PodRolls, PodFails, TypeOK
<1>5. ASSUME NEW o \in WebhookOps, SliceFollows(o) PROVE TypeOK'
  <2>1. slices' \in [WebhookOps -> {"absent", "empty", "notReady", "ready"}]
    BY <1>5 DEF SliceFollows, TypeOK
  <2> QED
    BY <1>5, <2>1 DEF SliceFollows, TypeOK
<1>6. ASSUME NEW b \in Builds, UpgradeOperator(b) PROVE TypeOK'
  BY <1>6 DEF UpgradeOperator, cluster, TypeOK
<1>7. ASSUME NEW p \in {"ours", "other"}, RabbitsMigrated(p) PROVE TypeOK'
  BY <1>7 DEF RabbitsMigrated, TypeOK
<1>8. CASE InjectCA
  <2>1. webhooks' \in [WebhookKinds -> Configurations]
    BY <1>8 DEF InjectCA, Configurations, TypeOK
  <2> QED
    BY <1>8, <2>1 DEF InjectCA, TypeOK
<1>9. CASE OlmRefreshes
  BY <1>9 DEF OlmRefreshes, TypeOK
<1>10. CASE GarbageCollect
  <2>1. deploy' \in [Operators -> Deployments]
    BY <1>10 DEF GarbageCollect, NoDeployment, Deployments
  <2> QED
    BY <1>10, <2>1 DEF GarbageCollect, TypeOK
<1> QED
  BY <1>1, <1>2, <1>3, <1>4, <1>5, <1>6, <1>7, <1>8, <1>9, <1>10 DEF Environment

LEMMA InitType == Init => TypeOK
<1> SUFFICES ASSUME Init PROVE TypeOK
  OBVIOUS
<1> USE InstallerAssumption
<1>1. CASE InitNew
  <2>1. deploy \in [Operators -> Deployments]
    BY <1>1 DEF InitNew, NoDeployment, Deployments
  <2> QED
    BY <1>1, <2>1 DEF Init, InitNew, NoConfiguration, Configurations, TypeOK
<1>2. CASE InitUpgrade
  <2> DEFINE n == CHOOSE i \in Instances : TRUE
  <2>1. n \in Instances
    OBVIOUS
  <2> DEFINE enabled == Cardinality(Operators) + 2
  <2>2. enabled \in Nat
    BY FS_CardinalityType
  <2>3. PICK r \in {None, Release[0]} :
          /\ owner = n
          /\ crs = [m \in Instances |-> IF m # n THEN None ELSE
                       [created |-> 0, deleting |-> FALSE, finalizer |-> TRUE, conditions |-> TRUE,
                        image |-> 0, release |-> r, enabled |-> enabled,
                        deploymentsReady |-> TRUE, ready |-> TRUE]]
    BY <1>2 DEF InitUpgrade
  <2> HIDE DEF n, enabled
  <2>4. r \in Nat \cup {None}
    OBVIOUS
  <2> DEFINE old == [created |-> 0, deleting |-> FALSE, finalizer |-> TRUE, conditions |-> TRUE,
                     image |-> 0, release |-> r, enabled |-> enabled,
                     deploymentsReady |-> TRUE, ready |-> TRUE]
  <2>5. old \in CRs
    BY <2>2, <2>4 DEF CRs
  <2>6. crs \in [Instances -> CRs \cup {None}] /\ owner \in Instances
    BY <2>1, <2>3, <2>5
  <2>7. deploy \in [Operators -> Deployments]
    BY <1>2 DEF InitUpgrade, Deployments
  <2>8. /\ webhooks \in [WebhookKinds -> Configurations]
        /\ slices \in [WebhookOps -> {"absent", "empty", "notReady", "ready"}]
    BY <1>2 DEF InitUpgrade, Configurations
  <2>9. /\ legacy = {} /\ crds = {0} /\ services = {0}
        /\ retired = {"rabbitmq", "rabbitmqCRD", "placement"} /\ rabbits = {"ours", "other"}
    BY <1>2 DEF InitUpgrade
  <2> QED
    BY <2>6, <2>7, <2>8, <2>9 DEF Init, TypeOK
<1> QED
  BY <1>1, <1>2 DEF Init

LEMMA NextType == TypeOK /\ [Next]_vars => TypeOK'
<1> SUFFICES ASSUME TypeOK, [Next]_vars PROVE TypeOK'
  OBVIOUS
<1>1. CASE UNCHANGED vars
  BY <1>1 DEF vars, cluster, TypeOK
<1> QED
  BY <1>1, BeginType, CleanupType, ApplyType, ReturnType, OthersType DEF Next, Reconcile, Faults

\* Every part of the installer's state keeps its type, the copy of a reconcile
\* under way too: PatchInstance always writes a whole resource.
THEOREM InstallerTypeCorrect == Spec => []TypeOK
  BY InitType, NextType, PTL DEF Spec

----------------------------------------------------------------------------
(* OLM's Operator object *)

LEMMA NextOlm == ASSUME OlmTracked, OlmOperatorLast, [Next]_vars PROVE OlmTracked' /\ OlmOperatorLast'
<1>1. CASE postCleanupObsoleteResources
  <2>1. legacy' \subseteq legacy /\ refs' = refs
    BY <1>1 DEF postCleanupObsoleteResources
  <2>2. CASE "operator" \in legacy /\ refs # {}
    BY <1>1, <2>1, <2>2 DEF postCleanupObsoleteResources, OlmTracked, OlmOperatorLast, OlmObjects
  <2>3. CASE "operator" \in legacy /\ refs = {}
    BY <1>1, <2>1, <2>3 DEF postCleanupObsoleteResources, OlmTracked, OlmOperatorLast
  <2>4. CASE "operator" \notin legacy
    BY <1>1, <2>1, <2>4 DEF OlmTracked, OlmOperatorLast
  <2> QED
    BY <2>2, <2>3, <2>4
<1>2. CASE OlmRefreshes
  BY <1>2 DEF OlmRefreshes, OlmTracked, OlmOperatorLast
<1>3. CASE cleanupObsoleteResources \/ applyCRDs
  <2>1. legacy' \subseteq legacy /\ refs' = refs /\ ("operator" \in legacy => "operator" \in legacy')
    BY <1>3 DEF cleanupObsoleteResources, applyCRDs
  <2> QED
    BY <2>1 DEF OlmTracked, OlmOperatorLast
<1>4. CASE UNCHANGED <<legacy, refs>>
  BY <1>4 DEF OlmTracked, OlmOperatorLast
<1>5. CASE ~(postCleanupObsoleteResources \/ OlmRefreshes \/ cleanupObsoleteResources \/ applyCRDs)
  <2>1. UNCHANGED <<legacy, refs>>
    <3>1. CASE Reconcile
      BY <1>5, <3>1 DEF Reconcile, AddFinalizer, DeleteDuplicate, BeginReconcile, reconcileDelete,
        cleanupRabbitMQClusterOperator, cleanupPlacementOperator, DeleteDeployments, DeleteServices, DeleteWebhooks,
        applyServices, applyOperator, ApplyManifests, countDeployments, checkServiceEndpoints, PatchInstance,
        cluster
    <3>2. CASE Environment
      BY <1>5, <3>2 DEF Environment, CreateOpenStack, DeleteOpenStack, EditOverride, PodRolls, SliceFollows,
        UpgradeOperator, RabbitsMigrated, InjectCA, GarbageCollect, cluster
    <3>3. CASE Faults
      BY <3>3 DEF Faults, ApplyPart, ApplyOperatorPart, ApplyManifests, CallFails, ProcessStops, PodFails, cluster
    <3>4. CASE UNCHANGED vars
      BY <3>4 DEF vars, cluster
    <3> QED
      BY <3>1, <3>2, <3>3, <3>4 DEF Next
  <2> QED
    BY <1>4, <2>1
<1> QED
  BY <1>1, <1>2, <1>3, <1>5

\* postCleanupObsoleteResources deletes OLM's Operator object only when nothing
\* it kept track of is left, also when components vanish between the object's
\* refresh and the clean-up that reads it.
THEOREM OlmOperatorGoesLast == Spec => []OlmOperatorLast
<1>1. Init => OlmTracked /\ OlmOperatorLast
  BY DEF Init, InitNew, InitUpgrade, OlmTracked, OlmOperatorLast
<1> QED
  BY <1>1, NextOlm, PTL DEF Spec

----------------------------------------------------------------------------
(* The controller implements OperatorInstall *)

\* A resource stays served while it exists with its finalizer and no resource
\* with an earlier timestamp appears.
LEMMA ServedKept ==
    ASSUME TypeOK, TypeOK', NEW n \in Instances, Served(n), Exists(n)', crs'[n].finalizer,
           crs'[n].created = crs[n].created,
           \A m \in Instances : Exists(m)' =>
              \/ Exists(m) /\ crs'[m].created = crs[m].created
              \/ crs'[m].created > clock /\ crs[n].created <= clock
    PROVE  Served(n)'
<1> SUFFICES ASSUME NEW m \in Instances, Exists(m)' PROVE crs'[n].created <= crs'[m].created
  BY DEF Served
<1>1. crs[n] \in CRs /\ crs'[m] \in CRs /\ clock \in Nat
  BY InstallerAssumption DEF TypeOK, Exists, Served
<1> QED
  BY <1>1 DEF Served, CRs

LEMMA ServedSame == ASSUME UNCHANGED crs PROVE \A n : (Served(n)' <=> Served(n)) /\ (Exists(n)' <=> Exists(n))
  BY DEF Served, Exists

\* No two resources are served.
LEMMA ServedOnce ==
    ASSUME TypeOK, CreatedInTurn, NEW n \in Instances, NEW m \in Instances, Served(n), Served(m)
    PROVE  n = m
<1>1. crs[n] \in CRs /\ crs[m] \in CRs
  BY DEF TypeOK, Served, Exists
<1>2. crs[n].created = crs[m].created
  BY <1>1, InstallerAssumption DEF Served, CRs
<1> QED
  BY <1>2 DEF CreatedInTurn, Served

\* What the resources record is not touched, and the reconcile is where it was
\* or has stopped.
LEMMA InstallFrame ==
    ASSUME InstallInv, UNCHANGED <<crs, clock, running, crds, services, owner>>,
           \A o \in Operators : deploy'[o].build = deploy[o].build,
           \A k \in WebhookKinds : webhooks'[k].hooks = webhooks[k].hooks,
           work' = work \/ work' = NoWork
    PROVE  InstallInv'
<1>1. \A n : (Served(n)' <=> Served(n)) /\ (Exists(n)' <=> Exists(n))
  BY ServedSame
<1>2. \A n, cr : Applied(n, cr)' <=> Applied(n, cr)
  BY DEF Applied
<1>b. OperatorsAre(running) => OperatorsAre(running)'
  BY DEF OperatorsAre
<1>3. CreatedInTurn'
  BY <1>1 DEF InstallInv, CreatedInTurn
<1>4. RecordedImage'
  BY <1>1, <1>2 DEF InstallInv, RecordedImage
<1>5. CASE work' = work
  <2>1. CopiedImage'
    BY <1>1, <1>2, <1>5 DEF InstallInv, CopiedImage
  <2>2. Stage'
    BY <1>1, <1>5, <1>b DEF InstallInv, Stage
  <2>3. CopiedFinalizer' /\ CopiedReady'
    BY <1>1, <1>5, <1>b DEF InstallInv, CopiedFinalizer, CopiedReady
  <2> QED
    BY <1>3, <1>4, <2>1, <2>2, <2>3 DEF InstallInv
<1>6. CASE work' = NoWork
  BY <1>3, <1>4, <1>6 DEF InstallInv, CopiedImage, Stage, CopiedFinalizer, CopiedReady
<1> QED
  BY <1>5, <1>6

\* What is left to show for a step of a reconcile that does not save anything.
LEMMA InstallStep ==
    ASSUME InstallInv, UNCHANGED <<crs, clock, running>>,
           RecordedImage', CopiedImage', Stage', CopiedFinalizer', CopiedReady'
    PROVE  InstallInv'
<1>1. \A n : (Served(n)' <=> Served(n)) /\ (Exists(n)' <=> Exists(n))
  BY ServedSame
<1>2. CreatedInTurn'
  BY <1>1 DEF InstallInv, CreatedInTurn
<1> QED
  BY <1>2 DEF InstallInv

\* A reconcile goes on without a change of what its invariant speaks of.
LEMMA InstallGo ==
    ASSUME TypeOK, InstallInv, work \in Works, work # NoWork,
           UNCHANGED <<crs, clock, running, crds, services, owner>>,
           NEW s \in Stages, Go(s, work.cr), work.stage # "return",
           \/ s = "return"
           \/ /\ work.stage \in {"cleanupObsolete", "cleanupRabbitMQ"}
              /\ s \in {"cleanupRabbitMQ", "cleanupPlacement"}
           \/ /\ work.stage = "cleanupPlacement"
              /\ s = IF ShouldReinstall THEN "deleteDeployments" ELSE "applyCRDs"
           \/ work.stage \in DeleteStages /\ s \in DeleteStages
           \/ work.stage = "postCleanup" /\ s = "countDeployments" /\ UNCHANGED <<deploy, webhooks>>
    PROVE  InstallInv'
<1>1. work' \in Works /\ work'.stage = s /\ work'.cr = work.cr /\ work'.name = work.name
  <2>1. work.cr \in CRs
    BY DEF Works
  <2> QED
    BY <2>1, GoType
<1>2. \A n : (Served(n)' <=> Served(n)) /\ (Exists(n)' <=> Exists(n))
  BY ServedSame
<1>3. \A n, cr : Applied(n, cr)' <=> Applied(n, cr)
  BY DEF Applied
<1>4. RecordedImage'
  BY <1>2, <1>3 DEF InstallInv, RecordedImage
<1>5. CopiedImage'
  BY <1>1, <1>2, <1>3 DEF InstallInv, CopiedImage
<1>6. Stage'
  <2>1. ShouldReinstall <=> work.cr.release # Release[running]
    BY InstallerAssumption DEF ShouldReinstall, TypeOK
  <2>2. CASE s = "return"
    BY <1>1, <2>2 DEF Stage, EarlyStages, DeleteStages, LateStages
  <2>3. CASE work.stage \in EarlyStages /\ s \in EarlyStages \ {"applyServices"}
    BY <1>1, <1>2, <2>1, <2>3 DEF InstallInv, Stage, EarlyStages, DeleteStages, LateStages
  <2>4. CASE work.stage = "postCleanup" /\ s = "countDeployments" /\ UNCHANGED <<deploy, webhooks>>
    BY <1>1, <1>2, <2>4 DEF InstallInv, Stage, EarlyStages, DeleteStages, LateStages, OperatorsAre
  <2> QED
    BY <2>2, <2>3, <2>4 DEF EarlyStages, DeleteStages
<1>7. CopiedFinalizer'
  BY <1>1, <1>2 DEF InstallInv, CopiedFinalizer, DeleteStages
<1>8. CopiedReady'
  <2>1. work.cr.ready => work.stage = "return"
    BY DEF InstallInv, CopiedReady
  <2> QED
    BY <1>1, <2>1 DEF InstallInv, CopiedReady, DeleteStages
<1> QED
  BY <1>4, <1>5, <1>6, <1>7, <1>8, InstallStep

\* A reconcile begins with the resource's own image and release, and not ready.
LEMMA BeginInstall ==
    ASSUME TypeOK, TypeOK', InstallInv, NEW n \in Instances,
           AddFinalizer(n) \/ DeleteDuplicate(n) \/ BeginReconcile(n)
    PROVE  InstallInv'
<1>0. /\ Exists(n) /\ crs[n] \in CRs /\ InitConditions(crs[n]) \in CRs
      /\ UNCHANGED <<clock, running, crds, services, owner, deploy>>
  BY CRType DEF AddFinalizer, DeleteDuplicate, BeginReconcile, Initialized, cluster
<1> DEFINE cr == InitConditions(crs[n])
<1>1. /\ cr.image = crs[n].image /\ cr.release = crs[n].release /\ cr.ready = FALSE
      /\ cr.finalizer = crs[n].finalizer
  BY <1>0 DEF InitConditions, CRs
<1>2. crs[n].deleting => crs[n].finalizer
  BY <1>0 DEF InstallInv, CreatedInTurn
<1>3. \A m, r : Applied(m, r)' <=> Applied(m, r)
  BY <1>0 DEF Applied
<1>4. crs[n].image # None =>
         /\ Served(n) /\ crs[n].image <= running
         /\ crs[n].image = running => Applied(n, crs[n])
  BY <1>0 DEF InstallInv, RecordedImage
<1> HIDE DEF cr
<1>5. CASE AddFinalizer(n)
  <2> DEFINE new == [cr EXCEPT !.finalizer = @ \/ ~crs[n].deleting]
  <2>1. /\ new \in CRs /\ new.image = crs[n].image /\ new.release = crs[n].release
        /\ new.ready = FALSE /\ new.finalizer = TRUE
    BY <1>0, <1>1, <1>2 DEF cr, CRs
  <2>2. Start(n, "return", new) /\ UNCHANGED crs
    BY <1>5 DEF AddFinalizer, cr
  <2> HIDE DEF new
  <2>3. work' \in Works /\ work'.stage = "return" /\ work'.cr = new /\ work'.name = n
    BY <2>1, <2>2, StartType DEF Stages
  <2>4. \A m : (Served(m)' <=> Served(m)) /\ (Exists(m)' <=> Exists(m))
    BY <2>2, ServedSame
  <2>5. RecordedImage'
    BY <1>0, <1>3, <2>2, <2>4 DEF InstallInv, RecordedImage
  <2>6. CopiedImage'
    BY <1>0, <1>3, <1>4, <2>1, <2>3, <2>4 DEF CopiedImage, Applied
  <2>7. Stage' /\ CopiedFinalizer' /\ CopiedReady'
    BY <2>1, <2>3 DEF Stage, CopiedFinalizer, CopiedReady, EarlyStages, DeleteStages, LateStages
  <2> QED
    BY <1>0, <2>2, <2>5, <2>6, <2>7, InstallStep
<1>6. CASE BeginReconcile(n)
  <2> DEFINE s == IF crs[n].deleting THEN "reconcileDelete" ELSE "cleanupObsolete"
  <2>1. Start(n, s, cr) /\ UNCHANGED crs
    BY <1>6 DEF BeginReconcile, cr
  <2>2. work' \in Works /\ work'.stage = s /\ work'.cr = cr /\ work'.name = n
    BY <1>0, <2>1, StartType DEF Stages, cr
  <2>3. \A m : (Served(m)' <=> Served(m)) /\ (Exists(m)' <=> Exists(m))
    BY <2>1, ServedSame
  <2>4. Served(n) /\ crs[n].finalizer
    BY <1>2, <1>6 DEF BeginReconcile, Initialized, Served, Oldest
  <2>5. RecordedImage'
    BY <1>0, <1>3, <2>1, <2>3 DEF InstallInv, RecordedImage
  <2>6. CopiedImage'
    BY <1>0, <1>1, <1>3, <1>4, <2>2, <2>3 DEF CopiedImage, Applied
  <2>7. Stage'
    BY <1>1, <2>1, <2>2, <2>3, <2>4 DEF Stage, EarlyStages, DeleteStages, LateStages
  <2>8. CopiedFinalizer' /\ CopiedReady'
    BY <1>1, <2>1, <2>2, <2>4 DEF CopiedFinalizer, CopiedReady
  <2> QED
    BY <1>0, <2>1, <2>5, <2>6, <2>7, <2>8, InstallStep
<1>7. CASE DeleteDuplicate(n)
  <2>1. Start(n, "return", cr) /\ crs[n].finalizer
    BY <1>7 DEF DeleteDuplicate, Initialized, cr
  <2>2. work' \in Works /\ work'.stage = "return" /\ work'.cr = cr /\ work'.name = n
    BY <1>0, <2>1, StartType DEF Stages, cr
  <2>3. \A m \in Instances :
          /\ Exists(m)' <=> Exists(m)
          /\ Exists(m) =>
               /\ crs'[m].created = crs[m].created /\ crs'[m].finalizer = crs[m].finalizer
               /\ crs'[m].image = crs[m].image /\ crs'[m].release = crs[m].release
               /\ crs'[m].deleting => crs[m].deleting \/ m = n
    <3>1. CASE UNCHANGED crs
      BY <3>1 DEF Exists
    <3>2. CASE crs' = [crs EXCEPT ![n].deleting = TRUE]
      <4>1. crs \in [Instances -> CRs \cup {None}]
        BY DEF TypeOK
      <4>2. crs'[n] = [crs[n] EXCEPT !.deleting = TRUE] /\ \A m \in Instances \ {n} : crs'[m] = crs[m]
        BY <3>2, <4>1
      <4>3. /\ crs'[n] \in CRs /\ crs'[n].created = crs[n].created /\ crs'[n].finalizer = crs[n].finalizer
            /\ crs'[n].image = crs[n].image /\ crs'[n].release = crs[n].release
        BY <1>0, <4>2 DEF CRs
      <4> QED
        BY <1>0, <4>2, <4>3, InstallerAssumption DEF Exists
    <3> QED
      BY <1>7, <3>1, <3>2 DEF DeleteDuplicate
  <2>4. \A m \in Instances : Served(m) => Served(m)'
    BY <2>3 DEF Served
  <2>5. CreatedInTurn'
    BY <1>0, <2>1, <2>3 DEF InstallInv, CreatedInTurn
  <2>6. RecordedImage'
    BY <1>0, <1>3, <2>3, <2>4 DEF InstallInv, RecordedImage, Applied
  <2>7. CopiedImage'
    BY <1>0, <1>1, <1>3, <1>4, <2>2, <2>4 DEF CopiedImage, Applied
  <2>8. Stage' /\ CopiedFinalizer' /\ CopiedReady'
    BY <1>1, <2>1, <2>2 DEF Stage, CopiedFinalizer, CopiedReady, EarlyStages, DeleteStages, LateStages
  <2> QED
    BY <2>5, <2>6, <2>7, <2>8 DEF InstallInv
<1> QED
  BY <1>5, <1>6, <1>7

LEMMA CleanupInstall ==
    ASSUME TypeOK, InstallInv,
           \/ reconcileDelete \/ cleanupObsoleteResources
           \/ cleanupRabbitMQClusterOperator \/ cleanupPlacementOperator
           \/ DeleteDeployments \/ DeleteServices \/ DeleteWebhooks
    PROVE  InstallInv'
<1>0. /\ work \in Works /\ work # NoWork /\ work.cr \in CRs /\ work.name \in Instances
      /\ UNCHANGED <<crs, clock, running, crds, owner>>
  BY BusyWork DEF reconcileDelete, cleanupObsoleteResources, cleanupRabbitMQClusterOperator,
                  cleanupPlacementOperator, DeleteDeployments, DeleteServices, DeleteWebhooks
<1>a. \A n : (Served(n)' <=> Served(n)) /\ (Exists(n)' <=> Exists(n))
  BY <1>0, ServedSame
<1>1. CASE reconcileDelete
  <2> DEFINE new == [work.cr EXCEPT !.finalizer = FALSE]
  <2>1. /\ new \in CRs /\ new.image = work.cr.image /\ new.release = work.cr.release
        /\ new.ready = work.cr.ready
    BY <1>0 DEF CRs
  <2>2. Go("return", new) /\ UNCHANGED <<services, deploy>>
    BY <1>1 DEF reconcileDelete
  <2> HIDE DEF new
  <2>3. work' \in Works /\ work'.stage = "return" /\ work'.cr = new /\ work'.name = work.name
    BY <1>0, <2>1, <2>2, GoType DEF Stages
  <2>4. RecordedImage' /\ CopiedImage'
    BY <1>0, <1>a, <2>1, <2>2, <2>3 DEF InstallInv, RecordedImage, CopiedImage, Applied
  <2>5. Stage' /\ CopiedReady'
    BY <1>1, <1>0, <2>1, <2>3
       DEF reconcileDelete, InstallInv, Stage, CopiedReady, EarlyStages, DeleteStages, LateStages
  <2>6. CopiedFinalizer'
    BY <1>1, <1>0, <1>a, <2>3 DEF reconcileDelete, InstallInv, CopiedFinalizer
  <2> QED
    BY <1>0, <2>4, <2>5, <2>6, InstallStep
<1>2. CASE cleanupObsoleteResources \/ cleanupRabbitMQClusterOperator
  BY <1>0, <1>2, InstallGo DEF cleanupObsoleteResources, cleanupRabbitMQClusterOperator, Stages
<1>3. CASE cleanupPlacementOperator
  BY <1>0, <1>3, InstallGo DEF cleanupPlacementOperator, Stages
<1>4. CASE DeleteDeployments
  BY <1>0, <1>4, InstallGo DEF DeleteDeployments, Stages, DeleteStages
<1>5. CASE DeleteServices
  <2>1. work.stage = "deleteServices" /\ Go("deleteWebhooks", work.cr)
    BY <1>5 DEF DeleteServices
  <2>2. work' \in Works /\ work'.stage = "deleteWebhooks" /\ work'.cr = work.cr /\ work'.name = work.name
    BY <1>0, <2>1, GoType DEF Stages
  <2>3. CASE owner # work.name
    BY <1>0, <1>5, <2>1, <2>3, InstallGo DEF DeleteServices, Stages, DeleteStages
  <2>4. CASE owner = work.name
    <3>1. /\ work.cr.release # Release[running] /\ work.cr.release = crs[work.name].release
      BY <1>0, <2>1 DEF InstallInv, Stage, DeleteStages, EarlyStages
    <3>2. \A n \in Instances : Exists(n) => crs[n].image # running
      BY <2>4, <3>1, InstallerAssumption DEF InstallInv, RecordedImage, Applied, TypeOK
    <3>3. work.cr.image # running
      BY <1>0, <3>1, InstallerAssumption DEF InstallInv, CopiedImage, Applied, TypeOK
    <3>4. RecordedImage' /\ CopiedImage'
      BY <1>0, <1>a, <2>2, <3>2, <3>3 DEF InstallInv, RecordedImage, CopiedImage
    <3>5. Stage'
      BY <1>0, <1>a, <2>1, <2>2 DEF InstallInv, Stage, EarlyStages, DeleteStages, LateStages
    <3>6. CopiedFinalizer' /\ CopiedReady'
      BY <1>0, <1>a, <2>1, <2>2 DEF InstallInv, CopiedFinalizer, CopiedReady
    <3> QED
      BY <1>0, <3>4, <3>5, <3>6, InstallStep
  <2> QED
    BY <2>3, <2>4
<1>6. CASE DeleteWebhooks
  <2> DEFINE new == [work.cr EXCEPT !.image = None, !.release = Release[running]]
  <2>1. /\ new \in CRs /\ new.image = None /\ new.ready = work.cr.ready /\ new.finalizer = work.cr.finalizer
    BY <1>0, InstallerAssumption DEF CRs, TypeOK
  <2>2. Go("return", new) /\ work.stage = "deleteWebhooks" /\ UNCHANGED <<services, deploy>>
    BY <1>6 DEF DeleteWebhooks
  <2> HIDE DEF new
  <2>3. work' \in Works /\ work'.stage = "return" /\ work'.cr = new /\ work'.name = work.name
    BY <1>0, <2>1, <2>2, GoType DEF Stages
  <2>4. RecordedImage' /\ CopiedImage'
    BY <1>0, <1>a, <2>1, <2>2, <2>3 DEF InstallInv, RecordedImage, CopiedImage, Applied
  <2>5. Stage' /\ CopiedReady' /\ CopiedFinalizer'
    BY <1>0, <2>1, <2>2, <2>3
       DEF InstallInv, Stage, CopiedReady, CopiedFinalizer, EarlyStages, DeleteStages, LateStages
  <2> QED
    BY <1>0, <2>4, <2>5, InstallStep
<1> QED
  BY <1>1, <1>2, <1>3, <1>4, <1>5, <1>6

LEMMA ApplyInstall ==
    ASSUME TypeOK, InstallInv, applyCRDs \/ applyServices \/ ApplyPart \/ applyOperator \/ ApplyOperatorPart
    PROVE  InstallInv'
<1>0. /\ work \in Works /\ work # NoWork /\ work.cr \in CRs /\ work.name \in Instances
      /\ UNCHANGED <<crs, clock, running>>
  BY BusyWork DEF applyCRDs, applyServices, ApplyPart, applyOperator, ApplyOperatorPart, ApplyManifests
<1>a. \A n : (Served(n)' <=> Served(n)) /\ (Exists(n)' <=> Exists(n))
  BY <1>0, ServedSame
<1>b. ASSUME crds' = crds \/ crds' = {running} \/ crds' = crds \cup {running},
             services' = services \/ services' = {running} \/ services' = services \cup {running},
             UNCHANGED owner
      PROVE  \A n, cr : Applied(n, cr) => Applied(n, cr)'
  BY <1>0, <1>b DEF Applied
<1>1. CASE applyCRDs
  <2>1. Go("applyServices", work.cr) /\ work.stage = "applyCRDs" /\ UNCHANGED <<services, owner, deploy>>
    BY <1>1 DEF applyCRDs
  <2>2. work' \in Works /\ work'.stage = "applyServices" /\ work'.cr = work.cr /\ work'.name = work.name
    BY <1>0, <2>1, GoType DEF Stages
  <2>3. crds' = {running} \/ (crds' = crds /\ work.cr.image = running)
    BY <1>1 DEF applyCRDs, containerImageMatch
  <2>4. \A n, cr : Applied(n, cr) => Applied(n, cr)'
    BY <1>b, <2>1, <2>3
  <2>5. RecordedImage' /\ CopiedImage'
    BY <1>0, <1>a, <2>2, <2>4 DEF InstallInv, RecordedImage, CopiedImage
  <2>6. crds' = {running}
    BY <1>0, <2>3, InstallerAssumption DEF InstallInv, CopiedImage, Applied, TypeOK
  <2>7. Stage'
    BY <1>0, <1>a, <2>1, <2>2, <2>6 DEF InstallInv, Stage, EarlyStages, DeleteStages, LateStages
  <2>8. CopiedFinalizer' /\ CopiedReady'
    BY <1>0, <1>a, <2>1, <2>2 DEF InstallInv, CopiedFinalizer, CopiedReady
  <2> QED
    BY <1>0, <2>5, <2>7, <2>8, InstallStep
<1>2. CASE applyServices
  <2> DEFINE new == [work.cr EXCEPT !.image = running]
  <2>1. /\ new \in CRs /\ new.image = running /\ new.release = work.cr.release
        /\ new.ready = work.cr.ready /\ new.finalizer = work.cr.finalizer
    BY <1>0 DEF CRs, TypeOK
  <2>2. Go("applyOperator", new) /\ work.stage = "applyServices" /\ UNCHANGED <<crds, deploy>>
    BY <1>2 DEF applyServices
  <2> HIDE DEF new
  <2>3. work' \in Works /\ work'.stage = "applyOperator" /\ work'.cr = new /\ work'.name = work.name
    BY <1>0, <2>1, <2>2, GoType DEF Stages
  <2>4. /\ Served(work.name) /\ work.cr.image = crs[work.name].image /\ work.cr.release = Release[running]
        /\ crds = {running}
    BY <1>0, <2>2 DEF InstallInv, Stage, EarlyStages
  <2>5. Applied(work.name, work.cr)' /\ RecordedImage'
    <3>1. CASE work.cr.image = running
      <4>1. UNCHANGED <<services, owner>>
        BY <1>2, <3>1 DEF applyServices, containerImageMatch
      <4>2. Applied(work.name, work.cr)
        BY <1>0, <3>1, InstallerAssumption DEF InstallInv, CopiedImage, TypeOK
      <4> QED
        BY <1>0, <1>a, <2>1, <2>2, <2>3, <4>1, <4>2 DEF InstallInv, RecordedImage, Applied
    <3>2. CASE work.cr.image # running
      <4>1. services' = {running} /\ owner' = work.name
        BY <1>2, <3>2 DEF applyServices, containerImageMatch
      <4>2. \A n \in Instances : Exists(n) => crs[n].image # running
        <5> SUFFICES ASSUME NEW n \in Instances, Exists(n), crs[n].image = running PROVE FALSE
          OBVIOUS
        <5>1. Served(n)
          BY InstallerAssumption DEF InstallInv, RecordedImage, TypeOK
        <5>2. n = work.name
          BY <1>0, <2>4, <5>1, ServedOnce DEF InstallInv
        <5> QED
          BY <2>4, <3>2, <5>2
      <4>3. RecordedImage'
        BY <1>0, <1>a, <4>2 DEF InstallInv, RecordedImage
      <4> QED
        BY <1>0, <2>1, <2>2, <2>3, <2>4, <4>1, <4>3 DEF Applied
    <3> QED
      BY <3>1, <3>2
  <2>6. CopiedImage'
    <3>1. running <= running
      BY InstallerAssumption DEF TypeOK
    <3> QED
      BY <1>0, <1>a, <2>1, <2>3, <2>4, <2>5, <3>1 DEF CopiedImage
  <2>7. Stage'
    BY <1>0, <1>a, <2>1, <2>3, <2>4 DEF Stage, EarlyStages, DeleteStages, LateStages
  <2>8. CopiedFinalizer' /\ CopiedReady'
    BY <1>0, <1>a, <2>1, <2>2, <2>3 DEF InstallInv, CopiedFinalizer, CopiedReady
  <2> QED
    BY <1>0, <2>5, <2>6, <2>7, <2>8, InstallStep
<1>3. CASE ApplyPart
  <2>1. /\ Go("return", work.cr) /\ work.stage \in {"applyCRDs", "applyServices"}
        /\ UNCHANGED <<owner, deploy>>
        /\ crds' = crds \/ crds' = crds \cup {running}
        /\ services' = services \/ services' = services \cup {running}
    BY <1>3 DEF ApplyPart
  <2>2. work' \in Works /\ work'.stage = "return" /\ work'.cr = work.cr /\ work'.name = work.name
    BY <1>0, <2>1, GoType DEF Stages
  <2>3. \A n, cr : Applied(n, cr) => Applied(n, cr)'
    BY <1>b, <2>1
  <2>4. RecordedImage' /\ CopiedImage'
    BY <1>0, <1>a, <2>2, <2>3 DEF InstallInv, RecordedImage, CopiedImage
  <2>5. Stage' /\ CopiedFinalizer' /\ CopiedReady'
    BY <1>0, <1>a, <2>1, <2>2
       DEF InstallInv, Stage, CopiedFinalizer, CopiedReady, EarlyStages, DeleteStages, LateStages
  <2> QED
    BY <1>0, <2>4, <2>5, InstallStep
<1>4. CASE applyOperator \/ ApplyOperatorPart
  <2>1. /\ CountedOperators.image = work.cr.image /\ CountedOperators.release = work.cr.release
        /\ CountedOperators.ready = work.cr.ready /\ CountedOperators.finalizer = work.cr.finalizer
    BY <1>0 DEF CountedOperators, CRs
  <2>2. work.stage = "applyOperator" /\ UNCHANGED <<crds, services, owner>>
    BY <1>4 DEF applyOperator, ApplyOperatorPart, ApplyManifests
  <2>3. /\ work'.cr = CountedOperators /\ work'.name = work.name
        /\ work'.stage = "return" \/ (work'.stage = "postCleanup" /\ applyOperator)
    BY <1>0, <1>4 DEF applyOperator, ApplyOperatorPart, Go, Works
  <2>4. work'.stage = "postCleanup" => OperatorsAre(running)'
    BY <1>0, <2>3 DEF applyOperator, ApplyManifests, MergedDeployment, MergedWebhooks, OperatorsAre
  <2>5. RecordedImage' /\ CopiedImage'
    BY <1>0, <1>a, <2>1, <2>2, <2>3 DEF InstallInv, RecordedImage, CopiedImage, Applied
  <2>6. Stage'
    BY <1>0, <1>a, <2>1, <2>2, <2>3, <2>4 DEF InstallInv, Stage, EarlyStages, DeleteStages, LateStages
  <2>7. CopiedFinalizer' /\ CopiedReady'
    BY <1>0, <1>a, <2>1, <2>2, <2>3 DEF InstallInv, CopiedFinalizer, CopiedReady
  <2> QED
    BY <1>0, <2>5, <2>6, <2>7, InstallStep
<1> QED
  BY <1>1, <1>2, <1>3, <1>4

LEMMA ReportInstall ==
    ASSUME TypeOK, InstallInv,
           postCleanupObsoleteResources \/ countDeployments \/ checkServiceEndpoints \/ CallFails
    PROVE  InstallInv'
<1>0. /\ work \in Works /\ work # NoWork /\ work.cr \in CRs /\ work.name \in Instances
      /\ UNCHANGED <<crs, clock, running, crds, services, owner, deploy, webhooks>>
  BY BusyWork DEF postCleanupObsoleteResources, countDeployments, checkServiceEndpoints, CallFails, Stages, cluster
<1>a. \A n : (Served(n)' <=> Served(n)) /\ (Exists(n)' <=> Exists(n))
  BY <1>0, ServedSame
<1>1. CASE postCleanupObsoleteResources \/ CallFails
  BY <1>0, <1>1, InstallGo DEF postCleanupObsoleteResources, CallFails, Stages
<1>2. CASE countDeployments
  <2> DEFINE new == [work.cr EXCEPT !.deploymentsReady = TRUE]
  <2>1. /\ new \in CRs /\ new.image = work.cr.image /\ new.release = work.cr.release
        /\ new.ready = work.cr.ready /\ new.finalizer = work.cr.finalizer
    BY <1>0 DEF CRs
  <2>2. work.stage = "countDeployments" /\ (Go("return", work.cr) \/ Go("checkEndpoints", new))
    BY <1>2 DEF countDeployments
  <2> HIDE DEF new
  <2>3. CASE Go("return", work.cr)
    BY <1>0, <2>2, <2>3, InstallGo DEF Stages
  <2>4. CASE Go("checkEndpoints", new)
    <3>1. work' \in Works /\ work'.stage = "checkEndpoints" /\ work'.cr = new /\ work'.name = work.name
      BY <1>0, <2>1, <2>4, GoType DEF Stages
    <3>2. RecordedImage' /\ CopiedImage'
      BY <1>0, <1>a, <2>1, <3>1 DEF InstallInv, RecordedImage, CopiedImage, Applied
    <3>3. Stage'
      BY <1>0, <1>a, <2>1, <2>2, <3>1 DEF InstallInv, Stage, EarlyStages, DeleteStages, LateStages, OperatorsAre
    <3>4. CopiedFinalizer' /\ CopiedReady'
      BY <1>0, <1>a, <2>1, <2>2, <3>1 DEF InstallInv, CopiedFinalizer, CopiedReady
    <3> QED
      BY <1>0, <3>2, <3>3, <3>4, InstallStep
  <2> QED
    BY <2>2, <2>3, <2>4
<1>3. CASE checkServiceEndpoints
  <2> DEFINE answered == \A o \in WebhookOps \ work.off : slices[o] # "empty"
             new == [work.cr EXCEPT !.ready = answered]
  <2>1. /\ new \in CRs /\ new.image = work.cr.image /\ new.release = work.cr.release
        /\ new.finalizer = work.cr.finalizer
    BY <1>0 DEF CRs
  <2>2. work.stage = "checkEndpoints" /\ Go("return", new)
    BY <1>3 DEF checkServiceEndpoints
  <2> HIDE DEF new, answered
  <2>3. work' \in Works /\ work'.stage = "return" /\ work'.cr = new /\ work'.name = work.name
    BY <1>0, <2>1, <2>2, GoType DEF Stages
  <2>4. RecordedImage' /\ CopiedImage'
    BY <1>0, <1>a, <2>1, <2>3 DEF InstallInv, RecordedImage, CopiedImage, Applied
  <2>5. work.cr.image = running /\ OperatorsAre(running) /\ OperatorsAre(running)'
    BY <1>0, <2>2 DEF InstallInv, Stage, LateStages, OperatorsAre
  <2>6. Stage' /\ CopiedFinalizer' /\ CopiedReady'
    BY <1>0, <1>a, <2>1, <2>2, <2>3, <2>5
       DEF InstallInv, Stage, CopiedFinalizer, CopiedReady, EarlyStages, DeleteStages, LateStages
  <2> QED
    BY <1>0, <2>4, <2>6, InstallStep
<1> QED
  BY <1>1, <1>2, <1>3

\* The deferred patch: the finalizer is missing only from a resource that goes.
LEMMA PatchInstall == ASSUME TypeOK, TypeOK', InstallInv, PatchInstance PROVE InstallInv'
<1>0. /\ work \in Works /\ work # NoWork /\ work.cr \in CRs /\ work.name \in Instances
      /\ UNCHANGED <<clock, running, crds, services, owner, deploy>> /\ work' = NoWork
  BY BusyWork DEF PatchInstance, cluster
<1>n. PICK n \in Instances : n = work.name
  BY <1>0
<1> DEFINE kept == [work.cr EXCEPT !.deleting = crs[n].deleting, !.created = crs[n].created]
           new == IF crs[n] = None \/ (crs[n].deleting /\ ~work.cr.finalizer) THEN None ELSE kept
<1>1. crs'[n] = new /\ \A m \in Instances \ {n} : crs'[m] = crs[m]
  BY <1>0, <1>n DEF PatchInstance, TypeOK
<1>2. ASSUME Exists(n)'
      PROVE  /\ Exists(n) /\ crs'[n].created = crs[n].created /\ crs'[n].finalizer
             /\ crs'[n].image = work.cr.image /\ crs'[n].release = work.cr.release
  <2>1. crs[n] # None /\ crs'[n] = kept
    BY <1>1, <1>2 DEF Exists
  <2>2. work.cr.finalizer
    BY <1>0, <1>n, <1>1, <1>2 DEF InstallInv, CopiedFinalizer, Exists
  <2> QED
    BY <1>0, <2>1, <2>2 DEF Exists, CRs
<1> HIDE DEF kept, new
<1>3. \A m \in Instances : Exists(m)' => Exists(m) /\ crs'[m].created = crs[m].created
  BY <1>1, <1>2 DEF Exists
<1>4. CreatedInTurn'
  <2>1. \A m \in Instances : Exists(m)' => (crs'[m].deleting => crs'[m].finalizer)
    BY <1>1, <1>2 DEF InstallInv, CreatedInTurn, Exists
  <2> QED
    BY <1>0, <1>3, <2>1 DEF InstallInv, CreatedInTurn
<1>5. \A m \in Instances : Served(m) /\ Exists(m)' => Served(m)'
  <2> SUFFICES ASSUME NEW m \in Instances, Served(m), Exists(m)' PROVE Served(m)'
    OBVIOUS
  <2>1. crs'[m].finalizer
    BY <1>1, <1>2 DEF Served
  <2> QED
    BY <1>3, <2>1, ServedKept
<1>6. RecordedImage'
  <2> SUFFICES ASSUME NEW m \in Instances, Exists(m)', crs'[m].image # None
               PROVE  /\ Served(m)' /\ crs'[m].image <= running
                      /\ crs'[m].image = running => Applied(m, crs[m])'
    BY <1>0 DEF RecordedImage
  <2>1. CASE m = n
    BY <1>0, <1>n, <1>2, <1>5, <2>1 DEF InstallInv, CopiedImage, Applied
  <2>2. CASE m # n
    BY <1>0, <1>1, <1>3, <1>5, <2>2 DEF InstallInv, RecordedImage, Applied
  <2> QED
    BY <2>1, <2>2
<1> QED
  BY <1>0, <1>4, <1>6 DEF InstallInv, CopiedImage, Stage, CopiedFinalizer, CopiedReady

\* What a resource that appears, or is deleted, leaves alone.
LEMMA ResourceInstall ==
    ASSUME ~SameSecond, TypeOK, TypeOK', InstallInv, NEW n \in Instances, CreateOpenStack(n) \/ DeleteOpenStack(n)
    PROVE  InstallInv'
<1>0. /\ UNCHANGED <<running, crds, services, owner, deploy, webhooks, work>>
      /\ crs \in [Instances -> CRs \cup {None}]
      /\ clock \in Nat
  BY InstallerAssumption DEF CreateOpenStack, DeleteOpenStack, cluster, TypeOK
<1>1. ASSUME CreatedInTurn',
             \A m \in Instances : Served(m) => Served(m)',
             \A m \in Instances : Exists(m)' => m = n \/ Exists(m),
             \A m \in Instances : Exists(m)' =>
                 \/ crs'[m].image = None
                 \/ crs'[m].image = crs[m].image /\ crs'[m].release = crs[m].release /\ Exists(m),
             work # NoWork /\ (Served(work.name) \/ Exists(work.name)') =>
                 /\ crs'[work.name].image = crs[work.name].image
                 /\ crs'[work.name].release = crs[work.name].release
                 /\ Exists(work.name) /\ (crs[work.name].deleting => crs'[work.name].deleting)
      PROVE  InstallInv'
  <2>2. RecordedImage'
    BY <1>0, <1>1 DEF InstallInv, RecordedImage, Applied
  <2>3. work # NoWork => work.name \in Instances
    BY DEF TypeOK, Works
  <2>4. CopiedImage'
    BY <1>0, <1>1, <2>3 DEF InstallInv, CopiedImage, Applied
  <2>5. Stage'
    BY <1>0, <1>1, <2>3 DEF InstallInv, Stage, EarlyStages, DeleteStages, LateStages, OperatorsAre
  <2>6. CopiedFinalizer'
    BY <1>0, <1>1, <2>3 DEF InstallInv, CopiedFinalizer, Stage
  <2>7. CopiedReady'
    BY <1>0 DEF InstallInv, CopiedReady, OperatorsAre
  <2> QED
    BY <1>1, <2>2, <2>4, <2>5, <2>6, <2>7 DEF InstallInv
<1>2. CASE CreateOpenStack(n)
  <2> DEFINE t == clock + 1
             new == [created |-> t, deleting |-> FALSE, finalizer |-> FALSE,
                     conditions |-> FALSE, image |-> None, release |-> None, enabled |-> 0,
                     deploymentsReady |-> FALSE, ready |-> FALSE]
  <2>1. ~Exists(n) /\ work.name # n /\ clock' = t /\ crs' = [crs EXCEPT ![n] = new]
    BY <1>2 DEF CreateOpenStack
  <2>2. new.created = t /\ new.image = None /\ new.deleting = FALSE
    OBVIOUS
  <2> HIDE DEF new
  <2>3. crs'[n] = new /\ \A m \in Instances \ {n} : crs'[m] = crs[m]
    BY <1>0, <2>1
  <2>4. \A m \in Instances : Exists(m)' => m = n \/ Exists(m)
    BY <2>3 DEF Exists
  <2>5. \A m \in Instances : Exists(m) => m # n /\ crs[m].created \in Nat /\ crs[m].created <= clock
    BY <1>0, <2>1, InstallerAssumption DEF Exists, CRs, InstallInv, CreatedInTurn
  <2>6. CreatedInTurn'
    <3>1. \A m \in Instances : Exists(m)' => crs'[m].created <= clock' /\ (crs'[m].deleting => crs'[m].finalizer)
      BY <1>0, <2>1, <2>2, <2>3, <2>4, <2>5 DEF InstallInv, CreatedInTurn
    <3>2. \A k, m \in Instances : Exists(k)' /\ Exists(m)' /\ crs'[k].created = crs'[m].created => k = m
      BY <1>0, <2>1, <2>2, <2>3, <2>4, <2>5 DEF InstallInv, CreatedInTurn
    <3> QED
      BY <3>1, <3>2 DEF CreatedInTurn
  <2>7. \A m \in Instances : Served(m) => Served(m)'
    <3> SUFFICES ASSUME NEW m \in Instances, Served(m) PROVE Served(m)'
      OBVIOUS
    <3>1. m # n /\ crs'[m] = crs[m] /\ Exists(m)' /\ crs'[m].finalizer
      BY <2>1, <2>3 DEF Served, Exists
    <3>2. \A k \in Instances : Exists(k)' =>
             \/ Exists(k) /\ crs'[k].created = crs[k].created
             \/ crs'[k].created > clock /\ crs[m].created <= clock
      BY <1>0, <2>2, <2>3, <2>4, <2>5 DEF Served
    <3> QED
      BY <3>1, <3>2, ServedKept
  <2>8. work # NoWork => work.name \in Instances
    BY DEF TypeOK, Works
  <2>9. work # NoWork /\ (Served(work.name) \/ Exists(work.name)') =>
            /\ crs'[work.name].image = crs[work.name].image
            /\ crs'[work.name].release = crs[work.name].release
            /\ Exists(work.name) /\ (crs[work.name].deleting => crs'[work.name].deleting)
    BY <1>0, <2>1, <2>3, <2>4, <2>8 DEF Served
  <2>10. \A m \in Instances : Exists(m)' =>
            \/ crs'[m].image = None
            \/ crs'[m].image = crs[m].image /\ crs'[m].release = crs[m].release /\ Exists(m)
    BY <2>2, <2>3, <2>4
  <2> QED
    BY <1>1, <2>4, <2>6, <2>7, <2>9, <2>10
<1>3. CASE DeleteOpenStack(n)
  <2>1. /\ Exists(n) /\ crs[n] \in CRs /\ clock' = clock
        /\ \A m \in Instances \ {n} : crs'[m] = crs[m]
        /\ crs'[n] = IF crs[n].finalizer THEN [crs[n] EXCEPT !.deleting = TRUE] ELSE None
    BY <1>0, <1>3, CRType DEF DeleteOpenStack
  <2>2. ASSUME Exists(n)'
        PROVE  /\ crs'[n].created = crs[n].created /\ crs'[n].finalizer = crs[n].finalizer /\ crs[n].finalizer
               /\ crs'[n].image = crs[n].image /\ crs'[n].release = crs[n].release
               /\ crs'[n].deleting
    BY <2>1, <2>2 DEF Exists, CRs
  <2>3. crs[n].finalizer => Exists(n)'
    <3>1. [crs[n] EXCEPT !.deleting = TRUE] \in CRs
      BY <2>1 DEF CRs
    <3> QED
      BY <2>1, <3>1, InstallerAssumption DEF Exists
  <2>4. \A m \in Instances : Exists(m)' => Exists(m) /\ crs'[m].created = crs[m].created
    BY <2>1, <2>2 DEF Exists
  <2>5. CreatedInTurn'
    <3>1. \A m \in Instances : Exists(m)' => (crs'[m].deleting => crs'[m].finalizer)
      BY <2>1, <2>2 DEF InstallInv, CreatedInTurn, Exists
    <3> QED
      BY <2>1, <2>4, <3>1 DEF InstallInv, CreatedInTurn
  <2>6. \A m \in Instances : Served(m) => Served(m)'
    <3> SUFFICES ASSUME NEW m \in Instances, Served(m) PROVE Served(m)'
      OBVIOUS
    <3>1. Exists(m)' /\ crs'[m].finalizer
      BY <2>1, <2>2, <2>3 DEF Served, Exists
    <3> QED
      BY <2>4, <3>1, ServedKept
  <2>7. work # NoWork => work.name \in Instances
    BY DEF TypeOK, Works
  <2>8. \A m \in Instances : Exists(m)' =>
            /\ crs'[m].image = crs[m].image /\ crs'[m].release = crs[m].release
            /\ crs[m].deleting => crs'[m].deleting
    BY <2>1, <2>2 DEF Exists
  <2>9. \A m \in Instances : Served(m) => Exists(m)'
    BY <2>6 DEF Served
  <2>10. work # NoWork /\ (Served(work.name) \/ Exists(work.name)') =>
            /\ crs'[work.name].image = crs[work.name].image
            /\ crs'[work.name].release = crs[work.name].release
            /\ Exists(work.name) /\ (crs[work.name].deleting => crs'[work.name].deleting)
    BY <1>0, <2>4, <2>7, <2>8, <2>9
  <2>11. \A m \in Instances : Exists(m)' =>
            \/ crs'[m].image = None
            \/ crs'[m].image = crs[m].image /\ crs'[m].release = crs[m].release /\ Exists(m)
    BY <2>4, <2>8
  <2>12. \A m \in Instances : Exists(m)' => m = n \/ Exists(m)
    BY <2>4
  <2> QED
    BY <1>1, <2>5, <2>6, <2>10, <2>11, <2>12
<1> QED
  BY <1>2, <1>3

LEMMA EnvironmentInstall ==
    ASSUME ~Rollback, ~SameSecond, TypeOK, TypeOK', InstallInv,
           Environment \/ ProcessStops \/ (\E o \in Operators : PodFails(o))
    PROVE  InstallInv'
<1>1. ASSUME NEW n \in Instances, CreateOpenStack(n) \/ DeleteOpenStack(n) PROVE InstallInv'
  BY <1>1, ResourceInstall
<1>2. ASSUME NEW o \in Operators, EditOverride(o) PROVE InstallInv'
  BY <1>2, InstallFrame DEF EditOverride, cluster
<1>3. ASSUME NEW o \in Operators, PodRolls(o) \/ PodFails(o) PROVE InstallInv'
  <2>1. \A p \in Operators : deploy'[p].build = deploy[p].build
    BY <1>3 DEF PodRolls, PodFails, TypeOK, Deployments
  <2> QED
    BY <1>3, <2>1, InstallFrame DEF PodRolls, PodFails
<1>4. ASSUME NEW o \in WebhookOps, SliceFollows(o) PROVE InstallInv'
  BY <1>4, InstallFrame DEF SliceFollows
<1>5. CASE ProcessStops
  BY <1>5, InstallFrame DEF ProcessStops, cluster
<1>6. ASSUME NEW p \in {"ours", "other"}, RabbitsMigrated(p) PROVE InstallInv'
  BY <1>6, InstallFrame DEF RabbitsMigrated
<1>7. CASE InjectCA \/ OlmRefreshes
  <2>1. \A k \in WebhookKinds : webhooks'[k].hooks = webhooks[k].hooks
    BY <1>7 DEF InjectCA, OlmRefreshes, Configurations, TypeOK
  <2> QED
    BY <1>7, <2>1, InstallFrame DEF InjectCA, OlmRefreshes
<1>8. ASSUME NEW b \in Builds, UpgradeOperator(b) PROVE InstallInv'
  <2>1. running' = b /\ b > running /\ work' = NoWork /\ UNCHANGED <<crs, clock>>
    BY <1>8 DEF UpgradeOperator
  <2>2. \A n : (Served(n)' <=> Served(n)) /\ (Exists(n)' <=> Exists(n))
    BY <2>1, ServedSame
  <2>3. \A n \in Instances : Exists(n) /\ crs[n].image # None => crs[n].image \in Nat
    BY InstallerAssumption DEF TypeOK, Exists, CRs
  <2>4. b \in Nat /\ running \in Nat
    BY InstallerAssumption DEF TypeOK
  <2>5. RecordedImage'
    BY <2>1, <2>2, <2>3, <2>4 DEF InstallInv, RecordedImage
  <2> QED
    BY <2>1, <2>5, InstallStep
       DEF InstallInv, CreatedInTurn, Exists, CopiedImage, Stage, CopiedFinalizer, CopiedReady
<1>9. CASE GarbageCollect
  <2>1. UNCHANGED <<crs, clock, running, work, crds>> /\ ~Exists(owner)
    BY <1>9 DEF GarbageCollect
  <2>2. \A n : (Served(n)' <=> Served(n)) /\ (Exists(n)' <=> Exists(n))
    BY <2>1, ServedSame
  <2>3. \A n \in Instances : Exists(n) => crs[n].image # running
    BY <2>1, InstallerAssumption DEF InstallInv, RecordedImage, Applied, TypeOK
  <2>4. work # NoWork => work.cr.image # running
    BY <2>1, InstallerAssumption DEF InstallInv, CopiedImage, Applied, Served, TypeOK
  <2>5. RecordedImage' /\ CopiedImage'
    BY <2>1, <2>2, <2>3, <2>4 DEF InstallInv, RecordedImage, CopiedImage
  <2>6. Stage' /\ CopiedReady'
    BY <2>1, <2>2, <2>4 DEF InstallInv, Stage, CopiedReady
  <2>7. CopiedFinalizer'
    BY <2>1, <2>2 DEF InstallInv, CopiedFinalizer
  <2> QED
    BY <2>1, <2>5, <2>6, <2>7, InstallStep
<1> QED
  BY <1>1, <1>2, <1>3, <1>4, <1>5, <1>6, <1>7, <1>8, <1>9 DEF Environment

LEMMA NextInstall ==
    ASSUME ~Rollback, ~SameSecond, TypeOK, TypeOK', InstallInv, [Next]_vars
    PROVE  InstallInv'
<1>1. CASE UNCHANGED vars
  BY <1>1, InstallFrame DEF vars, cluster
<1> QED
  BY <1>1, BeginInstall, CleanupInstall, ApplyInstall, ReportInstall, PatchInstall, EnvironmentInstall
     DEF Next, Reconcile, Faults

LEMMA InitInstall == ASSUME Init PROVE InstallInv
<1>0. TypeOK /\ work = NoWork /\ running = 1 /\ clock = 0
  BY InitType DEF Init
<1>1. CopiedImage /\ Stage /\ CopiedFinalizer /\ CopiedReady
  BY <1>0 DEF CopiedImage, Stage, CopiedFinalizer, CopiedReady
<1>2. CASE InitNew
  BY <1>1, <1>2 DEF InitNew, InstallInv, CreatedInTurn, RecordedImage, Exists
<1>3. CASE InitUpgrade
  <2> DEFINE n == CHOOSE i \in Instances : TRUE
  <2>0. PICK r : crs = [m \in Instances |-> IF m # n THEN None ELSE
                    [created |-> 0, deleting |-> FALSE, finalizer |-> TRUE, conditions |-> TRUE,
                     image |-> 0, release |-> r, enabled |-> Cardinality(Operators) + 2,
                     deploymentsReady |-> TRUE, ready |-> TRUE]]
    BY <1>3 DEF InitUpgrade
  <2> HIDE DEF n
  <2>1. \A m \in Instances :
          /\ m # n => crs[m] = None
          /\ m = n => crs[m].created = 0 /\ crs[m].finalizer /\ crs[m].image = 0
    BY <2>0
  <2>2. CreatedInTurn
    BY <1>0, <2>1 DEF CreatedInTurn, Exists
  <2>3. RecordedImage
    BY <1>0, <2>1 DEF RecordedImage, Served, Exists
  <2> QED
    BY <1>1, <2>2, <2>3 DEF InstallInv
<1> QED
  BY <1>2, <1>3 DEF Init

\* The manifests of the cluster, as the abstract specification sees them.
LEMMA ManifestsType == Manifests \in Builds \cup {None}
  BY DEF Manifests

LEMMA ManifestsAre ==
    ASSUME NEW b \in Builds, crds = {b}, services = {b}, OperatorsAre(b)
    PROVE  Manifests = b
<1>1. (CHOOSE c \in Builds : crds = {c}) = b
  OBVIOUS
<1> QED
  BY <1>1 DEF Manifests

\* The first state reports what is installed.
LEMMA InitRefines == Init => Install!Init
<1> SUFFICES ASSUME Init PROVE Install!Init
  OBVIOUS
<1>1. CASE InitNew
  <2>1. Reported = {}
    BY <1>1 DEF InitNew, Reported, Exists
  <2> QED
    BY <2>1, ManifestsType DEF Install!Init
<1>2. CASE InitUpgrade
  <2>1. crds = {0} /\ services = {0} /\ OperatorsAre(0)
    BY <1>2 DEF InitUpgrade, OperatorsAre
  <2>2. Manifests = 0
    BY <2>1, ManifestsAre, InstallerAssumption
  <2>3. \A n \in Instances : Exists(n) => crs[n].image = 0
    BY <1>2 DEF InitUpgrade, Exists
  <2> QED
    BY <2>2, <2>3, ManifestsType DEF Install!Init, Reported
<1> QED
  BY <1>1, <1>2 DEF Init

\* Steps that save nothing change what is installed, or nothing; steps that
\* save leave it alone.
LEMMA SavingSteps ==
    ASSUME [Next]_vars
    PROVE  \/ UNCHANGED crs
           \/ PatchInstance
           \/ \E n \in Instances : DeleteDuplicate(n) \/ CreateOpenStack(n) \/ DeleteOpenStack(n)
<1>1. CASE Reconcile
  BY <1>1 DEF Reconcile, AddFinalizer, BeginReconcile, reconcileDelete, cleanupObsoleteResources,
    cleanupRabbitMQClusterOperator, cleanupPlacementOperator, DeleteDeployments, DeleteServices, DeleteWebhooks,
    applyCRDs, applyServices, applyOperator, ApplyManifests, postCleanupObsoleteResources, countDeployments,
    checkServiceEndpoints
<1>2. CASE Environment
  BY <1>2 DEF Environment, EditOverride, PodRolls, SliceFollows, UpgradeOperator, RabbitsMigrated, InjectCA,
    OlmRefreshes, GarbageCollect
<1>3. CASE Faults
  BY <1>3 DEF Faults, ApplyPart, ApplyOperatorPart, ApplyManifests, CallFails, ProcessStops, PodFails
<1>4. CASE UNCHANGED vars
  BY <1>4 DEF vars
<1> QED
  BY <1>1, <1>2, <1>3, <1>4 DEF Next

\* Every step is a change of the manifests, a report, or neither.
LEMMA StepRefines ==
    ASSUME TypeOK, InstallInv, [Next]_vars
    PROVE  [Install!Next]_<<Manifests, Reported>>
<1>1. Manifests' \in Builds \cup {None}
  BY DEF Manifests
<1>2. CASE UNCHANGED crs
  <2>1. Reported' = Reported
    BY <1>2 DEF Reported, Exists
  <2> QED
    BY <1>1, <2>1 DEF Install!Next, Install!Change
<1>3. ASSUME UNCHANGED <<crds, services, deploy, webhooks>>,
             \A n \in Instances : Exists(n)' /\ crs'[n].ready /\ crs'[n].image \in Builds =>
                 \/ Exists(n) /\ crs[n].ready /\ crs[n].image = crs'[n].image
                 \/ crs'[n].image = Manifests
      PROVE  [Install!Next]_<<Manifests, Reported>>
  <2>1. Manifests' = Manifests
    BY <1>3 DEF Manifests, OperatorsAre
  <2>2. Reported' \subseteq Reported \cup ({Manifests} \cap Builds)
    BY <1>3 DEF Reported
  <2> QED
    BY <2>1, <2>2 DEF Install!Next, Install!Report
<1>4. CASE PatchInstance
  <2>0. /\ work # NoWork /\ work.cr \in CRs /\ work.name \in Instances
        /\ UNCHANGED <<crds, services, deploy, webhooks>>
    BY <1>4, BusyWork DEF PatchInstance, cluster
  <2>1. /\ \A m \in Instances \ {work.name} : crs'[m] = crs[m]
        /\ crs'[work.name] # None =>
             crs'[work.name].ready = work.cr.ready /\ crs'[work.name].image = work.cr.image
    BY <1>4, <2>0 DEF PatchInstance, TypeOK, CRs
  <2>2. work.cr.ready => work.cr.image = Manifests
    <3> SUFFICES ASSUME work.cr.ready PROVE work.cr.image = Manifests
      OBVIOUS
    <3>1. work.cr.image = running /\ OperatorsAre(running)
      BY <2>0 DEF InstallInv, CopiedReady
    <3>2. running \in Builds /\ running # None
      BY InstallerAssumption DEF TypeOK
    <3>3. crds = {running} /\ services = {running}
      BY <2>0, <3>1, <3>2 DEF InstallInv, CopiedImage, Applied
    <3> QED
      BY <3>1, <3>2, <3>3, ManifestsAre
  <2> QED
    BY <1>3, <2>0, <2>1, <2>2 DEF Exists
<1>5. ASSUME NEW n \in Instances, DeleteDuplicate(n) \/ DeleteOpenStack(n)
      PROVE  [Install!Next]_<<Manifests, Reported>>
  <2>1. crs[n] \in CRs /\ Exists(n) /\ UNCHANGED <<crds, services, deploy, webhooks>>
    BY <1>5, CRType DEF DeleteDuplicate, DeleteOpenStack, Initialized, cluster
  <2>2. /\ \A m \in Instances \ {n} : crs'[m] = crs[m]
        /\ crs'[n] \in {None, crs[n], [crs[n] EXCEPT !.deleting = TRUE]}
    BY <1>5 DEF DeleteDuplicate, DeleteOpenStack, TypeOK
  <2>3. crs'[n] # None => crs'[n].ready = crs[n].ready /\ crs'[n].image = crs[n].image
    BY <2>1, <2>2 DEF CRs
  <2> QED
    BY <1>3, <2>1, <2>2, <2>3 DEF Exists
<1>6. ASSUME NEW n \in Instances, CreateOpenStack(n)
      PROVE  [Install!Next]_<<Manifests, Reported>>
  <2>1. /\ UNCHANGED <<crds, services, deploy, webhooks>>
        /\ \A m \in Instances \ {n} : crs'[m] = crs[m]
        /\ ~crs'[n].ready
    BY <1>6 DEF CreateOpenStack, TypeOK, cluster
  <2> QED
    BY <1>3, <2>1 DEF Exists
<1> QED
  BY <1>2, <1>4, <1>5, <1>6, SavingSteps

\* The controller implements OperatorInstall, when its image is never rolled
\* back and no two resources get one creation timestamp: it reports an image as
\* installed only when CRDs, Services, Deployments and the webhooks listed in the
\* configurations are that image's, although it applies CRDs and Services once per
\* image, on the word of its own status, and may fail or stop between any two
\* calls or objects.
THEOREM InstallerReportsWhatIsInstalled ==
    ASSUME ~Rollback, ~SameSecond
    PROVE  Spec => ReportsWhatIsInstalled
<1>1. TypeOK /\ TypeOK' /\ InstallInv /\ [Next]_vars => InstallInv'
  BY NextInstall
<1>2. Init => InstallInv
  BY InitInstall
<1>3. TypeOK /\ InstallInv /\ [Next]_vars => [Install!Next]_<<Manifests, Reported>>
  BY StepRefines
<1>4. Spec => [](TypeOK /\ InstallInv)
  BY <1>1, <1>2, InstallerTypeCorrect, PTL DEF Spec
<1> QED
  BY <1>3, <1>4, InitRefines, PTL DEF Spec, ReportsWhatIsInstalled, Install!Spec

============================================================================
