----------------------------- MODULE Installer -----------------------------
(***************************************************************************)
(* The controller of the OpenStack initialization resource: it installs    *)
(* the CRDs, the services and the deployments of every service operator,   *)
(* upgrades them when its own image or release changes, removes what older *)
(* releases left behind, and reports when the operators run.               *)
(*                                                                         *)
(* One reconcile is a chain of calls that each may fail, and the process   *)
(* may stop between any two of them.  It works on a copy of the resource   *)
(* (work.cr); whatever it changed in the copy is patched when it returns,  *)
(* on success and on error alike, and is lost when the process stops.      *)
(***************************************************************************)
EXTENDS Naturals, FiniteSets

CONSTANTS
    Builds,       \* images of the initialization operator, in release order; 0 is one before this code
    Release,      \* the OPENSTACK_RELEASE_VERSION of each build
    Operators,    \* OperatorList: the operators this code installs
    WebhookOps,   \* those of them with a webhook service
    Hooks,        \* the names of admission webhooks
    Template,     \* the webhooks each build's configurations list
    Instances,    \* names of OpenStack resources
    Overridable,  \* operators the user may scale down through operatorOverrides
    Rollback,     \* may the initialization operator be rolled back to an older image?
    SameSecond,   \* may two OpenStack resources get the same creation timestamp?
    MaxDisturbed, \* bound: failed calls, stopped processes, failing pods, edits and deletions
    MaxTime,      \* bound: creation timestamps
    None          \* nil

VARIABLES
    running,    \* the build of the initialization operator that runs
    disabled,   \* operators the OpenStack spec overrides to replicas 0
    crs,        \* the OpenStack resources
    work,       \* the reconcile under way
    crds,       \* builds whose CRD manifests are in the cluster
    services,   \* builds whose Service manifests are; None: some are missing
    owner,      \* the OpenStack resource that controls the Services and Deployments
    deploy,     \* the Deployment of each operator and the build of its ready pod
    retired,    \* owned Deployments of operators dropped since: rabbitmq, placement
    rabbits,    \* namespaces with RabbitmqCluster instances: ours, another one
    webhooks,   \* the admission webhook configurations: what they list, and the injected caBundles
    slices,     \* the EndpointSlices of the webhook services
    legacy,     \* what OLM installed for the old per-service bundles
    refs,       \* the components the OLM Operator object's status refers to
    disturbed,  \* disturbances so far
    clock       \* the creation timestamp of the latest OpenStack resource

cluster == <<crds, services, owner, deploy, retired, rabbits, webhooks, slices, legacy, refs>>
vars == <<running, disabled, crs, work, cluster, disturbed, clock>>

WebhookKinds == {"validating", "mutating"}
OlmObjects == {"csv", "subscription", "installplan", "role"}

(* An OpenStack resource: conditions = FALSE stands for status.conditions == nil. *)
CRs == [created : 0..MaxTime, deleting : BOOLEAN, finalizer : BOOLEAN, conditions : BOOLEAN,
        image : Builds \cup {None}, release : Nat \cup {None}, enabled : Nat,
        deploymentsReady : BOOLEAN, ready : BOOLEAN]

ASSUME InstallerAssumption ==
    /\ Builds \subseteq Nat /\ {0, 1} \subseteq Builds
    /\ Release \in [Builds -> Nat]
    /\ IsFiniteSet(Operators) /\ WebhookOps \subseteq Operators /\ Overridable \subseteq Operators
    /\ Template \in [Builds -> SUBSET Hooks \ {{}}]
    /\ Instances # {}
    /\ Rollback \in BOOLEAN /\ SameSecond \in BOOLEAN
    /\ MaxDisturbed \in Nat /\ MaxTime \in Nat
    /\ None \notin Nat /\ None \notin Instances /\ None \notin CRs

(* The Deployment of an operator, and the build of its ready pod. *)
Deployments == [build : Builds \cup {None}, replicas : {0, 1}, pod : Builds \cup {None}]

NoDeployment == [build |-> None, replicas |-> 0, pod |-> None]

(* A webhook configuration: the label for the finalizer, its webhooks, and those with a caBundle. *)
Configurations == [managed : BOOLEAN, hooks : SUBSET Hooks, ca : SUBSET Hooks]

NoConfiguration == [managed |-> FALSE, hooks |-> {}, ca |-> {}]

Stages == {"cleanupObsolete", "cleanupRabbitMQ", "cleanupPlacement",
           "deleteDeployments", "deleteServices", "deleteWebhooks", "applyCRDs", "applyServices",
           "applyOperator", "postCleanup", "countDeployments", "checkEndpoints",
           "reconcileDelete", "return"}

(* off: the overrides of the copy. *)
Works == [stage : Stages, name : Instances, cr : CRs, off : SUBSET Operators]

NoWork == [stage |-> "idle", name |-> None, cr |-> None, off |-> {}]

(* One more fault, edit or deletion. *)
Disturb == disturbed < MaxDisturbed /\ disturbed' = disturbed + 1

Exists(n) == crs[n] # None

(* The resources the list may be sorted to begin with: ties are in any order. *)
Oldest == {n \in Instances : Exists(n) /\ \A m \in Instances : Exists(m) => crs[n].created <= crs[m].created}

----------------------------------------------------------------------------
(* The beginning of a reconcile, up to the first clean-up.                 *)

Go(stage, cr) == work' = [work EXCEPT !.stage = stage, !.cr = cr]

Start(n, stage, cr) == work' = [stage |-> stage, name |-> n, cr |-> cr, off |-> disabled]

(* Both conditions are initialized again, OpenStackOperatorReady to False. *)
InitConditions(cr) == [cr EXCEPT !.conditions = TRUE, !.deploymentsReady = FALSE, !.ready = FALSE]

(* A resource that is new, or has no finalizer yet: nothing is installed before both are saved. *)
AddFinalizer(n) ==
    /\ work = NoWork /\ Exists(n)
    /\ \/ ~crs[n].conditions
       \/ ~crs[n].deleting /\ ~crs[n].finalizer
    /\ Start(n, "return",
             [InitConditions(crs[n]) EXCEPT !.finalizer = @ \/ ~crs[n].deleting])
    /\ UNCHANGED <<running, disabled, crs, cluster, disturbed, clock>>

Initialized(n) == Exists(n) /\ crs[n].conditions /\ (crs[n].deleting \/ crs[n].finalizer)

(* Only one resource is served: any other one is deleted, and nothing else is done with it; *)
(* an error of the deletion is not returned.  Once it is marked, a reconcile changes nothing. *)
DeleteDuplicate(n) ==
    /\ work = NoWork /\ Initialized(n)
    /\ ~crs[n].deleting /\ \E first \in Oldest : first # n
    /\ Start(n, "return", InitConditions(crs[n]))
    /\ \/ crs' = [crs EXCEPT ![n].deleting = TRUE] /\ UNCHANGED disturbed
       \/ Disturb /\ UNCHANGED crs
    /\ UNCHANGED <<running, disabled, cluster, clock>>

BeginReconcile(n) ==
    /\ work = NoWork /\ Initialized(n) /\ n \in Oldest
    /\ Start(n, IF crs[n].deleting THEN "reconcileDelete" ELSE "cleanupObsolete", InitConditions(crs[n]))
    /\ UNCHANGED <<running, disabled, crs, cluster, disturbed, clock>>

(* The webhook configurations that carry the managed label go, then the finalizer. *)
reconcileDelete ==
    /\ work.stage = "reconcileDelete"
    /\ webhooks' = [k \in WebhookKinds |-> IF webhooks[k].managed THEN NoConfiguration ELSE webhooks[k]]
    /\ Go("return", [work.cr EXCEPT !.finalizer = FALSE])
    /\ UNCHANGED <<running, disabled, crs, crds, services, deploy, owner, retired, rabbits, slices, legacy, refs,
                   disturbed, clock>>

----------------------------------------------------------------------------
(* Clean-up of what older releases left.                                   *)

(* The CSVs, subscriptions and install plans of the old service operators. *)
cleanupObsoleteResources ==
    /\ work.stage = "cleanupObsolete"
    /\ legacy' = legacy \ {"csv", "subscription", "installplan"}
    /\ Go("cleanupRabbitMQ", work.cr)
    /\ UNCHANGED <<running, disabled, crs, crds, services, deploy, owner, retired, rabbits, webhooks, slices, refs,
                   disturbed, clock>>

(* What a retired operator left is removed; a failure is only logged. *)
Retire(gone) ==
    \/ retired' = retired \ gone /\ UNCHANGED disturbed
    \/ Disturb /\ UNCHANGED retired

(* Nothing is removed while RabbitmqClusters exist in the namespace; the CRD only when none exists anywhere. *)
cleanupRabbitMQClusterOperator ==
    /\ work.stage = "cleanupRabbitMQ"
    /\ Retire(IF "ours" \in rabbits THEN {}
              ELSE IF rabbits = {} THEN {"rabbitmq", "rabbitmqCRD"} ELSE {"rabbitmq"})
    /\ Go("cleanupPlacement", work.cr)
    /\ UNCHANGED <<running, disabled, crs, crds, services, deploy, owner, rabbits, webhooks, slices, legacy, refs,
                   clock>>

(* isNewInstance is false by now, so a missing release always means a reinstall. *)
ShouldReinstall == work.cr.release = None \/ work.cr.release # Release[running]

(* The placement operator's resources; the CRD now belongs to the nova operator and stays.     *)
(* Then the release decides: reinstall, or apply the manifests.                              *)
cleanupPlacementOperator ==
    /\ work.stage = "cleanupPlacement"
    /\ Retire({"placement"})
    /\ Go(IF ShouldReinstall THEN "deleteDeployments" ELSE "applyCRDs", work.cr)
    /\ UNCHANGED <<running, disabled, crs, crds, services, deploy, owner, rabbits, webhooks, slices, legacy, refs,
                   clock>>

----------------------------------------------------------------------------
(* A changed release: everything owned is deleted first.                   *)

(* deleteOwnedResources for Deployments: every one the resource controls, retired operators' too. *)
DeleteDeployments ==
    /\ work.stage = "deleteDeployments"
    /\ IF owner = work.name
       THEN /\ deploy' = [o \in Operators |-> NoDeployment]
            /\ retired' = retired \ {"rabbitmq", "placement"}
       ELSE UNCHANGED <<deploy, retired>>
    /\ Go("deleteServices", work.cr)
    /\ UNCHANGED <<running, disabled, crs, crds, services, owner, rabbits, webhooks, slices, legacy, refs,
                   disturbed, clock>>

DeleteServices ==
    /\ work.stage = "deleteServices"
    /\ IF owner = work.name
       THEN /\ services' = {None}
            /\ slices' = [o \in WebhookOps |-> "absent"]
       ELSE UNCHANGED <<services, slices>>
    /\ Go("deleteWebhooks", work.cr)
    /\ UNCHANGED <<running, disabled, crs, crds, deploy, owner, retired, rabbits, webhooks, legacy, refs,
                   disturbed, clock>>

\* Mutant: the release for which everything was deleted is not recorded.
DeleteWebhooksUnrecorded ==
    /\ work.stage = "deleteWebhooks"
    /\ webhooks' = [webhooks EXCEPT !["validating"] = IF @.managed THEN NoConfiguration ELSE @]
    /\ Go("return", [work.cr EXCEPT !.image = None])
    /\ UNCHANGED <<running, disabled, crs, crds, services, owner, deploy, retired, rabbits, slices, legacy, refs,
                   disturbed, clock>>

(* The labelled validating webhooks, then the status is reset for the reconcile that installs again. *)
DeleteWebhooks ==
    /\ work.stage = "deleteWebhooks"
    /\ webhooks' = [webhooks EXCEPT !["validating"] = IF @.managed THEN NoConfiguration ELSE @]
    /\ Go("return", [work.cr EXCEPT !.image = None, !.release = Release[running]])
    /\ UNCHANGED <<running, disabled, crs, crds, services, deploy, owner, retired, rabbits, slices, legacy, refs,
                   disturbed, clock>>

----------------------------------------------------------------------------
(* applyManifests.                                                         *)

containerImageMatch(cr) == cr.image = running

\* Mutant: records the image before the Services are applied.
ApplyCRDsRecording ==
    /\ work.stage = "applyCRDs"
    /\ crds' = IF containerImageMatch(work.cr) THEN crds ELSE {running}
    /\ legacy' = IF containerImageMatch(work.cr) THEN legacy ELSE legacy \ {"crdLabel"}
    /\ Go("applyServices", [work.cr EXCEPT !.image = running])
    /\ UNCHANGED <<running, disabled, crs, services, owner, deploy, retired, rabbits, webhooks, slices, refs,
                   disturbed, clock>>

(* The CRDs, once per image.  Merging the labels of an existing CRD removes olm.managed. *)
applyCRDs ==
    /\ work.stage = "applyCRDs"
    /\ crds' = IF containerImageMatch(work.cr) THEN crds ELSE {running}
    /\ legacy' = IF containerImageMatch(work.cr) THEN legacy ELSE legacy \ {"crdLabel"}
    /\ Go("applyServices", work.cr)
    /\ UNCHANGED <<running, disabled, crs, services, deploy, owner, retired, rabbits, webhooks, slices, refs,
                   disturbed, clock>>

(* The Services, once per image; the image is recorded when both are applied. *)
applyServices ==
    /\ work.stage = "applyServices"
    /\ IF containerImageMatch(work.cr) THEN UNCHANGED <<services, owner>>
       ELSE services' = {running} /\ owner' = work.name
    /\ Go("applyOperator", [work.cr EXCEPT !.image = running])
    /\ UNCHANGED <<running, disabled, crs, crds, deploy, retired, rabbits, webhooks, slices, legacy, refs,
                   disturbed, clock>>

(* ApplyObject fails between two objects of a directory: those before it are applied. *)
ApplyPart ==
    /\ Disturb
    /\ work.stage \in {"applyCRDs", "applyServices"} /\ ~containerImageMatch(work.cr)
    /\ \/ /\ work.stage = "applyCRDs"
          /\ crds' = crds \cup {running}
          /\ UNCHANGED services
       \/ /\ work.stage = "applyServices"
          /\ services' = services \cup {running}
          /\ UNCHANGED crds
    /\ Go("return", work.cr)
    /\ UNCHANGED <<running, disabled, crs, deploy, owner, retired, rabbits, webhooks, slices, legacy, refs, clock>>

(* SetOverrides: the replicas of an operator, 1 unless overridden. *)
Replicas(o) == IF o \in work.off THEN 0 ELSE 1

(* The Deployment merged over the existing one: its pod keeps running until it is replaced. *)
MergedDeployment(o) == [build |-> running, replicas |-> Replicas(o), pod |-> deploy[o].pod]

\* Mutant: the caBundles go back to what the template has: none.
MergedWebhooksTemplate(w) ==
    [managed |-> w # NoConfiguration, hooks |-> Template[running], ca |-> {}]

(* A configuration is created as the template has it.  A later apply takes the template's *)
(* webhooks, finds each one's injected caBundle by its name, and adds the managed label.  *)
MergedWebhooks(w) ==
    [managed |-> w # NoConfiguration, hooks |-> Template[running], ca |-> w.ca \cap Template[running]]

(* The operators that are to run are counted before the first object is applied. *)
CountedOperators == [work.cr EXCEPT !.enabled = Cardinality({o \in Operators : Replicas(o) = 1})]

(* The Deployments of these operators, with their webhook services, and these configurations. *)
ApplyManifests(ops, kinds) ==
    /\ deploy' = [o \in Operators |-> IF o \in ops THEN MergedDeployment(o) ELSE deploy[o]]
    /\ webhooks' = [k \in WebhookKinds |-> IF k \in kinds THEN MergedWebhooks(webhooks[k]) ELSE webhooks[k]]
    /\ slices' = [o \in WebhookOps |-> IF o \in ops /\ slices[o] = "absent" THEN "empty" ELSE slices[o]]
    /\ UNCHANGED <<running, disabled, crs, crds, services, owner, retired, rabbits, legacy, refs, clock>>

applyOperator ==
    /\ work.stage = "applyOperator"
    /\ ApplyManifests(Operators, WebhookKinds)
    /\ Go("postCleanup", CountedOperators)
    /\ UNCHANGED disturbed

(* A call fails between two objects; which come first is left open. *)
ApplyOperatorPart ==
    /\ work.stage = "applyOperator"
    /\ Disturb
    /\ \E ops \in SUBSET Operators, kinds \in SUBSET WebhookKinds : ApplyManifests(ops, kinds)
    /\ Go("return", CountedOperators)

----------------------------------------------------------------------------
(* After the manifests.                                                    *)

\* Mutant: does not look at the references.
PostCleanupAtOnce ==
    /\ work.stage = "postCleanup"
    /\ legacy' = legacy \ {"operator"}
    /\ Go("countDeployments", work.cr)
    /\ UNCHANGED <<running, disabled, crs, crds, services, owner, deploy, retired, rabbits, webhooks, slices, refs,
                   disturbed, clock>>

(* An Operator object that refers to components: they are deleted, CRDs excepted, and the *)
(* reconcile fails to be tried again; one that refers to none is deleted itself.          *)
postCleanupObsoleteResources ==
    /\ work.stage = "postCleanup"
    /\ IF "operator" \in legacy /\ refs # {}
       THEN /\ legacy' = legacy \ (refs \cap OlmObjects)
            /\ Go("return", work.cr)
       ELSE /\ legacy' = legacy \ {"operator"}
            /\ Go("countDeployments", work.cr)
    /\ UNCHANGED <<running, disabled, crs, crds, services, deploy, owner, retired, rabbits, webhooks, slices, refs,
                   disturbed, clock>>

(* Every controlled Deployment with a ready pod counts. *)
Running == {o \in Operators : deploy[o].pod # None} \cup (retired \cap {"rabbitmq", "placement"})

countDeployments ==
    /\ work.stage = "countDeployments"
    /\ IF Cardinality(Running) < work.cr.enabled
       THEN Go("return", work.cr)
       ELSE Go("checkEndpoints", [work.cr EXCEPT !.deploymentsReady = TRUE])
    /\ UNCHANGED <<running, disabled, crs, cluster, disturbed, clock>>

(* Only an existing slice without addresses is waited for: the readiness of an address is *)
(* compared by pointer, which never holds.                                                *)
checkServiceEndpoints ==
    /\ work.stage = "checkEndpoints"
    /\ Go("return", [work.cr EXCEPT !.ready =
                        \A o \in WebhookOps \ work.off : slices[o] # "empty"])
    /\ UNCHANGED <<running, disabled, crs, cluster, disturbed, clock>>

(* The deferred patch: the changes of the copy reach the resource, the user's and the API *)
(* server's own fields stay.  Without finalizer a deleted resource is gone.               *)
PatchInstance ==
    /\ work.stage = "return"
    /\ LET n == work.name
           kept == [work.cr EXCEPT !.deleting = crs[n].deleting, !.created = crs[n].created]
       IN crs' = [crs EXCEPT ![n] = IF @ = None \/ (@.deleting /\ ~work.cr.finalizer) THEN None ELSE kept]
    /\ work' = NoWork
    /\ UNCHANGED <<running, disabled, cluster, disturbed, clock>>

(* A call fails: the reconcile returns the error, the deferred patch still runs. *)
CallFails ==
    /\ work.stage \in Stages \ {"return", "cleanupRabbitMQ", "cleanupPlacement"}
    /\ Disturb
    /\ Go("return", work.cr)
    /\ UNCHANGED <<running, disabled, crs, cluster, clock>>

(* The process stops, or the patch itself fails: the copy is lost. *)
ProcessStops ==
    /\ work # NoWork /\ Disturb
    /\ work' = NoWork
    /\ UNCHANGED <<running, disabled, crs, cluster, clock>>

----------------------------------------------------------------------------
(* The environment.                                                        *)

(* OLM replaces the initialization operator; the old process stops. *)
UpgradeOperator(b) ==
    /\ b # running /\ b # 0
    /\ Rollback \/ b > running
    /\ running' = b
    /\ work' = NoWork
    /\ UNCHANGED <<disabled, crs, cluster, disturbed, clock>>

(* A name is used again once what its earlier resource owned is collected. *)
CreateOpenStack(n) ==
    /\ ~Exists(n) /\ owner # n /\ work.name # n
    /\ \E t \in {clock + 1} \cup (IF SameSecond THEN {clock} ELSE {}) :
          /\ t <= MaxTime
          /\ clock' = t
          /\ crs' = [crs EXCEPT ![n] = [created |-> t, deleting |-> FALSE, finalizer |-> FALSE,
                         conditions |-> FALSE, image |-> None, release |-> None, enabled |-> 0,
                         deploymentsReady |-> FALSE, ready |-> FALSE]]
    /\ UNCHANGED <<running, disabled, work, cluster, disturbed>>

DeleteOpenStack(n) ==
    /\ Exists(n) /\ ~crs[n].deleting
    /\ Disturb
    /\ crs' = [crs EXCEPT ![n] = IF @.finalizer THEN [@ EXCEPT !.deleting = TRUE] ELSE None]
    /\ UNCHANGED <<running, disabled, work, cluster, clock>>

(* The API server collects what a resource that is gone controlled. *)
GarbageCollect ==
    /\ owner # None /\ ~Exists(owner)
    /\ owner' = None
    /\ services' = {None}
    /\ deploy' = [o \in Operators |-> NoDeployment]
    /\ retired' = retired \ {"rabbitmq", "placement"}
    /\ slices' = [o \in WebhookOps |-> "absent"]
    /\ UNCHANGED <<running, disabled, crs, work, crds, rabbits, webhooks, legacy, refs, disturbed, clock>>

EditOverride(o) ==
    /\ o \in Overridable /\ Disturb
    /\ disabled' = IF o \in disabled THEN disabled \ {o} ELSE disabled \cup {o}
    /\ UNCHANGED <<running, crs, work, cluster, clock>>

(* The Deployment controller replaces the pod of an operator by the one its Deployment asks for. *)
PodRolls(o) ==
    /\ deploy[o].pod # (IF deploy[o].replicas = 0 THEN None ELSE deploy[o].build)
    /\ deploy' = [deploy EXCEPT ![o].pod = IF deploy[o].replicas = 0 THEN None ELSE deploy[o].build]
    /\ UNCHANGED <<running, disabled, crs, work, crds, services, owner, retired, rabbits, webhooks, slices, legacy, refs,
                   disturbed, clock>>

PodFails(o) ==
    /\ deploy[o].pod # None /\ Disturb
    /\ deploy' = [deploy EXCEPT ![o].pod = None]
    /\ UNCHANGED <<running, disabled, crs, work, crds, services, owner, retired, rabbits, webhooks, slices, legacy, refs,
                   clock>>

(* The EndpointSlice of a webhook service follows the pod behind it; the address of a pod *)
(* that is going away stays for a while, not ready.                                       *)
SliceFollows(o) ==
    /\ slices[o] # "absent"
    /\ slices' = [slices EXCEPT ![o] =
                     IF deploy[o].pod # None THEN "ready" ELSE IF @ = "ready" THEN "notReady" ELSE "empty"]
    /\ slices' # slices
    /\ UNCHANGED <<running, disabled, crs, work, crds, services, deploy, owner, retired, rabbits, webhooks, legacy, refs,
                   disturbed, clock>>

(* cert-manager injects the CA of the serving certificates into every webhook. *)
InjectCA ==
    /\ webhooks' = [k \in WebhookKinds |-> [webhooks[k] EXCEPT !.ca = webhooks[k].hooks]]
    /\ webhooks' # webhooks
    /\ UNCHANGED <<running, disabled, crs, work, crds, services, deploy, owner, retired, rabbits, slices, legacy, refs,
                   disturbed, clock>>

(* OLM lists in its Operator object the components that still carry its label. *)
OlmRefreshes ==
    /\ "operator" \in legacy
    /\ refs' = legacy \ {"operator"}
    /\ refs' # refs
    /\ UNCHANGED <<running, disabled, crs, work, crds, services, deploy, owner, retired, rabbits, webhooks, slices, legacy,
                   disturbed, clock>>

(* The infra operator has migrated the RabbitmqClusters of a namespace, with the old one's operator running. *)
RabbitsMigrated(place) ==
    /\ place \in rabbits
    /\ rabbits' = rabbits \ {place}
    /\ UNCHANGED <<running, disabled, crs, work, crds, services, deploy, owner, retired, webhooks, slices, legacy, refs,
                   disturbed, clock>>

----------------------------------------------------------------------------

(* No OpenStack resource yet; OLM may have installed the per-service bundles of an old release. *)
InitNew ==
    /\ crs = [n \in Instances |-> None]
    /\ \/ legacy = {} /\ crds = {}
       \/ legacy = OlmObjects \cup {"operator", "crdLabel"} /\ crds = {0}
    /\ services = {None} /\ owner = None
    /\ deploy = [o \in Operators |-> NoDeployment]
    /\ retired = {} /\ rabbits = {}
    /\ webhooks = [k \in WebhookKinds |-> NoConfiguration]
    /\ slices = [o \in WebhookOps |-> "absent"]

(* An installation by an older build, with or without status.releaseVersion, whose RabbitMQ *)
(* is still run by the rabbitmq-cluster-operator.                                           *)
InitUpgrade ==
    /\ \E r \in {None, Release[0]} : LET n == CHOOSE i \in Instances : TRUE IN
       /\ owner = n
       /\ crs = [m \in Instances |-> IF m # n THEN None ELSE
                    [created |-> 0, deleting |-> FALSE, finalizer |-> TRUE, conditions |-> TRUE,
                     image |-> 0, release |-> r, enabled |-> Cardinality(Operators) + 2,
                     deploymentsReady |-> TRUE, ready |-> TRUE]]
    /\ legacy = {} /\ crds = {0} /\ services = {0}
    /\ deploy = [o \in Operators |-> [build |-> 0, replicas |-> 1, pod |-> 0]]
    /\ retired = {"rabbitmq", "rabbitmqCRD", "placement"}
    /\ rabbits = {"ours", "other"}
    /\ webhooks = [k \in WebhookKinds |-> [managed |-> TRUE, hooks |-> Template[0], ca |-> Template[0]]]
    /\ slices = [o \in WebhookOps |-> "ready"]

Init ==
    /\ running = 1
    /\ disabled = {}
    /\ work = NoWork
    /\ disturbed = 0 /\ clock = 0
    /\ InitNew \/ InitUpgrade
    /\ refs = legacy \ {"operator"}

Reconcile ==
    \/ \E n \in Instances : AddFinalizer(n) \/ DeleteDuplicate(n) \/ BeginReconcile(n)
    \/ reconcileDelete \/ cleanupObsoleteResources
    \/ cleanupRabbitMQClusterOperator \/ cleanupPlacementOperator
    \/ DeleteDeployments \/ DeleteServices \/ DeleteWebhooks
    \/ applyCRDs \/ applyServices \/ applyOperator
    \/ postCleanupObsoleteResources \/ countDeployments \/ checkServiceEndpoints
    \/ PatchInstance

Environment ==
    \/ \E n \in Instances : CreateOpenStack(n) \/ DeleteOpenStack(n)
    \/ \E o \in Operators : EditOverride(o) \/ PodRolls(o)
    \/ \E o \in WebhookOps : SliceFollows(o)
    \/ \E b \in Builds : UpgradeOperator(b)
    \/ \E p \in {"ours", "other"} : RabbitsMigrated(p)
    \/ InjectCA \/ OlmRefreshes \/ GarbageCollect

Faults == ApplyPart \/ ApplyOperatorPart \/ CallFails \/ ProcessStops \/ \E o \in Operators : PodFails(o)

Next == Reconcile \/ Environment \/ Faults

Spec == Init /\ [][Next]_vars

(* The controller keeps working through its queue, and the cluster's own controllers run. *)
Fairness ==
    /\ WF_vars(Reconcile)
    /\ \A o \in Operators : WF_vars(PodRolls(o))
    /\ \A o \in WebhookOps : WF_vars(SliceFollows(o))
    /\ WF_vars(InjectCA)
    /\ WF_vars(OlmRefreshes)

FairSpec == Spec /\ Fairness

----------------------------------------------------------------------------
(* Properties.                                                             *)

(* Every part of the state has its type. *)
TypeOK ==
    /\ running \in Builds /\ disabled \subseteq Operators
    /\ crs \in [Instances -> CRs \cup {None}]
    /\ work = NoWork \/ work \in Works
    /\ crds \subseteq Builds /\ services \subseteq Builds \cup {None}
    /\ owner \in Instances \cup {None}
    /\ deploy \in [Operators -> Deployments]
    /\ retired \subseteq {"rabbitmq", "rabbitmqCRD", "placement"} /\ rabbits \subseteq {"ours", "other"}
    /\ webhooks \in [WebhookKinds -> Configurations]
    /\ slices \in [WebhookOps -> {"absent", "empty", "notReady", "ready"}]
    /\ legacy \subseteq OlmObjects \cup {"operator", "crdLabel"} /\ refs \subseteq OlmObjects \cup {"crdLabel"}
    /\ disturbed \in 0..MaxDisturbed /\ clock \in 0..MaxTime

(* The Deployments and the webhook configurations are those of build b. *)
OperatorsAre(b) ==
    /\ \A o \in Operators : deploy[o].build = b
    /\ \A k \in WebhookKinds : webhooks[k].hooks = Template[b]

(* The build whose CRDs, Services, Deployments and webhooks are all in the cluster. *)
Manifests ==
    IF \E b \in Builds : crds = {b} /\ services = {b} /\ OperatorsAre(b)
    THEN CHOOSE b \in Builds : crds = {b} ELSE None

(* The builds the resources report as installed: status.containerImage of those that are ready. *)
Reported == {b \in Builds : \E n \in Instances : Exists(n) /\ crs[n].ready /\ crs[n].image = b}

Install == INSTANCE OperatorInstall WITH manifests <- Manifests, reported <- Reported

(* The controller implements OperatorInstall: whatever fails, and wherever it stops, it reports *)
(* status.containerImage as installed only when CRDs, Services, Deployments and webhooks are    *)
(* that image's.                                                                                *)
ReportsWhatIsInstalled == Install!Spec

(* postCleanupObsoleteResources removes OLM's Operator object last: after the CSVs, subscriptions, *)
(* install plans, roles and the CRDs' olm.managed labels it keeps track of.                        *)
OlmOperatorLast == "operator" \notin legacy => legacy = {}

(* Once upgrades, edits and faults are over, both configurations list the webhooks of the    *)
(* running build, the API server has the CA of each one, and the finalizer finds them: an    *)
(* upgrade that adds or drops webhooks, a release change that deletes the validating ones    *)
(* and not the others, and the merge that every later reconcile makes all leave webhooks the *)
(* API server can call.                                                                      *)
WebhooksTrusted ==
    <>[](\A n \in Oldest : ~crs[n].deleting =>
            \A k \in WebhookKinds :
               webhooks[k] = [managed |-> TRUE, hooks |-> Template[running], ca |-> Template[running]])

(* Once upgrades, edits and faults are over, the resource that is served reports the running    *)
(* build and release as ready and nothing of the old bundles is left.                           *)
InstallCompletes ==
    <>[](\A n \in Oldest : ~crs[n].deleting =>
            /\ crs[n].ready /\ crs[n].image = running /\ crs[n].release = Release[running]
            /\ legacy = {})

(* "The operator must remain running while instances are being migrated by the infra-operator": *)
(* the rabbitmq-cluster-operator is there as long as RabbitmqClusters are in its namespace.      *)
RabbitOperatorKept == "ours" \in rabbits => "rabbitmq" \in retired

(* The managed label lets the finalizer find the webhook configurations: when the last resource *)
(* is gone, none of them is left to refuse requests that no operator answers.                   *)
NoWebhooksLeft == (\A n \in Instances : ~Exists(n)) => \A k \in WebhookKinds : webhooks[k] = NoConfiguration
=============================================================================
