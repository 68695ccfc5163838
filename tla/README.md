# Verification of openstack-operator

TLA+ models of the controllers of the OpenStack operator, model-checked with TLC
on small instances and, for what matters most, proved with TLAPS for all
instances. `PROJECT.json` lists the runs, the mutants, the source lines behind
every definition, the hazards and the findings.

## The system

The operator is a set of Kubernetes controllers. A controller takes an object
from its work queue, reads it and others from the API server, changes the objects
it owns and finally patches its own status. Controllers never call each other:
each watches the objects of the others and is woken by their changes, so
everything it knows about the rest may be out of date.

| component | state | operations | interacts through |
|---|---|---|---|
| OpenStackVersion controller | target, deployed and available version, images per version, the conditions of a minor update | reconcile: adopt, store defaults, evaluate the phases, declare completion | reads the control plane and the node sets, watches both |
| OpenStackControlPlane controller | deployed version, recorded images, a condition per service | reconcile: adopt, create the version, normal pass, OVN phase, staged services, rest; delete | reads the version; owns and watches the service CRs |
| service reconcilers (`internal/openstack`) | one CR per service | create or patch with the image of the version, record the image, mirror the condition, delete when disabled | service operators (external) |
| CA, TLS, endpoints | issuers, certificates, routes | create, rotate, delete | cert-manager (external), service reconcilers |
| NodeSet controller | IP sets, DNS data, inventory, hashes, deployed version and images | reconcile, `checkDeployment` | reads deployments, version |
| Deployment controller and deployer | a condition per node set and service, hashes | run one Ansible job per service and node set, in order | jobs (external), node sets, version |
| OpenStackClient controller | hash of inputs, pod | recreate the pod when inputs change | control plane |
| BackupConfig controller | labels on resources | label what a backup needs | control plane |
| operator installer | applied manifests | clean up old operators, apply new ones in order | OLM (external) |
| webhooks | none | default and validate | every object |

What is hard here: two controllers acting on stale copies of each other's status;
work that is only started by a watch event; a user who changes the target in the
middle of an update; updates interrupted by failing passes, service flaps, failing
deployments and a restart of the operator; phases that are skipped or never left
because a service is disabled or an image does not change.

What makes the parts correct: an update goes through its phases in order on the
control plane and on the nodes; a version is declared deployed only when
everything runs it; an update that is started is completed; nothing recorded is
older than what it is about. On the data plane: what the status of a node set
says was deployed is what the jobs put on its nodes; the services of a deployment
run in order, each once, although every reconcile starts from nothing; a
deployment ends; no change is missed.

## Modules

| module | models |
|---|---|
| `Cluster` | the shared API objects, their types, the helpers both controllers use |
| `VersionController` | `openstackversion_controller.go`, `dataplane.go`, the image matches |
| `ControlPlaneController` | `openstackcontrolplane_controller.go` as far as it depends on the version, and what the service reconcilers have in common |
| `MinorUpdate` | composes the two with the webhook, the operator upgrade, the service operators, the data plane and the user; the properties |
| `MinorUpdateProofs` | type correctness and the safety theorems of `MinorUpdate` |
| `DataPlaneState` | node sets, deployments, jobs, inventories, their types |
| `NodeSetController` | `openstackdataplanenodeset_controller.go`: hash detection, `checkDeployment`, inventory, status |
| `DeploymentController` | `openstackdataplanedeployment_controller.go` and the deployer `deployment.go` |
| `DataPlane` | composes the two with the user, the node set webhook and the jobs; the properties |
| `ServiceRollout` | what a deployment promises: each service once and in order, success when all are done |
| `DataPlaneProofs` | type correctness and the safety theorems of `DataPlane`, and that it implements `ServiceRollout` |
| `ServiceSelection` | `DedupeServices` and `dedupe` (`internal/dataplane/service.go`), as folds |
| `DataPlaneServices` | `DataPlane` with the plan of a deployment selected from the lists of the node sets, the override and the services |
| `SelectionProofs` | what the selection computes, and the theorems of `DataPlaneServices` |
| `ServiceCatalog` | what tells the service reconcilers of `internal/openstack` apart: endpoints, certificates, credentials, images, clean-up |
| `Endpoints` | the certificate and the route of one endpoint (`common.go`) |
| `ServiceReconcilers` | the passes of the control plane controller over the services of the catalogue, application credentials included |
| `ControlPlaneServices` | composes them with the service operators, cert-manager, the router and the user; the properties |
| `ServicesProofs` | type correctness and the safety theorems of `ControlPlaneServices` |
| `CertificateAuthorities` | `ReconcileCAs` (`ca.go`): issuers, their labels, the bundle |
| `Infrastructure` | RabbitMQ, Galera, Memcached and Redis by templates, and OVN (`rabbitmq.go`, `galera.go`, `memcached.go`, `redis.go`, `ovn.go`) |
| `Installer` | the controller of the `OpenStack` resource (`openstack_controller.go`, `internal/operator`) |
| `OperatorInstall` | what an installation promises: nothing is reported that is not installed |
| `OpenStackClient` | `openstackclient_controller.go` and `internal/openstackclient` |
| `AuthoritiesProofs`, `InfrastructureProofs`, `InstallerProofs`, `ClientProofs` | type correctness and the safety theorems of `CertificateAuthorities`, `Infrastructure`, `Installer` and `OpenStackClient` |
| `MCMinorUpdate`, `MCDataPlane`, `MCServices`, `MCAuthorities`, `MCInfrastructure`, `MCInstaller`, `MCClient` | constants for TLC |

`MinorUpdate` sees the services of the control plane through their version, image
and condition only. `ControlPlaneServices`, `Infrastructure` and
`CertificateAuthorities` look at the same passes from the other side: they hold the
version for an input and show what each reconciler does with its objects. What they
show of a recorded image (`RecordedWasDeployed`) is what `MinorUpdate` takes for
granted in `RunsVersionImage`.

### State and actions of `MinorUpdate`

`ver`, `cp`, `svc`, `ns` and `dep` are the objects on the API server. A
reconcile is two steps: a read (`VersionRead`, `ControlPlaneRead`) that copies
the foreign objects into `verView` or `cpView`, and a step that computes from the
copy and writes (`VersionReconcile`, `ControlPlaneStep`). Everything else may
happen in between. `verQueue` and `cpQueue` are the work queues: an entry is
added by a change of a watched object only, so a missing watch shows as a system
that stops. One reconcile of an object runs at a time, as in controller-runtime.

`VersionReconcile` has one action per way the code returns before the minor
update (`VersionAdopt`, `VersionUnknownTarget`, `VersionInitialize`) and
`VersionUpdate` for the rest. `Outcome(p)` is the condition a phase ends with;
`PhaseConditions` says that the first phase that is not True ends the reconcile.
The conditions of an update are reset only while an update is in progress
(`InitConditions`), as the code lists them for `Conditions.Init` only then.

`ControlPlaneReconcile(k)` is a pass that gets through the first `k` service
reconcilers of its `Plan`; with `k` smaller than the plan, the next one failed and
the rest of the pass is skipped. `RunsVersionImage` is the test for the observed
generation and readiness that precedes every recorded image; `ServiceCond` keeps
that conditions of an older generation are mirrored too.

The properties about the order of an update speak of `Moves(s)`: a step that gives the
CR of a service the image of the version the pass works for, which is
`cpView.images`, the one its copy of the OpenStackVersion named. Whether that is still
the target is a question of its own.

`rolledOut`, `updatedTo` and `ovnSeen` are history variables: only properties
read them. `retargets` and `disturbances` count what the bounds limit.

### State and actions of `DataPlane`

`nss` and `dep` are the statuses of the node sets and deployments, `inventory` the
secret a node set's controller writes and the jobs mount, `job` one Ansible job per
deployment, node set and service. What the user controls is `gen` (the spec of a
node set, by its generation), `data` (the config map its `ansibleVarsFrom` names)
and `target` (the version). An inventory holds the three; a job that starts keeps
the inventory it has mounted, so the model can compare what was recorded with what
was applied.

Each controller has one worker (`nsView`, `depView`) and a queue. A node set
reconcile is four steps that a deployment can get between: `NodeSetRead` (the
spec, `detectConfigChange`), `NodeSetCheck` (the deployments), `NodeSetInventory`,
`NodeSetPatch`; errors end it in `NodeSetSetupFails`, `NodeSetCheckFails`,
`NodeSetInventoryFails`. A failed deployment makes the reconcile return an error,
so the node set is retried (`nsRetry`). `checkDeployment` goes through the
deployments in the order its sort leaves: `Orders` has every order in which no
deployment directly follows one whose condition changed later, since the sort
compares neighbours and a deployment without conditions compares both ways. The
last one decides (`LatestCond`), every matching one counts for the hash, the last
matching update for the version.

A deployment reconcile is `DeploymentRead`, then `DeploymentWaits` (a node set is
not set up), `DeploymentInputError`, `DeploymentRun` (one pass over the node sets,
one job each), `DeploymentRunFails` or `DeploymentPanics`, and `DeploymentPatch`.
`Outcome` is what `Deploy` reports for a node set, `Summary` what the deployment
makes of them. A job that has just been created may be missing from the cache
(`MayLag`): then its condition is not stored.

`older` stands for the times of the last transition of `DeploymentReady`.

`ServiceRollout` has two variables: how far each service of each plan is, and which
deployments have reported success. `DataPlane` implements it under the mapping
`ServiceStages` (a service has started when its job exists, and is done when the job
has succeeded) and `Reported` (`DeploymentReady` is stored); the refinement is the
property `RollsOut`. One pass of `Deploy` maps to one `Start`, which may take the next
service on several node sets at once; a read, a patch without success, a lost pass, a
panic or a restart maps to none.

### State and actions of `DataPlaneServices`

`Listed`, `Override` and `Catalog` are `spec.services` of the node sets,
`spec.servicesOverride` of the deployment and the services with their type and
whether they are deployed on all node sets at once. `DedupeServices` goes over the
node sets in the order of the deployment and carries the list of global services
along; `SelectedPlan` is its result for every deployment, which `CatalogAssumption`
makes the `Plan` of `DataPlane`. Services are not edited while a deployment runs.

### State and actions of `ControlPlaneServices`

`spec` is what the user may edit of the control plane (which services are enabled,
TLS, load balancers, credential sections, certificate secrets), `cr` the resources
of the services, `net` certificates and routes, `status` the conditions and recorded
images. `work` is the copy a pass works on: `PassStep` reads the control plane and
then takes the services of `plan` one by one, each in the steps of its reconciler
(disable, credentials, endpoints, write, evaluate), every one of which may wait,
fail (`FaultStep`) or be the last one before a restart; the copy of the status is
saved at the end. `OperatorStep` is what the owners of the objects do. The
controller is queued by changes of objects it owns, by its own requeues and by
`Resync`, the periodic resync of the informers, and by nothing else.

A service is a record of the catalogue, so that one scheme is written once and the
places where a reconciler departs from it are data: which certificates it asks for,
whether it keeps those its resource already has, which images it records and which
of them its `ImageMatch` compares.

### State and actions of `CertificateAuthorities`

A pass goes through the roles in the order of `ReconcileCAs`: the root CA and its
issuer or the user's, the label of the role (taken from the old issuer, then given
to the new one), the CA certificate from the issuer's secret. At its end the condition
becomes True and the certificates of the operator's image are added (`AddImageCerts`),
the bundle is written (`EnsureSecrets`) and, in a later step, the status
(`PatchInstance`): a process that stops in between has published a bundle nothing
reports. An error at the image's bundle (`ImageBundleFails`) leaves the condition True,
as the code does; `status.cut` remembers that the reported status is of such a pass, and
only properties read it. An error of the write takes the condition back (`Failed`).
`serial` counts the certificates of a CA, so that a renewed one is told from the one
before; `expired` is what a later pass may drop. Users replace issuers,
rotate their secrets and name a bundle secret that is missing or broken.

### State and actions of `Infrastructure`

`cr` has one entry per kind and name. A pass handles a kind in steps: delete what the
control plane owns and no template defines, then write template after template in the
order of the names (`work.todo` holds the ones left, `InTurn` the next) with
its certificates, then evaluate conditions and image. OVN has its three parts in
order, and an error of one part is kept in the condition while the others go on
(`FailOvn`). `legacy` holds the RabbitmqClusters an older release created, which a
pass gives up before it asks for the object that adopts them. A `scenario` says which
kinds and events an instance has.

### State and actions of `Installer`

`work` is one reconcile: the resource it is about, the copy of it and the `stage` it
has reached; there is one action per stage, in the order of the calls, and each may
fail or be the last before a restart. `crds`, `services`, `deploy` and `webhooks` are
what is applied, `legacy` what OLM left behind and `refs` what OLM's Operator object
lists of it, `retired` the operators of older releases; an error in removing those is
only logged, and the reconcile goes on (`Retire`). `running` is the build of the
operator itself, which an upgrade replaces. `work.off` is what the copy overrides to no
replicas: an edit during a reconcile is seen by the next one.

A webhook configuration is the webhooks it lists, those of them with a CA bundle, and the
label the finalizer finds it by. `MergedWebhooks` matches by name, as `merge.go` does: the
template decides which webhooks there are, each keeps the CA its namesake had, a new one
has none until cert-manager injects it (`InjectCA`), and the label is set when a
configuration is merged, not when it is created. `ApplyOperatorPart` is an apply that
fails between two objects: any of the operators and configurations may be done by then.

`OperatorInstall` has two variables: the build that is installed and the builds that
are reported. `Installer` implements it under the mapping `Manifests` (CRDs, Services,
Deployments and listed webhooks of one build) and `Reported`;
the refinement is the property `ReportsWhatIsInstalled`.

### State and actions of `OpenStackClient`

A pass is `ReconcileRead`, `ReconcileInputs` (Keystone, the config maps and secrets,
the CA bundle, whether metrics are deployed), `ReconcilePod` (create, keep, replace or
force the deletion of the pod) and `ReconcilePatch`. A pass starts from `cache`, the
informer's copy of the OpenStackClient, which gets what is stored some time later
(`CacheCatchesUp`); the event of another object, the new pod's above all, can start a pass
before that. `ReconcilePatch` is a merge patch: it writes what the pass has changed in its
copy (`Patched`), so that what it has not changed stays as it is stored. An error reading
the MetricStorage counts as its absence (`MetricsUnread`). `pod.made` is what a pod was made
from; the hash in the status is the same by the time it is written. A watched source
queues a pass, a missing source or Keystone starts the timer the code asks for, or
none.

### Abstractions

Of `MinorUpdate`:

- Images are compared only for equality: `ImageOf[s][v]`. A service has one
  image. All services other than OVN and the four staged ones are `"rest"`.
- A controller's own status is read fresh. The list of deployments is read when
  the version controller writes.
- API errors appear as passes that end early, not one by one.
- The patches of the service CRs and of the control plane's own status at the end of the
  pass are one step: a restart between the two is not among the disturbances.
- The annotation that holds a control plane at the infrastructure
  (`openstackcontrolplane_controller.go` 485-486, 598-602) is left out: with it a pass ends
  after OVN, as if the next service had failed.
- A deployment covers all node sets and finishes for all of them at once.
- The operator's restart loses both copies and queues every object.
- `DeployedInit`, the start of the update runs, is not invented:
  `GreenfieldReachesDeployed` shows that a first deployment reaches it.
- The user is external. With `FollowsProcedure` the user creates deployments when
  the documents say, and repeats one that left a node set behind; without it, at
  any time. With `WaitsForDeployed` the user starts an update only after the last.

Of `DataPlane`:

- Setup tasks (IP sets, DNS, SSH keys, service account, bare metal) are one step
  that succeeds or fails; certificates, bare metal hashes, hashes of the data
  sources of services and container images in a node set's status are left out.
  `target` stands for the target version and for the images that go with it.
- The services of a deployment on a node set are a constant, `Plan`; in the runs it
  is the one `DataPlaneServices` selects.
- A pod that fails and is replaced, and a job that is deleted and recreated for a
  changed hash, are both `JobRetry`: a job that will mount the inventory again. A job
  that has finished is neither recreated nor removed (`preserveJobs`, on by default).
- There is one job per deployment, node set and service, also for a service of all node
  sets at once, whose job is named after the deployment alone
  (`ansible_execution.go` 251-254): where the model runs such a service for a second node
  set, the code replaces the Job by one with another hash, and runs it again too.
- Two transitions in the same second (a tie of the sort) are not modelled.
- `Patient` is a user who acts only when jobs and controllers have come to rest.
- A deployment that is deleted keeps its jobs in the model as a record of what
  they did; nobody acts on them any more.
- The generation of a spec is its content; `HashOf` maps it to its hash.

Of the control plane's services and infrastructure:

- Values that are only copied from the spec to a resource (replicas, storage, node
  selectors, topologies, message buses, mounts) are left out, and so are the
  migration of the bus configuration, the certificates of the exporters and the
  credentials that are skipped because a required field is empty.
- A secret goes with its Certificate. A certificate, once issued, is not renewed
  here: renewal is in `CertificateAuthorities`.
- An image is the version it belongs to; where a property compares images, every
  choice of the ones that are new is checked.
- An API error ends the step it happens in; which of several calls of one step
  failed is told apart only where something stays behind.
- In `Endpoints`: TLS switched off for a single service (`common.go` 231), a certificate
  named in the override (625, 667, 705), the wait for the secret of the CA bundle
  (667-676), which is one more wait, and `Expose` set False on an error of a route
  (504-514).
- In `ServiceCatalog`: telemetry counts as observed and ready as a whole, where the code
  asks for the conditions of the metric storage and of Ceilometer without their generation
  (`telemetry.go` 414, 474), one reason why telemetry is not in `MatchMeansDeployed`; the
  route of the alert manager (444-471) and the exporter of MySQL (498-518) are left out.
- In `Infrastructure`: giving up an old RabbitMQ cluster and writing the object that
  adopts it (`rabbitmq.go` 260-297) is one step, `HandOver`; that the first comes before
  the second shows in templates that fail in between.

Of `CertificateAuthorities`: the CAs of mirror registries are left out; a certificate is a
pair of issuer and serial number; the certificates of the operator's image are one element
of the bundle. `ListIssuers` reads the issuers as they are, where the code lists them
through the informer's cache.

Of `Installer`: rendering is left out, a manifest is the build it comes from. The objects
of the operators may be applied in any order. No work queue is modelled: a reconcile that
waits is tried again. cert-manager injects the CA into all webhooks in one step. Two
resources never have the same creation time and the operator is not rolled back in
the run (`SameSecond`, `Rollback`); both are constants of the module.

Of `OpenStackClient`: the cache jumps to the latest version, never to one in between. The
pod is read as it is: with a copy of it that is behind, the create or patch is refused by
the API server, which is `PodError`. The inputs are read in one step, since the hash is computed
from what was read and a change of any of them queues another pass; RBAC objects are
calls that may fail. Metrics that go and come back are seen once. The controller does
nothing when the resource is deleted. `Mistaken` names the one case that
`NothingLost` and `ClientRuns` leave out (see the observations).

## Runs

| run | instance | shows |
|---|---|---|
| `any` | 2 versions, RabbitMQ and OVN, 1 node set, 2 retargets, 1 disturbance, a user without discipline | what is recorded has been rolled out; completion is sound |
| `greenfield` | from nothing, 2 versions, RabbitMQ and OVN, 1 disturbance, fair | types; the first deployed version is sound; the first deployment comes to rest in `DeployedInit` |
| `ordered` | 2 versions, all six services, 1 node set, documented procedure, 1 disturbance, fair | order of OVN, staged services, rest; completion is current, and it comes |
| `stale_conditions` | 3 versions, 2 updates in a row | violated: conditions of the first update are used in the second |
| `dp_serial` | 1 node set, 2 deployments (one of them an update), an edit of spec, config map and target each, deletions, 1 failure or restart, a patient user | types; what is recorded was applied; Ready means deployed; at rest, no change was missed and the inventory is current |
| `dp_order` | 1 deployment of a node set that lists 3 services, 2 of one type, and is still being set up, 2 failures, panics or restarts, 1 spurious reconcile, fair | `DataPlane` implements `ServiceRollout` (refinement); every type that is listed runs once, after the inventory; the deployment ends |
| `dp_global_once` | 2 node sets that list the same 2 global services | violated: one of them runs on both |
| `services` | every service of the catalogue by itself, the client with Keystone; 1 or 2 edits, lost objects, failed calls or restarts | recorded images were deployed; an image match means all of them were; certificates in use are kept; the services converge to the spec; Ready comes |
| `infra` | every kind of infrastructure with 1 or 2 templates, an instance of another owner in the namespace; 1 or 2 edits, failures or restarts | what others own stays; old clusters are handed over before they are adopted; recorded images were deployed; the update test of RabbitMQ means all instances; the cluster settles |
| `trust` | the internal and the libvirt role, 1 issuer of the user, 2 certificates per CA, 3 edits, rotations, expiries, failures or restarts | one issuer per role; a CA reported ready is in the bundle, or the pass ended at the image's bundle and comes back; trusted CAs stay; every CA in use gets there |
| `installs` | an installation of OLM, 3 builds of 2 releases with a webhook dropped and one added, 2 operators, 2 resources, 1 disturbance | the status names a build only when it is installed (refinement); OLM's Operator object goes last; in the end the webhooks are those of the running build, each with its CA; the installation completes |
| `client` | a config map and the CA bundle as sources, 2 edits, outages, failed calls or restarts, a cache that is behind | no change is lost; a pod in use goes only for a change or for the lag of the cache; a current pod ends up running |

Deadlock. `services`, `infra`, `trust` and `client` check it; the resync keeps them
going, and their liveness properties show what they come to. The other runs do not: a
cluster with no work left and no user action within the bounds is at rest, which is
as it should be, and the liveness properties show that it does not rest too early.

Type invariants. `greenfield` and `dp_serial` check theirs. The other modules state one
as `TypeOK` too; it holds in their runs and is proved.

Bounds. Two versions have every step of one update, and with two retargets a
change of mind in the middle of it and back; three versions have two updates in a
row, which the stale conditions need. One disturbance is one failure of a pass, one
flap, one failed deployment, one edit or one deployment outside the procedure, at
every point of the update. Two services (one staged, OVN) are enough where the
order of the staged services does not matter; where it does, all six are there.
On the data plane, two deployments have one decide over the other, two services an
order, two node sets one that is done before the other. One change of each
input between deployments is what a stale record would miss. Two failures are a
failure and a restart, or a job and the pass that looks at it.

A service depends on another one through the wait at the start of its reconciler,
which the client with Keystone has, and through a pass that ends before its turn, which
for it is a failed or delayed pass; so the services are checked one at a time. Services of one shape share the kinds of events between them
(`MCServices!Few`): each kind happens to a service whose record in the catalogue
makes it interesting. Two templates have one that is done before the other, two
events an edit with the failure that hits it. Two roles have one whose issuer the
controller watches and one it does not; three events are an issuer taken up, given
back, and a failure in between. Three builds have an upgrade within a release and one
across. Two events of the client are an edit and the failure that hits it, or an input
changed and put back. Node sets without nodes are left to the theorems.

Fairness. A queued reconcile runs and a running one ends (controller-runtime's
workers); the service operators, the node set controller and the jobs finish what
they are given; the user takes the steps of the procedure and removes failed
deployments. Nothing has to fail, flap, retarget or upgrade. In `DataPlane` the
user owes nothing; a job that is started runs, and reports a failure at the limit.
In the other modules cert-manager, the router, the API server's garbage collection and
the service operators do their work (`OperatorStep`, `OthersStep`, `PodRolls`,
`SliceFollows`, `InjectCA`, `OlmRefreshes`, `PodStarts`), a watch delivers what has changed
(`CacheCatchesUp`), and the user creates a secret the spec
names. `Resync` is the informers' periodic resync (ten hours unless set otherwise);
that some liveness rests on nothing faster is a result in itself. The client's
strong fairness says that a pod that stays in termination is found older than the
three minutes by some pass.

## Proofs

Every theorem holds for every value of the constants that satisfies the named
assumptions of its module. Those say what the code guarantees by construction:
versions are positive naturals with 1 among them, `ImageOf` is total, the staged and
normal orders are sequences of services and no staged one has the name of a phase of
its own (`ServicesAssumption`), the set of deployments is finite, `Nil` or `None` is
none of the values it stands in for. No theorem bounds versions, services, node sets,
issuers, templates or failures, unless it says so.

The inductive invariants were checked with TLC on the instances of the runs before
they were proved.

### MinorUpdate

- `TypeCorrect`, `DeployedTypeCorrect`: `[]TypeOK`, from an empty cluster and from
  a deployment at rest. `TypeOK` is not inductive: looking up an image needs a
  version that is known, which `TargetKnown` adds (an initialized version has
  images, a running deployment has a version, an observed CR has an image).
- `RecordedImagesSound`, `DeployedRecordedImagesSound`: `[]RecordedWasRolledOut`.
- `UpdateCompletionSound`, `DeployedUpdateCompletionSound`: `CompletionSound`.

The last two rest on `SafetyInv`. A recorded image comes from a CR that is observed
and ready (`ReadyImages`), reaches the version controller through its copy
(`SeenImages`), and a version comes from a finished update deployment through the
node set into the copy (`ReportedVersions`, `SeenVersions`); rolled-out images and
updated versions are never forgotten, so it does not matter how old the copy is.
`DeployedByUpdate` shows that only a reconcile that found all phases True changes
`deployedVersion`.

- `FirstDeploymentIsSound`: `FirstDeploymentSound`, if the target is never changed
  (`MaxRetargets = 0`). The control plane declares itself ready by its conditions, which
  do not name a version; `FirstInv` says that with one target (`OneTarget`) a True
  condition can only stand for an image of that target (`ReadyAtTarget`), in the status
  and in every copy (`Vouches`). A target that changes breaks this (see the
  observations).
- `OvnReachesControlPlaneFirst`, `OvnGoesFirst`, `StagedServicesGoInOrder`,
  `CompletionFindsTheTarget`: the order of one update (`OvnControlPlaneFirst`,
  `OvnBeforeServices`, `StagedInOrder`, `CompletionCurrent`), from a deployment at rest,
  for a user who follows the documented procedure and sets one new target
  (`MaxRetargets <= 1`), with any services, node sets and disturbances. That it is one
  is essential: the next update breaks the order, as `stale_conditions` shows.
  `OrderInv` has seven parts: two versions are in play, in the objects and the copies
  (`TwoVersions`); until the target is taken up nothing is confirmed, deployed or moved
  (`Untouched`); a copy older than the target is used up before anything moves
  (`InStep`); a phase that is True, also in the control plane's copy, has been reached
  (`Confirmed`); nodes and services do not go back, and no copy or record is further than
  they are (`NodesAdvance`, `ServicesAdvance`); the OVN images of the nodes were rolled
  out on the control plane (`OvnKnown`). That all staged phases before the one a pass has
  reached are True rests on the least position in `StagedOrder` that is not, which exists
  because the naturals are well-founded.

### DataPlane

- `DataPlaneTypeCorrect` (and `SetUpTypeCorrect`, from node sets that are set up):
  `[]TypeOK`, which is inductive. The version a node set copies is that of the last
  matching update in a list of deployments: that there is a last one is `LastExists`,
  from the well-foundedness of the natural numbers.
- `ServicesOrdered`: `[]ServicesInOrder`, for plans in which no service occurs twice.
  It is inductive with the types: `JobChanges` says that a step leaves a job alone,
  creates it where `IsNext` holds, or moves one that was neither absent nor done, so
  success is for ever (`SucceededStays`).
- `DeploymentsRollOut`: `RollsOut`, the refinement of `ServiceRollout`, for the same
  plans. The order is `ServicesOrdered`; what a step does to one service carries over to
  the stages (`OneService`), whose only other need is that a success, once stored, is
  true and stays. `DoneInv` says so: a deployment whose status, or whose pass under way,
  says True has succeeded with every service, and no pass takes up a finished one. Then
  `StepRollsOut` maps every step: the pass over the node sets to `Start` for the node
  sets on which it created a job (`CreatesStart`), a job that succeeds to `Complete`
  (`JobCompletes`), the patch of a status to `Report` or to nothing (`PatchReports`).
- `InventoryFirst`: `[]InventoryBeforeJobs`. The invariant follows the inventory from
  the node set to the job: it is there when SetupReady is stored or a reconcile that
  did not write it is about to (`SetupInv`), when a deployment reports progress and
  when a job exists (`ProgressInv`). The two need each other: a node set skips
  writing because a deployment reports progress, a deployment reports progress
  because the node set was set up.
- `ReadyIsDeployed`: `[]ReadyWasDeployed`. `ReadyInv` follows a True from the jobs
  (`OutcomeSound`: Deploy reports it only when no service is next) through the status
  of the deployment into the copy and the status of the node set.
- `NoChangeIsMissed`: `[]NothingMissed`; `InventoryIsCurrent`: `[]InventoryCurrent`.
  Both speak of a cluster at rest, which says nothing about the steps before it.
  `UpToDate` says what holds all the way of a node set that is not in the queue: its
  status is one `checkDeployment` would leave alone (`Settled`) and its inventory is what
  its inputs give, unless a deployment runs on it (`InventorySettled`); while it is being
  reconciled, the same of the copy as far as it has got. `ChangesAreQueued` is the heart
  of the matter: every step that changes something a reconcile reads queues the node set,
  all others leave it `Unaffected`.
- `RecordedIsApplied`: `[]RecordedWasApplied`, for a `CarefulUser`: one who waits until
  the operator has settled, deploys one node set at a time and never goes back to an
  earlier spec. Without any one of the three it fails (see the observations). The recorded
  values are read at the end of a deployment, the applied ones were mounted at its
  beginning, and nothing in the code ties them together; what does is that the user waits.
  `AppliedInv` says so: from its creation to its end a deployment finds the inventories
  and the observed generations as they are (`Held`, which starts with `UpToDate`); the
  pass under way has read those hashes (`Reading`, from `HashInv`: the hash of a status is
  that of its generation); every job that has started has mounted them (`Mounted`); a
  status that ends a deployment leaves no node set running, or its inventory would be
  held back for the next one (`Closed`).

### DataPlaneServices

The theorems above are about any plan; these are about the one `DedupeServices` selects.
Lists, node sets, overrides and catalogues are arbitrary.

- `SelectedServicesRollOut`: `RollsOut`, if the listed services exist (`ServicesExist`).
  The plan has no duplicates (`SelectedWithoutDuplicates`), which is no longer a
  hypothesis.
- `ListedServicesHaveRun`: `[]ListedServicesRan`, if also no deployment names a node set
  twice (`TargetsOnce`). Exactly one service of every listed type is in the plan of a node
  set (`PlanOnePerType`), or the service is a global one in the plan of an earlier one
  (`PlanSelected`); only jobs of the plan exist (`JobsPlanned`); and by `DoneInv` all of
  them have succeeded when the deployment says so.
- `GlobalRunsOnce`: `[]GlobalOnce`, if every list has at most one global service
  (`OneGlobalEach`). Without that it fails, which is the run `dp_global_once`.

What a fold computes needs an induction, and the induction theorems of the library take an
operator for a parameter. The way around it: a fold is a sequence of states, one per element,
that follow from each other (`DedupeLoop`, `DedupeServicesLoop`), and induction along the
numbers of those states is stated with a set in the place of the operator (`CountsUp`: a set
that has 0, and with every number the next one, has all of them). What holds
after each element is then an invariant like any other: `ConsiderStep` for the services of
one node set, `SelectForStep` for the node sets of a deployment.

### ControlPlaneServices

- `ServicesTypeCorrect`: `[]TypeOK`, which also says that a resource names only
  certificates of its own endpoints, or the user's. `TypeInv` adds the same of the template
  under construction and of the Services the pass goes through (`TurnOwns`). Those are found
  by their label; that the label leads to no other service is a fact about the catalogue
  (`ApisAreOwned`: an API, and every API it shares a label with, belongs to one service).
- `RecordedServicesWereDeployed`: `[]RecordedWasDeployed`, for every service, user and
  number of failures. `RecordInv` follows an image: a resource that is observed and ready
  asks for one that its operator has rolled out (`ReadyResources`), so does the copy of the
  status a pass works on, and the stored status (`StatusSound`).
- `MatchingServicesAreDeployed`: `[]MatchMeansDeployed`, for the services that compare
  every image they record; telemetry and designate leave some out (`OthersCompareAll`).
- `CertificatesAreKept`: `TLSKept`, for the services that take their TLS settings over from
  the resource before they change them. Designate and octavia read it too late, nova and
  telemetry configure endpoints without all of their Services (`OthersKeepSettings`). `Kept`
  says that the template under construction has a certificate wherever the resource has
  one, from the first step of a service's turn to the last; a certificate is only replaced by
  that of a Service with its name (`ServiceNames`).

The catalogue is data, so what the proofs need of it is proved for each of its entries
(`CatalogIsRegular`, `OthersKeepSettings`, `OthersCompareAll`, `ApisAreOwned`), and the rest of the argument
is about any service of that kind. `FormInv` says what the objects and the pass under way look
like. The one assumption, `CertificatesAssumption`, is that nil names no certificate.

### CertificateAuthorities

- `AuthoritiesTypeCorrect`: `[]TypeOK`; the issuers a pass has listed exist
  (`ListedExist`).
- `OneIssuerPerRole`: `[]SingleIssuer`. Not inductive: the label is set by a step that
  does not look. `LabelInv` adds that a pass that takes the label away knows everyone else
  who has it, and that there is nobody left when it is about to give it (`ListedOthers`).
- `ReadyCAsAreTrusted`: `[]ReadyMeansTrusted`; `TrustIsKept`: `TrustKept`. `TrustInv`
  follows a certificate through the pass: until a pass has written the bundle, it holds
  all of the old one that is valid (`LoadedBundle`), and the CAs it is going to report are
  in its bundle, then in the secret (`CollectedCAs`). The condition is True some steps
  before the secret is written; that this reaches the status only through a pass that
  ended at the image's bundle, and that such a pass is queued again, is part of the
  invariant, and is the exception `ReadyMeansTrusted` makes
  (see the observations).

### Infrastructure

- `InfrastructureTypeCorrect`: `[]TypeOK`.
- `ForeignInstancesAreKept`, `ClustersAreHandedOver`: `[]ForeignKept`, `[]HandedOver`.
  `ResourceInv` adds what is rolled out (`RolledOut`).
- `RecordedImagesWereDeployed`: `[]RecordedWasDeployed`, by following the image from the
  instance into the copy of the status (`RecordInv`).
- `UpdatedRabbitMQIsAll`: `[]UpdatedMeansAll`, if only RabbitMQ is checked. The others fail
  it: Galera and Memcached mirror conditions of an older generation, Redis ignores the
  generation. `UpdateInv` says what a condition still True in the middle of a pass means
  for the templates done so far.

### Installer

- `InstallerTypeCorrect`: `[]TypeOK`.
- `OlmOperatorGoesLast`: `[]OlmOperatorLast`. The installer goes by the references of
  OLM's Operator object, which OLM refreshes later; `OlmTracked` says that they include
  whatever is left.
- `InstallerReportsWhatIsInstalled`: the refinement of `OperatorInstall`, without
  rollbacks of the operator and without two resources of one creation time; with either
  it fails. A reconcile works on a copy from its start to its end, with a restart or an
  upgrade possible in between. `InstallInv` says that resources are created in turn
  (`CreatedInTurn`); that only the served one records an image, and the running one only
  when its manifests are there (`RecordedImage`, `CopiedImage`); what is applied and how
  old the copy is at each stage (`Stage`, `CopiedFinalizer`); that Ready is said of the
  running image when everything is applied, the webhooks of both configurations included
  (`CopiedReady`). Every step then maps to a step of
  `OperatorInstall` or to none.

### OpenStackClient

- `ClientTypeCorrect`: `[]TypeOK`.
- `ChangesReachThePod`: `[]NothingLost`; `ClientPodIsKept`: `PodKept`. The hash in the
  status and the pod are written by different calls, and read again through a cache.
  `ClientInv` says that a copy that differs from what is stored has an event on its way
  (`Copies`); that the hash, as it will be stored when the pass under way has
  patched it, is the pod's unless a call failed or an old hash met an input that was put
  back (`HashIsPods`); that neither hash, copy nor pod is ahead of the inputs, and an
  older copy has an older hash, unless an input was put back (`InOrder`); and that a pass
  with nothing queued behind it sees the inputs as they are (`Undisturbed`). `PodKept`
  says of a deletion of a current pod that the pass's hash is not the stored one; that
  this happens is one of the observations.

### Only model-checked

- Liveness: fairness and ENABLED are outside the prover.
- The selection with services that do not exist (`SelectMissing`): such a deployment fails
  when it gets to one, and the theorems leave it out by `ServicesExist`.

## Findings

Two violated properties, with the lines they contradict, are in `PROJECT.json`:

- `stale_conditions`: conditions outlive their update, and a control plane pass that
  comes before the version controller's takes them for those of the next one;
- `dp_global_once`: of several global services of a node set only the last is
  remembered for the node sets after it.

### Observations

Each of these was reproduced with TLC; the constants to do so are in the MC modules.
Of most no document of the repository says otherwise, or only loosely; none has a run.

- Two versions with one OVN image: completion is inferred from having seen a deployment
  run, so the update may stop after the OVN deployment (`ordered` with
  `ImageOf <- MCSameOvnImage`, `ProceedsAfterOvn`;
  `openstackversion_controller.go:343`).
- Keystone disabled: the update waits for a condition that its reconciler has removed
  (`StagedOrder <- MCStagedKeystone`, `NormalOrder <- MCNormalKeystone`, Keystone not in
  `Enabled`, `UpdateCompletes`; line 414).
- A deployment that overtakes the node set controller after an edit records the hash of
  a spec that its jobs did not apply (`dp_serial` with `Patient = FALSE`,
  `RecordedWasApplied`; `openstackdataplanedeployment_controller.go:192`). So does one of
  a node set that was edited back to its deployed spec, whose `ConfigHash` is not set back
  (`MaxGeneration = 2` and a `HashOf` with the hash of generation 0 for generation 2;
  `openstackdataplanenodeset_controller.go:243`).
- A deployment that fails for good on one node set while its jobs run on another leaves
  that one "Running"; its inventory is then held back, and the next update deployment
  records a version whose images it has not applied (2 node sets, `SetUpSpec`, 1 fault,
  2 versions, `RecordedWasApplied`; `openstackdataplanenodeset_controller.go:420`).
- A deployment that fails for good while another node set's jobs still run blocks edits
  of that node set for ever (2 node sets, 1 fault, `SetUpSpec`,
  `BlockedOnlyWhileRunning`).
- A node set replaces its version by nothing because its deployment has not finished for
  the others (2 node sets, 2 update deployments, `VersionKept`;
  `openstackdataplanenodeset_controller.go:661`).
- `CustomTLSReady` stays False when the user withdraws a reference to a secret that never
  came (`services` with `Plans <- Dashboard`, `Kinds <- GiveUp`, `MaxEvents <- Two`,
  `BecomesReady`; `common.go:265`).
- Webhook configurations get the label the finalizer finds them by only when they are
  merged, not when they are created: deleted soon after the installation, the resource
  leaves them behind (`NoWebhooksLeft`; `merge.go:244`, `apply.go:40`).
- A release change deletes the RabbitMQ cluster operator with every other owned
  deployment, before the clean-up that keeps it while clusters exist
  (`RabbitOperatorKept`; `openstack_controller.go:399`, `1149`).
- Two Galera cells in an update: the image is recorded when one is ready, so the database
  phase may end before the other is done (`Scenarios <- Cells`, `Foreign = {}`,
  `Checked = {"galera"}`, `MinorUpdateMeansAll`; `galera.go:301`).
- CAReady becomes True (`ca.go:481`) before the bundle of the operator's image is read, and
  an error there (485-511) is returned without taking it back, unlike that of the write
  after it: until a later pass gets through, the status reports CAs that are in no bundle,
  on a first deployment without there being one. The comment on the condition has it
  indicate "if the CAs are configured and operational" (`conditions.go:105`) (`trust` with
  `MaxEvents = 1`, `ReadyMeansOperational`).
- The pass that a new client pod wakes reads the OpenStackClient from the informer's cache
  (`openstackclient_controller.go:91`), which may not have the hash that the pass before it
  has stored: the patch of the immutable pod is refused and the pod is deleted (357)
  although nothing has changed. The comment there says "Delete pod when its config changed"
  (`client` with `MaxEvents = 0`, `DeletedWhenChanged`).
- A client pod made before a crash, with an input that is put back before the next pass, is
  kept although it was made from the input in between (without `Mistaken`). The same comes
  of an error reading the MetricStorage, which counts as its absence
  (`openstackclient_controller.go:302`), and, without any failure, of a TLS setting of the
  MetricStorage that changes three times while passes have copies that are behind
  (`MaxEvents = 3`, `NothingLost` without `stale` in `Mistaken`).

Met while modelling, without a run: a node set that a deployment names twice, which nothing
refuses (`openstackdataplanedeployment_types.go:28`), gets the services of its second mention,
without the global ones that were selected for its first, so that they run nowhere (the proof of
`ListedServicesHaveRun` needs `TargetsOnce` for it; `service.go:177`); `ConfigHash` is not set back when a
spec is edited back to the deployed one; of two overlapping deployments the one
whose condition changed last decides, so a node set is Ready while the other still
runs; `backoffLimitReached` is what the last failing node set says; a target changed
during a first deployment can be declared deployed while the services run the first
one's images; the endpoints of Aodh and CloudKitty have one label, so with both the
telemetry endpoints are never completed (`telemetry.go:113`); a credential section that
is removed together with the secret's name leaves its credential behind (`heat.go:127`);
designate and octavia read their resource too late to keep its certificate
(`designate.go:69`); Redis records its image whatever generation is ready
(`redis.go:294`); a webhook endpoint that does not serve is taken for one that does, since
pointers are compared (`openstack_controller.go:563`); a certificate in its last minute is
dropped from the bundle (`ca.go:826`).

## Plan

Done: all components the inventory names as core, model-checked; theorems about
`MinorUpdate`, `DataPlane` with its abstract specification and the selection of services,
`ControlPlaneServices`, `CertificateAuthorities`,
`Infrastructure`, `Installer` with its abstract specification, and `OpenStackClient`.

1. Custom images of the version webhook, their tracking and the check on a new target.
2. Deletion of the control plane and of node sets, with their finalizers.

## Not modelled

- The backup configuration controller sets labels on objects from their kind and
  annotations; every write is idempotent, depends on one object and is read by nothing
  else in the repository.
- The other webhooks (names, required fields, duplicate hosts, defaults) are checks of
  one object that keep no state.
- The reconciler of `OpenStackDataPlaneService` does nothing.
- Rendering of manifests, job and pod specifications, flag parsing, generated deep copies
  and CRDs, logging: formatting or wiring without state.
- In the data plane deployer: certificates per node, IP sets, bare metal. They are set up
  by other operators before a job starts; a failure of theirs is a failed setup step.
