----------------------------- MODULE DataPlane -----------------------------
(***************************************************************************)
(* The two controllers of the data plane together with the user, who edits *)
(* node sets, config maps and the target version and creates and deletes   *)
(* deployments, and with Kubernetes, which runs the jobs. The question is  *)
(* whether what the status of a node set says was deployed is what the     *)
(* jobs have put on the nodes.                                             *)
(***************************************************************************)
EXTENDS NodeSetController, DeploymentController

NoJob == [state |-> "none", inv |-> Nil]

NewStatus == [setup |-> FALSE, ready |-> FALSE, observed |-> Nil, hash |-> Nil,
              deployedHash |-> Nil, version |-> Nil, statuses |-> NoStatuses]

NoDeployment == [stage |-> "absent", ready |-> Nil,
                 cond |-> [n \in NodeSets |-> Nil], hash |-> [n \in NodeSets |-> Nil],
                 data |-> [n \in NodeSets |-> Nil], version |-> Nil]

\* Node sets exist with this status and inventory; nothing has been deployed.
Start(status, inv, queue) ==
    /\ gen = [n \in NodeSets |-> 0]
    /\ data = [n \in NodeSets |-> 0]
    /\ target = 1
    /\ nss = [n \in NodeSets |-> status]
    /\ inventory = [n \in NodeSets |-> inv]
    /\ dep = [d \in Deployments |-> NoDeployment]
    /\ older = [d \in Deployments |-> {}]
    /\ job = [d \in Deployments |-> [n \in NodeSets |-> [s \in Services |-> NoJob]]]
    /\ nsQueue = queue
    /\ nsRetry = {}
    /\ nsView = Nil
    /\ depQueue = {}
    /\ depView = Nil
    /\ faults = 0
    /\ wakes = 0

\* The node sets have just been created.
Init == Start(NewStatus, Nil, NodeSets)

\* The node sets have been set up: what one reconcile of each leads to.
SetUpInit ==
    Start([NewStatus EXCEPT !.setup = TRUE, !.observed = 0, !.hash = HashOf[0]],
          [hash |-> HashOf[0], data |-> 0, version |-> 1], {})

----------------------------------------------------------------------------
(* The user *)

JobsAtRest == \A d \in Deployments, n \in NodeSets, s \in Services :
                 Live(d) => job[d][n][s].state \notin {"pending", "running", "failing"}

\* A patient user acts only when nothing is going on any more.
UserMayAct ==
    Patient => Idle /\ JobsAtRest /\ \A d \in Deployments : Live(d) => Finished(d)

\* The webhook refuses an edit while the node set's own status lists a
\* deployment that has neither finished nor failed.
Blocks(n, d) == nss[n].statuses[d] \notin {Nil, "True", "Error", "Backoff"}

EditSpec(n) ==
    /\ UserMayAct
    /\ gen[n] < MaxGeneration
    /\ \A d \in Deployments : ~Blocks(n, d)
    /\ gen' = [gen EXCEPT ![n] = @ + 1]
    /\ nsQueue' = nsQueue \cup {n}
    /\ UNCHANGED <<data, target, nss, inventory, dep, older, job, nsRetry, nsView,
                   depQueue, depView, bounds>>

EditData(n) ==
    /\ UserMayAct
    /\ n \in VarsFrom
    /\ data[n] < MaxData
    /\ data' = [data EXCEPT ![n] = @ + 1]
    /\ nsQueue' = nsQueue \cup {n}
    /\ UNCHANGED <<gen, target, nss, inventory, dep, older, job, nsRetry, nsView,
                   depQueue, depView, bounds>>

Retarget ==
    /\ UserMayAct
    /\ target < MaxVersion
    /\ target' = target + 1
    /\ nsQueue' = NodeSets
    /\ UNCHANGED <<gen, data, nss, inventory, dep, older, job, nsRetry, nsView,
                   depQueue, depView, bounds>>

CreateDeployment(d) ==
    /\ UserMayAct
    /\ dep[d].stage = "absent"
    /\ dep' = [dep EXCEPT ![d].stage = "live"]
    /\ nsQueue' = nsQueue \cup Targets(d)
    /\ depQueue' = depQueue \cup {d}
    /\ UNCHANGED <<inputs, nss, inventory, older, job, nsRetry, nsView, depView, bounds>>

\* The jobs go with it; the model keeps what they have done.
DeleteDeployment(d) ==
    /\ UserMayAct
    /\ d \in Deletable
    /\ Live(d)
    /\ dep' = [dep EXCEPT ![d].stage = "deleted"]
    /\ nsQueue' = nsQueue \cup Targets(d)
    /\ depQueue' = depQueue \ {d}
    /\ UNCHANGED <<inputs, nss, inventory, older, job, nsRetry, nsView, depView, bounds>>

----------------------------------------------------------------------------
(* Kubernetes *)

\* The deployment is woken by every change of a job it owns.
SetJob(d, n, s, from, new) ==
    /\ Live(d)
    /\ job[d][n][s].state = from
    /\ job' = [job EXCEPT ![d][n][s] = new]
    /\ depQueue' = depQueue \cup {d}
    /\ UNCHANGED <<inputs, nss, inventory, dep, older, nsQueue, nsRetry, nsView, depView, wakes>>

\* The pod mounts the inventory as it is when the pod starts.
JobStart(d, n, s) ==
    /\ SetJob(d, n, s, "pending", [state |-> "running", inv |-> inventory[n]])
    /\ UNCHANGED faults

JobSucceed(d, n, s) ==
    /\ SetJob(d, n, s, "running", [job[d][n][s] EXCEPT !.state = "succeeded"])
    /\ UNCHANGED faults

\* A pod fails; the job starts another, or has reached its backoff limit.
JobRetry(d, n, s) ==
    /\ SetJob(d, n, s, "running", [job[d][n][s] EXCEPT !.state = "pending"])
    /\ Fault

JobFail(d, n, s) ==
    /\ SetJob(d, n, s, "running", [job[d][n][s] EXCEPT !.state = "failing"])
    /\ Fault

JobFailed(d, n, s) ==
    /\ SetJob(d, n, s, "failing", [job[d][n][s] EXCEPT !.state = "failed"])
    /\ UNCHANGED faults

\* The operator is replaced: what it had in hand is lost, and it lists all
\* objects again.
Restart ==
    /\ Fault
    /\ nsView' = Nil
    /\ depView' = Nil
    /\ nsQueue' = NodeSets
    /\ nsRetry' = {}
    /\ depQueue' = {d \in Deployments : Live(d) /\ ~Finished(d)}
    /\ UNCHANGED <<inputs, nss, inventory, dep, older, job, wakes>>

\* Node sets also wake for secrets, DNS and IP sets, deployments for their
\* certificates and labels, both for a resync.
Wake ==
    /\ wakes < MaxWakes
    /\ wakes' = wakes + 1
    /\ \/ \E n \in NodeSets : nsQueue' = nsQueue \cup {n} /\ UNCHANGED depQueue
       \/ \E d \in Deployments : Live(d) /\ depQueue' = depQueue \cup {d} /\ UNCHANGED nsQueue
    /\ UNCHANGED <<inputs, nss, inventory, dep, older, job, nsRetry, nsView, depView, faults>>

----------------------------------------------------------------------------

UserStep ==
    \/ \E n \in NodeSets : EditSpec(n) \/ EditData(n)
    \/ Retarget
    \/ \E d \in Deployments : CreateDeployment(d) \/ DeleteDeployment(d)

JobStep ==
    \E d \in Deployments, n \in NodeSets, s \in Services :
        \/ JobStart(d, n, s)
        \/ JobSucceed(d, n, s)
        \/ JobRetry(d, n, s)
        \/ JobFail(d, n, s)
        \/ JobFailed(d, n, s)

Next ==
    \/ UserStep
    \/ JobStep
    \/ Restart
    \/ Wake
    \/ \E n \in NodeSets : NodeSetRead(n) \/ NodeSetRetry(n)
    \/ NodeSetStep
    \/ \E d \in Deployments : DeploymentRead(d) \/ DeploymentSkip(d)
    \/ DeploymentStep

Spec == Init /\ [][Next]_vars

SetUpSpec == SetUpInit /\ [][Next]_vars

\* The work queues are served, a reconcile that has started goes on, and a
\* job that is started runs and reports. The user owes nothing.
Fairness ==
    /\ \A n \in NodeSets : WF_vars(NodeSetRead(n)) /\ WF_vars(NodeSetRetry(n))
    /\ \A d \in Deployments : WF_vars(DeploymentRead(d) \/ DeploymentSkip(d))
    /\ WF_vars(NodeSetCheck \/ NodeSetInventory \/ NodeSetPatch)
    /\ WF_vars(DeploymentWaits \/ DeploymentRun \/ DeploymentPatch)
    /\ \A d \in Deployments, n \in NodeSets, s \in Services :
          /\ WF_vars(JobStart(d, n, s))
          /\ WF_vars(JobSucceed(d, n, s))
          /\ WF_vars(JobFailed(d, n, s))

FairSpec == Spec /\ Fairness

----------------------------------------------------------------------------
(* Properties *)

\* A deployment records for a node set the hash of the spec that every one of
\* its jobs there has applied, and when it is done the version and the config
\* map contents they have applied: the recorded ones are read at the end, the
\* applied ones are in the inventory the jobs mounted.
RecordedWasApplied ==
    \A d \in Deployments : \A n \in Targets(d) :
       dep[d].cond[n] = "True" =>
          \A i \in DOMAIN Plan[d][n] :
             LET inv == JobOf(d, n, i).inv IN
             /\ inv # Nil /\ inv.hash = dep[d].hash[n]
             /\ dep[d].ready = "True" =>
                   /\ inv.version = dep[d].version
                   /\ dep[d].data[n] \in {Nil, inv.data}

\* A node set is reported Ready only if some deployment has run all of its
\* services on it, whatever was edited, deleted, restarted or read too early.
ReadyWasDeployed ==
    \A n \in NodeSets :
       nss[n].ready => \E d \in Deployments : n \in Targets(d) /\ DeployedOn(d, n)

\* The services of a node set run one after the other in the order of the
\* plan, although every reconcile forgets how far it was.
ServicesInOrder ==
    \A d \in Deployments : \A n \in NodeSets : \A i, j \in DOMAIN Plan[d][n] :
       i < j /\ JobOf(d, n, j).state # "none" => Succeeded(d, n, i)

\* How far a service is, as its job tells.
StageOf(state) ==
    CASE state = "none"      -> "waiting"
      [] state = "succeeded" -> "done"
      [] OTHER               -> "started"

ServiceStages ==
    [d \in Deployments |-> [n \in NodeSets |->
        [i \in DOMAIN Plan[d][n] |-> StageOf(JobOf(d, n, i).state)]]]

Reported == {d \in Deployments : dep[d].ready = "True"}

Rollout == INSTANCE ServiceRollout WITH stage <- ServiceStages, reported <- Reported

\* The controllers implement ServiceRollout: whatever fails, panics or restarts,
\* no service is skipped, started early or run again, and DeploymentReady is
\* stored only when all have succeeded, and is never taken back.
RollsOut == Rollout!Spec

\* No pod is started before its node set has an inventory to mount.
InventoryBeforeJobs ==
    \A d \in Deployments, n \in NodeSets, s \in Services :
       job[d][n][s].state \in {"running", "succeeded"} => job[d][n][s].inv # Nil

\* When the controllers have nothing left to do, the status of every node set
\* is what another reconcile would compute: no change was missed.
NothingMissed ==
    Idle => \A n \in NodeSets : \E q \in Orders(n) :
               LET st == CheckedStatus(q, n, nss[n]) IN
               /\ nss[n].observed = gen[n]
               /\ nss[n].setup
               /\ nss[n].ready = st.ready
               /\ nss[n].version = st.version
               /\ nss[n].statuses = st.statuses

\* The inventory is up to date unless a deployment uses the old one.
InventoryCurrent ==
    Idle => \A n \in NodeSets :
       \/ inventory[n] = [hash |-> HashOf[gen[n]], data |-> data[n], version |-> target]
       \/ \E d \in Relevant(n) : dep[d].cond[n] = "Running"

\* The webhook refuses edits of a node set only while a deployment runs: the
\* one it names still has something to do.
BlockedOnlyWhileRunning ==
    Idle => \A n \in NodeSets, d \in Deployments : Blocks(n, d) => ~Finished(d)

\* A node set never forgets the version it was updated to.
VersionKept ==
    [][\A n \in NodeSets : nss[n].version # Nil => nss'[n].version # Nil]_vars

\* A deployment is carried through: it succeeds, fails for good, or is
\* deleted, with node sets not yet set up, retries and restarts on the way.
DeploymentEnds ==
    \A d \in Deployments : Live(d) ~> (Finished(d) \/ ~Live(d))
=============================================================================
