------------------------ MODULE DeploymentController ------------------------
(***************************************************************************)
(* The OpenStackDataPlaneDeployment controller and the deployer. Every     *)
(* reconcile starts from unknown conditions and rebuilds them from the     *)
(* jobs: it reads the deployment and its node sets (DeploymentRead),       *)
(* starts or looks at one job per node set (DeploymentRun) and patches the *)
(* status (DeploymentPatch). A deployment that is Deployed, or that failed *)
(* at the backoff limit, is never reconciled again.                        *)
(***************************************************************************)
EXTENDS DataPlaneState

\* InitConditions: everything is unknown again.
Reset(d) ==
    [dep[d] EXCEPT
       !.ready = "Unknown",
       !.cond = [n \in NodeSets |-> IF n \in Targets(d) THEN "Unknown" ELSE Nil]]

DeploymentRead(d) ==
    /\ depView = Nil
    /\ d \in depQueue
    /\ Live(d)
    /\ ~Finished(d)
    /\ depQueue' = depQueue \ {d}
    /\ depView' = [dep |-> d, step |-> "read", again |-> FALSE,
                   setup |-> {n \in Targets(d) : nss[n].setup},
                   hash |-> [n \in NodeSets |-> IF n \in Targets(d) THEN nss[n].hash ELSE Nil],
                   status |-> Reset(d)]
    /\ UNCHANGED <<inputs, nss, inventory, dep, older, job, nsQueue, nsRetry, nsView, bounds>>

\* A deployment that is gone or finished is dropped from the queue.
DeploymentSkip(d) ==
    /\ depView = Nil
    /\ d \in depQueue
    /\ ~Live(d) \/ Finished(d)
    /\ depQueue' = depQueue \ {d}
    /\ UNCHANGED <<inputs, nss, inventory, dep, older, job, nsQueue, nsRetry, nsView, depView, bounds>>

Current == depView.dep

\* Mutant: the node sets are not asked.
SetupReadyUnchecked == TRUE

SetupReady == depView.setup = Targets(Current)

\* Some node set is not set up: come back later.
DeploymentWaits ==
    /\ depView # Nil
    /\ depView.step = "read"
    /\ ~SetupReady
    /\ depView' = [depView EXCEPT !.step = "ran", !.again = TRUE]
    /\ UNCHANGED <<inputs, nss, inventory, dep, older, job, nsQueue, nsRetry, nsView,
                   depQueue, bounds>>

\* TLS settings, a certificate, a service or the version cannot be read. A
\* missing service or certificate is also an error of the node set, failing
\* to plan the services one of the deployment.
DeploymentInputError ==
    /\ depView # Nil
    /\ depView.step = "read"
    /\ Fault
    /\ \E st \in {depView.status, [depView.status EXCEPT !.ready = "Error"]}
                 \cup {[depView.status EXCEPT !.cond[n] = "Error"] : n \in Targets(Current)} :
          depView' = [depView EXCEPT !.step = "ran", !.again = TRUE, !.status = st]
    /\ UNCHANGED <<inputs, nss, inventory, dep, older, job, nsQueue, nsRetry, nsView, depQueue, wakes>>

----------------------------------------------------------------------------

\* Mutant: does not wait for the service before.
IsNextUnordered(d, n, i) ==
    /\ i \in DOMAIN Plan[d][n]
    /\ ~Succeeded(d, n, i)
    /\ \A j \in 1 .. i - 2 : Succeeded(d, n, j)

\* Deploy stops at the first service of the node set that has not succeeded.
IsNext(d, n, i) ==
    /\ i \in DOMAIN Plan[d][n]
    /\ ~Succeeded(d, n, i)
    /\ \A j \in 1 .. i - 1 : Succeeded(d, n, j)

\* Mutant: a job that runs is taken for one that has succeeded.
JobOutcomeActive(state) ==
    CASE state \in {"none", "pending"} -> "Running"
      [] state = "failing"             -> "Error"
      [] state = "failed"              -> "Backoff"
      [] OTHER                         -> "True"

\* What ConditionalDeploy reports for the job of a service. A job over its
\* backoff limit is a backoff failure only once its Failed condition says so.
JobOutcome(state) ==
    CASE state \in {"none", "pending", "running"} -> "Running"
      [] state = "failing"                        -> "Error"
      [] state = "failed"                         -> "Backoff"
      [] OTHER                                    -> "True"

NextOutcome(d, n) ==
    JobOutcome(JobOf(d, n, CHOOSE i \in DOMAIN Plan[d][n] : IsNext(d, n, i)).state)

\* What Deploy reports for a node set.
Outcome(d, n) == IF DeployedOn(d, n) THEN "True" ELSE NextOutcome(d, n)

\* Jobs that this reconcile creates.
Creates(d, n, s) ==
    /\ n \in Targets(d)
    /\ job[d][n][s].state = "none"
    /\ \E i \in DOMAIN Plan[d][n] : IsNext(d, n, i) /\ Plan[d][n][i] = s

\* A job that has just been created may not be in the cache yet, and then its
\* condition is not stored: the node sets where this may happen.
MayLag(d) == {n \in NodeSets : \E s \in Services : Creates(d, n, s)}

OutcomesOf(d, lagging) ==
    [n \in NodeSets |-> IF n \in Targets(d) \ lagging THEN Outcome(d, n) ELSE "Unknown"]

\* A service cannot be read or its job not be created: an error condition, or
\* an error that leaves the condition unknown ("Retry"). No job is created.
FaultOutcomes == {"Error", "Retry"}

\* Whether the backoff limit was reached is what the last node set that
\* failed says.
Failures(d, o) == {i \in DOMAIN TargetsOf[d] :
                     o[TargetsOf[d][i]] \in {"Error", "Backoff", "Retry"}}

\* Mutant: one node set at its limit does not end the deployment.
BackoffLimitNever(d, o) == FALSE

BackoffLimitReached(d, o) ==
    \E i \in Failures(d, o) : /\ \A j \in Failures(d, o) : j <= i
                              /\ o[TargetsOf[d][i]] = "Backoff"

Summary(d, o) ==
    IF Failures(d, o) # {}
    THEN IF BackoffLimitReached(d, o) THEN "Backoff" ELSE "Error"
    ELSE IF \A n \in Targets(d) : o[n] = "True" THEN "True" ELSE "Running"

\* Mutant: the error is stored as a condition.
NodeSetConditionRaw(outcome) == outcome

\* An error that sets no condition leaves it unknown.
NodeSetCondition(outcome) == IF outcome = "Retry" THEN "Unknown" ELSE outcome

\* A node set is recorded with the ConfigHash that was read; the config maps
\* (unless one cannot be read: hashed) and the version only at the end.
RanStatus(d, o, hashed) ==
    LET all == Summary(d, o) = "True"
    IN  [depView.status EXCEPT
           !.ready = Summary(d, o),
           !.cond = [n \in NodeSets |->
                       IF n \in Targets(d) THEN NodeSetCondition(o[n]) ELSE Nil],
           !.hash = [n \in NodeSets |->
                       IF n \in Targets(d) /\ o[n] = "True" THEN depView.hash[n] ELSE @[n]],
           !.data = [n \in NodeSets |->
                       IF all /\ hashed /\ n \in Targets(d) THEN data[n] ELSE @[n]],
           !.version = IF all THEN target ELSE @]

CreateJobs(d, on) ==
    job' = [job EXCEPT ![d] =
              [n \in NodeSets |-> [s \in Services |->
                 IF n \in on /\ Creates(d, n, s)
                 THEN [state |-> "pending", inv |-> Nil] ELSE job[d][n][s]]]]

\* The deployment owns its jobs: it is woken when one is created.
RunWith(d, o, on, hashed) ==
    /\ CreateJobs(d, on)
    /\ depQueue' = IF job' # job THEN depQueue \cup {d} ELSE depQueue
    /\ depView' = [depView EXCEPT !.step = "ran",
                                  !.again = (Summary(d, o) = "Error"),
                                  !.status = RanStatus(d, o, hashed)]
    /\ UNCHANGED <<inputs, nss, inventory, dep, older, nsQueue, nsRetry, nsView, wakes>>

\* One pass over the node sets: each goes on with its own services.
DeploymentRun ==
    /\ depView # Nil
    /\ depView.step = "read"
    /\ SetupReady
    /\ \E lagging \in SUBSET MayLag(Current) :
          LET o == OutcomesOf(Current, lagging) IN
          \/ RunWith(Current, o, NodeSets, TRUE) /\ UNCHANGED faults
          \/ RunWith(Current, o, NodeSets, FALSE) /\ Summary(Current, o) = "True" /\ Fault

\* The same, with an error on the way for one of the node sets.
DeploymentRunFails ==
    /\ depView # Nil
    /\ depView.step = "read"
    /\ SetupReady
    /\ Fault
    /\ \E lagging \in SUBSET MayLag(Current), n \in Targets(Current), e \in FaultOutcomes :
          /\ n \notin lagging
          /\ RunWith(Current, [OutcomesOf(Current, lagging) EXCEPT ![n] = e],
                     NodeSets \ {n}, TRUE)

\* The jobs cannot be listed after the job of the k-th node set has been
\* created: the error is noted, then the missing job is dereferenced. The
\* panic skips the patch and ends the reconcile.
DeploymentPanics ==
    /\ depView # Nil
    /\ depView.step = "read"
    /\ SetupReady
    /\ Fault
    /\ \E k \in DOMAIN TargetsOf[Current] :
          CreateJobs(Current, {TargetsOf[Current][i] : i \in 1 .. k})
    /\ depView' = Nil
    /\ depQueue' = depQueue \cup {Current}
    /\ UNCHANGED <<inputs, nss, inventory, dep, older, nsQueue, nsRetry, nsView, wakes>>

----------------------------------------------------------------------------

\* LastTransitionTime moves only when the condition changes.
Stamp(d) ==
    [e \in Deployments |->
       IF e = d THEN {x \in Deployments \ {d} : dep[x].ready # Nil}
       ELSE older[e] \ {d}]

\* Mutant: the node set controller does not watch the deployments.
NodeSetEventsNone(d, new) == {}

\* The node sets whose controller is woken by a change of the deployment.
NodeSetEvents(d, new) == IF new # dep[d] THEN Targets(d) ELSE {}

\* The deferred PatchInstance; the patch of a deleted deployment fails.
DeploymentPatch ==
    /\ depView # Nil
    /\ depView.step = "ran"
    /\ depView' = Nil
    /\ IF Live(Current)
       THEN /\ dep' = [dep EXCEPT ![Current] = depView.status]
            /\ older' = IF depView.status.ready # dep[Current].ready
                        THEN Stamp(Current) ELSE older
            /\ nsQueue' = nsQueue \cup NodeSetEvents(Current, depView.status)
            /\ depQueue' = IF depView.again THEN depQueue \cup {Current} ELSE depQueue
       ELSE UNCHANGED <<dep, older, nsQueue, depQueue>>
    /\ UNCHANGED <<inputs, nss, inventory, job, nsRetry, nsView, bounds>>

DeploymentStep ==
    \/ DeploymentWaits
    \/ DeploymentInputError
    \/ DeploymentRun
    \/ DeploymentRunFails
    \/ DeploymentPanics
    \/ DeploymentPatch
=============================================================================
