------------------------- MODULE NodeSetController -------------------------
(***************************************************************************)
(* The OpenStackDataPlaneNodeSet controller. A reconcile reads the node    *)
(* set (NodeSetRead), sets up IP sets, DNS data, the SSH key, the service  *)
(* account and the bare metal hosts, any of which may end it               *)
(* (NodeSetSetupFails), lists the deployments (NodeSetCheck), writes the   *)
(* inventory unless a deployment is running (NodeSetInventory) and patches *)
(* the status (NodeSetPatch).                                              *)
(***************************************************************************)
EXTENDS DataPlaneState

NoStatuses == [d \in Deployments |-> Nil]

\* Mutant: the hash is set once.
DetectConfigChangeOnce(st, hash) == IF st.hash = Nil THEN hash ELSE st.hash

\* A spec that is the deployed one leaves ConfigHash alone.
DetectConfigChange(st, hash) == IF hash # st.deployedHash THEN hash ELSE st.hash

NodeSetRead(n) ==
    /\ nsView = Nil
    /\ n \in nsQueue
    /\ nsQueue' = nsQueue \ {n}
    /\ nsView' = [ns |-> n, step |-> "read", gen |-> gen[n], version |-> target,
                  running |-> FALSE, failed |-> FALSE,
                  status |-> [nss[n] EXCEPT
                                !.setup = FALSE, !.ready = FALSE,
                                !.observed = gen[n], !.statuses = NoStatuses,
                                !.hash = DetectConfigChange(nss[n], HashOf[gen[n]])]]
    /\ UNCHANGED <<inputs, nss, inventory, dep, older, job, nsRetry, depQueue, depView, bounds>>

----------------------------------------------------------------------------

Relevant(n) == {d \in Deployments : Live(d) /\ n \in Targets(d)}

\* The sort compares neighbours: it never leaves a deployment right after one
\* whose DeploymentReady changed later, but says nothing about a deployment
\* that has no conditions yet. The list it starts from is in no order.
Orders(n) ==
    {q \in [1 .. Cardinality(Relevant(n)) -> Relevant(n)] :
        /\ \A i, j \in DOMAIN q : q[i] = q[j] => i = j
        /\ \A i \in DOMAIN q : i + 1 \in DOMAIN q => q[i + 1] \notin older[q[i]]}

\* A finished deployment that counts: it recorded the present ConfigHash, and
\* the config map has not changed since.
Matches(d, n, hash) ==
    /\ dep[d].cond[n] = "True"
    /\ dep[d].hash[n] = hash
    /\ n \in VarsFrom => dep[d].data[n] = data[n]

Matching(q, n, hash) == {i \in DOMAIN q : Matches(q[i], n, hash)}

\* What is found for one deployment is overwritten by the next, and only the
\* last is asked whether it failed: the last one in the list decides.
IsLast(q, i) == i \in DOMAIN q /\ i + 1 \notin DOMAIN q

LatestCond(q, n, conds) == \E i \in DOMAIN q : IsLast(q, i) /\ dep[q[i]].cond[n] \in conds

\* The last finished update deployment in the list gives the version.
VersionFrom(q, n, hash, old) ==
    LET ups == {i \in Matching(q, n, hash) : q[i] \in UpdateDeployments}
    IN  IF ups = {} THEN old
        ELSE dep[q[CHOOSE i \in ups : \A j \in ups : j <= i]].version

StatusesOf(q, n) ==
    [d \in Deployments |-> IF \E i \in DOMAIN q : q[i] = d THEN dep[d].cond[n] ELSE Nil]

\* The status after checkDeployment and the setup being complete. Ready needs
\* every condition, and after the setup DeploymentReady is the only one left.
CheckedStatus(q, n, st) ==
    LET found == Matching(q, n, st.hash)
    IN  [st EXCEPT
          !.setup = TRUE,
          !.ready = \E i \in found : IsLast(q, i),
          !.deployedHash = IF found = {} THEN @ ELSE st.hash,
          !.version = VersionFrom(q, n, st.hash, @),
          !.statuses = StatusesOf(q, n)]

NodeSetCheck ==
    /\ nsView # Nil
    /\ nsView.step = "read"
    /\ \E q \in Orders(nsView.ns) :
          nsView' = [nsView EXCEPT
                       !.step = "checked",
                       !.version = target,
                       !.running = LatestCond(q, nsView.ns, {"Running"}),
                       !.failed = LatestCond(q, nsView.ns, {"Error", "Backoff"}),
                       !.status = CheckedStatus(q, nsView.ns, nsView.status)]
    /\ UNCHANGED <<inputs, nss, inventory, dep, older, job, nsQueue, nsRetry,
                   depQueue, depView, bounds>>

\* The reconcile ends with an error that is not a failed deployment: what is
\* in the status so far is stored.
NodeSetFails(st) ==
    /\ Fault
    /\ nss' = [nss EXCEPT ![nsView.ns] = [st EXCEPT !.setup = FALSE, !.ready = FALSE]]
    /\ nsQueue' = nsQueue \cup {nsView.ns}
    /\ nsView' = Nil
    /\ UNCHANGED <<inputs, inventory, dep, older, job, nsRetry, depQueue, depView, wakes>>

Prefix(q, k) == [i \in 1 .. k |-> q[i]]

\* A setup task before the deployments are listed fails or is not ready.
NodeSetSetupFails ==
    /\ nsView # Nil
    /\ nsView.step = "read"
    /\ NodeSetFails(nsView.status)

\* Of the k-th deployment a hash or a service cannot be read: those before it
\* have been taken over, it has been in part.
NodeSetCheckFails ==
    /\ nsView # Nil
    /\ nsView.step = "read"
    /\ \E q \in Orders(nsView.ns) : \E k \in DOMAIN q :
          /\ dep[q[k]].cond[nsView.ns] = "True"
          /\ dep[q[k]].hash[nsView.ns] = nsView.status.hash
          /\ \E j \in {k - 1, k} :
                NodeSetFails([CheckedStatus(Prefix(q, j), nsView.ns, nsView.status) EXCEPT
                                !.statuses = StatusesOf(Prefix(q, k), nsView.ns)])

----------------------------------------------------------------------------

\* Mutant: the inventory is left alone once the node set has been deployed.
WritesInventoryFirst(view) == ~view.running /\ view.status.deployedHash = Nil

\* A running deployment keeps the inventory its jobs mount.
WritesInventory(view) == ~view.running

\* GenerateNodeSetInventory reads the config map now, and the spec and the
\* version as they were read before.
NodeSetInventory ==
    /\ nsView # Nil
    /\ nsView.step = "checked"
    /\ inventory' = IF WritesInventory(nsView)
                    THEN [inventory EXCEPT ![nsView.ns] =
                            [hash |-> HashOf[nsView.gen],
                             data |-> data[nsView.ns],
                             version |-> nsView.version]]
                    ELSE inventory
    /\ nsView' = [nsView EXCEPT !.step = "written"]
    /\ UNCHANGED <<inputs, nss, dep, older, job, nsQueue, nsRetry,
                   depQueue, depView, bounds>>

\* The inventory cannot be generated or stored.
NodeSetInventoryFails ==
    /\ nsView # Nil
    /\ nsView.step = "checked"
    /\ WritesInventory(nsView)
    /\ NodeSetFails(nsView.status)

\* The deferred PatchInstance. A failed deployment makes the reconcile return
\* its error, so it is repeated with a growing delay.
NodeSetPatch ==
    /\ nsView # Nil
    /\ nsView.step = "written"
    /\ nss' = [nss EXCEPT ![nsView.ns] = nsView.status]
    /\ nsRetry' = IF nsView.failed THEN nsRetry \cup {nsView.ns} ELSE nsRetry \ {nsView.ns}
    /\ nsView' = Nil
    /\ UNCHANGED <<inputs, inventory, dep, older, job, nsQueue, depQueue, depView, bounds>>

\* The delay is over.
NodeSetRetry(n) ==
    /\ n \in nsRetry
    /\ nsRetry' = nsRetry \ {n}
    /\ nsQueue' = nsQueue \cup {n}
    /\ UNCHANGED <<inputs, nss, inventory, dep, older, job, nsView, depQueue, depView, bounds>>

NodeSetStep ==
    \/ NodeSetSetupFails
    \/ NodeSetCheck
    \/ NodeSetCheckFails
    \/ NodeSetInventory
    \/ NodeSetInventoryFails
    \/ NodeSetPatch
=============================================================================
