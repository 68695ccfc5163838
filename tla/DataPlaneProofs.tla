-------------------------- MODULE DataPlaneProofs --------------------------
(***************************************************************************)
(* What holds of DataPlane for every set of node sets, deployments and     *)
(* services, every user and any number of edits, failures and restarts:    *)
(* the types, the order of the services, the inventory before the jobs,    *)
(* that Ready means deployed, that no change is missed, and that what is   *)
(* recorded was applied. All rest on what a step can do to a job           *)
(* (JobChanges), to a reconcile of a node set (NodeSetChanges) and to one  *)
(* of a deployment (DeploymentChanges).                                    *)
(***************************************************************************)
EXTENDS DataPlane, TLAPS, FiniteSetTheorems, NaturalsInduction, WellFoundedInduction

\* A nonempty set of positions in a sequence has a last one.
LEMMA LastExists ==
    ASSUME NEW k \in Nat, NEW S \in SUBSET (1 .. k), S # {}
    PROVE  \E m \in S : \A j \in S : j <= m
<1>0. \A i \in S : i \in Nat /\ i <= k
  OBVIOUS
<1> DEFINE T == {k - i : i \in S}
<1>1. T \subseteq Nat /\ T # {}
  <2>1. \A i \in S : k - i \in Nat
    BY <1>0
  <2> QED
    BY <2>1
<1>2. PICK x \in T : \A y \in T : <<y, x>> \notin OpToRel(<, Nat)
  <2> HIDE DEF T
  <2> QED BY <1>1, WFMin, NatLessThanWellFounded
<1>3. PICK m \in S : x = k - m
  BY <1>2
<1>4. \A y \in T : ~(y < x)
  <2> SUFFICES ASSUME NEW y \in T, y < x PROVE FALSE
    OBVIOUS
  <2>1. x \in Nat /\ y \in Nat
    BY <1>1
  <2>2. <<y, x>> \in OpToRel(<, Nat)
    BY <2>1 DEF OpToRel
  <2> QED
    BY <2>2, <1>2
<1>5. \A j \in S : j <= m
  <2> SUFFICES ASSUME NEW j \in S PROVE j <= m
    OBVIOUS
  <2>1. ~(k - j < k - m)
    BY <1>3, <1>4
  <2>2. j \in Nat /\ m \in Nat
    BY <1>0
  <2> QED
    BY <2>1, <2>2
<1> QED
  BY <1>5

\* An order of the deployments of a node set lists deployments.
LEMMA OrdersType ==
    ASSUME NEW n \in NodeSets, NEW q \in Orders(n)
    PROVE  \E k \in Nat : q \in [1 .. k -> Relevant(n)]
<1>1. IsFiniteSet(Relevant(n))
  BY DeploymentsAssumption, FS_Subset DEF Relevant
<1>2. Cardinality(Relevant(n)) \in Nat
  BY <1>1, FS_CardinalityType
<1> QED
  BY <1>2 DEF Orders

----------------------------------------------------------------------------
(* Type correctness *)

\* The node sets have their types when they have just been created.
LEMMA InitType == Init => TypeOK
<1> SUFFICES ASSUME Init PROVE TypeOK
  OBVIOUS
<1>1. NewStatus \in NodeSetRec
  BY DEF NewStatus, NoStatuses, NodeSetRec
<1>2. NoDeployment \in DeploymentRec
  BY DEF NoDeployment, DeploymentRec
<1>3. NoJob \in JobRec
  BY DEF NoJob, JobRec, JobStates
<1> QED
  BY <1>1, <1>2, <1>3, BoundsAssumption DEF Init, Start, TypeOK, Generations

\* And when they have been set up.
LEMMA SetUpInitType == SetUpInit => TypeOK
<1> SUFFICES ASSUME SetUpInit PROVE TypeOK
  OBVIOUS
<1> USE BoundsAssumption
<1>1. 0 \in Generations /\ HashOf[0] \in Hashes
  BY DEF Generations
<1>2. [NewStatus EXCEPT !.setup = TRUE, !.observed = 0, !.hash = HashOf[0]] \in NodeSetRec
  BY <1>1 DEF NewStatus, NoStatuses, NodeSetRec
<1>3. [hash |-> HashOf[0], data |-> 0, version |-> 1] \in Inputs
  BY <1>1 DEF Inputs
<1>4. NoDeployment \in DeploymentRec
  BY DEF NoDeployment, DeploymentRec
<1>5. NoJob \in JobRec
  BY DEF NoJob, JobRec, JobStates
<1> QED
  BY <1>1, <1>2, <1>3, <1>4, <1>5 DEF SetUpInit, Start, TypeOK

\* What checkDeployment makes of the status of a node set is a status.
LEMMA CheckedStatusType ==
    ASSUME TypeOK, NEW n \in NodeSets, NEW k \in Nat, NEW q \in [1 .. k -> Deployments],
           NEW st \in NodeSetRec
    PROVE  /\ CheckedStatus(q, n, st) \in NodeSetRec
           /\ StatusesOf(q, n) \in [Deployments -> Conds \cup {Nil}]
<1>1. VersionFrom(q, n, st.hash, st.version) \in Nat \cup {Nil}
  <2> DEFINE ups == {i \in Matching(q, n, st.hash) : q[i] \in UpdateDeployments}
  <2>1. CASE ups = {}
    BY <2>1 DEF VersionFrom, NodeSetRec
  <2>2. CASE ups # {}
    <3>1. ups \in SUBSET (1 .. k)
      BY DEF Matching
    <3>2. PICK m \in ups : \A j \in ups : j <= m
      <4> HIDE DEF ups
      <4> QED BY <2>2, <3>1, LastExists
    <3> DEFINE last == CHOOSE i \in ups : \A j \in ups : j <= i
    <3>3. last \in ups
      BY <3>2
    <3>4. q[last] \in Deployments
      BY <3>1, <3>3
    <3>5. dep[q[last]].version \in Nat \cup {Nil}
      BY <3>4 DEF TypeOK, DeploymentRec
    <3> QED
      BY <2>2, <3>5 DEF VersionFrom
  <2> QED
    BY <2>1, <2>2
<1>2. StatusesOf(q, n) \in [Deployments -> Conds \cup {Nil}]
  BY DEF StatusesOf, TypeOK, DeploymentRec
<1> QED
  BY <1>1, <1>2, ZenonT(40) DEF CheckedStatus, NodeSetRec

\* A reconcile that fails keeps the types.
LEMMA NodeSetFailsType ==
    ASSUME TypeOK, nsView # Nil, NEW st \in NodeSetRec, NodeSetFails(st)
    PROVE  TypeOK'
<1>1. nsView.ns \in NodeSets
  BY DEF TypeOK, NodeSetViewRec
<1>2. [st EXCEPT !.setup = FALSE, !.ready = FALSE] \in NodeSetRec
  BY DEF NodeSetRec
<1> QED
  BY <1>1, <1>2 DEF NodeSetFails, Fault, TypeOK, inputs

\* The three ways a reconcile fails store a status.
LEMMA NodeSetFailsShape ==
    ASSUME TypeOK, NodeSetSetupFails \/ NodeSetCheckFails \/ NodeSetInventoryFails
    PROVE  nsView # Nil /\ \E st \in NodeSetRec : NodeSetFails(st)
<1>0. /\ nsView # Nil /\ nsView \in NodeSetViewRec /\ nsView.ns \in NodeSets
      /\ nsView.status \in NodeSetRec
  BY DEF TypeOK, NodeSetViewRec, NodeSetSetupFails, NodeSetCheckFails, NodeSetInventoryFails
<1>1. CASE NodeSetSetupFails
  BY <1>0, <1>1 DEF NodeSetSetupFails
<1>2. CASE NodeSetInventoryFails
  BY <1>0, <1>2 DEF NodeSetInventoryFails
<1>3. CASE NodeSetCheckFails
  <2>1. PICK q \in Orders(nsView.ns) : \E k \in DOMAIN q : \E j \in {k - 1, k} :
                NodeSetFails([CheckedStatus(Prefix(q, j), nsView.ns, nsView.status) EXCEPT
                                !.statuses = StatusesOf(Prefix(q, k), nsView.ns)])
    BY <1>3 DEF NodeSetCheckFails
  <2>2. PICK c \in Nat : q \in [1 .. c -> Deployments]
    BY <1>0, <1>3, OrdersType DEF NodeSetCheckFails, Relevant
  <2>3. PICK k \in DOMAIN q : \E j \in {k - 1, k} :
                NodeSetFails([CheckedStatus(Prefix(q, j), nsView.ns, nsView.status) EXCEPT
                                !.statuses = StatusesOf(Prefix(q, k), nsView.ns)])
    BY <2>1
  <2>4. PICK j \in {k - 1, k} :
                NodeSetFails([CheckedStatus(Prefix(q, j), nsView.ns, nsView.status) EXCEPT
                                !.statuses = StatusesOf(Prefix(q, k), nsView.ns)])
    BY <2>3
  <2>5. k \in Nat /\ j \in Nat /\ k <= c /\ j <= c
    BY <2>2
  <2>6. Prefix(q, j) \in [1 .. j -> Deployments] /\ Prefix(q, k) \in [1 .. k -> Deployments]
    BY <2>2, <2>5 DEF Prefix
  <2>7. CheckedStatus(Prefix(q, j), nsView.ns, nsView.status) \in NodeSetRec
    BY <1>0, <1>3, <2>5, <2>6, CheckedStatusType DEF NodeSetCheckFails
  <2>8. StatusesOf(Prefix(q, k), nsView.ns) \in [Deployments -> Conds \cup {Nil}]
    BY <1>0, <1>3, <2>5, <2>6, CheckedStatusType DEF NodeSetCheckFails
  <2>9. [CheckedStatus(Prefix(q, j), nsView.ns, nsView.status) EXCEPT
           !.statuses = StatusesOf(Prefix(q, k), nsView.ns)] \in NodeSetRec
    BY <2>7, <2>8 DEF NodeSetRec
  <2> QED
    BY <1>0, <2>4, <2>9
<1> QED
  BY <1>1, <1>2, <1>3

\* The steps of the node set controller keep the types.
LEMMA NodeSetType ==
    ASSUME TypeOK, NodeSetStep \/ \E n \in NodeSets : NodeSetRead(n) \/ NodeSetRetry(n)
    PROVE  TypeOK'
<1>1. ASSUME NEW n \in NodeSets, NodeSetRead(n) PROVE TypeOK'
  <2>1. gen[n] \in Generations /\ HashOf[gen[n]] \in Hashes
    BY BoundsAssumption DEF TypeOK, Generations
  <2>2. DetectConfigChange(nss[n], HashOf[gen[n]]) \in Hashes \cup {Nil}
    BY <2>1 DEF DetectConfigChange, TypeOK, NodeSetRec
  <2> DEFINE st == [nss[n] EXCEPT !.setup = FALSE, !.ready = FALSE,
                                   !.observed = gen[n], !.statuses = NoStatuses,
                                   !.hash = DetectConfigChange(nss[n], HashOf[gen[n]])]
  <2>3. st \in NodeSetRec
    <3>1. nss[n] \in NodeSetRec
      BY DEF TypeOK
    <3>2. NoStatuses \in [Deployments -> Conds \cup {Nil}]
      BY DEF NoStatuses
    <3> QED
      BY <2>1, <2>2, <3>1, <3>2 DEF NodeSetRec
  <2>4. nsView' = [ns |-> n, step |-> "read", gen |-> gen[n], version |-> target,
                   running |-> FALSE, failed |-> FALSE, status |-> st]
    BY <1>1 DEF NodeSetRead
  <2>5. nsView' \in NodeSetViewRec
    <3> HIDE DEF st
    <3> QED BY <2>1, <2>3, <2>4 DEF TypeOK, NodeSetViewRec
  <2> QED
    BY <1>1, <2>5 DEF NodeSetRead, TypeOK, inputs, bounds
<1>2. ASSUME NEW n \in NodeSets, NodeSetRetry(n) PROVE TypeOK'
  BY <1>2 DEF NodeSetRetry, TypeOK, inputs, bounds
<1>3. ASSUME nsView # Nil
      PROVE  /\ nsView \in NodeSetViewRec /\ nsView.ns \in NodeSets
             /\ nsView.status \in NodeSetRec
  BY <1>3 DEF TypeOK, NodeSetViewRec
<1>4. CASE NodeSetSetupFails \/ NodeSetCheckFails \/ NodeSetInventoryFails
  BY <1>4, NodeSetFailsShape, NodeSetFailsType
<1>5. CASE NodeSetCheck
  <2>1. PICK q \in Orders(nsView.ns) :
          nsView' = [nsView EXCEPT
                       !.step = "checked",
                       !.version = target,
                       !.running = LatestCond(q, nsView.ns, {"Running"}),
                       !.failed = LatestCond(q, nsView.ns, {"Error", "Backoff"}),
                       !.status = CheckedStatus(q, nsView.ns, nsView.status)]
    BY <1>5 DEF NodeSetCheck
  <2>2. PICK k \in Nat : q \in [1 .. k -> Deployments]
    BY <1>3, <1>5, OrdersType DEF NodeSetCheck, Relevant
  <2>3. CheckedStatus(q, nsView.ns, nsView.status) \in NodeSetRec
    BY <1>3, <1>5, <2>2, CheckedStatusType DEF NodeSetCheck
  <2>4. \A c : LatestCond(q, nsView.ns, c) \in BOOLEAN
    BY DEF LatestCond
  <2>5. nsView' \in NodeSetViewRec
    BY <1>3, <1>5, <2>1, <2>3, <2>4 DEF NodeSetCheck, NodeSetViewRec, TypeOK
  <2> QED
    BY <1>5, <2>5 DEF NodeSetCheck, TypeOK, inputs, bounds
<1>6. CASE NodeSetInventory
  <2>1. [hash |-> HashOf[nsView.gen], data |-> data[nsView.ns], version |-> nsView.version]
          \in Inputs
    BY <1>3, <1>6, BoundsAssumption
    DEF NodeSetInventory, NodeSetViewRec, Generations, Inputs, TypeOK
  <2>2. inventory' \in [NodeSets -> Inputs \cup {Nil}]
    BY <1>3, <1>6, <2>1 DEF NodeSetInventory, TypeOK
  <2>3. nsView' \in NodeSetViewRec
    BY <1>3, <1>6 DEF NodeSetInventory, NodeSetViewRec
  <2> QED
    BY <1>6, <2>2, <2>3 DEF NodeSetInventory, TypeOK, inputs, bounds
<1>7. CASE NodeSetPatch
  BY <1>3, <1>7 DEF NodeSetPatch, TypeOK, inputs, bounds
<1> QED
  BY <1>1, <1>2, <1>4, <1>5, <1>6, <1>7 DEF NodeSetStep

----------------------------------------------------------------------------

\* Whatever a job does, the pass reports a condition.
LEMMA OutcomesType ==
    ASSUME NEW d \in Deployments, NEW lagging
    PROVE  OutcomesOf(d, lagging) \in [NodeSets -> Conds]
<1>1. \A state : JobOutcome(state) \in Conds
  BY DEF JobOutcome, Conds
<1>2. \A n \in NodeSets : Outcome(d, n) \in Conds
  BY <1>1 DEF Outcome, NextOutcome, Conds
<1> QED
  BY <1>2 DEF OutcomesOf, Conds

\* The status a pass leaves is a status.
LEMMA RanStatusType ==
    ASSUME TypeOK, depView \in DeploymentViewRec, NEW o \in [NodeSets -> Conds \cup {"Retry"}],
           NEW hashed
    PROVE  RanStatus(Current, o, hashed) \in DeploymentRec
<1> DEFINE d == Current
<1>1. Summary(d, o) \in Conds
  BY DEF Summary, Conds
<1>2. \A n \in NodeSets : NodeSetCondition(o[n]) \in Conds
  BY DEF NodeSetCondition, Conds
<1>3. depView.status \in DeploymentRec /\ depView.hash \in [NodeSets -> Hashes \cup {Nil}]
  BY DEF DeploymentViewRec
<1>4. [n \in NodeSets |-> IF n \in Targets(d) THEN NodeSetCondition(o[n]) ELSE Nil]
        \in [NodeSets -> Conds \cup {Nil}]
  BY <1>2
<1>5. [n \in NodeSets |->
         IF n \in Targets(d) /\ o[n] = "True" THEN depView.hash[n] ELSE depView.status.hash[n]]
        \in [NodeSets -> Hashes \cup {Nil}]
  BY <1>3 DEF DeploymentRec
<1>6. [n \in NodeSets |->
         IF Summary(d, o) = "True" /\ hashed /\ n \in Targets(d)
         THEN data[n] ELSE depView.status.data[n]] \in [NodeSets -> Nat \cup {Nil}]
  BY <1>3 DEF DeploymentRec, TypeOK
<1>7. (IF Summary(d, o) = "True" THEN target ELSE depView.status.version) \in Nat \cup {Nil}
  BY <1>3 DEF DeploymentRec, TypeOK
<1> QED
  BY <1>1, <1>3, <1>4, <1>5, <1>6, <1>7 DEF RanStatus, DeploymentRec

\* A pass keeps the types.
LEMMA CreateJobsType ==
    ASSUME TypeOK, NEW d \in Deployments, NEW on, CreateJobs(d, on)
    PROVE  job' \in [Deployments -> [NodeSets -> [Services -> JobRec]]]
<1>1. [state |-> "pending", inv |-> Nil] \in JobRec
  BY DEF JobRec, JobStates
<1> DEFINE new == [n \in NodeSets |-> [s \in Services |->
                     IF n \in on /\ Creates(d, n, s)
                     THEN [state |-> "pending", inv |-> Nil] ELSE job[d][n][s]]]
<1>2. new \in [NodeSets -> [Services -> JobRec]]
  BY <1>1 DEF TypeOK
<1>3. job' = [job EXCEPT ![d] = new]
  BY DEF CreateJobs
<1> QED
  <2> HIDE DEF new
  <2> QED BY <1>2, <1>3 DEF TypeOK

LEMMA RunWithType ==
    ASSUME TypeOK, depView # Nil, NEW o \in [NodeSets -> Conds \cup {"Retry"}],
           NEW on, NEW hashed, RunWith(Current, o, on, hashed), faults' \in Nat
    PROVE  TypeOK'
<1>1. depView \in DeploymentViewRec /\ Current \in Deployments
  BY DEF TypeOK, DeploymentViewRec, Current
<1>2. job' \in [Deployments -> [NodeSets -> [Services -> JobRec]]]
  BY <1>1, CreateJobsType DEF RunWith
<1>3. RanStatus(Current, o, hashed) \in DeploymentRec
  BY <1>1, RanStatusType
<1>4. depView' \in DeploymentViewRec
  BY <1>1, <1>3 DEF RunWith, DeploymentViewRec
<1> QED
  BY <1>1, <1>2, <1>4 DEF RunWith, TypeOK, inputs

\* The steps of the deployment controller keep the types.
LEMMA DeploymentType ==
    ASSUME TypeOK, DeploymentStep \/ \E d \in Deployments : DeploymentRead(d) \/ DeploymentSkip(d)
    PROVE  TypeOK'
<1>0. \A d \in Deployments : Targets(d) \subseteq NodeSets
  BY DeploymentsAssumption DEF Targets
<1>1. ASSUME NEW d \in Deployments, DeploymentRead(d) PROVE TypeOK'
  <2>1. [n \in NodeSets |-> IF n \in Targets(d) THEN "Unknown" ELSE Nil]
          \in [NodeSets -> Conds \cup {Nil}]
    BY DEF Conds
  <2>2. Reset(d) \in DeploymentRec
    <3>1. dep[d] \in DeploymentRec
      BY DEF TypeOK
    <3> QED
      BY <2>1, <3>1 DEF Reset, DeploymentRec, Conds
  <2>3. [n \in NodeSets |-> IF n \in Targets(d) THEN nss[n].hash ELSE Nil]
          \in [NodeSets -> Hashes \cup {Nil}]
    BY DEF TypeOK, NodeSetRec
  <2>4. depView' \in DeploymentViewRec
    BY <1>0, <1>1, <2>2, <2>3 DEF DeploymentRead, DeploymentViewRec
  <2> QED
    BY <1>1, <2>4 DEF DeploymentRead, TypeOK, inputs, bounds
<1>2. ASSUME NEW d \in Deployments, DeploymentSkip(d) PROVE TypeOK'
  BY <1>2 DEF DeploymentSkip, TypeOK, inputs, bounds
<1>3. ASSUME depView # Nil
      PROVE  /\ depView \in DeploymentViewRec /\ depView.status \in DeploymentRec
             /\ Current \in Deployments
  BY <1>3 DEF TypeOK, DeploymentViewRec, Current
<1>4. CASE DeploymentWaits
  <2>1. depView' \in DeploymentViewRec
    BY <1>3, <1>4 DEF DeploymentWaits, DeploymentViewRec
  <2> QED
    BY <1>4, <2>1 DEF DeploymentWaits, TypeOK, inputs, bounds
<1>5. CASE DeploymentInputError
  <2>1. \A n \in Targets(Current) : [depView.status EXCEPT !.cond[n] = "Error"] \in DeploymentRec
    BY <1>0, <1>3, <1>5 DEF DeploymentInputError, DeploymentRec, Conds
  <2>2. [depView.status EXCEPT !.ready = "Error"] \in DeploymentRec
    BY <1>3, <1>5 DEF DeploymentInputError, DeploymentRec, Conds
  <2>3. PICK st \in DeploymentRec :
          depView' = [depView EXCEPT !.step = "ran", !.again = TRUE, !.status = st]
    BY <1>3, <1>5, <2>1, <2>2 DEF DeploymentInputError
  <2>4. depView' \in DeploymentViewRec
    BY <1>3, <1>5, <2>3 DEF DeploymentInputError, DeploymentViewRec
  <2> QED
    BY <1>5, <2>4 DEF DeploymentInputError, Fault, TypeOK, inputs
<1>6. CASE DeploymentRun
  <2>1. PICK lagging \in SUBSET MayLag(Current) :
          \/ RunWith(Current, OutcomesOf(Current, lagging), NodeSets, TRUE) /\ UNCHANGED faults
          \/ RunWith(Current, OutcomesOf(Current, lagging), NodeSets, FALSE) /\ Fault
    BY <1>6 DEF DeploymentRun
  <2>2. OutcomesOf(Current, lagging) \in [NodeSets -> Conds \cup {"Retry"}]
    BY <1>3, <1>6, OutcomesType DEF DeploymentRun
  <2>3. faults' \in Nat
    <3>1. UNCHANGED faults \/ Fault
      BY <2>1
    <3> QED
      BY <3>1 DEF Fault, TypeOK
  <2> QED
    BY <1>6, <2>1, <2>2, <2>3, RunWithType DEF DeploymentRun
<1>7. CASE DeploymentRunFails
  <2>1. PICK lagging \in SUBSET MayLag(Current), n \in Targets(Current), e \in FaultOutcomes :
          RunWith(Current, [OutcomesOf(Current, lagging) EXCEPT ![n] = e], NodeSets \ {n}, TRUE)
    BY <1>7 DEF DeploymentRunFails
  <2>2. OutcomesOf(Current, lagging) \in [NodeSets -> Conds]
    BY <1>3, <1>7, OutcomesType DEF DeploymentRunFails
  <2>3. [OutcomesOf(Current, lagging) EXCEPT ![n] = e] \in [NodeSets -> Conds \cup {"Retry"}]
    BY <2>2 DEF FaultOutcomes, Conds
  <2>4. faults' \in Nat
    BY <1>7 DEF DeploymentRunFails, Fault, TypeOK
  <2> QED
    BY <1>7, <2>1, <2>3, <2>4, RunWithType DEF DeploymentRunFails
<1>8. CASE DeploymentPanics
  <2>1. job' \in [Deployments -> [NodeSets -> [Services -> JobRec]]]
    BY <1>3, <1>8, CreateJobsType DEF DeploymentPanics
  <2> QED
    BY <1>3, <1>8, <2>1 DEF DeploymentPanics, Fault, TypeOK, inputs
<1>9. CASE DeploymentPatch
  <2>1. Stamp(Current) \in [Deployments -> SUBSET Deployments]
    BY DEF Stamp, TypeOK
  <2>2. NodeSetEvents(Current, depView.status) \subseteq NodeSets
    BY <1>0, <1>3, <1>9 DEF NodeSetEvents, DeploymentPatch
  <2>3. dep' \in [Deployments -> DeploymentRec]
    BY <1>3, <1>9 DEF DeploymentPatch, TypeOK
  <2>4. older' \in [Deployments -> SUBSET Deployments]
    BY <1>9, <2>1 DEF DeploymentPatch, TypeOK
  <2>5. nsQueue' \subseteq NodeSets /\ depQueue' \subseteq Deployments
    BY <1>3, <1>9, <2>2 DEF DeploymentPatch, TypeOK
  <2> QED
    BY <1>9, <2>3, <2>4, <2>5 DEF DeploymentPatch, TypeOK, inputs, bounds
<1> QED
  BY <1>1, <1>2, <1>4, <1>5, <1>6, <1>7, <1>8, <1>9 DEF DeploymentStep

----------------------------------------------------------------------------

\* The steps of the user keep the types.
LEMMA UserType ==
    ASSUME TypeOK, UserStep
    PROVE  TypeOK'
<1> USE BoundsAssumption
<1>0. \A d \in Deployments : Targets(d) \subseteq NodeSets
  BY DeploymentsAssumption DEF Targets
<1>1. ASSUME NEW n \in NodeSets, EditSpec(n) PROVE TypeOK'
  <2>1. gen[n] + 1 \in Generations
    BY <1>1 DEF EditSpec, TypeOK, Generations
  <2> QED
    BY <1>1, <2>1 DEF EditSpec, TypeOK, bounds
<1>2. ASSUME NEW n \in NodeSets, EditData(n) PROVE TypeOK'
  BY <1>2 DEF EditData, TypeOK, bounds
<1>3. CASE Retarget
  BY <1>3 DEF Retarget, TypeOK, bounds
<1>4. ASSUME NEW d \in Deployments, CreateDeployment(d) PROVE TypeOK'
  <2>1. dep' \in [Deployments -> DeploymentRec]
    <3>1. dep[d] \in DeploymentRec
      BY DEF TypeOK
    <3>2. [dep[d] EXCEPT !.stage = "live"] \in DeploymentRec
      BY <3>1 DEF DeploymentRec
    <3>3. dep' = [dep EXCEPT ![d] = [dep[d] EXCEPT !.stage = "live"]]
      BY <1>4 DEF CreateDeployment
    <3> QED
      BY <3>2, <3>3 DEF TypeOK
  <2> QED
    BY <1>0, <1>4, <2>1 DEF CreateDeployment, TypeOK, bounds, inputs
<1>5. ASSUME NEW d \in Deployments, DeleteDeployment(d) PROVE TypeOK'
  <2>1. dep' \in [Deployments -> DeploymentRec]
    <3>1. dep[d] \in DeploymentRec
      BY DEF TypeOK
    <3>2. [dep[d] EXCEPT !.stage = "deleted"] \in DeploymentRec
      BY <3>1 DEF DeploymentRec
    <3>3. dep' = [dep EXCEPT ![d] = [dep[d] EXCEPT !.stage = "deleted"]]
      BY <1>5 DEF DeleteDeployment
    <3> QED
      BY <3>2, <3>3 DEF TypeOK
  <2> QED
    BY <1>0, <1>5, <2>1 DEF DeleteDeployment, TypeOK, bounds, inputs
<1> QED
  BY <1>1, <1>2, <1>3, <1>4, <1>5 DEF UserStep

\* A change of a job keeps the types.
LEMMA SetJobType ==
    ASSUME TypeOK, NEW d \in Deployments, NEW n \in NodeSets, NEW s \in Services,
           NEW from, NEW new \in JobRec, SetJob(d, n, s, from, new), faults' \in Nat
    PROVE  TypeOK'
<1>1. job' = [job EXCEPT ![d][n][s] = new]
  BY DEF SetJob
<1>2. job' \in [Deployments -> [NodeSets -> [Services -> JobRec]]]
  BY <1>1 DEF TypeOK
<1> QED
  BY <1>2 DEF SetJob, TypeOK, inputs

\* What the five actions of a job have in common: the job was there and not
\* done, it is still there, and a pod that runs has mounted the inventory.
LEMMA JobStepShape ==
    ASSUME TypeOK, JobStep
    PROVE  \E d \in Deployments, n \in NodeSets, s \in Services, new \in JobRec :
             /\ SetJob(d, n, s, job[d][n][s].state, new)
             /\ job[d][n][s].state \in {"pending", "running", "failing"}
             /\ new.state # "none"
             /\ new.state \in {"running", "succeeded"} =>
                  \/ new.inv = inventory[n]
                  \/ job[d][n][s].state = "running" /\ new.inv = job[d][n][s].inv
             /\ faults' \in Nat
<1>1. PICK d \in Deployments, n \in NodeSets, s \in Services :
        \/ JobStart(d, n, s)
        \/ JobSucceed(d, n, s)
        \/ JobRetry(d, n, s)
        \/ JobFail(d, n, s)
        \/ JobFailed(d, n, s)
  BY DEF JobStep
<1>2. job[d][n][s] \in JobRec /\ inventory[n] \in Inputs \cup {Nil}
  BY DEF TypeOK
<1>3. UNCHANGED faults \/ Fault
  BY <1>1 DEF JobStart, JobSucceed, JobRetry, JobFail, JobFailed
<1>4. faults' \in Nat
  BY <1>3 DEF Fault, TypeOK
<1>5. CASE JobStart(d, n, s)
  <2>1. [state |-> "running", inv |-> inventory[n]] \in JobRec
    BY <1>2 DEF JobRec, JobStates
  <2> QED
    BY <1>2, <1>4, <1>5, <2>1 DEF JobStart, SetJob
<1>6. CASE JobSucceed(d, n, s)
  <2>1. [job[d][n][s] EXCEPT !.state = "succeeded"] \in JobRec
    BY <1>2 DEF JobRec, JobStates
  <2>2. /\ [job[d][n][s] EXCEPT !.state = "succeeded"].inv = job[d][n][s].inv
        /\ [job[d][n][s] EXCEPT !.state = "succeeded"].state = "succeeded"
    BY <1>2 DEF JobRec
  <2> QED
    BY <1>2, <1>4, <1>6, <2>1, <2>2 DEF JobSucceed, SetJob
<1>7. CASE JobRetry(d, n, s)
  <2>1. [job[d][n][s] EXCEPT !.state = "pending"] \in JobRec
    BY <1>2 DEF JobRec, JobStates
  <2>2. [job[d][n][s] EXCEPT !.state = "pending"].state = "pending"
    BY <1>2 DEF JobRec
  <2> QED
    BY <1>2, <1>4, <1>7, <2>1, <2>2 DEF JobRetry, SetJob
<1>8. CASE JobFail(d, n, s)
  <2>1. [job[d][n][s] EXCEPT !.state = "failing"] \in JobRec
    BY <1>2 DEF JobRec, JobStates
  <2>2. [job[d][n][s] EXCEPT !.state = "failing"].state = "failing"
    BY <1>2 DEF JobRec
  <2> QED
    BY <1>2, <1>4, <1>8, <2>1, <2>2 DEF JobFail, SetJob
<1>9. CASE JobFailed(d, n, s)
  <2>1. [job[d][n][s] EXCEPT !.state = "failed"] \in JobRec
    BY <1>2 DEF JobRec, JobStates
  <2>2. [job[d][n][s] EXCEPT !.state = "failed"].state = "failed"
    BY <1>2 DEF JobRec
  <2> QED
    BY <1>2, <1>4, <1>9, <2>1, <2>2 DEF JobFailed, SetJob
<1> QED
  BY <1>1, <1>5, <1>6, <1>7, <1>8, <1>9

\* Every step keeps the types.
LEMMA NextType == TypeOK /\ [Next]_vars => TypeOK'
<1> SUFFICES ASSUME TypeOK, [Next]_vars PROVE TypeOK'
  OBVIOUS
<1>1. CASE UserStep
  BY <1>1, UserType
<1>2. CASE JobStep
  BY <1>2, JobStepShape, SetJobType
<1>3. CASE Restart
  BY <1>3 DEF Restart, Fault, TypeOK, inputs
<1>4. CASE Wake
  BY <1>4 DEF Wake, TypeOK, inputs
<1>5. CASE NodeSetStep \/ \E n \in NodeSets : NodeSetRead(n) \/ NodeSetRetry(n)
  BY <1>5, NodeSetType
<1>6. CASE DeploymentStep \/ \E d \in Deployments : DeploymentRead(d) \/ DeploymentSkip(d)
  BY <1>6, DeploymentType
<1>7. CASE UNCHANGED vars
  BY <1>7 DEF vars, inputs, bounds, TypeOK
<1> QED
  BY <1>1, <1>2, <1>3, <1>4, <1>5, <1>6, <1>7 DEF Next

\* Whatever the user edits, deletes or deploys and whatever fails, every status
\* the two controllers store is well formed; the version copied from the last
\* update deployment in particular is a version or none.
THEOREM DataPlaneTypeCorrect == Spec => []TypeOK
<1> QED
  BY InitType, NextType, PTL DEF Spec

\* The same from node sets that have been set up.
THEOREM SetUpTypeCorrect == SetUpSpec => []TypeOK
<1> QED
  BY SetUpInitType, NextType, PTL DEF SetUpSpec

----------------------------------------------------------------------------
(* What a step can change *)

\* This step creates the job.
Created(d, n, s) ==
    /\ depView # Nil /\ d = Current /\ SetupReady
    /\ Creates(d, n, s)
    /\ job'[d][n][s] = [state |-> "pending", inv |-> Nil]

\* Kubernetes moves the job on.
Moved(d, n, s) ==
    /\ job[d][n][s].state \in {"pending", "running", "failing"}
    /\ job'[d][n][s].state # "none"
    /\ job'[d][n][s].state \in {"running", "succeeded"} =>
          \/ job'[d][n][s].inv = inventory[n]
          \/ job[d][n][s].state = "running" /\ job'[d][n][s].inv = job[d][n][s].inv

\* A pass creates jobs and leaves the others alone.
LEMMA CreateJobsShape ==
    ASSUME TypeOK, depView # Nil, SetupReady, NEW on, CreateJobs(Current, on),
           NEW d \in Deployments, NEW n \in NodeSets, NEW s \in Services
    PROVE  job'[d][n][s] = job[d][n][s] \/ Created(d, n, s)
<1> DEFINE new == [m \in NodeSets |-> [t \in Services |->
                     IF m \in on /\ Creates(Current, m, t)
                     THEN [state |-> "pending", inv |-> Nil] ELSE job[Current][m][t]]]
<1>1. job' = [job EXCEPT ![Current] = new]
  BY DEF CreateJobs
<1>2. CASE d # Current
  BY <1>1, <1>2 DEF TypeOK
<1>3. CASE d = Current
  <2>1. job'[d] = new
    <3> HIDE DEF new
    <3> QED BY <1>1, <1>3 DEF TypeOK
  <2>2. job'[d][n][s] = IF n \in on /\ Creates(d, n, s)
                        THEN [state |-> "pending", inv |-> Nil] ELSE job[d][n][s]
    BY <1>3, <2>1
  <2> QED
    BY <1>3, <2>2 DEF Created
<1> QED
  BY <1>2, <1>3

\* What a step can do to a job.
LEMMA JobChanges ==
    ASSUME TypeOK, [Next]_vars, NEW d \in Deployments, NEW n \in NodeSets, NEW s \in Services
    PROVE  job'[d][n][s] = job[d][n][s] \/ Created(d, n, s) \/ Moved(d, n, s)
<1>1. CASE JobStep
  <2>1. PICK e \in Deployments, m \in NodeSets, t \in Services, new \in JobRec :
             /\ SetJob(e, m, t, job[e][m][t].state, new)
             /\ job[e][m][t].state \in {"pending", "running", "failing"}
             /\ new.state # "none"
             /\ new.state \in {"running", "succeeded"} =>
                  \/ new.inv = inventory[m]
                  \/ job[e][m][t].state = "running" /\ new.inv = job[e][m][t].inv
    BY <1>1, JobStepShape
  <2>2. job' = [job EXCEPT ![e][m][t] = new]
    BY <2>1 DEF SetJob
  <2>3. CASE <<d, n, s>> = <<e, m, t>>
    <3>1. d = e /\ n = m /\ s = t
      BY <2>3
    <3>2. job'[d][n][s] = new
      BY <2>2, <3>1 DEF TypeOK
    <3> QED
      BY <2>1, <3>1, <3>2 DEF Moved
  <2>4. CASE <<d, n, s>> # <<e, m, t>>
    <3>1. d # e \/ n # m \/ s # t
      BY <2>4
    <3>2. job'[d][n][s] = job[d][n][s]
      BY <2>2, <3>1 DEF TypeOK
    <3> QED
      BY <3>2
  <2> QED
    BY <2>3, <2>4
<1>2. CASE DeploymentRun
  BY <1>2, CreateJobsShape DEF DeploymentRun, RunWith
<1>3. CASE DeploymentRunFails
  BY <1>3, CreateJobsShape DEF DeploymentRunFails, RunWith
<1>4. CASE DeploymentPanics
  BY <1>4, CreateJobsShape DEF DeploymentPanics
<1>5. CASE UNCHANGED job
  BY <1>5
<1>6. CASE UserStep
  BY <1>5, <1>6 DEF UserStep, EditSpec, EditData, Retarget, CreateDeployment, DeleteDeployment
<1>7. CASE Restart \/ Wake
  BY <1>5, <1>7 DEF Restart, Wake
<1>8. CASE \E m \in NodeSets : NodeSetRead(m) \/ NodeSetRetry(m)
  BY <1>5, <1>8 DEF NodeSetRead, NodeSetRetry
<1>9. CASE NodeSetStep
  BY <1>5, <1>9 DEF NodeSetStep, NodeSetSetupFails, NodeSetCheck, NodeSetCheckFails,
                    NodeSetInventory, NodeSetInventoryFails, NodeSetPatch, NodeSetFails
<1>10. CASE \E e \in Deployments : DeploymentRead(e) \/ DeploymentSkip(e)
  BY <1>5, <1>10 DEF DeploymentRead, DeploymentSkip
<1>11. CASE DeploymentWaits \/ DeploymentInputError \/ DeploymentPatch
  BY <1>5, <1>11 DEF DeploymentWaits, DeploymentInputError, DeploymentPatch
<1>12. CASE UNCHANGED vars
  BY <1>5, <1>12 DEF vars
<1> QED
  BY <1>1, <1>2, <1>3, <1>4, <1>6, <1>7, <1>8, <1>9, <1>10, <1>11, <1>12
  DEF Next, DeploymentStep

\* A job that has succeeded stays so: it is never run again.
LEMMA SucceededStays ==
    ASSUME TypeOK, [Next]_vars, NEW d \in Deployments, NEW n \in NodeSets, NEW s \in Services,
           job[d][n][s].state = "succeeded"
    PROVE  job'[d][n][s] = job[d][n][s]
BY JobChanges DEF Created, Creates, Moved

----------------------------------------------------------------------------
(* The order of the services *)

\* No service is twice in the list of a node set.
PlanWithoutDuplicates ==
    \A d \in Deployments, n \in NodeSets : \A i, j \in DOMAIN Plan[d][n] :
       Plan[d][n][i] = Plan[d][n][j] => i = j

\* A step starts a service only after those before it.
LEMMA NextInOrder ==
    ASSUME PlanWithoutDuplicates, TypeOK, ServicesInOrder, [Next]_vars
    PROVE  ServicesInOrder'
<1> SUFFICES ASSUME NEW d \in Deployments, NEW n \in NodeSets,
                    NEW i \in DOMAIN Plan[d][n], NEW j \in DOMAIN Plan[d][n],
                    i < j, JobOf(d, n, j)'.state # "none"
             PROVE  Succeeded(d, n, i)'
  BY DEF ServicesInOrder
<1>1. /\ Plan[d][n] \in Seq(Services)
      /\ Plan[d][n][i] \in Services /\ Plan[d][n][j] \in Services
      /\ i \in Nat /\ j \in Nat /\ i >= 1
  BY DeploymentsAssumption
<1>2. SUFFICES Succeeded(d, n, i)
  BY <1>1, <1>2, SucceededStays DEF Succeeded, JobOf
<1>3. CASE JobOf(d, n, j).state # "none"
  BY <1>3 DEF ServicesInOrder
<1>4. CASE JobOf(d, n, j).state = "none"
  <2>1. Created(d, n, Plan[d][n][j])
    BY <1>1, <1>4, JobChanges DEF JobOf, Moved
  <2>2. PICK k \in DOMAIN Plan[d][n] : IsNext(d, n, k) /\ Plan[d][n][k] = Plan[d][n][j]
    BY <2>1 DEF Created, Creates, IsNext
  <2>3. k = j
    BY <2>2 DEF PlanWithoutDuplicates
  <2>4. i \in 1 .. j - 1
    BY <1>1
  <2> QED
    BY <2>2, <2>3, <2>4 DEF IsNext
<1> QED
  BY <1>3, <1>4

\* The services of a node set run one after the other in the order of the plan,
\* for plans without duplicates of any length, with any number of failures,
\* panics and restarts in the passes that start the jobs.
THEOREM ServicesOrdered ==
    ASSUME PlanWithoutDuplicates
    PROVE  Spec => []ServicesInOrder
<1>1. Init => ServicesInOrder
  <2> SUFFICES ASSUME Init, NEW d \in Deployments, NEW n \in NodeSets,
                      NEW j \in DOMAIN Plan[d][n]
               PROVE  JobOf(d, n, j).state = "none"
    BY DEF ServicesInOrder
  <2>1. Plan[d][n][j] \in Services
    BY DeploymentsAssumption
  <2> QED
    BY <2>1 DEF Init, Start, NoJob, JobOf
<1>2. ServicesInOrder /\ TypeOK /\ [Next]_vars => ServicesInOrder'
  BY NextInOrder
<1> QED
  BY <1>1, <1>2, DataPlaneTypeCorrect, PTL DEF Spec

----------------------------------------------------------------------------
(* The inventory before the jobs *)

\* SetupReady is only ever reported of a node set that has an inventory.
SetupInv ==
    /\ \A n \in NodeSets : nss[n].setup => inventory[n] # Nil
    /\ nsView # Nil =>
         (nsView.step = "written" \/ (nsView.step = "checked" /\ nsView.running)
            => inventory[nsView.ns] # Nil)
    /\ depView # Nil => \A n \in depView.setup : inventory[n] # Nil

\* So only there a deployment reports progress and creates jobs.
ProgressInv ==
    /\ \A d \in Deployments, n \in NodeSets : dep[d].cond[n] = "Running" => inventory[n] # Nil
    /\ depView # Nil =>
         \A n \in NodeSets : depView.status.cond[n] = "Running" => inventory[n] # Nil
    /\ \A d \in Deployments, n \in NodeSets, s \in Services :
         job[d][n][s].state # "none" => inventory[n] # Nil

InventoryInv == SetupInv /\ ProgressInv /\ InventoryBeforeJobs

\* An inventory is replaced but never removed.
LEMMA InventoryStays ==
    ASSUME TypeOK, [Next]_vars
    PROVE  /\ \A n \in NodeSets : inventory[n] # Nil => inventory'[n] # Nil
           /\ inventory' = inventory \/ NodeSetInventory
<1>1. CASE NodeSetInventory
  <2>1. nsView \in NodeSetViewRec
    BY <1>1 DEF NodeSetInventory, TypeOK
  <2>2. [hash |-> HashOf[nsView.gen], data |-> data[nsView.ns], version |-> nsView.version]
          \in Inputs
    BY <2>1, BoundsAssumption DEF NodeSetViewRec, Generations, Inputs, TypeOK
  <2>3. [hash |-> HashOf[nsView.gen], data |-> data[nsView.ns], version |-> nsView.version]
          # Nil
    BY <2>2, NilAssumption DEF Inputs
  <2> QED
    BY <1>1, <2>1, <2>3 DEF NodeSetInventory, TypeOK, NodeSetViewRec
<1>2. CASE inventory' = inventory
  BY <1>2
<1>3. CASE UserStep
  BY <1>2, <1>3 DEF UserStep, EditSpec, EditData, Retarget, CreateDeployment, DeleteDeployment
<1>4. CASE JobStep
  BY <1>2, <1>4 DEF JobStep, JobStart, JobSucceed, JobRetry, JobFail, JobFailed, SetJob
<1>5. CASE Restart \/ Wake
  BY <1>2, <1>5 DEF Restart, Wake
<1>6. CASE \E m \in NodeSets : NodeSetRead(m) \/ NodeSetRetry(m)
  BY <1>2, <1>6 DEF NodeSetRead, NodeSetRetry
<1>7. CASE NodeSetStep
  BY <1>1, <1>2, <1>7 DEF NodeSetStep, NodeSetSetupFails, NodeSetCheck, NodeSetCheckFails,
                    NodeSetInventoryFails, NodeSetPatch, NodeSetFails
<1>8. CASE \E e \in Deployments : DeploymentRead(e) \/ DeploymentSkip(e)
  BY <1>2, <1>8 DEF DeploymentRead, DeploymentSkip
<1>9. CASE DeploymentStep
  BY <1>2, <1>9 DEF DeploymentStep, DeploymentWaits, DeploymentInputError, DeploymentRun,
                    DeploymentRunFails, DeploymentPanics, DeploymentPatch, RunWith
<1>10. CASE UNCHANGED vars
  BY <1>2, <1>10 DEF vars
<1> QED
  BY <1>3, <1>4, <1>5, <1>6, <1>7, <1>8, <1>9, <1>10 DEF Next

\* What a step can do to a reconcile of a node set and to the status.
LEMMA NodeSetChanges ==
    ASSUME TypeOK, [Next]_vars
    PROVE  \/ UNCHANGED <<nss, nsView, inventory>> /\ nsQueue \subseteq nsQueue'
           \/ UNCHANGED <<nss, inventory>> /\ nsView' = Nil /\ nsQueue' = NodeSets
           \/ NodeSetStep
           \/ \E n \in NodeSets : NodeSetRead(n)
<1>1. CASE UserStep
  BY <1>1 DEF TypeOK, UserStep, EditSpec, EditData, Retarget, CreateDeployment, DeleteDeployment
<1>2. CASE JobStep
  BY <1>2 DEF JobStep, JobStart, JobSucceed, JobRetry, JobFail, JobFailed, SetJob
<1>3. CASE Restart \/ Wake
  BY <1>3 DEF Restart, Wake
<1>4. CASE \E n \in NodeSets : NodeSetRetry(n)
  BY <1>4 DEF NodeSetRetry
<1>5. CASE \E d \in Deployments : DeploymentRead(d) \/ DeploymentSkip(d)
  BY <1>5 DEF DeploymentRead, DeploymentSkip
<1>6. CASE DeploymentStep
  BY <1>6 DEF DeploymentStep, DeploymentWaits, DeploymentInputError, DeploymentRun,
              DeploymentRunFails, DeploymentPanics, DeploymentPatch, RunWith
<1>7. CASE UNCHANGED vars
  BY <1>7 DEF vars
<1> QED
  BY <1>1, <1>2, <1>3, <1>4, <1>5, <1>6, <1>7 DEF Next

\* What a step can do to the deployments and to a reconcile of one: set the
\* stage, begin or drop a reconcile, or a step of one.
LEMMA DeploymentChanges ==
    ASSUME TypeOK, [Next]_vars
    PROVE  \/ UNCHANGED <<dep, depView>>
           \/ UNCHANGED dep /\ depView' = Nil
           \/ /\ UNCHANGED depView
              /\ \E d \in Deployments, st \in {"live", "deleted"} :
                   dep' = [dep EXCEPT ![d].stage = st]
           \/ DeploymentStep
           \/ \E d \in Deployments : DeploymentRead(d)
<1>1. CASE UserStep
  BY <1>1 DEF UserStep, EditSpec, EditData, Retarget, CreateDeployment, DeleteDeployment
<1>2. CASE JobStep
  BY <1>2 DEF JobStep, JobStart, JobSucceed, JobRetry, JobFail, JobFailed, SetJob
<1>3. CASE Restart \/ Wake
  BY <1>3 DEF Restart, Wake
<1>4. CASE \E n \in NodeSets : NodeSetRead(n) \/ NodeSetRetry(n)
  BY <1>4 DEF NodeSetRead, NodeSetRetry
<1>5. CASE NodeSetStep
  BY <1>5 DEF NodeSetStep, NodeSetSetupFails, NodeSetCheck, NodeSetCheckFails,
              NodeSetInventory, NodeSetInventoryFails, NodeSetPatch, NodeSetFails
<1>6. CASE \E d \in Deployments : DeploymentSkip(d)
  BY <1>6 DEF DeploymentSkip
<1>7. CASE UNCHANGED vars
  BY <1>7 DEF vars
<1> QED
  BY <1>1, <1>2, <1>3, <1>4, <1>5, <1>6, <1>7 DEF Next

\* A pass that reports progress on a node set knows that it is set up, one
\* that reports success has found the services deployed.
PassReports(n) ==
    LET c == depView'.status.cond[n] IN
    \/ c = depView.status.cond[n]
    \/ c \in {"Unknown", "Error", "Backoff", Nil}
    \/ c = "Running" /\ SetupReady /\ n \in Targets(Current)
    \/ c = "True" /\ n \in Targets(Current) /\ Outcome(Current, n) = "True"

LEMMA RunReports ==
    ASSUME TypeOK, depView # Nil, SetupReady, NEW o \in [NodeSets -> Conds \cup {"Retry"}],
           NEW on, NEW hashed, RunWith(Current, o, on, hashed), NEW n \in NodeSets,
           o[n] = "True" => Outcome(Current, n) = "True"
    PROVE  PassReports(n)
<1>1. depView \in DeploymentViewRec /\ depView.status \in DeploymentRec
  BY DEF TypeOK, DeploymentViewRec
<1>2. depView'.status = RanStatus(Current, o, hashed)
  BY <1>1 DEF RunWith, DeploymentViewRec
<1>3. RanStatus(Current, o, hashed).cond
        = [m \in NodeSets |-> IF m \in Targets(Current) THEN NodeSetCondition(o[m]) ELSE Nil]
  BY <1>1 DEF RanStatus, DeploymentRec
<1>4. depView'.status.cond[n] = IF n \in Targets(Current) THEN NodeSetCondition(o[n]) ELSE Nil
  BY <1>2, <1>3
<1>5. o[n] \in Conds \cup {"Retry"}
  OBVIOUS
<1> QED
  BY <1>4, <1>5 DEF PassReports, NodeSetCondition, Conds

LEMMA StepReports ==
    ASSUME TypeOK, DeploymentStep, depView' # Nil, NEW n \in NodeSets
    PROVE  /\ depView # Nil
           /\ depView'.dep = depView.dep /\ depView'.setup = depView.setup
           /\ PassReports(n)
<1>0. depView # Nil
  BY DEF DeploymentStep, DeploymentWaits, DeploymentInputError, DeploymentRun,
         DeploymentRunFails, DeploymentPanics, DeploymentPatch
<1>1. depView \in DeploymentViewRec /\ depView.status \in DeploymentRec /\ Current \in Deployments
  BY <1>0 DEF TypeOK, DeploymentViewRec, Current
<1>2. CASE DeploymentWaits
  BY <1>0, <1>1, <1>2 DEF DeploymentWaits, DeploymentViewRec, PassReports
<1>3. CASE DeploymentInputError
  <2>1. PICK st \in {depView.status, [depView.status EXCEPT !.ready = "Error"]}
                 \cup {[depView.status EXCEPT !.cond[m] = "Error"] : m \in Targets(Current)} :
          depView' = [depView EXCEPT !.step = "ran", !.again = TRUE, !.status = st]
    BY <1>3 DEF DeploymentInputError
  <2>2. /\ depView'.dep = depView.dep /\ depView'.setup = depView.setup
        /\ depView'.status = st
    BY <1>1, <2>1 DEF DeploymentViewRec
  <2>3. st.cond[n] \in {depView.status.cond[n], "Error"}
    BY <1>1, <2>1 DEF DeploymentRec
  <2> QED
    BY <1>0, <2>2, <2>3 DEF PassReports
<1>4. ASSUME NEW o, NEW on, NEW hashed, RunWith(Current, o, on, hashed)
      PROVE  depView'.dep = depView.dep /\ depView'.setup = depView.setup
  BY <1>1, <1>4 DEF RunWith, DeploymentViewRec
<1>5. CASE DeploymentRun
  <2>1. PICK lagging \in SUBSET MayLag(Current), hashed \in BOOLEAN :
          RunWith(Current, OutcomesOf(Current, lagging), NodeSets, hashed)
    BY <1>5 DEF DeploymentRun
  <2>2. OutcomesOf(Current, lagging) \in [NodeSets -> Conds \cup {"Retry"}]
    BY <1>1, OutcomesType
  <2>3. OutcomesOf(Current, lagging)[n] = "True" => Outcome(Current, n) = "True"
    BY DEF OutcomesOf
  <2>4. PassReports(n)
    BY <1>0, <1>5, <2>1, <2>2, <2>3, RunReports DEF DeploymentRun
  <2> QED
    BY <1>0, <1>4, <2>1, <2>4
<1>6. CASE DeploymentRunFails
  <2>1. PICK lagging \in SUBSET MayLag(Current), m \in Targets(Current), e \in FaultOutcomes :
          RunWith(Current, [OutcomesOf(Current, lagging) EXCEPT ![m] = e], NodeSets \ {m}, TRUE)
    BY <1>6 DEF DeploymentRunFails
  <2>2. OutcomesOf(Current, lagging) \in [NodeSets -> Conds]
    BY <1>1, OutcomesType
  <2> DEFINE o == [OutcomesOf(Current, lagging) EXCEPT ![m] = e]
  <2>3. o \in [NodeSets -> Conds \cup {"Retry"}]
    BY <2>2 DEF FaultOutcomes, Conds
  <2>4. OutcomesOf(Current, lagging)[n] = "True" => Outcome(Current, n) = "True"
    BY DEF OutcomesOf
  <2>5. o[n] = "True" => Outcome(Current, n) = "True"
    BY <2>2, <2>4 DEF FaultOutcomes
  <2>6. PassReports(n)
    <3> HIDE DEF o
    <3>1. RunWith(Current, o, NodeSets \ {m}, TRUE)
      BY <2>1 DEF o
    <3> QED
      BY <1>0, <1>6, <2>3, <2>5, <3>1, RunReports DEF DeploymentRunFails
  <2> QED
    BY <1>0, <1>4, <2>1, <2>6
<1>7. CASE DeploymentPanics \/ DeploymentPatch
  BY <1>7 DEF DeploymentPanics, DeploymentPatch
<1> QED
  BY <1>2, <1>3, <1>5, <1>6, <1>7 DEF DeploymentStep

\* The status a step stores for a deployment is the one it had, with another
\* stage perhaps, or that of the reconcile.
LEMMA StoredConds ==
    ASSUME TypeOK, [Next]_vars, NEW d \in Deployments, NEW n \in NodeSets
    PROVE  \/ dep'[d].cond[n] = dep[d].cond[n]
           \/ depView # Nil /\ d = Current /\ dep'[d].cond[n] = depView.status.cond[n]
<1>1. CASE UNCHANGED dep
  BY <1>1
<1>2. ASSUME NEW e \in Deployments, NEW st, dep' = [dep EXCEPT ![e].stage = st]
      PROVE  dep'[d].cond[n] = dep[d].cond[n]
  <2>1. dep[d] \in DeploymentRec
    BY DEF TypeOK
  <2>2. dep'[d] = IF d = e THEN [dep[d] EXCEPT !.stage = st] ELSE dep[d]
    BY <1>2 DEF TypeOK
  <2> QED
    BY <2>1, <2>2 DEF DeploymentRec
<1>3. CASE DeploymentPatch
  BY <1>1, <1>3 DEF DeploymentPatch, TypeOK
<1>4. CASE DeploymentStep
  BY <1>1, <1>3, <1>4 DEF DeploymentStep, DeploymentWaits, DeploymentInputError, DeploymentRun,
              DeploymentRunFails, DeploymentPanics, RunWith
<1>5. CASE \E e \in Deployments : DeploymentRead(e)
  BY <1>1, <1>5 DEF DeploymentRead
<1> QED
  BY <1>1, <1>2, <1>4, <1>5, DeploymentChanges

\* SetupReady is stored only after the inventory has been written or found.
LEMMA StatusSetup ==
    ASSUME TypeOK, SetupInv, [Next]_vars, NEW n \in NodeSets, nss'[n].setup
    PROVE  inventory'[n] # Nil
<1>0. \A m \in NodeSets : inventory[m] # Nil => inventory'[m] # Nil
  BY InventoryStays
<1>1. CASE UNCHANGED nss
  BY <1>0, <1>1 DEF SetupInv
<1>2. CASE NodeSetSetupFails \/ NodeSetCheckFails \/ NodeSetInventoryFails
  <2>1. PICK st \in NodeSetRec : NodeSetFails(st)
    BY <1>2, NodeSetFailsShape
  <2>2. ~[st EXCEPT !.setup = FALSE, !.ready = FALSE].setup
    BY DEF NodeSetRec
  <2>3. nsView.ns \in NodeSets
    BY <1>2, NodeSetFailsShape DEF TypeOK, NodeSetViewRec
  <2>4. nss'[n] = IF n = nsView.ns THEN [st EXCEPT !.setup = FALSE, !.ready = FALSE] ELSE nss[n]
    BY <2>1, <2>3 DEF NodeSetFails, TypeOK
  <2> QED
    BY <1>0, <2>2, <2>4 DEF SetupInv
<1>3. CASE NodeSetPatch
  BY <1>0, <1>3 DEF NodeSetPatch, SetupInv, TypeOK, NodeSetViewRec
<1>4. CASE NodeSetStep
  BY <1>1, <1>2, <1>3, <1>4 DEF NodeSetStep, NodeSetCheck, NodeSetInventory
<1>5. CASE \E m \in NodeSets : NodeSetRead(m)
  BY <1>1, <1>5 DEF NodeSetRead
<1> QED
  BY <1>1, <1>4, <1>5, NodeSetChanges

\* A reconcile that does not write the inventory leaves one that is there,
\* because a deployment is running.
LEMMA ViewSetup ==
    ASSUME TypeOK, SetupInv, ProgressInv, [Next]_vars, nsView' # Nil,
           nsView'.step = "written" \/ (nsView'.step = "checked" /\ nsView'.running)
    PROVE  inventory'[nsView'.ns] # Nil
<1>0. \A m \in NodeSets : inventory[m] # Nil => inventory'[m] # Nil
  BY InventoryStays
<1>1. CASE UNCHANGED nsView
  BY <1>0, <1>1 DEF SetupInv, TypeOK, NodeSetViewRec
<1>2. CASE NodeSetSetupFails \/ NodeSetCheckFails \/ NodeSetInventoryFails \/ NodeSetPatch
  BY <1>2 DEF NodeSetSetupFails, NodeSetCheckFails, NodeSetInventoryFails, NodeSetPatch,
              NodeSetFails
<1>3. CASE NodeSetCheck
  <2>0. nsView # Nil /\ nsView \in NodeSetViewRec /\ nsView.ns \in NodeSets
    BY <1>3 DEF NodeSetCheck, TypeOK, NodeSetViewRec
  <2>1. PICK q \in Orders(nsView.ns) :
          nsView' = [nsView EXCEPT
                       !.step = "checked",
                       !.version = target,
                       !.running = LatestCond(q, nsView.ns, {"Running"}),
                       !.failed = LatestCond(q, nsView.ns, {"Error", "Backoff"}),
                       !.status = CheckedStatus(q, nsView.ns, nsView.status)]
    BY <1>3 DEF NodeSetCheck
  <2>2. /\ nsView'.step = "checked" /\ nsView'.ns = nsView.ns
        /\ nsView'.running = LatestCond(q, nsView.ns, {"Running"})
    BY <2>0, <2>1 DEF NodeSetViewRec
  <2>3. PICK i \in DOMAIN q : dep[q[i]].cond[nsView.ns] = "Running"
    BY <2>2 DEF LatestCond
  <2>4. q[i] \in Deployments
    BY <2>0, <2>3, OrdersType DEF Relevant
  <2> QED
    BY <1>0, <2>0, <2>2, <2>3, <2>4 DEF ProgressInv
<1>4. CASE NodeSetInventory
  <2>0. nsView # Nil /\ nsView \in NodeSetViewRec /\ nsView.ns \in NodeSets
    BY <1>4 DEF NodeSetInventory, TypeOK, NodeSetViewRec
  <2>1. nsView'.ns = nsView.ns
    BY <1>4, <2>0 DEF NodeSetInventory, NodeSetViewRec
  <2>2. CASE WritesInventory(nsView)
    <3> DEFINE inv == [hash |-> HashOf[nsView.gen], data |-> data[nsView.ns],
                       version |-> nsView.version]
    <3>1. inv \in Inputs
      BY <2>0, BoundsAssumption DEF NodeSetViewRec, Generations, Inputs, TypeOK
    <3>2. inv # Nil
      BY <3>1, NilAssumption DEF Inputs
    <3>3. inventory'[nsView.ns] = inv
      BY <1>4, <2>0, <2>2 DEF NodeSetInventory, TypeOK
    <3> QED
      BY <2>1, <3>2, <3>3
  <2>3. CASE ~WritesInventory(nsView)
    BY <1>0, <1>4, <2>0, <2>1, <2>3 DEF WritesInventory, NodeSetInventory, SetupInv
  <2> QED
    BY <2>2, <2>3
<1>5. CASE \E m \in NodeSets : NodeSetRead(m)
  BY <1>5 DEF NodeSetRead
<1> QED
  BY <1>1, <1>2, <1>3, <1>4, <1>5, NodeSetChanges DEF NodeSetStep

\* A deployment that is ready to run has read that all its node sets are set
\* up, and an inventory does not go away.
LEMMA SetupPreserved ==
    ASSUME TypeOK, SetupInv, ProgressInv, [Next]_vars
    PROVE  SetupInv'
<1>0. \A m \in NodeSets : inventory[m] # Nil => inventory'[m] # Nil
  BY InventoryStays
<1>1. ASSUME depView' # Nil, NEW n \in depView'.setup PROVE inventory'[n] # Nil
  <2>0. \A d \in Deployments : Targets(d) \subseteq NodeSets
    BY DeploymentsAssumption DEF Targets
  <2>1. CASE depView # Nil /\ depView'.setup = depView.setup
    <3>1. n \in NodeSets
      BY <1>1, <2>1 DEF TypeOK, DeploymentViewRec
    <3> QED
      BY <1>0, <1>1, <2>1, <3>1 DEF SetupInv
  <2>2. CASE \E d \in Deployments : DeploymentRead(d)
    <3>1. PICK d \in Deployments : depView'.setup = {m \in Targets(d) : nss[m].setup}
      BY <2>2 DEF DeploymentRead
    <3> QED
      BY <1>0, <1>1, <2>0, <3>1 DEF SetupInv
  <2>3. CASE DeploymentStep
    <3>1. n \in NodeSets
      BY <1>1, NextType DEF TypeOK, DeploymentViewRec
    <3> QED
      BY <1>1, <2>1, <2>3, <3>1, StepReports
  <2> QED
    BY <1>1, <2>1, <2>2, <2>3, DeploymentChanges
<1> QED
  BY <1>1, StatusSetup, ViewSetup DEF SetupInv

\* A deployment reports progress only where the node set is set up.
LEMMA ProgressPreserved ==
    ASSUME TypeOK, SetupInv, ProgressInv, [Next]_vars
    PROVE  ProgressInv'
<1>0. \A m \in NodeSets : inventory[m] # Nil => inventory'[m] # Nil
  BY InventoryStays
<1>1. ASSUME NEW d \in Deployments, NEW n \in NodeSets, dep'[d].cond[n] = "Running"
      PROVE  inventory'[n] # Nil
  BY <1>0, <1>1, StoredConds DEF ProgressInv
<1>2. ASSUME depView' # Nil, NEW n \in NodeSets, depView'.status.cond[n] = "Running"
      PROVE  inventory'[n] # Nil
  <2>1. CASE UNCHANGED depView
    BY <1>0, <1>2, <2>1 DEF ProgressInv
  <2>2. CASE \E d \in Deployments : DeploymentRead(d)
    <3>1. PICK d \in Deployments : DeploymentRead(d)
      BY <2>2
    <3>2. depView'.status = Reset(d) /\ dep[d] \in DeploymentRec
      BY <3>1 DEF DeploymentRead, TypeOK
    <3>3. depView'.status.cond[n] \in {"Unknown", Nil}
      BY <3>2 DEF Reset, DeploymentRec
    <3> QED
      BY <1>2, <3>3, NilAssumption
  <2>3. CASE DeploymentStep
    <3>1. depView # Nil /\ PassReports(n)
      BY <1>2, <2>3, StepReports
    <3>2. depView.status.cond[n] = "Running" \/ (SetupReady /\ n \in Targets(Current))
      BY <1>2, <3>1, NilAssumption DEF PassReports
    <3> QED
      BY <1>0, <3>1, <3>2 DEF ProgressInv, SetupInv, SetupReady
  <2> QED
    BY <1>2, <2>1, <2>2, <2>3, DeploymentChanges
<1>3. ASSUME NEW d \in Deployments, NEW n \in NodeSets, NEW s \in Services,
             job'[d][n][s].state # "none"
      PROVE  inventory'[n] # Nil
  <2>1. CASE job[d][n][s].state # "none"
    BY <1>0, <2>1 DEF ProgressInv
  <2>2. CASE Created(d, n, s)
    BY <1>0, <2>2 DEF Created, Creates, SetupReady, SetupInv
  <2>3. CASE Moved(d, n, s)
    BY <2>1, <2>3 DEF Moved
  <2> QED
    BY <1>3, <2>1, <2>2, <2>3, JobChanges
<1> QED
  BY <1>1, <1>2, <1>3 DEF ProgressInv

\* A pod that starts mounts the inventory, which is there.
LEMMA MountsPreserved ==
    ASSUME TypeOK, ProgressInv, InventoryBeforeJobs, [Next]_vars
    PROVE  InventoryBeforeJobs'
<1> SUFFICES ASSUME NEW d \in Deployments, NEW n \in NodeSets, NEW s \in Services,
                    job'[d][n][s].state \in {"running", "succeeded"}
             PROVE  job'[d][n][s].inv # Nil
  BY DEF InventoryBeforeJobs
<1>1. CASE job'[d][n][s] = job[d][n][s]
  BY <1>1 DEF InventoryBeforeJobs
<1>2. CASE Created(d, n, s)
  BY <1>2 DEF Created
<1>3. CASE Moved(d, n, s)
  <2>1. inventory[n] # Nil
    BY <1>3 DEF Moved, ProgressInv
  <2> QED
    BY <1>3, <2>1 DEF Moved, InventoryBeforeJobs
<1> QED
  BY <1>1, <1>2, <1>3, JobChanges

\* No pod is started before its node set has an inventory to mount, although a
\* deployment knows of it only through a status that it read earlier.
THEOREM InventoryFirst == Spec => []InventoryBeforeJobs
<1>1. Init => InventoryInv
  <2> SUFFICES ASSUME Init PROVE InventoryInv
    OBVIOUS
  <2>1. \A n \in NodeSets : ~nss[n].setup
    BY DEF Init, Start, NewStatus
  <2>2. \A d \in Deployments, n \in NodeSets : dep[d].cond[n] # "Running"
    BY NilAssumption DEF Init, Start, NoDeployment
  <2>3. \A d \in Deployments, n \in NodeSets, s \in Services : job[d][n][s].state = "none"
    BY DEF Init, Start, NoJob
  <2> QED
    BY <2>1, <2>2, <2>3 DEF Init, Start, InventoryInv, SetupInv, ProgressInv, InventoryBeforeJobs
<1>2. InventoryInv /\ TypeOK /\ [Next]_vars => InventoryInv'
  BY SetupPreserved, ProgressPreserved, MountsPreserved DEF InventoryInv
<1>3. InventoryInv => InventoryBeforeJobs
  BY DEF InventoryInv
<1> QED
  BY <1>1, <1>2, <1>3, DataPlaneTypeCorrect, PTL DEF Spec

----------------------------------------------------------------------------
(* Ready means deployed *)

\* Some deployment has run all of its services on the node set.
WasDeployed(n) == \E d \in Deployments : n \in Targets(d) /\ DeployedOn(d, n)

\* A condition that is True is true, on its way from the jobs through the
\* status of the deployment into that of the node set.
ReadyInv ==
    /\ \A d \in Deployments, n \in NodeSets :
         dep[d].cond[n] = "True" => n \in Targets(d) /\ DeployedOn(d, n)
    /\ depView # Nil =>
         \A n \in NodeSets :
           depView.status.cond[n] = "True" => n \in Targets(Current) /\ DeployedOn(Current, n)
    /\ nsView # Nil => (nsView.status.ready => WasDeployed(nsView.ns))

\* Of the services of a node set that has not been deployed, one is next.
LEMMA NextExists ==
    ASSUME NEW d \in Deployments, NEW n \in NodeSets, ~DeployedOn(d, n)
    PROVE  \E i \in DOMAIN Plan[d][n] : IsNext(d, n, i)
<1> DEFINE T == {i \in DOMAIN Plan[d][n] : ~Succeeded(d, n, i)}
<1>0. DOMAIN Plan[d][n] = 1 .. Len(Plan[d][n]) /\ Len(Plan[d][n]) \in Nat
  BY DeploymentsAssumption
<1>1. T \subseteq Nat /\ T # {}
  BY <1>0 DEF DeployedOn
<1>2. PICK x \in T : \A y \in T : <<y, x>> \notin OpToRel(<, Nat)
  <2> HIDE DEF T
  <2> QED BY <1>1, WFMin, NatLessThanWellFounded
<1>3. \A y \in T : ~(y < x)
  <2> SUFFICES ASSUME NEW y \in T, y < x PROVE FALSE
    OBVIOUS
  <2>1. x \in Nat /\ y \in Nat
    BY <1>1
  <2>2. <<y, x>> \in OpToRel(<, Nat)
    BY <2>1 DEF OpToRel
  <2> QED
    BY <2>2, <1>2
<1>4. \A j \in 1 .. x - 1 : Succeeded(d, n, j)
  <2> SUFFICES ASSUME NEW j \in 1 .. x - 1 PROVE Succeeded(d, n, j)
    OBVIOUS
  <2>1. x \in 1 .. Len(Plan[d][n])
    BY <1>0
  <2>2. j \in 1 .. Len(Plan[d][n]) /\ j < x
    BY <1>0, <2>1
  <2>3. j \notin T
    BY <1>3, <2>2
  <2> QED
    BY <1>0, <2>2, <2>3
<1> QED
  BY <1>4 DEF IsNext

\* Deploy reports success only of a node set where all services have run.
LEMMA OutcomeSound ==
    ASSUME TypeOK, NEW d \in Deployments, NEW n \in NodeSets, Outcome(d, n) = "True"
    PROVE  DeployedOn(d, n)
<1> SUFFICES ASSUME ~DeployedOn(d, n) PROVE FALSE
  OBVIOUS
<1> DEFINE i == CHOOSE k \in DOMAIN Plan[d][n] : IsNext(d, n, k)
<1>1. i \in DOMAIN Plan[d][n] /\ IsNext(d, n, i)
  BY NextExists
<1>2. JobOf(d, n, i) \in JobRec
  <2> HIDE DEF i
  <2>1. Plan[d][n][i] \in Services
    BY <1>1, DeploymentsAssumption
  <2> QED
    BY <2>1 DEF JobOf, TypeOK
<1>3. JobOf(d, n, i).state \in JobStates \ {"succeeded"}
  BY <1>1, <1>2 DEF IsNext, Succeeded, JobRec
<1>4. JobOutcome(JobOf(d, n, i).state) # "True"
  BY <1>3 DEF JobOutcome, JobStates
<1>5. Outcome(d, n) = JobOutcome(JobOf(d, n, i).state)
  BY DEF Outcome, NextOutcome
<1> QED
  BY <1>4, <1>5

\* What has been deployed stays deployed.
LEMMA DeployedStays ==
    ASSUME TypeOK, [Next]_vars, NEW d \in Deployments, NEW n \in NodeSets, DeployedOn(d, n)
    PROVE  DeployedOn(d, n)'
<1> SUFFICES ASSUME NEW i \in DOMAIN Plan[d][n] PROVE Succeeded(d, n, i)'
  BY DEF DeployedOn
<1>1. Plan[d][n][i] \in Services /\ Succeeded(d, n, i)
  BY DeploymentsAssumption DEF DeployedOn
<1> QED
  BY <1>1, SucceededStays DEF Succeeded, JobOf

LEMMA WasDeployedStays ==
    ASSUME TypeOK, [Next]_vars, NEW n \in NodeSets, WasDeployed(n)
    PROVE  WasDeployed(n)'
BY DeployedStays DEF WasDeployed, Targets

\* checkDeployment finds a node set ready because of a deployment.
LEMMA CheckedReady ==
    ASSUME TypeOK, ReadyInv, NEW n \in NodeSets, NEW k \in Nat,
           NEW q \in [1 .. k -> Deployments], NEW st \in NodeSetRec,
           CheckedStatus(q, n, st).ready
    PROVE  WasDeployed(n)
<1>1. CheckedStatus(q, n, st).ready = \E i \in Matching(q, n, st.hash) : IsLast(q, i)
  BY DEF CheckedStatus, NodeSetRec
<1>2. PICK i \in DOMAIN q : Matches(q[i], n, st.hash)
  BY <1>1 DEF Matching
<1>3. q[i] \in Deployments /\ dep[q[i]].cond[n] = "True"
  BY <1>2 DEF Matches
<1> QED
  BY <1>3 DEF ReadyInv, WasDeployed

\* The conditions of deployments keep being true.
LEMMA DeploymentsPreserved ==
    ASSUME TypeOK, ReadyInv, [Next]_vars
    PROVE  /\ \A d \in Deployments, n \in NodeSets :
                dep'[d].cond[n] = "True" => n \in Targets(d) /\ DeployedOn(d, n)'
           /\ depView' # Nil => \A d \in Deployments, n \in NodeSets :
                d = depView'.dep /\ depView'.status.cond[n] = "True" =>
                  n \in Targets(d) /\ DeployedOn(d, n)'
<1>0. depView # Nil => Current \in Deployments
  BY DEF TypeOK, DeploymentViewRec, Current
<1>1. ASSUME NEW d \in Deployments, NEW n \in NodeSets, dep'[d].cond[n] = "True"
      PROVE  n \in Targets(d) /\ DeployedOn(d, n)'
  <2>1. n \in Targets(d) /\ DeployedOn(d, n)
    BY <1>1, StoredConds DEF ReadyInv
  <2> QED
    BY <2>1, DeployedStays
<1>2. ASSUME depView' # Nil, NEW d \in Deployments, NEW n \in NodeSets,
             d = depView'.dep, depView'.status.cond[n] = "True"
      PROVE  n \in Targets(d) /\ DeployedOn(d, n)'
  <2>0. SUFFICES n \in Targets(d) /\ DeployedOn(d, n)
    BY DeployedStays
  <2>1. CASE UNCHANGED depView
    BY <1>2, <2>1 DEF ReadyInv, Current
  <2>2. CASE \E e \in Deployments : DeploymentRead(e)
    <3>1. PICK e \in Deployments : DeploymentRead(e)
      BY <2>2
    <3>2. depView'.status = Reset(e) /\ dep[e] \in DeploymentRec
      BY <3>1 DEF DeploymentRead, TypeOK
    <3>3. depView'.status.cond[n] \in {"Unknown", Nil}
      BY <3>2 DEF Reset, DeploymentRec
    <3> QED
      BY <1>2, <3>3, NilAssumption
  <2>3. CASE DeploymentStep
    <3>1. depView # Nil /\ depView'.dep = Current /\ PassReports(n)
      BY <1>2, <2>3, StepReports DEF Current
    <3>2. \/ depView.status.cond[n] = "True"
          \/ n \in Targets(Current) /\ Outcome(Current, n) = "True"
      BY <1>2, <3>1, NilAssumption DEF PassReports
    <3>3. d = Current
      BY <1>2, <3>1
    <3> QED
      BY <1>0, <3>1, <3>2, <3>3, OutcomeSound DEF ReadyInv
  <2> QED
    BY <1>2, <2>1, <2>2, <2>3, DeploymentChanges
<1> QED
  BY <1>1, <1>2

\* So does the status of node sets.
LEMMA NodeSetsPreserved ==
    ASSUME TypeOK, ReadyInv, ReadyWasDeployed, [Next]_vars
    PROVE  /\ \A n \in NodeSets : nss'[n].ready => WasDeployed(n)'
           /\ nsView' # Nil => \A n \in NodeSets :
                n = nsView'.ns /\ nsView'.status.ready => WasDeployed(n)'
<1>0. nsView # Nil => /\ nsView \in NodeSetViewRec /\ nsView.ns \in NodeSets
                      /\ nsView.status \in NodeSetRec
  BY DEF TypeOK, NodeSetViewRec
<1>1. ASSUME NEW n \in NodeSets, nss[n].ready PROVE WasDeployed(n)'
  BY <1>1, WasDeployedStays DEF ReadyWasDeployed, WasDeployed
<1>2. ASSUME nsView # Nil, NEW n \in NodeSets, n = nsView.ns, nsView.status.ready
      PROVE  WasDeployed(n)'
  BY <1>2, WasDeployedStays DEF ReadyInv
<1>3. CASE UNCHANGED nss /\ (nsView' = nsView \/ nsView' = Nil)
  BY <1>1, <1>2, <1>3
<1>4. CASE NodeSetSetupFails \/ NodeSetCheckFails \/ NodeSetInventoryFails
  <2>1. PICK st \in NodeSetRec : NodeSetFails(st)
    BY <1>4, NodeSetFailsShape
  <2>2. ~[st EXCEPT !.setup = FALSE, !.ready = FALSE].ready
    BY DEF NodeSetRec
  <2>3. nsView.ns \in NodeSets
    BY <1>0, <1>4, NodeSetFailsShape
  <2>4. /\ nss' = [nss EXCEPT ![nsView.ns] = [st EXCEPT !.setup = FALSE, !.ready = FALSE]]
        /\ nsView' = Nil
    BY <2>1 DEF NodeSetFails
  <2> QED
    BY <1>1, <2>2, <2>3, <2>4 DEF TypeOK
<1>5. CASE NodeSetCheck
  <2>1. PICK q \in Orders(nsView.ns) :
          nsView' = [nsView EXCEPT
                       !.step = "checked",
                       !.version = target,
                       !.running = LatestCond(q, nsView.ns, {"Running"}),
                       !.failed = LatestCond(q, nsView.ns, {"Error", "Backoff"}),
                       !.status = CheckedStatus(q, nsView.ns, nsView.status)]
    BY <1>5 DEF NodeSetCheck
  <2>2. nsView # Nil /\ UNCHANGED nss
    BY <1>5 DEF NodeSetCheck
  <2>3. /\ nsView'.ns = nsView.ns
        /\ nsView'.status = CheckedStatus(q, nsView.ns, nsView.status)
    BY <1>0, <2>1, <2>2 DEF NodeSetViewRec
  <2>4. PICK k \in Nat : q \in [1 .. k -> Deployments]
    BY <1>0, <2>2, OrdersType DEF Relevant
  <2>5. CheckedStatus(q, nsView.ns, nsView.status).ready => WasDeployed(nsView.ns)
    BY <1>0, <2>2, <2>4, CheckedReady
  <2> QED
    BY <1>0, <1>1, <2>2, <2>3, <2>5, WasDeployedStays
<1>6. CASE NodeSetInventory
  <2>1. nsView # Nil /\ UNCHANGED nss /\ nsView' = [nsView EXCEPT !.step = "written"]
    BY <1>6 DEF NodeSetInventory
  <2>2. nsView'.ns = nsView.ns /\ nsView'.status = nsView.status
    BY <1>0, <2>1 DEF NodeSetViewRec
  <2> QED
    BY <1>1, <1>2, <2>1, <2>2
<1>7. CASE NodeSetPatch
  <2>1. /\ nsView # Nil /\ nsView' = Nil
        /\ nss' = [nss EXCEPT ![nsView.ns] = nsView.status]
    BY <1>7 DEF NodeSetPatch
  <2> QED
    BY <1>0, <1>1, <1>2, <2>1 DEF TypeOK
<1>8. CASE \E n \in NodeSets : NodeSetRead(n)
  <2>1. PICK n \in NodeSets : NodeSetRead(n)
    BY <1>8
  <2>2. UNCHANGED nss /\ nsView'.status.ready = FALSE
    <3>1. nss[n] \in NodeSetRec
      BY DEF TypeOK
    <3> QED
      BY <2>1, <3>1 DEF NodeSetRead, NodeSetRec
  <2> QED
    BY <1>1, <2>2
<1> QED
  BY <1>3, <1>4, <1>5, <1>6, <1>7, <1>8, NodeSetChanges DEF NodeSetStep

LEMMA InitReady == Init => ReadyInv /\ ReadyWasDeployed
<1> SUFFICES ASSUME Init PROVE ReadyInv /\ ReadyWasDeployed
  OBVIOUS
<1>1. \A n \in NodeSets : ~nss[n].ready
  BY DEF Init, Start, NewStatus
<1>2. \A d \in Deployments, n \in NodeSets : dep[d].cond[n] # "True"
  BY NilAssumption DEF Init, Start, NoDeployment
<1> QED
  BY <1>1, <1>2 DEF Init, Start, ReadyInv, ReadyWasDeployed

LEMMA ReadyPreserved ==
    ASSUME TypeOK, ReadyInv, ReadyWasDeployed, [Next]_vars
    PROVE  ReadyInv' /\ ReadyWasDeployed'
<1>1. ReadyInv'
  <2>1. TypeOK'
    BY NextType
  <2>2. depView' # Nil => depView'.dep \in Deployments
    BY <2>1 DEF TypeOK, DeploymentViewRec
  <2>3. nsView' # Nil => nsView'.ns \in NodeSets
    BY <2>1 DEF TypeOK, NodeSetViewRec
  <2>4. (depView # Nil =>
           \A n \in NodeSets : depView.status.cond[n] = "True" =>
             n \in Targets(Current) /\ DeployedOn(Current, n))'
    BY <2>2, DeploymentsPreserved DEF Current
  <2>5. (nsView # Nil => (nsView.status.ready => WasDeployed(nsView.ns)))'
    BY <2>3, NodeSetsPreserved
  <2> QED
    BY <2>4, <2>5, DeploymentsPreserved DEF ReadyInv
<1>2. ReadyWasDeployed'
  BY NodeSetsPreserved DEF ReadyWasDeployed, WasDeployed
<1> QED
  BY <1>1, <1>2

\* A node set is reported Ready only if some deployment has run all of its
\* services on it, for any number of node sets, deployments and services,
\* whatever the user edits and deletes and wherever a controller fails.
THEOREM ReadyIsDeployed == Spec => []ReadyWasDeployed
  BY InitReady, ReadyPreserved, DataPlaneTypeCorrect, PTL DEF Spec

----------------------------------------------------------------------------
(* No change is missed *)

\* The status is one that checkDeployment would leave alone.
Settled(n, st) ==
    \E q \in Orders(n) :
       LET c == CheckedStatus(q, n, st) IN
       st.observed = gen[n] /\ st.setup /\ st.ready = c.ready /\ st.version = c.version /\ st.statuses = c.statuses

RunsOn(n) == \E d \in Relevant(n) : dep[d].cond[n] = "Running"

InventorySettled(n) ==
    inventory[n] = [hash |-> HashOf[gen[n]], data |-> data[n], version |-> target] \/ RunsOn(n)

\* A node set that no event has put into the queue is settled, or its reconcile
\* under way has read what there is now.
UpToDate ==
    \A n \in NodeSets : n \notin nsQueue =>
       IF nsView # Nil /\ nsView.ns = n
       THEN /\ nsView.gen = gen[n] /\ nsView.status.observed = gen[n]
            /\ nsView.step # "read" =>
                  Settled(n, nsView.status) /\ nsView.version = target /\ (nsView.running => RunsOn(n))
            /\ nsView.step = "written" => InventorySettled(n)
       ELSE Settled(n, nss[n]) /\ InventorySettled(n)

\* The step changes nothing that a reconcile of the node set reads.
Unaffected(n) ==
    /\ gen'[n] = gen[n] /\ data'[n] = data[n] /\ target' = target
    /\ Relevant(n)' = Relevant(n)
    /\ \A d \in Relevant(n) : dep'[d] = dep[d]
    /\ \A d, e \in Relevant(n) : e \in older'[d] <=> e \in older[d]

\* Whatever changes what a reconcile of a node set reads puts it into the queue.
LEMMA ChangesAreQueued ==
    ASSUME TypeOK, [Next]_vars, NEW n \in NodeSets, n \notin nsQueue'
    PROVE  Unaffected(n)
<1>1. CASE UNCHANGED <<inputs, dep, older>>
  BY <1>1 DEF Unaffected, inputs, Relevant, Live
<1>2. CASE \E m \in NodeSets : EditSpec(m) \/ EditData(m)
  BY <1>2 DEF EditSpec, EditData, Unaffected, Relevant, Live, TypeOK
<1>3. CASE Retarget
  BY <1>3 DEF Retarget
<1>4. ASSUME NEW d \in Deployments, CreateDeployment(d) \/ DeleteDeployment(d) PROVE Unaffected(n)
  <2>1. n \notin Targets(d) /\ UNCHANGED <<inputs, older>>
    BY <1>4 DEF CreateDeployment, DeleteDeployment
  <2>2. \A e \in Deployments : e # d => dep'[e] = dep[e]
    BY <1>4 DEF CreateDeployment, DeleteDeployment, TypeOK
  <2>3. Relevant(n)' = Relevant(n) /\ d \notin Relevant(n)
    BY <2>1, <2>2 DEF Relevant, Live
  <2> QED
    BY <2>1, <2>2, <2>3 DEF Unaffected, inputs, Relevant
<1>5. CASE DeploymentPatch
  <2>1. CASE ~Live(Current) \/ UNCHANGED <<dep, older>>
    BY <1>1, <1>5, <2>1 DEF DeploymentPatch
  <2>2. CASE Live(Current) /\ depView.status = dep[Current]
    <3>1. depView \in DeploymentViewRec /\ Current \in Deployments
      BY <1>5 DEF DeploymentPatch, TypeOK, DeploymentViewRec, Current
    <3>2. UNCHANGED <<dep, older>>
      BY <1>5, <2>2, <3>1 DEF DeploymentPatch, TypeOK
    <3> QED
      BY <2>1, <3>2
  <2>3. CASE Live(Current) /\ depView.status # dep[Current]
    <3>1. Current \in Deployments /\ n \notin Targets(Current) /\ UNCHANGED inputs
      BY <1>5, <2>3 DEF DeploymentPatch, NodeSetEvents, TypeOK, DeploymentViewRec, Current
    <3>2. \A e \in Deployments : e # Current => dep'[e] = dep[e]
      BY <1>5, <2>3 DEF DeploymentPatch, TypeOK
    <3>3. \A d, e \in Deployments : d # Current /\ e # Current => (e \in older'[d] <=> e \in older[d])
      BY <1>5, <2>3 DEF DeploymentPatch, Stamp
    <3>4. Relevant(n)' = Relevant(n) /\ Current \notin Relevant(n)
      BY <3>1, <3>2 DEF Relevant, Live
    <3> QED
      BY <3>1, <3>2, <3>3, <3>4 DEF Unaffected, inputs, Relevant
  <2> QED
    BY <2>1, <2>2, <2>3
<1>6. CASE DeploymentStep
  BY <1>1, <1>5, <1>6 DEF DeploymentStep, DeploymentWaits, DeploymentInputError, DeploymentRun,
                          DeploymentRunFails, DeploymentPanics, RunWith
<1>7. CASE JobStep
  BY <1>1, <1>7 DEF JobStep, JobStart, JobSucceed, JobRetry, JobFail, JobFailed, SetJob
<1>8. CASE Restart \/ Wake \/ UNCHANGED vars
  BY <1>1, <1>8 DEF Restart, Wake, vars
<1>9. CASE \E m \in NodeSets : NodeSetRead(m) \/ NodeSetRetry(m)
  BY <1>1, <1>9 DEF NodeSetRead, NodeSetRetry
<1>10. CASE NodeSetStep
  BY <1>1, <1>10 DEF NodeSetStep, NodeSetSetupFails, NodeSetCheck, NodeSetCheckFails,
                     NodeSetInventory, NodeSetInventoryFails, NodeSetPatch, NodeSetFails
<1>11. CASE \E d \in Deployments : DeploymentRead(d) \/ DeploymentSkip(d)
  BY <1>1, <1>11 DEF DeploymentRead, DeploymentSkip
<1> QED
  BY <1>2, <1>3, <1>4, <1>6, <1>7, <1>8, <1>9, <1>10, <1>11 DEF Next, UserStep

\* What is settled stays so while that is not changed.
LEMMA SettledStays ==
    ASSUME NEW n \in NodeSets, Unaffected(n)
    PROVE  /\ \A st : Settled(n, st) => Settled(n, st)'
           /\ RunsOn(n) => RunsOn(n)'
           /\ InventorySettled(n) /\ inventory'[n] = inventory[n] => InventorySettled(n)'
<1>1. RunsOn(n) => RunsOn(n)'
  BY DEF Unaffected, RunsOn
<1>2. InventorySettled(n) /\ inventory'[n] = inventory[n] => InventorySettled(n)'
  BY <1>1 DEF Unaffected, InventorySettled
<1>3. ASSUME NEW st, NEW q \in Orders(n) PROVE q \in Orders(n)' /\ CheckedStatus(q, n, st)' = CheckedStatus(q, n, st)
  <2>1. PICK k \in Nat : q \in [1 .. k -> Relevant(n)]
    BY OrdersType
  <2>2. q \in Orders(n)'
    BY <2>1 DEF Orders, Unaffected
  <2>3. \A i \in DOMAIN q : q[i] \in Relevant(n) /\ dep'[q[i]] = dep[q[i]]
    BY <2>1 DEF Unaffected
  <2>4. Matching(q, n, st.hash)' = Matching(q, n, st.hash)
    BY <2>3 DEF Matching, Matches, Unaffected
  <2>5. StatusesOf(q, n)' = StatusesOf(q, n)
    BY <2>3 DEF StatusesOf
  <2>6. VersionFrom(q, n, st.hash, st.version)' = VersionFrom(q, n, st.hash, st.version)
    <3> DEFINE ups == {i \in Matching(q, n, st.hash) : q[i] \in UpdateDeployments}
               last == CHOOSE i \in ups : \A j \in ups : j <= i
    <3>1. CASE ups = {}
      BY <2>4, <3>1 DEF VersionFrom
    <3>2. CASE ups # {}
      <4>1. ups \in SUBSET (1 .. k)
        BY <2>1 DEF Matching
      <4>2. last \in ups
        <5> HIDE DEF ups
        <5>1. \E i \in ups : \A j \in ups : j <= i
          BY <3>2, <4>1, LastExists
        <5> QED
          BY <5>1
      <4>3. dep'[q[last]] = dep[q[last]]
        BY <2>1, <2>3, <4>1, <4>2
      <4> QED
        BY <2>4, <3>2, <4>3 DEF VersionFrom
    <3> QED
      BY <3>1, <3>2
  <2> QED
    BY <2>2, <2>4, <2>5, <2>6 DEF CheckedStatus
<1>4. ASSUME NEW st, Settled(n, st) PROVE Settled(n, st)'
  BY <1>3, <1>4 DEF Settled, Unaffected
<1> QED
  BY <1>1, <1>2, <1>4

\* checkDeployment leaves its own result alone.
LEMMA CheckedSettles ==
    ASSUME NEW n \in NodeSets, NEW q \in Orders(n), NEW st \in NodeSetRec, st.observed = gen[n]
    PROVE  Settled(n, CheckedStatus(q, n, st))
<1> DEFINE c == CheckedStatus(q, n, st)
<1>1. /\ c.hash = st.hash /\ c.observed = st.observed /\ c.setup /\ c.version = VersionFrom(q, n, st.hash, st.version)
      /\ c.ready = (\E i \in Matching(q, n, st.hash) : IsLast(q, i)) /\ c.statuses = StatusesOf(q, n)
      /\ DOMAIN c = DOMAIN st
  BY DEF CheckedStatus, NodeSetRec
<1>2. VersionFrom(q, n, st.hash, c.version) = c.version
  BY <1>1 DEF VersionFrom
<1> HIDE DEF c
<1>3. LET e == CheckedStatus(q, n, c)
      IN  c.ready = e.ready /\ c.version = e.version /\ c.statuses = e.statuses
  BY <1>1, <1>2 DEF CheckedStatus, NodeSetRec
<1> QED
  BY <1>1, <1>3 DEF Settled, c

LEMMA UpToDatePreserved ==
    ASSUME TypeOK, UpToDate, [Next]_vars
    PROVE  UpToDate'
<1> SUFFICES ASSUME NEW n \in NodeSets, n \notin nsQueue'
             PROVE  IF nsView' # Nil /\ nsView'.ns = n
                    THEN /\ nsView'.gen = gen'[n] /\ nsView'.status.observed = gen'[n]
                         /\ nsView'.step # "read" => /\ Settled(n, nsView.status)' /\ nsView'.version = target'
                                                     /\ nsView'.running => RunsOn(n)'
                         /\ nsView'.step = "written" => InventorySettled(n)'
                    ELSE Settled(n, nss[n])' /\ InventorySettled(n)'
  BY DEF UpToDate
<1>1. Unaffected(n)
  BY ChangesAreQueued
<1>2. gen'[n] = gen[n] /\ target' = target /\ data'[n] = data[n]
  BY <1>1 DEF Unaffected
<1>3. /\ \A st : Settled(n, st) => Settled(n, st)'
      /\ RunsOn(n) => RunsOn(n)'
      /\ InventorySettled(n) /\ inventory'[n] = inventory[n] => InventorySettled(n)'
  BY <1>1, SettledStays
<1>4. nsView # Nil => nsView \in NodeSetViewRec /\ nsView.ns \in NodeSets /\ nsView.status \in NodeSetRec
  BY DEF TypeOK, NodeSetViewRec
<1>5. CASE UNCHANGED <<nss, nsView, inventory>> /\ nsQueue \subseteq nsQueue'
  <2>1. n \notin nsQueue
    BY <1>5
  <2> QED
    BY <1>2, <1>3, <1>5, <2>1 DEF UpToDate
<1>6. CASE nsQueue' = NodeSets
  BY <1>6
<1>7. CASE NodeSetSetupFails \/ NodeSetCheckFails \/ NodeSetInventoryFails
  <2>1. PICK st \in NodeSetRec : NodeSetFails(st)
    BY <1>7, NodeSetFailsShape
  <2>2. nsView # Nil
    BY <1>7, NodeSetFailsShape
  <2>3. n \notin nsQueue /\ n # nsView.ns /\ nss'[n] = nss[n] /\ inventory' = inventory /\ nsView' = Nil
    BY <1>4, <2>1, <2>2 DEF NodeSetFails, TypeOK
  <2> QED
    BY <1>3, <2>3 DEF UpToDate
<1>8. ASSUME NEW m \in NodeSets, NodeSetRead(m)
      PROVE  IF nsView' # Nil /\ nsView'.ns = n
             THEN nsView'.gen = gen'[n] /\ nsView'.status.observed = gen'[n] /\ nsView'.step = "read"
             ELSE Settled(n, nss[n])' /\ InventorySettled(n)'
  <2>1. nss[m] \in NodeSetRec /\ nsView = Nil /\ UNCHANGED <<nss, inventory>> /\ nsQueue' = nsQueue \ {m}
    BY <1>8 DEF NodeSetRead, TypeOK
  <2>2. nsView'.ns = m /\ nsView'.gen = gen[m] /\ nsView'.step = "read" /\ nsView'.status.observed = gen[m]
    BY <1>8, <2>1 DEF NodeSetRead, NodeSetRec
  <2>3. nsView' # Nil
    <3>1. nsView' \in NodeSetViewRec
      BY <1>8, <2>1, BoundsAssumption DEF NodeSetRead, NodeSetViewRec, NodeSetRec, TypeOK, DetectConfigChange,
                                          NoStatuses, Generations
    <3> QED
      BY <3>1, ViewsAssumption
  <2>4. CASE n = m
    BY <1>2, <2>2, <2>3, <2>4
  <2>5. CASE n # m
    <3>1. n \notin nsQueue
      BY <2>1, <2>5
    <3> QED
      BY <1>3, <2>1, <2>2, <2>5, <3>1 DEF UpToDate
  <2> QED
    BY <2>4, <2>5
<1>9. CASE NodeSetCheck
  <2>1. PICK q \in Orders(nsView.ns) :
          nsView' = [nsView EXCEPT
                       !.step = "checked",
                       !.version = target,
                       !.running = LatestCond(q, nsView.ns, {"Running"}),
                       !.failed = LatestCond(q, nsView.ns, {"Error", "Backoff"}),
                       !.status = CheckedStatus(q, nsView.ns, nsView.status)]
    BY <1>9 DEF NodeSetCheck
  <2>2. nsView # Nil /\ UNCHANGED <<nss, inventory, nsQueue>>
    BY <1>9 DEF NodeSetCheck
  <2>3. /\ nsView'.ns = nsView.ns /\ nsView'.gen = nsView.gen /\ nsView'.step = "checked" /\ nsView'.version = target
        /\ nsView'.running = LatestCond(q, nsView.ns, {"Running"})
        /\ nsView'.status = CheckedStatus(q, nsView.ns, nsView.status)
    BY <1>4, <2>1, <2>2 DEF NodeSetViewRec
  <2>4. CASE n # nsView.ns
    BY <1>3, <2>2, <2>3, <2>4 DEF UpToDate
  <2>5. CASE n = nsView.ns
    <3>1. nsView.gen = gen[n] /\ nsView.status.observed = gen[n]
      BY <2>2, <2>5 DEF UpToDate
    <3>2. Settled(n, nsView'.status)
      BY <1>4, <2>2, <2>3, <2>5, <3>1, CheckedSettles
    <3>3. PICK k \in Nat : q \in [1 .. k -> Relevant(n)]
      BY <2>5, OrdersType
    <3>4. nsView'.running => RunsOn(n)
      BY <2>3, <2>5, <3>3 DEF LatestCond, RunsOn
    <3>5. nsView'.status.observed = gen[n]
      BY <3>2 DEF Settled
    <3>6. Settled(n, nsView.status)' /\ (nsView'.running => RunsOn(n)')
      BY <1>3, <3>2, <3>4
    <3>7. nsView' # Nil
      <4>1. CheckedStatus(q, nsView.ns, nsView.status) \in NodeSetRec
        BY <1>4, <2>2, <2>5, <3>3, CheckedStatusType, ZenonT(40) DEF Relevant
      <4>2. LatestCond(q, nsView.ns, {"Running"}) \in BOOLEAN /\ LatestCond(q, nsView.ns, {"Error", "Backoff"}) \in BOOLEAN
        BY DEF LatestCond
      <4>3. nsView' \in NodeSetViewRec
        BY <1>4, <2>1, <2>2, <4>1, <4>2 DEF NodeSetViewRec, TypeOK
      <4> QED
        BY <4>3, ViewsAssumption
    <3> QED
      BY <1>2, <2>3, <2>5, <3>1, <3>5, <3>6, <3>7
  <2> QED
    BY <2>4, <2>5
<1>10. CASE NodeSetInventory
  <2>1. nsView # Nil /\ nsView.step = "checked" /\ UNCHANGED <<nss, nsQueue>> /\ nsView' = [nsView EXCEPT !.step = "written"]
    BY <1>10 DEF NodeSetInventory
  <2>2. /\ nsView'.ns = nsView.ns /\ nsView'.gen = nsView.gen /\ nsView'.step = "written"
        /\ nsView'.version = nsView.version /\ nsView'.running = nsView.running /\ nsView'.status = nsView.status
    BY <1>4, <2>1 DEF NodeSetViewRec
  <2>3. CASE n # nsView.ns
    <3>1. inventory'[n] = inventory[n]
      BY <1>4, <1>10, <2>3 DEF NodeSetInventory, TypeOK
    <3> QED
      BY <1>3, <2>1, <2>2, <2>3, <3>1 DEF UpToDate
  <2>4. CASE n = nsView.ns
    <3>1. /\ nsView.gen = gen[n] /\ nsView.status.observed = gen[n] /\ nsView.version = target
          /\ Settled(n, nsView.status) /\ (nsView.running => RunsOn(n))
      BY <2>1, <2>4 DEF UpToDate
    <3>2. ~nsView.running => inventory'[n] = [hash |-> HashOf[gen[n]], data |-> data[n], version |-> target]
      BY <1>10, <2>4, <3>1 DEF NodeSetInventory, WritesInventory, TypeOK
    <3>3. InventorySettled(n)'
      BY <1>2, <1>3, <3>1, <3>2 DEF InventorySettled
    <3>4. nsView' # Nil
      <4>1. nsView' \in NodeSetViewRec
        BY <1>4, <2>1 DEF NodeSetViewRec
      <4> QED
        BY <4>1, ViewsAssumption
    <3> QED
      BY <1>2, <1>3, <2>2, <2>4, <3>1, <3>3, <3>4
  <2> QED
    BY <2>3, <2>4
<1>11. CASE NodeSetPatch
  <2>1. /\ nsView # Nil /\ nsView.step = "written" /\ nsView' = Nil /\ UNCHANGED <<inventory, nsQueue>>
        /\ nss' = [nss EXCEPT ![nsView.ns] = nsView.status]
    BY <1>11 DEF NodeSetPatch
  <2>2. nss'[n] = IF n = nsView.ns THEN nsView.status ELSE nss[n]
    BY <2>1 DEF TypeOK
  <2>3. Settled(n, nss'[n]) /\ InventorySettled(n)
    BY <2>1, <2>2 DEF UpToDate
  <2> QED
    BY <1>3, <2>1, <2>3
<1> QED
  BY <1>5, <1>6, <1>7, <1>8, <1>9, <1>10, <1>11, NodeSetChanges DEF NodeSetStep

\* When the controllers have nothing left to do, no change of a node set, of a
\* config map, of the target or of a deployment has been missed, however the
\* events and the reconciles interleaved: the status of every node set is what
\* another reconcile would compute.
THEOREM NoChangeIsMissed == Spec => []NothingMissed
<1>1. Init => UpToDate
  BY DEF Init, Start, UpToDate
<1>2. UpToDate => NothingMissed
  BY DEF UpToDate, NothingMissed, Idle, Settled
<1> QED
  BY <1>1, <1>2, UpToDatePreserved, DataPlaneTypeCorrect, PTL DEF Spec

\* Then the inventory of a node set is up to date too, unless a deployment runs
\* on it.
THEOREM InventoryIsCurrent == Spec => []InventoryCurrent
<1>1. Init => UpToDate
  BY DEF Init, Start, UpToDate
<1>2. UpToDate => InventoryCurrent
  BY DEF UpToDate, InventoryCurrent, Idle, InventorySettled, RunsOn
<1> QED
  BY <1>1, <1>2, UpToDatePreserved, DataPlaneTypeCorrect, PTL DEF Spec

----------------------------------------------------------------------------
(* What is recorded has been applied *)

\* A user who waits until the operator has settled, deploys node sets one at a
\* time and never goes back to an earlier spec.
CarefulUser ==
    /\ Patient
    /\ \A d \in Deployments : \A m, n \in Targets(d) : m = n
    /\ \A g, h \in Generations : HashOf[g] = HashOf[h] => g = h

UpTo(g) == {Nil} \cup {HashOf[h] : h \in 0 .. g}

\* The hashes of a status belong to the generation it was computed for.
Hashed(st, g) == st.observed = g /\ st.hash = HashOf[g] /\ st.deployedHash \in UpTo(g)

HashInv ==
    /\ \A n \in NodeSets : \/ nss[n].observed = Nil /\ nss[n].deployedHash = Nil
                           \/ \E g \in 0 .. gen[n] : Hashed(nss[n], g)
    /\ nsView # Nil => nsView.gen \in 0 .. gen[nsView.ns] /\ Hashed(nsView.status, nsView.gen)

\* A reconcile that fails stores the hashes it has read.
LEMMA FailedHashes ==
    ASSUME TypeOK, HashInv, NodeSetSetupFails \/ NodeSetCheckFails \/ NodeSetInventoryFails
    PROVE  nsView # Nil /\ \E st \in NodeSetRec : NodeSetFails(st) /\ Hashed(st, nsView.gen)
<1>0. /\ nsView # Nil /\ nsView.ns \in NodeSets /\ nsView.status \in NodeSetRec /\ nsView.gen \in Nat
      /\ Hashed(nsView.status, nsView.gen)
  BY DEF TypeOK, NodeSetViewRec, Generations, NodeSetSetupFails, NodeSetCheckFails, NodeSetInventoryFails, HashInv
<1>1. CASE NodeSetSetupFails \/ NodeSetInventoryFails
  BY <1>0, <1>1 DEF NodeSetSetupFails, NodeSetInventoryFails
<1>2. CASE NodeSetCheckFails
  <2>1. PICK q \in Orders(nsView.ns) : \E k \in DOMAIN q : \E j \in {k - 1, k} :
                NodeSetFails([CheckedStatus(Prefix(q, j), nsView.ns, nsView.status) EXCEPT
                                !.statuses = StatusesOf(Prefix(q, k), nsView.ns)])
    BY <1>2 DEF NodeSetCheckFails
  <2>2. PICK c \in Nat : q \in [1 .. c -> Deployments]
    BY <1>0, OrdersType DEF Relevant
  <2>3. PICK k \in DOMAIN q : \E j \in {k - 1, k} :
                NodeSetFails([CheckedStatus(Prefix(q, j), nsView.ns, nsView.status) EXCEPT
                                !.statuses = StatusesOf(Prefix(q, k), nsView.ns)])
    BY <2>1
  <2>4. PICK j \in {k - 1, k} :
                NodeSetFails([CheckedStatus(Prefix(q, j), nsView.ns, nsView.status) EXCEPT
                                !.statuses = StatusesOf(Prefix(q, k), nsView.ns)])
    BY <2>3
  <2> DEFINE c1 == CheckedStatus(Prefix(q, j), nsView.ns, nsView.status)
             st == [c1 EXCEPT !.statuses = StatusesOf(Prefix(q, k), nsView.ns)]
  <2>5. k \in Nat /\ j \in Nat /\ k <= c /\ j <= c
    BY <2>2
  <2>6. Prefix(q, j) \in [1 .. j -> Deployments] /\ Prefix(q, k) \in [1 .. k -> Deployments]
    BY <2>2, <2>5 DEF Prefix
  <2>7. c1 \in NodeSetRec /\ StatusesOf(Prefix(q, k), nsView.ns) \in [Deployments -> Conds \cup {Nil}]
    BY <1>0, <2>5, <2>6, CheckedStatusType
  <2>8. /\ c1.observed = nsView.status.observed /\ c1.hash = nsView.status.hash
        /\ c1.deployedHash \in {nsView.status.deployedHash, nsView.status.hash}
    BY <1>0 DEF CheckedStatus, NodeSetRec
  <2> HIDE DEF c1
  <2>9. st \in NodeSetRec /\ Hashed(st, nsView.gen)
    BY <1>0, <2>7, <2>8 DEF NodeSetRec, Hashed, UpTo
  <2> QED
    BY <1>0, <2>4, <2>9 DEF c1
<1> QED
  BY <1>1, <1>2

LEMMA HashPreserved ==
    ASSUME CarefulUser, TypeOK, HashInv, [Next]_vars
    PROVE  HashInv'
<1>0. /\ gen \in [NodeSets -> Generations] /\ nss \in [NodeSets -> NodeSetRec]
      /\ nsView # Nil => /\ nsView \in NodeSetViewRec /\ nsView.ns \in NodeSets /\ nsView.status \in NodeSetRec
                         /\ nsView.gen \in Generations
  BY DEF TypeOK, NodeSetViewRec
<1>1. \A n \in NodeSets : gen[n] \in Nat /\ gen'[n] \in Nat /\ gen[n] <= gen'[n]
  <2>1. gen' \in [NodeSets -> Generations]
    BY NextType DEF TypeOK
  <2>2. CASE UNCHANGED gen
    BY <1>0, <2>2, BoundsAssumption DEF Generations
  <2>3. CASE \E m \in NodeSets : EditSpec(m)
    BY <1>0, <2>1, <2>3, BoundsAssumption DEF EditSpec, Generations
  <2>4. CASE UserStep
    BY <2>2, <2>3, <2>4 DEF UserStep, EditData, Retarget, CreateDeployment, DeleteDeployment, inputs
  <2>5. CASE JobStep \/ Restart \/ Wake \/ UNCHANGED vars
    BY <2>2, <2>5 DEF JobStep, JobStart, JobSucceed, JobRetry, JobFail, JobFailed, SetJob, Restart, Wake, vars, inputs
  <2>6. CASE NodeSetStep \/ \E m \in NodeSets : NodeSetRead(m) \/ NodeSetRetry(m)
    BY <2>2, <2>6 DEF NodeSetStep, NodeSetSetupFails, NodeSetCheck, NodeSetCheckFails, NodeSetInventory,
                      NodeSetInventoryFails, NodeSetPatch, NodeSetFails, NodeSetRead, NodeSetRetry, inputs
  <2>7. CASE DeploymentStep \/ \E d \in Deployments : DeploymentRead(d) \/ DeploymentSkip(d)
    BY <2>2, <2>7 DEF DeploymentStep, DeploymentWaits, DeploymentInputError, DeploymentRun, DeploymentRunFails,
                      DeploymentPanics, DeploymentPatch, RunWith, DeploymentRead, DeploymentSkip, inputs
  <2> QED
    BY <2>4, <2>5, <2>6, <2>7 DEF Next
<1>2. \A n \in NodeSets : 0 .. gen[n] \subseteq 0 .. gen'[n]
  BY <1>1
<1>3. ASSUME NEW n \in NodeSets, nss'[n] = nss[n]
      PROVE  \/ nss'[n].observed = Nil /\ nss'[n].deployedHash = Nil
             \/ \E g \in 0 .. gen'[n] : Hashed(nss'[n], g)
  BY <1>2, <1>3 DEF HashInv
<1>4. CASE UNCHANGED nss /\ nsView' \in {nsView, Nil}
  BY <1>0, <1>2, <1>3, <1>4 DEF HashInv, Hashed, UpTo
<1>5. ASSUME nsView # Nil, NEW st \in NodeSetRec, Hashed(st, nsView.gen), nss' = [nss EXCEPT ![nsView.ns] = st], nsView' = Nil
      PROVE  HashInv'
  <2>1. \A n \in NodeSets : nss'[n] = IF n = nsView.ns THEN st ELSE nss[n]
    BY <1>0, <1>5
  <2>2. nsView.gen \in 0 .. gen'[nsView.ns]
    BY <1>0, <1>2, <1>5 DEF HashInv
  <2> QED
    BY <1>3, <1>5, <2>1, <2>2 DEF HashInv, Hashed, UpTo
<1>6. CASE NodeSetSetupFails \/ NodeSetCheckFails \/ NodeSetInventoryFails
  <2>1. PICK st \in NodeSetRec : NodeSetFails(st) /\ Hashed(st, nsView.gen)
    BY <1>6, FailedHashes
  <2>2. nsView # Nil
    BY <1>6, FailedHashes
  <2> DEFINE stored == [st EXCEPT !.setup = FALSE, !.ready = FALSE]
  <2>3. stored \in NodeSetRec /\ Hashed(stored, nsView.gen)
    BY <2>1 DEF NodeSetRec, Hashed
  <2>4. nss' = [nss EXCEPT ![nsView.ns] = stored] /\ nsView' = Nil
    BY <2>1 DEF NodeSetFails
  <2> HIDE DEF stored
  <2> QED
    BY <1>5, <2>2, <2>3, <2>4
<1>7. CASE NodeSetPatch
  <2>1. nsView # Nil /\ nss' = [nss EXCEPT ![nsView.ns] = nsView.status] /\ nsView' = Nil
    BY <1>7 DEF NodeSetPatch
  <2> QED
    BY <1>0, <1>5, <2>1 DEF HashInv
<1>8. CASE NodeSetCheck \/ NodeSetInventory
  <2>1. nsView # Nil /\ UNCHANGED nss
    BY <1>8 DEF NodeSetCheck, NodeSetInventory
  <2>2. /\ nsView'.ns = nsView.ns /\ nsView'.gen = nsView.gen
        /\ nsView'.status = nsView.status \/ \E q : nsView'.status = CheckedStatus(q, nsView.ns, nsView.status)
    BY <1>0, <1>8, <2>1 DEF NodeSetCheck, NodeSetInventory, NodeSetViewRec
  <2>3. Hashed(nsView.status, nsView.gen) /\ nsView.gen \in 0 .. gen'[nsView.ns] /\ nsView.gen \in Nat
    BY <1>0, <1>2, <2>1, BoundsAssumption DEF HashInv, Generations
  <2>4. Hashed(nsView'.status, nsView.gen)
    <3>1. ASSUME NEW q PROVE Hashed(CheckedStatus(q, nsView.ns, nsView.status), nsView.gen)
      <4> DEFINE c == CheckedStatus(q, nsView.ns, nsView.status)
      <4>1. /\ c.observed = nsView.status.observed /\ c.hash = nsView.status.hash
            /\ c.deployedHash \in {nsView.status.deployedHash, nsView.status.hash}
        BY <1>0, <2>1 DEF CheckedStatus, NodeSetRec
      <4> HIDE DEF c
      <4>2. Hashed(c, nsView.gen)
        BY <2>3, <4>1 DEF Hashed, UpTo
      <4> QED
        BY <4>2 DEF c
    <3> QED
      BY <2>2, <2>3, <3>1
  <2> QED
    BY <1>3, <2>1, <2>2, <2>3, <2>4 DEF HashInv, Hashed, UpTo
<1>9. ASSUME NEW m \in NodeSets, NodeSetRead(m) PROVE HashInv'
  <2>1. /\ UNCHANGED <<nss, gen>> /\ nsView'.ns = m /\ nsView'.gen = gen[m]
        /\ nsView'.status.observed = gen[m] /\ nsView'.status.deployedHash = nss[m].deployedHash
        /\ nsView'.status.hash = DetectConfigChange(nss[m], HashOf[gen[m]])
    BY <1>0, <1>9 DEF NodeSetRead, NodeSetRec, inputs
  <2>2. nss[m].deployedHash \in UpTo(gen[m])
    BY <1>1 DEF HashInv, Hashed, UpTo
  <2>3. nss[m].deployedHash = HashOf[gen[m]] => nss[m].hash = HashOf[gen[m]]
    <3> SUFFICES ASSUME nss[m].deployedHash = HashOf[gen[m]] PROVE nss[m].hash = HashOf[gen[m]]
      OBVIOUS
    <3>1. HashOf[gen[m]] # Nil
      BY <1>0, BoundsAssumption, NilAssumption DEF Generations
    <3>2. PICK g \in 0 .. gen[m] : Hashed(nss[m], g)
      BY <3>1 DEF HashInv
    <3>3. PICK h \in 0 .. g : HashOf[h] = HashOf[gen[m]]
      BY <3>1, <3>2 DEF Hashed, UpTo
    <3>4. h \in Generations /\ h <= g /\ g <= gen[m] /\ g \in Nat /\ h \in Nat
      BY <1>0, <1>1, BoundsAssumption DEF Generations
    <3>5. h = gen[m]
      BY <1>0, <3>3, <3>4 DEF CarefulUser
    <3>6. g = gen[m]
      BY <1>1, <3>4, <3>5
    <3> QED
      BY <3>2, <3>6 DEF Hashed
  <2>4. nsView'.status.hash = HashOf[gen[m]]
    BY <2>1, <2>3 DEF DetectConfigChange
  <2> QED
    BY <1>1, <1>3, <2>1, <2>2, <2>4 DEF HashInv, Hashed, UpTo
<1> QED
  BY <1>4, <1>6, <1>7, <1>8, <1>9, NodeSetChanges DEF NodeSetStep

----------------------------------------------------------------------------

\* What an inventory that is up to date says.
Want(n) == [hash |-> HashOf[gen[n]], data |-> data[n], version |-> target]

\* A deployment has something left to do.
Busy == \E d \in Deployments : Live(d) /\ ~Finished(d)

\* From the moment a deployment is created the inventories stay as they are, and
\* so do the hashes it is going to record.
Held ==
    Busy =>
      /\ \A n \in NodeSets : inventory[n] = Want(n) /\ nss[n].observed = gen[n]
      /\ nsView # Nil => nsView.gen = gen[nsView.ns] /\ nsView.version = target

\* The deployment that is reconciled is one of these, with the hashes as they are.
Reading ==
    depView # Nil =>
      /\ Live(Current) /\ ~Finished(Current)
      /\ depView.status.stage = "live"
      /\ depView.step = "read" => depView.status.ready = "Unknown"
      /\ \A n \in Targets(Current) : depView.hash[n] = HashOf[gen[n]]

\* Its jobs have mounted the inventory as it is.
Mounted ==
    \A d \in Deployments, n \in NodeSets, s \in Services :
      /\ dep[d].stage = "absent" => job[d][n][s].state = "none"
      /\ Live(d) /\ ~Finished(d) /\ job[d][n][s].state \in {"running", "succeeded"} =>
           job[d][n][s].inv = Want(n)

\* A status that ends a deployment leaves no node set running, any other one has
\* no config maps yet.
Closed(d, st) ==
    /\ st.ready \in {"True", "Backoff"} => \A n \in Targets(d) : st.cond[n] # "Running"
    /\ st.ready # "True" => \A n \in NodeSets : st.data[n] = Nil

\* A status records for a node set what the inventory inv holds.
AppliedAs(inv, st, n) ==
    /\ inv # Nil /\ inv.hash = st.hash[n]
    /\ st.ready = "True" => inv.version = st.version /\ st.data[n] \in {Nil, inv.data}

\* What a status records is what the jobs j have applied.
Recorded(j, d, st) ==
    \A n \in Targets(d) : st.cond[n] = "True" =>
      \A i \in DOMAIN Plan[d][n] : AppliedAs(j[d][n][Plan[d][n][i]].inv, st, n)

Stored ==
    /\ \A d \in Deployments : Closed(d, dep[d]) /\ Recorded(job, d, dep[d])
    /\ depView # Nil => Closed(Current, depView.status) /\ Recorded(job, Current, depView.status)

AppliedInv == HashInv /\ Held /\ Reading /\ Mounted /\ Stored

LEMMA TargetsAreNodeSets == \A d \in Deployments : Targets(d) \subseteq NodeSets
  BY DeploymentsAssumption DEF Targets

\* A careful user acts only while nothing is going on; otherwise the inputs stay,
\* and deployments change by their own reconcile only.
LEMMA UserActsAtRest ==
    ASSUME CarefulUser, [Next]_vars
    PROVE  \/ UserStep /\ Idle /\ ~Busy
           \/ UNCHANGED inputs /\ (UNCHANGED dep \/ DeploymentPatch)
<1>1. CASE UserStep
  <2>1. UserMayAct
    BY <1>1 DEF UserStep, EditSpec, EditData, Retarget, CreateDeployment, DeleteDeployment
  <2> QED
    BY <1>1, <2>1 DEF UserMayAct, CarefulUser, Busy
<1>2. CASE JobStep \/ Restart \/ Wake \/ UNCHANGED vars
  BY <1>2 DEF JobStep, JobStart, JobSucceed, JobRetry, JobFail, JobFailed, SetJob, Restart, Wake, vars
<1>3. CASE NodeSetStep \/ \E m \in NodeSets : NodeSetRead(m) \/ NodeSetRetry(m)
  BY <1>3 DEF NodeSetStep, NodeSetSetupFails, NodeSetCheck, NodeSetCheckFails, NodeSetInventory,
              NodeSetInventoryFails, NodeSetPatch, NodeSetFails, NodeSetRead, NodeSetRetry
<1>4. CASE DeploymentPatch
  BY <1>4 DEF DeploymentPatch
<1>5. CASE DeploymentStep \/ \E d \in Deployments : DeploymentRead(d) \/ DeploymentSkip(d)
  BY <1>4, <1>5 DEF DeploymentStep, DeploymentWaits, DeploymentInputError, DeploymentRun, DeploymentRunFails,
                    DeploymentPanics, RunWith, DeploymentRead, DeploymentSkip
<1> QED
  BY <1>1, <1>2, <1>3, <1>5 DEF Next

\* What the user does to a deployment at rest.
LEMMA UserDeployments ==
    ASSUME TypeOK, UserStep, NEW d \in Deployments
    PROVE  /\ UNCHANGED <<nss, inventory, job, nsView, depView>>
           /\ \/ dep'[d] = dep[d]
              \/ /\ UNCHANGED inputs /\ dep[d].stage = "absent"
                 /\ dep'[d] = [dep[d] EXCEPT !.stage = "live"]
              \/ dep'[d] = [dep[d] EXCEPT !.stage = "deleted"]
<1>1. CASE \E n \in NodeSets : EditSpec(n) \/ EditData(n)
  BY <1>1 DEF EditSpec, EditData
<1>2. CASE Retarget
  BY <1>2 DEF Retarget
<1>3. ASSUME NEW e \in Deployments, CreateDeployment(e)
      PROVE  /\ UNCHANGED <<inputs, nss, inventory, job, nsView, depView>>
             /\ dep[e].stage = "absent"
             /\ dep'[d] = IF d = e THEN [dep[d] EXCEPT !.stage = "live"] ELSE dep[d]
  BY <1>3 DEF CreateDeployment, TypeOK
<1>4. ASSUME NEW e \in Deployments, DeleteDeployment(e)
      PROVE  /\ UNCHANGED <<inputs, nss, inventory, job, nsView, depView>>
             /\ dep'[d] = IF d = e THEN [dep[d] EXCEPT !.stage = "deleted"] ELSE dep[d]
  BY <1>4 DEF DeleteDeployment, TypeOK
<1> QED
  BY <1>1, <1>2, <1>3, <1>4 DEF UserStep

\* Otherwise a deployment that is under way was so before.
LEMMA BusyBefore ==
    ASSUME TypeOK, Reading, UNCHANGED dep \/ DeploymentPatch, NEW d \in Deployments
    PROVE  /\ dep'[d].stage = dep[d].stage
           /\ Live(d)' /\ ~Finished(d)' => Live(d) /\ ~Finished(d)
           /\ \/ dep'[d] = dep[d]
              \/ depView # Nil /\ d = Current /\ dep'[d] = depView.status
<1>1. CASE UNCHANGED dep
  BY <1>1 DEF Live, Finished
<1>2. CASE DeploymentPatch
  <2>1. depView # Nil /\ Live(Current) /\ ~Finished(Current) /\ depView.status.stage = "live"
    BY <1>2 DEF DeploymentPatch, Reading
  <2>2. dep'[d] = IF d = Current THEN depView.status ELSE dep[d]
    BY <1>2, <2>1 DEF DeploymentPatch, TypeOK
  <2> QED
    BY <2>1, <2>2 DEF Live, Finished
<1> QED
  BY <1>1, <1>2

----------------------------------------------------------------------------

LEMMA HeldAtStart ==
    ASSUME TypeOK, UpToDate, Stored, Idle, ~Busy
    PROVE  \A n \in NodeSets : inventory[n] = Want(n) /\ nss[n].observed = gen[n]
<1> SUFFICES ASSUME NEW n \in NodeSets PROVE inventory[n] = Want(n) /\ nss[n].observed = gen[n]
  OBVIOUS
<1>1. Settled(n, nss[n]) /\ InventorySettled(n)
  BY DEF UpToDate, Idle
<1>2. ~RunsOn(n)
  BY DEF RunsOn, Relevant, Busy, Stored, Closed, Finished
<1> QED
  BY <1>1, <1>2 DEF Settled, InventorySettled, Want

LEMMA HeldPreserved ==
    ASSUME CarefulUser, TypeOK, UpToDate, AppliedInv, [Next]_vars
    PROVE  Held'
<1>0. /\ nss \in [NodeSets -> NodeSetRec] /\ inventory \in [NodeSets -> Inputs \cup {Nil}]
      /\ nsView # Nil => /\ nsView \in NodeSetViewRec /\ nsView.ns \in NodeSets /\ nsView.status \in NodeSetRec
                         /\ nsView.status.observed = nsView.gen
  BY DEF TypeOK, NodeSetViewRec, AppliedInv, HashInv, Hashed
<1> SUFFICES ASSUME Busy'
             PROVE  /\ \A n \in NodeSets : inventory'[n] = Want(n)' /\ nss'[n].observed = gen'[n]
                    /\ nsView' # Nil => nsView'.gen = gen'[nsView'.ns] /\ nsView'.version = target'
  BY DEF Held
<1>1. CASE UserStep /\ Idle /\ ~Busy
  <2>1. PICK d \in Deployments : Live(d)' /\ ~Finished(d)'
    BY DEF Busy
  <2>2. dep[d] \in DeploymentRec
    BY DEF TypeOK
  <2>3. ~(dep'[d] = dep[d])
    BY <1>1, <2>1 DEF Busy, Live, Finished
  <2>4. ~(dep'[d] = [dep[d] EXCEPT !.stage = "deleted"])
    BY <2>1, <2>2 DEF Live, DeploymentRec
  <2>5. UNCHANGED <<inputs, nss, inventory, nsView>>
    BY <1>1, <2>3, <2>4, UserDeployments
  <2>6. nsView = Nil
    BY <1>1 DEF Idle
  <2> QED
    BY <1>1, <2>5, <2>6, HeldAtStart DEF AppliedInv, Want, inputs
<1>2. CASE UNCHANGED inputs /\ (UNCHANGED dep \/ DeploymentPatch)
  <2>1. Busy
    BY <1>2, BusyBefore DEF Busy, AppliedInv
  <2>2. /\ \A n \in NodeSets : inventory[n] = Want(n)' /\ nss[n].observed = gen'[n]
        /\ nsView # Nil => nsView.gen = gen'[nsView.ns] /\ nsView.version = target'
    BY <1>2, <2>1 DEF AppliedInv, Held, Want, inputs
  <2>3. CASE UNCHANGED <<nss, inventory>> /\ nsView' \in {Nil, nsView}
    BY <2>2, <2>3
  <2>4. ASSUME nsView # Nil, NEW st \in NodeSetRec, st.observed = nsView.gen,
               nss' = [nss EXCEPT ![nsView.ns] = st], UNCHANGED inventory, nsView' = Nil
        PROVE  /\ \A n \in NodeSets : inventory'[n] = Want(n)' /\ nss'[n].observed = gen'[n]
               /\ nsView' # Nil => nsView'.gen = gen'[nsView'.ns] /\ nsView'.version = target'
    <3>1. \A n \in NodeSets : nss'[n] = IF n = nsView.ns THEN st ELSE nss[n]
      BY <1>0, <2>4
    <3> QED
      BY <1>0, <2>2, <2>4, <3>1
  <2>5. CASE NodeSetSetupFails \/ NodeSetCheckFails \/ NodeSetInventoryFails
    <3>1. nsView # Nil
      BY <2>5, FailedHashes DEF AppliedInv
    <3>2. PICK st \in NodeSetRec : NodeSetFails(st) /\ Hashed(st, nsView.gen)
      BY <2>5, FailedHashes DEF AppliedInv
    <3> DEFINE stored == [st EXCEPT !.setup = FALSE, !.ready = FALSE]
    <3>3. stored \in NodeSetRec /\ stored.observed = nsView.gen
      BY <3>2 DEF NodeSetRec, Hashed
    <3>4. nss' = [nss EXCEPT ![nsView.ns] = stored] /\ nsView' = Nil /\ UNCHANGED inventory
      BY <3>2 DEF NodeSetFails
    <3> HIDE DEF stored
    <3> QED
      BY <2>4, <3>1, <3>3, <3>4
  <2>6. CASE NodeSetPatch
    <3>1. nsView # Nil /\ nss' = [nss EXCEPT ![nsView.ns] = nsView.status] /\ nsView' = Nil /\ UNCHANGED inventory
      BY <2>6 DEF NodeSetPatch
    <3> QED
      BY <1>0, <2>4, <3>1
  <2>7. CASE NodeSetCheck
    <3>1. nsView # Nil /\ UNCHANGED <<nss, inventory>>
      BY <2>7 DEF NodeSetCheck
    <3>2. nsView'.ns = nsView.ns /\ nsView'.gen = nsView.gen /\ nsView'.version = target
      BY <1>0, <2>7, <3>1 DEF NodeSetCheck, NodeSetViewRec
    <3> QED
      BY <1>2, <2>2, <3>1, <3>2 DEF inputs
  <2>8. CASE NodeSetInventory
    <3>1. nsView # Nil /\ UNCHANGED <<nss>> /\ nsView' = [nsView EXCEPT !.step = "written"]
      BY <2>8 DEF NodeSetInventory
    <3>2. nsView'.ns = nsView.ns /\ nsView'.gen = nsView.gen /\ nsView'.version = nsView.version
      BY <1>0, <3>1 DEF NodeSetViewRec
    <3>3. \/ UNCHANGED inventory
          \/ inventory' = [inventory EXCEPT ![nsView.ns] =
                             [hash |-> HashOf[nsView.gen], data |-> data[nsView.ns], version |-> nsView.version]]
      BY <2>8 DEF NodeSetInventory
    <3>4. \A n \in NodeSets : n = nsView.ns =>
            Want(n)' = [hash |-> HashOf[nsView.gen], data |-> data[nsView.ns], version |-> nsView.version]
      BY <1>0, <1>2, <2>2, <3>1 DEF Want, inputs
    <3>5. ASSUME NEW n \in NodeSets PROVE inventory'[n] \in {inventory[n], Want(n)'}
      <4>1. CASE n = nsView.ns
        BY <1>0, <3>3, <3>4, <4>1
      <4>2. CASE n # nsView.ns
        BY <1>0, <3>3, <4>2
      <4> QED
        BY <4>1, <4>2
    <3> QED
      BY <2>2, <3>1, <3>2, <3>5
  <2>9. CASE \E n \in NodeSets : NodeSetRead(n)
    <3>1. PICK n \in NodeSets : NodeSetRead(n)
      BY <2>9
    <3>2. UNCHANGED <<nss, inventory>> /\ nsView'.ns = n /\ nsView'.gen = gen[n] /\ nsView'.version = target
      BY <3>1 DEF NodeSetRead
    <3> QED
      BY <1>2, <2>2, <3>2 DEF inputs
  <2> QED
    BY <2>3, <2>5, <2>6, <2>7, <2>8, <2>9, NodeSetChanges DEF NodeSetStep
<1> QED
  BY <1>1, <1>2, UserActsAtRest

----------------------------------------------------------------------------

\* A status as a pass may leave it: the one it began with, one with an error, or
\* that of a run over the node sets.
Passed(st) ==
    /\ depView.step = "read"
    /\ \/ st = depView.status
       \/ st = [depView.status EXCEPT !.ready = "Error"]
       \/ \E m \in NodeSets : st = [depView.status EXCEPT !.cond[m] = "Error"]
       \/ \E o \in [NodeSets -> Conds \cup {"Retry"}], hashed \in BOOLEAN :
            /\ st = RanStatus(Current, o, hashed)
            /\ \A n \in NodeSets : o[n] = "True" => DeployedOn(Current, n)

LEMMA PassStatus ==
    ASSUME TypeOK, DeploymentStep, depView' # Nil
    PROVE  /\ depView # Nil
           /\ depView'.dep = depView.dep /\ depView'.hash = depView.hash /\ depView'.step = "ran"
           /\ Passed(depView'.status)
<1>0. depView # Nil
  BY DEF DeploymentStep, DeploymentWaits, DeploymentInputError, DeploymentRun,
         DeploymentRunFails, DeploymentPanics, DeploymentPatch
<1>1. depView \in DeploymentViewRec /\ depView.status \in DeploymentRec /\ Current \in Deployments
  BY <1>0 DEF TypeOK, DeploymentViewRec, Current
<1>2. CASE DeploymentWaits
  <2>1. depView.step = "read" /\ depView' = [depView EXCEPT !.step = "ran", !.again = TRUE]
    BY <1>2 DEF DeploymentWaits
  <2>2. /\ depView'.dep = depView.dep /\ depView'.hash = depView.hash /\ depView'.step = "ran"
        /\ depView'.status = depView.status
    BY <1>1, <2>1 DEF DeploymentViewRec
  <2> QED
    BY <1>0, <2>1, <2>2 DEF Passed
<1>3. CASE DeploymentInputError
  <2>1. PICK st \in {depView.status, [depView.status EXCEPT !.ready = "Error"]}
                 \cup {[depView.status EXCEPT !.cond[m] = "Error"] : m \in Targets(Current)} :
          depView' = [depView EXCEPT !.step = "ran", !.again = TRUE, !.status = st]
    BY <1>3 DEF DeploymentInputError
  <2>2. /\ depView'.dep = depView.dep /\ depView'.hash = depView.hash /\ depView'.step = "ran"
        /\ depView'.status = st
    BY <1>1, <2>1 DEF DeploymentViewRec
  <2>3. Passed(st)
    BY <1>1, <1>3, <2>1, TargetsAreNodeSets DEF Passed, DeploymentInputError
  <2> QED
    BY <1>0, <2>2, <2>3
<1>4. ASSUME NEW o \in [NodeSets -> Conds \cup {"Retry"}], NEW on, NEW hashed \in BOOLEAN,
             RunWith(Current, o, on, hashed), depView.step = "read",
             \A n \in NodeSets : o[n] = "True" => Outcome(Current, n) = "True"
      PROVE  /\ depView'.dep = depView.dep /\ depView'.hash = depView.hash /\ depView'.step = "ran"
             /\ Passed(depView'.status)
  <2>1. depView' = [depView EXCEPT !.step = "ran", !.again = (Summary(Current, o) = "Error"),
                                   !.status = RanStatus(Current, o, hashed)]
    BY <1>4 DEF RunWith
  <2>2. /\ depView'.dep = depView.dep /\ depView'.hash = depView.hash /\ depView'.step = "ran"
        /\ depView'.status = RanStatus(Current, o, hashed)
    BY <1>1, <2>1 DEF DeploymentViewRec
  <2>3. \A n \in NodeSets : o[n] = "True" => DeployedOn(Current, n)
    BY <1>1, <1>4, OutcomeSound
  <2> QED
    BY <1>4, <2>2, <2>3 DEF Passed
<1>5. CASE DeploymentRun
  <2>1. PICK lagging \in SUBSET MayLag(Current), hashed \in BOOLEAN :
          RunWith(Current, OutcomesOf(Current, lagging), NodeSets, hashed)
    BY <1>5 DEF DeploymentRun
  <2>2. OutcomesOf(Current, lagging) \in [NodeSets -> Conds \cup {"Retry"}]
    BY <1>1, OutcomesType
  <2>3. \A n \in NodeSets : OutcomesOf(Current, lagging)[n] = "True" => Outcome(Current, n) = "True"
    BY DEF OutcomesOf
  <2>4. depView.step = "read"
    BY <1>5 DEF DeploymentRun
  <2> QED
    BY <1>0, <1>4, <2>1, <2>2, <2>3, <2>4
<1>6. CASE DeploymentRunFails
  <2>1. PICK lagging \in SUBSET MayLag(Current), m \in Targets(Current), e \in FaultOutcomes :
          RunWith(Current, [OutcomesOf(Current, lagging) EXCEPT ![m] = e], NodeSets \ {m}, TRUE)
    BY <1>6 DEF DeploymentRunFails
  <2>2. OutcomesOf(Current, lagging) \in [NodeSets -> Conds]
    BY <1>1, OutcomesType
  <2> DEFINE o == [OutcomesOf(Current, lagging) EXCEPT ![m] = e]
  <2>3. o \in [NodeSets -> Conds \cup {"Retry"}]
    BY <2>2 DEF FaultOutcomes, Conds
  <2>4. \A n \in NodeSets : OutcomesOf(Current, lagging)[n] = "True" => Outcome(Current, n) = "True"
    BY DEF OutcomesOf
  <2>5. \A n \in NodeSets : o[n] = "True" => Outcome(Current, n) = "True"
    BY <2>2, <2>4 DEF FaultOutcomes
  <2>6. depView.step = "read" /\ RunWith(Current, o, NodeSets \ {m}, TRUE)
    BY <1>6, <2>1 DEF DeploymentRunFails
  <2> HIDE DEF o
  <2> QED
    BY <1>0, <1>4, <2>3, <2>5, <2>6
<1>7. CASE DeploymentPanics \/ DeploymentPatch
  BY <1>7 DEF DeploymentPanics, DeploymentPatch
<1> QED
  BY <1>2, <1>3, <1>5, <1>6, <1>7 DEF DeploymentStep

\* The fields of the status after a run.
LEMMA RanFields ==
    ASSUME TypeOK, depView # Nil, NEW o \in [NodeSets -> Conds \cup {"Retry"}], NEW hashed \in BOOLEAN
    PROVE  LET st == RanStatus(Current, o, hashed)
               all == Summary(Current, o) = "True" IN
           /\ st.stage = depView.status.stage /\ st.ready = Summary(Current, o)
           /\ \A n \in NodeSets :
                /\ st.cond[n] = IF n \in Targets(Current) THEN NodeSetCondition(o[n]) ELSE Nil
                /\ st.hash[n] = IF n \in Targets(Current) /\ o[n] = "True" THEN depView.hash[n] ELSE depView.status.hash[n]
                /\ st.data[n] = IF all /\ hashed /\ n \in Targets(Current) THEN data[n] ELSE depView.status.data[n]
           /\ st.version = IF all THEN target ELSE depView.status.version
<1>1. depView.status \in DeploymentRec
  BY DEF TypeOK, DeploymentViewRec
<1> QED
  BY <1>1 DEF RanStatus, DeploymentRec

\* No step of a pass changes the stage.
LEMMA PassedStage ==
    ASSUME TypeOK, depView # Nil, NEW st, Passed(st)
    PROVE  st.stage = depView.status.stage
<1>1. depView.status \in DeploymentRec
  BY DEF TypeOK, DeploymentViewRec
<1>2. ASSUME NEW o \in [NodeSets -> Conds \cup {"Retry"}], NEW hashed \in BOOLEAN, st = RanStatus(Current, o, hashed)
      PROVE  st.stage = depView.status.stage
  BY <1>2, RanFields
<1> QED
  BY <1>1, <1>2 DEF Passed, DeploymentRec

LEMMA ReadingPreserved ==
    ASSUME CarefulUser, TypeOK, AppliedInv, [Next]_vars
    PROVE  Reading'
<1>0. gen \in [NodeSets -> Generations] /\ nss \in [NodeSets -> NodeSetRec]
  BY DEF TypeOK
<1>1. CASE UserStep /\ Idle /\ ~Busy
  <2>1. depView' = Nil
    BY <1>1 DEF UserStep, EditSpec, EditData, Retarget, CreateDeployment, DeleteDeployment, Idle
  <2> QED
    BY <2>1 DEF Reading
<1>2. CASE UNCHANGED inputs /\ DeploymentPatch
  BY <1>2 DEF DeploymentPatch, Reading
<1>3. CASE UNCHANGED inputs /\ UNCHANGED dep
  <2>1. CASE UNCHANGED depView \/ depView' = Nil
    BY <1>3, <2>1 DEF AppliedInv, Reading, Live, Finished, Current, inputs
  <2>2. CASE \E d \in Deployments : DeploymentRead(d)
    <3>1. PICK d \in Deployments : DeploymentRead(d)
      BY <2>2
    <3>2. /\ Live(d) /\ ~Finished(d) /\ depView'.dep = d /\ depView'.step = "read" /\ depView'.status = Reset(d)
          /\ depView'.hash = [n \in NodeSets |-> IF n \in Targets(d) THEN nss[n].hash ELSE Nil]
      BY <3>1 DEF DeploymentRead
    <3>3. Reset(d).stage = "live" /\ Reset(d).ready = "Unknown"
      <4>1. dep[d] \in DeploymentRec
        BY DEF TypeOK
      <4> QED
        BY <3>2, <4>1 DEF Reset, DeploymentRec, Live
    <3>4. \A n \in NodeSets : nss[n].observed = gen[n]
      BY <3>2 DEF AppliedInv, Held, Busy
    <3>5. \A n \in NodeSets : nss[n].hash = HashOf[gen[n]]
      <4> SUFFICES ASSUME NEW n \in NodeSets PROVE nss[n].hash = HashOf[gen[n]]
        OBVIOUS
      <4>1. nss[n].observed # Nil
        BY <1>0, <3>4, NilAssumption, BoundsAssumption DEF Generations
      <4>2. PICK g \in 0 .. gen[n] : Hashed(nss[n], g)
        BY <4>1 DEF AppliedInv, HashInv
      <4> QED
        BY <3>4, <4>2 DEF Hashed
    <3>6. \A n \in Targets(d) : depView'.hash[n] = HashOf[gen'[n]]
      BY <1>3, <3>2, <3>5, TargetsAreNodeSets DEF inputs
    <3> QED
      BY <1>3, <3>2, <3>3, <3>6 DEF Reading, Current, Live, Finished
  <2>3. CASE DeploymentStep /\ depView' # Nil
    <3>1. /\ depView # Nil /\ depView'.dep = depView.dep /\ depView'.hash = depView.hash
          /\ depView'.step = "ran" /\ Passed(depView'.status)
      BY <2>3, PassStatus
    <3>2. depView'.status.stage = depView.status.stage
      BY <3>1, PassedStage
    <3> QED
      BY <1>3, <3>1, <3>2 DEF AppliedInv, Reading, Live, Finished, Current, inputs
  <2> QED
    BY <2>1, <2>2, <2>3, DeploymentChanges
<1> QED
  BY <1>1, <1>2, <1>3, UserActsAtRest

LEMMA MountedPreserved ==
    ASSUME CarefulUser, TypeOK, AppliedInv, [Next]_vars
    PROVE  Mounted'
<1> SUFFICES ASSUME NEW d \in Deployments, NEW n \in NodeSets, NEW s \in Services
             PROVE  /\ dep'[d].stage = "absent" => job'[d][n][s].state = "none"
                    /\ Live(d)' /\ ~Finished(d)' /\ job'[d][n][s].state \in {"running", "succeeded"} =>
                         job'[d][n][s].inv = Want(n)'
  BY DEF Mounted
<1>0. dep[d] \in DeploymentRec
  BY DEF TypeOK
<1>1. /\ dep[d].stage = "absent" => job[d][n][s].state = "none"
      /\ Live(d) /\ ~Finished(d) /\ job[d][n][s].state \in {"running", "succeeded"} => job[d][n][s].inv = Want(n)
  BY DEF AppliedInv, Mounted
<1>2. CASE UserStep /\ Idle /\ ~Busy
  <2>1. UNCHANGED job
    BY <1>2, UserDeployments
  <2>2. CASE dep'[d] = dep[d]
    BY <1>1, <1>2, <2>1, <2>2 DEF Busy, Live, Finished
  <2>3. CASE dep[d].stage = "absent" /\ dep'[d] = [dep[d] EXCEPT !.stage = "live"]
    BY <1>1, <2>1, <2>3
  <2>4. CASE dep'[d] = [dep[d] EXCEPT !.stage = "deleted"]
    BY <1>0, <2>4 DEF DeploymentRec, Live
  <2> QED
    BY <1>2, <2>2, <2>3, <2>4, UserDeployments
<1>3. CASE UNCHANGED inputs /\ (UNCHANGED dep \/ DeploymentPatch)
  <2>1. /\ dep'[d].stage = dep[d].stage
        /\ Live(d)' /\ ~Finished(d)' => Live(d) /\ ~Finished(d)
    BY <1>3, BusyBefore DEF AppliedInv
  <2>2. Want(n)' = Want(n)
    BY <1>3 DEF Want, inputs
  <2>3. Live(d) /\ ~Finished(d) => inventory[n] = Want(n)
    BY DEF AppliedInv, Held, Busy
  <2>4. CASE job'[d][n][s] = job[d][n][s]
    BY <1>1, <2>1, <2>2, <2>4
  <2>5. CASE Created(d, n, s)
    <3>1. dep[d].stage = "live" /\ job'[d][n][s].state = "pending"
      BY <2>5 DEF Created, AppliedInv, Reading, Live
    <3> QED
      BY <2>1, <3>1
  <2>6. CASE Moved(d, n, s)
    BY <1>1, <2>1, <2>2, <2>3, <2>6 DEF Moved
  <2> QED
    BY <2>4, <2>5, <2>6, JobChanges
<1> QED
  BY <1>2, <1>3, UserActsAtRest

----------------------------------------------------------------------------

\* A status that reports no more than another one records nothing else.
LEMMA RecordsNoMore ==
    ASSUME NEW j, NEW d, NEW st, Recorded(j, d, st), NEW t,
           \A n \in Targets(d) : t.cond[n] = "True" => st.cond[n] = "True",
           t.hash = st.hash, t.data = st.data, t.version = st.version, t.ready = "True" => st.ready = "True"
    PROVE  Recorded(j, d, t)
<1> SUFFICES ASSUME NEW n \in Targets(d), t.cond[n] = "True", NEW i \in DOMAIN Plan[d][n]
             PROVE  AppliedAs(j[d][n][Plan[d][n][i]].inv, t, n)
  BY DEF Recorded
<1>1. st.cond[n] = "True"
  OBVIOUS
<1>2. AppliedAs(j[d][n][Plan[d][n][i]].inv, st, n)
  BY <1>1 DEF Recorded
<1> QED
  BY <1>2 DEF AppliedAs

\* What is recorded stays applied: the jobs behind it are not run again.
LEMMA RecordedStays ==
    ASSUME TypeOK, [Next]_vars, NEW d \in Deployments, NEW st,
           \A n \in Targets(d) : st.cond[n] = "True" => DeployedOn(d, n),
           Recorded(job, d, st)
    PROVE  Recorded(job', d, st)
<1> SUFFICES ASSUME NEW n \in Targets(d), st.cond[n] = "True", NEW i \in DOMAIN Plan[d][n]
             PROVE  AppliedAs(job'[d][n][Plan[d][n][i]].inv, st, n)
  BY DEF Recorded
<1>0. AppliedAs(job[d][n][Plan[d][n][i]].inv, st, n)
  BY DEF Recorded
<1>1. n \in NodeSets /\ Plan[d][n][i] \in Services
  BY TargetsAreNodeSets, DeploymentsAssumption
<1>2. job[d][n][Plan[d][n][i]].state = "succeeded"
  BY DEF DeployedOn, Succeeded, JobOf
<1>3. job'[d][n][Plan[d][n][i]] = job[d][n][Plan[d][n][i]]
  BY <1>1, <1>2, SucceededStays
<1> QED
  BY <1>0, <1>3

\* What a pass leaves is closed and was applied.
LEMMA PassedStored ==
    ASSUME CarefulUser, TypeOK, AppliedInv, depView # Nil, NEW st, Passed(st)
    PROVE  Closed(Current, st) /\ Recorded(job, Current, st)
<1>0. /\ depView.status \in DeploymentRec /\ Current \in Deployments
      /\ Targets(Current) \subseteq NodeSets
  BY TargetsAreNodeSets DEF TypeOK, DeploymentViewRec, Current
<1>1. Closed(Current, depView.status) /\ Recorded(job, Current, depView.status)
  BY DEF AppliedInv, Stored
<1>2. CASE st = depView.status
  BY <1>1, <1>2
<1>3. CASE st = [depView.status EXCEPT !.ready = "Error"]
  <2>1. depView.status.ready = "Unknown"
    BY DEF AppliedInv, Reading, Passed
  <2>2. /\ st.ready = "Error" /\ st.cond = depView.status.cond /\ st.data = depView.status.data
        /\ st.hash = depView.status.hash /\ st.version = depView.status.version
    BY <1>0, <1>3 DEF DeploymentRec
  <2>3. Closed(Current, st)
    BY <1>1, <2>1, <2>2 DEF Closed
  <2> QED
    BY <1>1, <2>2, <2>3, RecordsNoMore
<1>4. ASSUME NEW m \in NodeSets, st = [depView.status EXCEPT !.cond[m] = "Error"]
      PROVE  Closed(Current, st) /\ Recorded(job, Current, st)
  <2>1. /\ st.ready = depView.status.ready /\ st.data = depView.status.data
        /\ st.hash = depView.status.hash /\ st.version = depView.status.version
    BY <1>0, <1>4 DEF DeploymentRec
  <2>2. \A n \in NodeSets : st.cond[n] = IF n = m THEN "Error" ELSE depView.status.cond[n]
    BY <1>0, <1>4 DEF DeploymentRec
  <2>3. Closed(Current, st)
    BY <1>0, <1>1, <2>1, <2>2 DEF Closed
  <2>4. \A n \in Targets(Current) : st.cond[n] = "True" => depView.status.cond[n] = "True"
    BY <1>0, <2>2
  <2>5. Recorded(job, Current, st)
    BY <1>1, <2>1, <2>4, RecordsNoMore
  <2> QED
    BY <2>3, <2>5
<1>5. ASSUME NEW o \in [NodeSets -> Conds \cup {"Retry"}], NEW hashed \in BOOLEAN,
             st = RanStatus(Current, o, hashed),
             \A n \in NodeSets : o[n] = "True" => DeployedOn(Current, n)
      PROVE  Closed(Current, st) /\ Recorded(job, Current, st)
  <2>0. Live(Current) /\ ~Finished(Current) /\ depView.status.ready = "Unknown"
    BY DEF AppliedInv, Reading, Passed
  <2>1. \A n \in NodeSets : depView.status.data[n] = Nil
    BY <1>1, <2>0 DEF Closed
  <2>2. /\ st.ready = Summary(Current, o)
        /\ \A n \in Targets(Current) : st.cond[n] = NodeSetCondition(o[n])
        /\ \A n \in Targets(Current) : o[n] = "True" => st.hash[n] = depView.hash[n]
        /\ \A n \in NodeSets : st.ready # "True" => st.data[n] = Nil
        /\ \A n \in NodeSets : st.data[n] \in {Nil, data[n]}
        /\ st.ready = "True" => st.version = target
    BY <1>0, <1>5, <2>1, RanFields
  <2>3. Closed(Current, st)
    <3>1. ASSUME NEW n \in Targets(Current), Summary(Current, o) = "True" PROVE o[n] = "True"
      BY <3>1 DEF Summary
    <3>2. ASSUME NEW n \in Targets(Current), Summary(Current, o) = "Backoff"
          PROVE  o[n] \in {"Error", "Backoff", "Retry"}
      <4>1. PICK i \in DOMAIN TargetsOf[Current] : o[TargetsOf[Current][i]] \in {"Error", "Backoff", "Retry"}
        BY <3>2 DEF Summary, Failures
      <4>2. n = TargetsOf[Current][i]
        BY <1>0 DEF CarefulUser, Targets
      <4> QED
        BY <4>1, <4>2
    <3> QED
      BY <2>2, <3>1, <3>2 DEF Closed, NodeSetCondition
  <2>4. Recorded(job, Current, st)
    <3> SUFFICES ASSUME NEW n \in Targets(Current), st.cond[n] = "True", NEW i \in DOMAIN Plan[Current][n]
                 PROVE  AppliedAs(job[Current][n][Plan[Current][n][i]].inv, st, n)
      BY DEF Recorded
    <3>0. n \in NodeSets /\ o[n] = "True"
      BY <1>0, <2>2 DEF NodeSetCondition
    <3>1. n \in NodeSets /\ o[n] = "True" /\ Plan[Current][n][i] \in Services
      BY <1>0, <3>0, DeploymentsAssumption
    <3>2. job[Current][n][Plan[Current][n][i]].state = "succeeded"
      BY <1>5, <3>1 DEF DeployedOn, Succeeded, JobOf
    <3>3. job[Current][n][Plan[Current][n][i]].inv = Want(n)
      BY <1>0, <2>0, <3>1, <3>2 DEF AppliedInv, Mounted
    <3>4. Want(n) # Nil /\ Want(n).hash = HashOf[gen[n]] /\ Want(n).data = data[n] /\ Want(n).version = target
      <4>1. Want(n) \in [hash : Hashes, data : Nat, version : Nat]
        BY <3>1, BoundsAssumption DEF Want, TypeOK, Generations
      <4> QED
        BY <4>1, NilAssumption DEF Want
    <3>5. st.hash[n] = HashOf[gen[n]]
      BY <2>2, <3>1 DEF AppliedInv, Reading
    <3> QED
      BY <2>2, <3>1, <3>3, <3>4, <3>5 DEF AppliedAs
  <2> QED
    BY <2>3, <2>4
<1> QED
  BY <1>2, <1>3, <1>4, <1>5 DEF Passed

LEMMA StoredPreserved ==
    ASSUME CarefulUser, TypeOK, ReadyInv, AppliedInv, [Next]_vars
    PROVE  Stored'
<1>0. dep \in [Deployments -> DeploymentRec] /\ (depView # Nil => Current \in Deployments)
  BY DEF TypeOK, DeploymentViewRec, Current
<1>1. \A d \in Deployments : Closed(d, dep[d]) /\ Recorded(job', d, dep[d])
  BY RecordedStays, TargetsAreNodeSets DEF AppliedInv, Stored, ReadyInv
<1>2. depView # Nil => Closed(Current, depView.status) /\ Recorded(job', Current, depView.status)
  BY <1>0, RecordedStays, TargetsAreNodeSets DEF AppliedInv, Stored, ReadyInv
<1>3. ASSUME NEW d \in Deployments PROVE Closed(d, dep'[d]) /\ Recorded(job', d, dep'[d])
  <2>1. CASE dep'[d] = dep[d]
    BY <1>1, <2>1
  <2>2. CASE \E x : dep'[d] = [dep[d] EXCEPT !.stage = x]
    <3>1. /\ dep'[d].ready = dep[d].ready /\ dep'[d].cond = dep[d].cond /\ dep'[d].data = dep[d].data
          /\ dep'[d].hash = dep[d].hash /\ dep'[d].version = dep[d].version
      BY <1>0, <2>2 DEF DeploymentRec
    <3>2. Closed(d, dep'[d])
      BY <1>1, <3>1 DEF Closed
    <3>3. Recorded(job', d, dep'[d])
      BY <1>1, <3>1, RecordsNoMore
    <3> QED
      BY <3>2, <3>3
  <2>3. CASE depView # Nil /\ d = Current /\ dep'[d] = depView.status
    BY <1>2, <2>3
  <2> QED
    BY <2>1, <2>2, <2>3, UserActsAtRest, UserDeployments, BusyBefore DEF AppliedInv
<1>4. ASSUME depView' # Nil
      PROVE  Closed(depView'.dep, depView'.status) /\ Recorded(job', depView'.dep, depView'.status)
  <2>1. CASE UNCHANGED depView
    BY <1>2, <1>4, <2>1 DEF Current
  <2>2. CASE \E d \in Deployments : DeploymentRead(d)
    <3>1. PICK d \in Deployments : DeploymentRead(d)
      BY <2>2
    <3>2. depView'.dep = d /\ depView'.status = Reset(d) /\ ~Finished(d)
      BY <3>1 DEF DeploymentRead
    <3>3. /\ Reset(d).ready = "Unknown" /\ Reset(d).data = dep[d].data
          /\ \A n \in Targets(d) : Reset(d).cond[n] = "Unknown"
      BY <1>0, TargetsAreNodeSets DEF Reset, DeploymentRec
    <3>4. \A n \in NodeSets : dep[d].data[n] = Nil
      BY <1>1, <3>2 DEF Closed, Finished
    <3> QED
      BY <3>2, <3>3, <3>4 DEF Closed, Recorded
  <2>3. CASE DeploymentStep
    <3>1. depView # Nil /\ depView'.dep = Current /\ Passed(depView'.status)
      BY <1>4, <2>3, PassStatus DEF Current
    <3>2. Closed(Current, depView'.status) /\ Recorded(job, Current, depView'.status)
      BY <3>1, PassedStored
    <3>3. \A n \in Targets(Current) : depView'.status.cond[n] = "True" => DeployedOn(Current, n)
      <4> SUFFICES ASSUME NEW n \in Targets(Current), depView'.status.cond[n] = "True" PROVE DeployedOn(Current, n)
        OBVIOUS
      <4>1. n \in NodeSets
        BY <1>0, <3>1, TargetsAreNodeSets
      <4>2. PassReports(n)
        BY <1>4, <2>3, <4>1, StepReports
      <4>3. depView.status.cond[n] = "True" \/ Outcome(Current, n) = "True"
        BY <4>2, NilAssumption DEF PassReports
      <4> QED
        BY <1>0, <3>1, <4>1, <4>3, OutcomeSound DEF ReadyInv
    <3>4. Recorded(job', Current, depView'.status)
      BY <1>0, <3>1, <3>2, <3>3, RecordedStays
    <3> QED
      BY <3>1, <3>2, <3>4
  <2> QED
    BY <1>4, <2>1, <2>2, <2>3, DeploymentChanges
<1> QED
  BY <1>3, <1>4 DEF Stored, Current

LEMMA InitApplied == Init => AppliedInv
<1> SUFFICES ASSUME Init PROVE AppliedInv
  OBVIOUS
<1>1. \A n \in NodeSets : nss[n] = NewStatus
  BY DEF Init, Start
<1>2. \A d \in Deployments : dep[d] = NoDeployment
  BY DEF Init, Start
<1>3. \A d \in Deployments, n \in NodeSets, s \in Services : job[d][n][s].state = "none"
  BY DEF Init, Start, NoJob
<1>4. nsView = Nil /\ depView = Nil
  BY DEF Init, Start
<1>5. HashInv
  BY <1>1, <1>4 DEF HashInv, NewStatus
<1>6. Held /\ Reading
  BY <1>2, <1>4 DEF Held, Reading, Busy, Live, NoDeployment
<1>7. Mounted
  BY <1>3 DEF Mounted
<1>8. Stored
  <2>1. /\ NoDeployment.ready = Nil /\ \A n \in NodeSets : NoDeployment.cond[n] = Nil /\ NoDeployment.data[n] = Nil
    BY DEF NoDeployment
  <2>2. Nil \notin {"True", "Backoff", "Running"}
    BY NilAssumption
  <2>3. ASSUME NEW d \in Deployments PROVE Closed(d, dep[d]) /\ Recorded(job, d, dep[d])
    <3>1. dep[d] = NoDeployment /\ Targets(d) \subseteq NodeSets
      BY <1>2, TargetsAreNodeSets
    <3> QED
      BY <2>1, <2>2, <3>1 DEF Closed, Recorded
  <2> QED
    BY <1>4, <2>3 DEF Stored
<1> QED
  BY <1>5, <1>6, <1>7, <1>8 DEF AppliedInv

\* What a deployment records for a node set, the hash of the spec and at its end
\* the version and the config maps, is what every one of its jobs there has
\* applied, for a careful user and wherever the controllers and the jobs fail.
\* Each part of the care is needed: see the observations of the README.
THEOREM RecordedIsApplied ==
    ASSUME CarefulUser PROVE Spec => []RecordedWasApplied
<1>1. Init => ReadyInv /\ ReadyWasDeployed /\ UpToDate /\ AppliedInv
  BY InitReady, InitApplied DEF Init, Start, UpToDate
<1>2. TypeOK /\ ReadyInv /\ ReadyWasDeployed /\ UpToDate /\ AppliedInv /\ [Next]_vars
        => ReadyInv' /\ ReadyWasDeployed' /\ UpToDate' /\ AppliedInv'
  <2> SUFFICES ASSUME TypeOK, ReadyInv, ReadyWasDeployed, UpToDate, AppliedInv, [Next]_vars
               PROVE  ReadyInv' /\ ReadyWasDeployed' /\ UpToDate' /\ AppliedInv'
    OBVIOUS
  <2>1. ReadyInv' /\ ReadyWasDeployed' /\ UpToDate'
    BY ReadyPreserved, UpToDatePreserved
  <2>2. HashInv'
    BY HashPreserved DEF AppliedInv
  <2>3. Held' /\ Reading' /\ Mounted' /\ Stored'
    BY HeldPreserved, ReadingPreserved, MountedPreserved, StoredPreserved
  <2> QED
    BY <2>1, <2>2, <2>3 DEF AppliedInv
<1>3. AppliedInv => RecordedWasApplied
  BY DEF AppliedInv, Stored, Recorded, AppliedAs, RecordedWasApplied, JobOf
<1> QED
  BY <1>1, <1>2, <1>3, DataPlaneTypeCorrect, PTL DEF Spec

----------------------------------------------------------------------------
(* The rollout *)

\* A deployment is done only when its services have run on all its node sets:
\* so it is stored, and so it is in the reconcile under way, which starts from
\* unknown conditions and only if the deployment has not ended.
DoneInv ==
    /\ \A d \in Deployments :
         dep[d].ready = "True" => \A n \in Targets(d) : DeployedOn(d, n)
    /\ depView # Nil =>
         /\ ~Finished(Current)
         /\ depView.step = "read" => depView.status.ready = "Unknown"
         /\ depView.status.ready = "True" => \A n \in Targets(Current) : DeployedOn(Current, n)

LEMMA InitDone == Init => DoneInv
  BY NilAssumption DEF Init, Start, NoDeployment, DoneInv

\* A pass reports a deployment done only when it has found all services run.
LEMMA PassedDone ==
    ASSUME TypeOK, DoneInv, depView # Nil, NEW st, Passed(st), st.ready = "True"
    PROVE  \A n \in Targets(Current) : DeployedOn(Current, n)
<1>1. depView.status \in DeploymentRec /\ Current \in Deployments
  BY DEF TypeOK, DeploymentViewRec, Current
<1>2. depView.status.ready = "Unknown"
  BY DEF DoneInv, Passed
<1>3. PICK o \in [NodeSets -> Conds \cup {"Retry"}], hashed \in BOOLEAN :
        /\ st = RanStatus(Current, o, hashed)
        /\ \A n \in NodeSets : o[n] = "True" => DeployedOn(Current, n)
  BY <1>1, <1>2 DEF Passed, DeploymentRec
<1>4. Summary(Current, o) = "True"
  BY <1>3, RanFields
<1>5. \A n \in Targets(Current) : o[n] = "True"
  BY <1>4 DEF Summary
<1> QED
  BY <1>1, <1>3, <1>5, TargetsAreNodeSets

\* DeploymentReady changes only when a reconcile of the deployment is patched.
LEMMA ReadyChanges ==
    ASSUME TypeOK, [Next]_vars, NEW d \in Deployments
    PROVE  \/ dep'[d].ready = dep[d].ready
           \/ DeploymentPatch /\ d = Current /\ dep'[d].ready = depView.status.ready
<1>1. CASE UNCHANGED dep
  BY <1>1
<1>2. ASSUME NEW e \in Deployments, NEW stage, dep' = [dep EXCEPT ![e].stage = stage]
      PROVE  dep'[d].ready = dep[d].ready
  <2>1. dep[d] \in DeploymentRec
    BY DEF TypeOK
  <2>2. dep'[d] = IF d = e THEN [dep[d] EXCEPT !.stage = stage] ELSE dep[d]
    BY <1>2 DEF TypeOK
  <2> QED
    BY <2>1, <2>2 DEF DeploymentRec
<1>3. CASE DeploymentPatch
  <2>1. CASE dep' = [dep EXCEPT ![Current] = depView.status]
    <3>1. dep'[d] = IF d = Current THEN depView.status ELSE dep[d]
      BY <2>1 DEF TypeOK
    <3> QED
      BY <1>3, <3>1
  <2> QED
    BY <1>1, <1>3, <2>1 DEF DeploymentPatch
<1>4. CASE DeploymentStep
  BY <1>1, <1>3, <1>4 DEF DeploymentStep, DeploymentWaits, DeploymentInputError, DeploymentRun,
              DeploymentRunFails, DeploymentPanics, RunWith
<1>5. CASE \E e \in Deployments : DeploymentRead(e)
  BY <1>1, <1>5 DEF DeploymentRead
<1> QED
  BY <1>1, <1>2, <1>4, <1>5, DeploymentChanges

LEMMA DonePreserved ==
    ASSUME TypeOK, DoneInv, [Next]_vars PROVE DoneInv'
<1>0. depView # Nil => Current \in Deployments
  BY DEF TypeOK, DeploymentViewRec, Current
<1>1. ASSUME NEW d \in Deployments, \A n \in Targets(d) : DeployedOn(d, n)
      PROVE  \A n \in Targets(d) : DeployedOn(d, n)'
  BY <1>1, DeployedStays, TargetsAreNodeSets
<1>2. ASSUME NEW d \in Deployments, dep'[d].ready = "True"
      PROVE  \A n \in Targets(d) : DeployedOn(d, n)
  BY <1>2, ReadyChanges DEF DoneInv, DeploymentPatch
<1>3. ASSUME depView' # Nil
      PROVE  /\ dep'[depView'.dep].ready \notin {"True", "Backoff"}
             /\ depView'.step = "read" => depView'.status.ready = "Unknown"
             /\ depView'.status.ready = "True" =>
                  depView'.dep \in Deployments /\ \A n \in Targets(depView'.dep) : DeployedOn(depView'.dep, n)
  <2>0. \A d \in Deployments : dep'[d].ready = dep[d].ready
    BY <1>3, ReadyChanges DEF DeploymentPatch
  <2>1. CASE UNCHANGED depView
    BY <1>0, <1>3, <2>0, <2>1 DEF DoneInv, Current, Finished
  <2>2. CASE \E e \in Deployments : DeploymentRead(e)
    <3>1. PICK e \in Deployments : DeploymentRead(e)
      BY <2>2
    <3>2. /\ depView'.status = Reset(e) /\ depView'.dep = e /\ ~Finished(e)
          /\ dep[e] \in DeploymentRec
      BY <3>1 DEF DeploymentRead, TypeOK
    <3>3. depView'.status.ready = "Unknown"
      BY <3>2 DEF Reset, DeploymentRec
    <3> QED
      BY <2>0, <3>2, <3>3 DEF Finished
  <2>3. CASE DeploymentStep
    <3>1. /\ depView # Nil /\ depView'.dep = Current /\ depView'.step = "ran"
          /\ Passed(depView'.status)
      BY <1>3, <2>3, PassStatus DEF Current
    <3>2. depView'.status.ready = "True" => \A n \in Targets(Current) : DeployedOn(Current, n)
      BY <3>1, PassedDone
    <3>3. dep'[depView'.dep].ready \notin {"True", "Backoff"}
      BY <1>0, <2>0, <3>1 DEF DoneInv, Finished
    <3> QED
      BY <1>0, <3>1, <3>2, <3>3
  <2> QED
    BY <1>3, <2>1, <2>2, <2>3, DeploymentChanges
<1>4. \A d \in Deployments : dep'[d].ready = "True" => \A n \in Targets(d) : DeployedOn(d, n)'
  BY <1>1, <1>2
<1>5. depView' # Nil /\ depView'.status.ready = "True" =>
        \A n \in Targets(depView'.dep) : \A d \in Deployments : d = depView'.dep => DeployedOn(d, n)'
  BY <1>1, <1>3
<1> QED
  BY <1>3, <1>4, <1>5 DEF DoneInv, Current, Finished

\* A value for every service of every plan.
PerService(F) ==
    F = [d \in Deployments |-> [n \in NodeSets |-> [i \in DOMAIN Plan[d][n] |-> F[d][n][i]]]]

LEMMA SamePerService ==
    ASSUME NEW F, PerService(F), NEW G, PerService(G),
           \A d \in Deployments, n \in NodeSets : \A i \in DOMAIN Plan[d][n] : F[d][n][i] = G[d][n][i]
    PROVE  F = G
<1>1. /\ F = [d \in Deployments |-> F[d]]
      /\ \A d \in Deployments : F[d] = [n \in NodeSets |-> F[d][n]]
      /\ \A d \in Deployments, n \in NodeSets : F[d][n] = [k \in DOMAIN Plan[d][n] |-> F[d][n][k]]
  BY DEF PerService
<1>2. /\ G = [d \in Deployments |-> G[d]]
      /\ \A d \in Deployments : G[d] = [n \in NodeSets |-> G[d][n]]
      /\ \A d \in Deployments, n \in NodeSets : G[d][n] = [k \in DOMAIN Plan[d][n] |-> G[d][n][k]]
  BY DEF PerService
<1>3. ASSUME NEW d \in Deployments, NEW n \in NodeSets PROVE F[d][n] = G[d][n]
  <2> DEFINE f == F[d][n]
             g == G[d][n]
  <2>1. f = [k \in DOMAIN Plan[d][n] |-> f[k]] /\ g = [k \in DOMAIN Plan[d][n] |-> g[k]]
    BY <1>1, <1>2
  <2>2. \A k \in DOMAIN Plan[d][n] : f[k] = g[k]
    OBVIOUS
  <2> HIDE DEF f, g
  <2>3. f = g
    BY <2>1, <2>2
  <2> QED
    BY <2>3 DEF f, g
<1>4. ASSUME NEW d \in Deployments PROVE F[d] = G[d]
  BY <1>1, <1>2, <1>3
<1> QED
  BY <1>1, <1>2, <1>4

\* One service has another value.
LEMMA OneService ==
    ASSUME NEW F, PerService(F), NEW G, PerService(G),
           NEW e \in Deployments, NEW m \in NodeSets, NEW i \in DOMAIN Plan[e][m], NEW v,
           \A d \in Deployments, n \in NodeSets : \A k \in DOMAIN Plan[d][n] :
              G[d][n][k] = IF d = e /\ n = m /\ k = i THEN v ELSE F[d][n][k]
    PROVE  G = [F EXCEPT ![e][m][i] = v]
<1> DEFINE row == F[e]
           cell == F[e][m]
           newCell == [cell EXCEPT ![i] = v]
           newRow == [row EXCEPT ![m] = newCell]
           H == [F EXCEPT ![e] = newRow]
<1>1. /\ F = [d \in Deployments |-> F[d]]
      /\ \A d \in Deployments : F[d] = [n \in NodeSets |-> F[d][n]]
      /\ \A d \in Deployments, n \in NodeSets : F[d][n] = [k \in DOMAIN Plan[d][n] |-> F[d][n][k]]
  BY DEF PerService
<1>2. [F EXCEPT ![e][m][i] = v] = H
  BY <1>1
<1>3. /\ cell = [k \in DOMAIN Plan[e][m] |-> cell[k]] /\ row = [n \in NodeSets |-> row[n]]
  BY <1>1
<1>4. newCell = [k \in DOMAIN Plan[e][m] |-> IF k = i THEN v ELSE cell[k]]
  <2> HIDE DEF cell
  <2> QED BY <1>3
<1>5. newRow = [n \in NodeSets |-> IF n = m THEN newCell ELSE row[n]]
  <2> HIDE DEF row, newCell
  <2> QED BY <1>3
<1>6. H = [d \in Deployments |-> IF d = e THEN newRow ELSE F[d]]
  <2> HIDE DEF newRow
  <2> QED BY <1>1
<1> HIDE DEF H, newRow, newCell
<1>7. ASSUME NEW d \in Deployments, NEW n \in NodeSets
      PROVE  H[d][n] = IF d = e /\ n = m THEN newCell ELSE F[d][n]
  <2>1. CASE d = e
    BY <1>5, <1>6, <2>1
  <2>2. CASE d # e
    BY <1>6, <2>2
  <2> QED
    BY <2>1, <2>2
<1>8. PerService(H)
  <2>1. ASSUME NEW d \in Deployments, NEW n \in NodeSets
        PROVE  H[d][n] = [k \in DOMAIN Plan[d][n] |-> H[d][n][k]]
    <3>1. CASE d = e /\ n = m
      BY <1>4, <1>7, <3>1
    <3>2. CASE ~(d = e /\ n = m)
      <4>1. H[d][n] = F[d][n]
        BY <1>7, <3>2
      <4> QED
        BY <1>1, <4>1
    <3> QED
      BY <3>1, <3>2
  <2>2. ASSUME NEW d \in Deployments PROVE H[d] = [n \in NodeSets |-> H[d][n]]
    <3>1. CASE d = e
      BY <1>5, <1>6, <3>1
    <3>2. CASE d # e
      BY <1>1, <1>6, <3>2
    <3> QED
      BY <3>1, <3>2
  <2>3. H = [d \in Deployments |-> H[d]]
    BY <1>6
  <2> DEFINE cells(d, n) == [k \in DOMAIN Plan[d][n] |-> H[d][n][k]]
             rows(d) == [n \in NodeSets |-> cells(d, n)]
  <2>4. ASSUME NEW d \in Deployments PROVE H[d] = rows(d)
    <3>1. \A n \in NodeSets : H[d][n] = cells(d, n)
      BY <2>1
    <3> HIDE DEF cells
    <3> QED
      BY <2>2, <3>1
  <2> HIDE DEF rows
  <2>5. H = [d \in Deployments |-> rows(d)]
    BY <2>3, <2>4
  <2> QED
    BY <2>5 DEF PerService, rows, cells
<1>9. ASSUME NEW d \in Deployments, NEW n \in NodeSets, NEW k \in DOMAIN Plan[d][n]
      PROVE  G[d][n][k] = H[d][n][k]
  <2>1. CASE d = e /\ n = m
    BY <1>4, <1>7, <2>1
  <2>2. CASE ~(d = e /\ n = m)
    <3>1. H[d][n] = F[d][n]
      BY <1>7, <2>2
    <3> QED
      BY <2>2, <3>1
  <2> QED
    BY <2>1, <2>2
<1>10. G = H
  BY <1>8, <1>9, SamePerService
<1> QED
  BY <1>2, <1>10

LEMMA StagesAre ==
    /\ PerService(ServiceStages) /\ PerService(ServiceStages')
    /\ \A d \in Deployments, n \in NodeSets : \A i \in DOMAIN Plan[d][n] :
         /\ Plan[d][n][i] \in Services
         /\ ServiceStages[d][n][i] = StageOf(job[d][n][Plan[d][n][i]].state)
         /\ ServiceStages'[d][n][i] = StageOf(job'[d][n][Plan[d][n][i]].state)
<1>1. PerService(ServiceStages) /\ PerService(ServiceStages')
  BY DEF ServiceStages, PerService
<1>2. \A d \in Deployments, n \in NodeSets : \A i \in DOMAIN Plan[d][n] : Plan[d][n][i] \in Services
  BY DeploymentsAssumption
<1>3. ASSUME NEW d \in Deployments, NEW n \in NodeSets, NEW i \in DOMAIN Plan[d][n]
      PROVE  /\ ServiceStages[d][n][i] = StageOf(job[d][n][Plan[d][n][i]].state)
             /\ ServiceStages'[d][n][i] = StageOf(job'[d][n][Plan[d][n][i]].state)
  BY DEF ServiceStages, JobOf
<1> QED
  BY <1>1, <1>2, <1>3

\* What a pass creates is the next service of some of the node sets.
LEMMA CreatesStart ==
    ASSUME PlanWithoutDuplicates, TypeOK, depView # Nil, NEW on, CreateJobs(Current, on), UNCHANGED dep
    PROVE  Rollout!Start(Current)
<1> DEFINE d == Current
           new == [m \in NodeSets |-> [t \in Services |->
                     IF m \in on /\ Creates(d, m, t)
                     THEN [state |-> "pending", inv |-> Nil] ELSE job[d][m][t]]]
           A == ServiceStages
           go == {n \in Targets(d) : n \in on}
<1>0. d \in Deployments
  BY DEF TypeOK, DeploymentViewRec, Current
<1> HIDE DEF d
<1>1. job' = [job EXCEPT ![d] = new]
  BY DEF CreateJobs, d
<1>2. ASSUME NEW e \in Deployments, e # d PROVE job'[e] = job[e]
  BY <1>1, <1>2 DEF TypeOK
<1>3. ASSUME NEW n \in NodeSets, NEW s \in Services
      PROVE  job'[d][n][s] = IF n \in on /\ Creates(d, n, s)
                             THEN [state |-> "pending", inv |-> Nil] ELSE job[d][n][s]
  <2>1. job'[d] = new
    <3> HIDE DEF new
    <3> QED BY <1>0, <1>1 DEF TypeOK
  <2> QED
    BY <2>1
<1>4. ASSUME NEW n \in NodeSets, NEW i \in DOMAIN Plan[d][n]
      PROVE  A'[d][n][i] = IF n \in go /\ Rollout!IsNext(d, n, i) THEN "started" ELSE A[d][n][i]
  <2> DEFINE s == Plan[d][n][i]
  <2>1. /\ s \in Services /\ A[d][n][i] = StageOf(job[d][n][s].state)
        /\ A'[d][n][i] = StageOf(job'[d][n][s].state)
    BY <1>0, StagesAre
  <2>2. Rollout!IsNext(d, n, i) <=> job[d][n][s].state = "none" /\ IsNext(d, n, i)
    <3>1. A[d][n][i] = "waiting" <=> job[d][n][s].state = "none"
      BY <2>1 DEF StageOf
    <3>2. i \in Nat /\ \A j \in 1 .. i - 1 : j \in DOMAIN Plan[d][n]
      BY <1>0, DeploymentsAssumption
    <3>3. ASSUME NEW j \in 1 .. i - 1 PROVE A[d][n][j] = "done" <=> Succeeded(d, n, j)
      <4>1. A[d][n][j] = StageOf(job[d][n][Plan[d][n][j]].state)
        BY <1>0, <3>2, StagesAre
      <4> QED
        BY <4>1 DEF StageOf, Succeeded, JobOf
    <3>4. job[d][n][s].state = "none" => ~Succeeded(d, n, i)
      BY DEF Succeeded, JobOf
    <3> QED
      BY <3>1, <3>3, <3>4 DEF Rollout!IsNext, IsNext
  <2>3. Creates(d, n, s) <=> n \in Targets(d) /\ job[d][n][s].state = "none" /\ IsNext(d, n, i)
    BY <1>0 DEF Creates, PlanWithoutDuplicates
  <2>4. CASE n \in on /\ Creates(d, n, s)
    <3>1. job'[d][n][s].state = "pending"
      BY <1>3, <2>1, <2>4
    <3>2. A'[d][n][i] = "started"
      BY <2>1, <3>1 DEF StageOf
    <3> QED
      BY <2>2, <2>3, <2>4, <3>2
  <2>5. CASE ~(n \in on /\ Creates(d, n, s))
    <3>1. job'[d][n][s] = job[d][n][s]
      BY <1>3, <2>1, <2>5
    <3> QED
      BY <2>1, <2>2, <2>3, <2>5, <3>1
  <2> QED
    BY <2>4, <2>5
<1> DEFINE upd == [n \in NodeSets |-> [i \in DOMAIN Plan[d][n] |->
                     IF n \in go /\ Rollout!IsNext(d, n, i) THEN "started" ELSE A[d][n][i]]]
<1>5. A'[d] = upd
  <2>1. A'[d] = [n \in NodeSets |-> [i \in DOMAIN Plan[d][n] |-> A'[d][n][i]]]
    BY <1>0 DEF ServiceStages
  <2> HIDE DEF A, go
  <2> QED
    BY <1>4, <2>1
<1>6. ASSUME NEW e \in Deployments, e # d PROVE A'[e] = A[e]
  BY <1>2, <1>6 DEF ServiceStages, JobOf
<1>7. A' = [A EXCEPT ![d] = upd]
  <2>1. /\ A = [e \in Deployments |-> A[e]] /\ A' = [e \in Deployments |-> A'[e]]
    BY DEF ServiceStages
  <2> HIDE DEF A, upd
  <2> QED
    BY <1>0, <1>5, <1>6, <2>1
<1>8. UNCHANGED Reported
  BY DEF Reported
<1>9. go \in SUBSET {TargetsOf[d][k] : k \in DOMAIN TargetsOf[d]}
  BY DEF Targets
<1> HIDE DEF go
<1>10. Rollout!Start(d)
  BY <1>7, <1>8, <1>9 DEF Rollout!Start
<1> QED
  BY <1>10 DEF d

\* Kubernetes completes a service, or goes on with it.
LEMMA JobCompletes ==
    ASSUME PlanWithoutDuplicates, TypeOK, JobStep
    PROVE  [Rollout!Next]_<<ServiceStages, Reported>>
<1> DEFINE A == ServiceStages
<1>1. PICK e \in Deployments, m \in NodeSets, t \in Services, new \in JobRec :
        /\ SetJob(e, m, t, job[e][m][t].state, new)
        /\ job[e][m][t].state \in {"pending", "running", "failing"}
        /\ new.state # "none"
  BY JobStepShape
<1>2. job' = [job EXCEPT ![e][m][t] = new] /\ UNCHANGED Reported
  BY <1>1 DEF SetJob, Reported
<1>3. ASSUME NEW d \in Deployments, NEW n \in NodeSets, NEW s \in Services
      PROVE  job'[d][n][s] = IF d = e /\ n = m /\ s = t THEN new ELSE job[d][n][s]
  BY <1>2 DEF TypeOK
<1>4. CASE new.state = "succeeded" /\ \E i \in DOMAIN Plan[e][m] : Plan[e][m][i] = t
  <2>1. PICK i \in DOMAIN Plan[e][m] : Plan[e][m][i] = t
    BY <1>4
  <2>2. A[e][m][i] = "started"
    BY <1>1, <2>1, StagesAre DEF StageOf
  <2>3. ASSUME NEW d \in Deployments, NEW n \in NodeSets, NEW k \in DOMAIN Plan[d][n]
        PROVE  A'[d][n][k] = IF d = e /\ n = m /\ k = i THEN "done" ELSE A[d][n][k]
    <3> DEFINE s == Plan[d][n][k]
    <3>1. /\ s \in Services /\ A[d][n][k] = StageOf(job[d][n][s].state)
          /\ A'[d][n][k] = StageOf(job'[d][n][s].state)
      BY StagesAre
    <3>2. CASE d = e /\ n = m /\ k = i
      <4>1. job'[d][n][s] = new
        BY <1>3, <2>1, <3>1, <3>2
      <4> QED
        BY <1>4, <3>1, <3>2, <4>1 DEF StageOf
    <3>3. CASE ~(d = e /\ n = m /\ k = i)
      <4>1. ~(d = e /\ n = m /\ s = t)
        BY <2>1, <3>3 DEF PlanWithoutDuplicates
      <4>2. job'[d][n][s] = job[d][n][s]
        BY <1>3, <3>1, <4>1
      <4> QED
        BY <3>1, <3>3, <4>2
    <3> QED
      BY <3>2, <3>3
  <2>5. A' = [A EXCEPT ![e][m][i] = "done"]
    <3>1. PerService(A) /\ PerService(A')
      BY StagesAre
    <3> HIDE DEF A
    <3> QED
      BY <2>3, <3>1, OneService, SMTT(30)
  <2>6. Rollout!Complete(e, m, i)
    BY <1>2, <2>2, <2>5 DEF Rollout!Complete
  <2> QED
    BY <2>6 DEF Rollout!Next
<1>5. CASE ~(new.state = "succeeded" /\ \E i \in DOMAIN Plan[e][m] : Plan[e][m][i] = t)
  <2>1. ASSUME NEW d \in Deployments, NEW n \in NodeSets, NEW k \in DOMAIN Plan[d][n]
        PROVE  A'[d][n][k] = A[d][n][k]
    <3> DEFINE s == Plan[d][n][k]
    <3>1. /\ s \in Services /\ A[d][n][k] = StageOf(job[d][n][s].state)
          /\ A'[d][n][k] = StageOf(job'[d][n][s].state)
      BY StagesAre
    <3>2. CASE d = e /\ n = m /\ s = t
      <4>1. job'[d][n][s] = new /\ new.state # "succeeded"
        BY <1>3, <1>5, <3>1, <3>2
      <4> QED
        BY <1>1, <3>1, <3>2, <4>1 DEF StageOf
    <3>3. CASE ~(d = e /\ n = m /\ s = t)
      BY <1>3, <3>1, <3>3
    <3> QED
      BY <3>2, <3>3
  <2>2. PerService(A) /\ PerService(A')
    BY StagesAre
  <2>3. A' = A
    <3> HIDE DEF A
    <3> QED
      BY <2>1, <2>2, SamePerService
  <2> QED
    BY <1>2, <2>3
<1> QED
  BY <1>4, <1>5

\* A reconcile that is patched reports what it has found, once.
LEMMA PatchReports ==
    ASSUME TypeOK, DoneInv, DeploymentPatch
    PROVE  [Rollout!Next]_<<ServiceStages, Reported>>
<1>0. depView # Nil /\ Current \in Deployments
  BY DEF DeploymentPatch, TypeOK, DeploymentViewRec, Current
<1>1. UNCHANGED ServiceStages
  BY DEF DeploymentPatch, ServiceStages, JobOf
<1>2. CASE dep' = dep
  BY <1>1, <1>2 DEF Reported
<1>3. CASE dep' = [dep EXCEPT ![Current] = depView.status]
  <2>1. \A d \in Deployments : dep'[d] = IF d = Current THEN depView.status ELSE dep[d]
    BY <1>3 DEF TypeOK
  <2>2. dep[Current].ready # "True"
    BY <1>0 DEF DoneInv, Finished
  <2>3. CASE depView.status.ready # "True"
    <3>1. Reported' = Reported
      BY <2>1, <2>2, <2>3 DEF Reported
    <3> QED
      BY <1>1, <3>1
  <2>4. CASE depView.status.ready = "True"
    <3>1. Reported' = Reported \cup {Current}
      BY <1>0, <2>1, <2>4 DEF Reported
    <3>2. ASSUME NEW k \in DOMAIN TargetsOf[Current], NEW i \in DOMAIN Plan[Current][TargetsOf[Current][k]]
          PROVE  ServiceStages[Current][TargetsOf[Current][k]][i] = "done"
      <4>1. TargetsOf[Current][k] \in Targets(Current) /\ TargetsOf[Current][k] \in NodeSets
        BY <1>0, TargetsAreNodeSets DEF Targets
      <4>2. Succeeded(Current, TargetsOf[Current][k], i)
        BY <1>0, <2>4, <4>1 DEF DoneInv, DeployedOn
      <4> QED
        BY <1>0, <4>1, <4>2, StagesAre DEF StageOf, Succeeded, JobOf
    <3>3. Rollout!Report(Current)
      BY <1>1, <3>1, <3>2 DEF Rollout!Report
    <3> QED
      BY <1>0, <3>3 DEF Rollout!Next
  <2> QED
    BY <2>3, <2>4
<1> QED
  BY <1>2, <1>3 DEF DeploymentPatch

LEMMA StepRollsOut ==
    ASSUME PlanWithoutDuplicates, TypeOK, DoneInv, [Next]_vars
    PROVE  [Rollout!Next]_<<ServiceStages, Reported>>
<1>1. CASE UNCHANGED job /\ ~DeploymentPatch
  <2>1. UNCHANGED ServiceStages
    BY <1>1 DEF ServiceStages, JobOf
  <2>2. UNCHANGED Reported
    BY <1>1, ReadyChanges DEF Reported
  <2> QED
    BY <2>1, <2>2
<1>2. ASSUME depView # Nil, NEW on, CreateJobs(Current, on), UNCHANGED dep
      PROVE  Rollout!Next
  <2>1. Current \in Deployments
    BY <1>2 DEF TypeOK, DeploymentViewRec, Current
  <2> QED
    BY <1>2, <2>1, CreatesStart DEF Rollout!Next
<1>3. CASE DeploymentRun \/ DeploymentRunFails \/ DeploymentPanics
  BY <1>2, <1>3 DEF DeploymentRun, DeploymentRunFails, DeploymentPanics, RunWith
<1>4. CASE JobStep
  BY <1>4, JobCompletes
<1>5. CASE DeploymentPatch
  BY <1>5, PatchReports
<1>6. CASE UserStep
  BY <1>1, <1>5, <1>6 DEF UserStep, EditSpec, EditData, Retarget, CreateDeployment, DeleteDeployment
<1>7. CASE Restart \/ Wake
  BY <1>1, <1>5, <1>7 DEF Restart, Wake
<1>8. CASE \E m \in NodeSets : NodeSetRead(m) \/ NodeSetRetry(m)
  BY <1>1, <1>5, <1>8 DEF NodeSetRead, NodeSetRetry
<1>9. CASE NodeSetStep
  BY <1>1, <1>5, <1>9 DEF NodeSetStep, NodeSetSetupFails, NodeSetCheck, NodeSetCheckFails,
                    NodeSetInventory, NodeSetInventoryFails, NodeSetPatch, NodeSetFails
<1>10. CASE \E e \in Deployments : DeploymentRead(e) \/ DeploymentSkip(e)
  BY <1>1, <1>5, <1>10 DEF DeploymentRead, DeploymentSkip
<1>11. CASE DeploymentWaits \/ DeploymentInputError
  BY <1>1, <1>5, <1>11 DEF DeploymentWaits, DeploymentInputError
<1>12. CASE UNCHANGED vars
  BY <1>1, <1>5, <1>12 DEF vars
<1> QED
  BY <1>3, <1>4, <1>5, <1>6, <1>7, <1>8, <1>9, <1>10, <1>11, <1>12 DEF Next, DeploymentStep

LEMMA InitRollsOut == Init => Rollout!Init
<1> SUFFICES ASSUME Init PROVE Rollout!Init
  OBVIOUS
<1>1. Reported = {}
  BY NilAssumption DEF Init, Start, NoDeployment, Reported
<1>2. ASSUME NEW d \in Deployments, NEW n \in NodeSets, NEW i \in DOMAIN Plan[d][n]
      PROVE  ServiceStages[d][n][i] = "waiting"
  <2>1. job[d][n][Plan[d][n][i]].state = "none"
    BY StagesAre DEF Init, Start, NoJob
  <2> QED
    BY <2>1, StagesAre DEF StageOf
<1>3. ServiceStages = [d \in Deployments |-> [n \in NodeSets |-> [i \in DOMAIN Plan[d][n] |-> "waiting"]]]
  <2> DEFINE W == [d \in Deployments |-> [n \in NodeSets |-> [i \in DOMAIN Plan[d][n] |-> "waiting"]]]
  <2>1. PerService(W) /\ \A d \in Deployments, n \in NodeSets : \A i \in DOMAIN Plan[d][n] : W[d][n][i] = "waiting"
    BY DEF PerService
  <2> HIDE DEF W
  <2>2. ServiceStages = W
    BY <1>2, <2>1, StagesAre, SamePerService
  <2> QED
    BY <2>2 DEF W
<1> QED
  BY <1>1, <1>3 DEF Rollout!Init

\* The controllers implement ServiceRollout: for any number of node sets,
\* deployments and services, no service is skipped, started before those that
\* precede it are done, or run twice, and success is reported only when all are
\* done and never taken back, although every reconcile forgets all it knew and
\* may fail, panic or be lost at any point.
THEOREM DeploymentsRollOut ==
    ASSUME PlanWithoutDuplicates
    PROVE  Spec => RollsOut
<1>1. TypeOK /\ DoneInv /\ [Next]_vars => DoneInv'
  BY DonePreserved
<1>2. TypeOK /\ DoneInv /\ [Next]_vars => [Rollout!Next]_<<ServiceStages, Reported>>
  BY StepRollsOut
<1>3. Spec => [](TypeOK /\ DoneInv)
  BY <1>1, InitDone, DataPlaneTypeCorrect, PTL DEF Spec
<1> QED
  BY <1>2, <1>3, InitRollsOut, PTL DEF Spec, RollsOut, Rollout!Spec
=============================================================================
