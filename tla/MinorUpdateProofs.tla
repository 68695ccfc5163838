------------------------- MODULE MinorUpdateProofs -------------------------
(***************************************************************************)
(* What holds of MinorUpdate for every set of versions, services, images   *)
(* and node sets, every user and any number of retargets and failures:     *)
(* first type correctness (TypeInv), then safety.                          *)
(*                                                                         *)
(* For every user: what the control plane records as running has been      *)
(* rolled out, and an update is only declared complete for a version that  *)
(* everything has reached. Both controllers act on copies, so neither      *)
(* property is inductive: SafetyInv also says it of the copy that the      *)
(* OpenStackVersion controller works on (SeenImages, SeenVersions) and of  *)
(* the places its data comes from (ReadyImages, ReportedVersions).         *)
(*                                                                         *)
(* For the first update of a deployment at rest, by a user who follows the *)
(* procedure: the order of the phases (OrderInv). For a first deployment   *)
(* whose target stays: its services are rolled out (FirstInv).             *)
(***************************************************************************)
EXTENDS MinorUpdate, TLAPS, WellFoundedInduction

\* What TypeOK needs to be inductive: images are known to whoever uses them.
TargetKnown ==
    /\ ver.stage # "absent" => ver.target \in Versions
    /\ ver.images # Nil => ver.stage # "absent"
    /\ ver.init => ver.images # Nil
    /\ dep.active # Nil => ver.images # Nil
    /\ cpView # Nil => (cpView.init => cpView.images # Nil)
    /\ \A s \in Services : svc[s].observed => svc[s].image # Nil

TypeInv == TypeOK /\ TargetKnown

\* The type and what supports it hold when nothing exists.
LEMMA InitTypeInv == Init => TypeInv
<1> SUFFICES ASSUME Init PROVE TypeInv
  OBVIOUS
<1> USE VersionsAssumption, ServicesAssumption, ImagesAssumption, NodeSetsAssumption
<1>1. ver \in VersionRec
  BY DEF Init, VersionRec, PhaseStates
<1>2. cp \in ControlPlaneRec
  BY DEF Init, ControlPlaneRec, CpStates
<1>3. svc \in [Services -> ServiceRec] /\ ns \in [NodeSets -> NodeSetRec]
  BY DEF Init, ServiceRec, NodeSetRec
<1>4. dep \in DeploymentsRec
  BY DEF Init, DeploymentsRec, ResultRec, NoResult
<1> QED
  BY <1>1, <1>2, <1>3, <1>4 DEF Init, TypeInv, TypeOK, TargetKnown

\* The same of the state that updates start from.
LEMMA DeployedInitTypeInv == DeployedInit => TypeInv
<1> SUFFICES ASSUME DeployedInit PROVE TypeInv
  OBVIOUS
<1> USE VersionsAssumption, ServicesAssumption, ImagesAssumption, NodeSetsAssumption
<1>1. ver \in VersionRec
  BY DEF DeployedInit, VersionRec, PhaseStates
<1>2. \A s \in Services : DeployedImage(s) \in Images \cup {Nil}
  BY DEF DeployedImage
<1>3. \A c \in CpConds : DeployedCond(c) \in CpStates
  BY DEF DeployedCond, CpStates
<1>4. cp \in ControlPlaneRec
  BY <1>2, <1>3 DEF DeployedInit, ControlPlaneRec
<1>5. svc \in [Services -> ServiceRec]
  BY DEF DeployedInit, ServiceRec
<1>6. ns \in [NodeSets -> NodeSetRec]
  BY DEF DeployedInit, NodeSetRec
<1>7. dep \in DeploymentsRec
  BY DEF DeployedInit, DeploymentsRec, ResultRec, Kinds
<1>8. rolledOut \in [Services -> SUBSET Images]
  BY DEF DeployedInit
<1> QED
  BY <1>1, <1>4, <1>5, <1>6, <1>7, <1>8
  DEF DeployedInit, TypeInv, TypeOK, TargetKnown

----------------------------------------------------------------------------

\* Every phase ends in one of the states that a condition can have.
LEMMA OutcomeType == ASSUME NEW p PROVE Outcome(p) \in PhaseStates
<1>1. OVNControlplaneOutcome \in PhaseStates
  BY DEF OVNControlplaneOutcome, PhaseStates
<1>2. OVNDataplaneOutcome \in PhaseStates
  BY DEF OVNDataplaneOutcome, PhaseStates
<1>3. ControlplaneOutcome \in PhaseStates
  BY DEF ControlplaneOutcome, PhaseStates
<1>4. DataplaneOutcome \in PhaseStates
  BY DEF DataplaneOutcome, PhaseStates
<1>5. StagedOutcome(p) \in PhaseStates
  BY DEF StagedOutcome, PhaseStates
<1> QED
  BY <1>1, <1>2, <1>3, <1>4, <1>5 DEF Outcome

\* So the conditions that a reconcile computes are well formed.
LEMMA ConditionsType ==
    ASSUME TypeOK, NEW t
    PROVE  /\ PhaseConditions \in [Phases -> PhaseStates]
           /\ InitConditions(t) \in [Phases -> PhaseStates]
<1>1. \A p \in Phases : Outcome(p) \in PhaseStates
  BY OutcomeType
<1>2. PhaseConditions \in [Phases -> PhaseStates]
  BY <1>1 DEF PhaseConditions, PhaseStates
<1>3. InitConditions(t) \in [Phases -> PhaseStates]
  BY DEF InitConditions, TypeOK, VersionRec, PhaseStates
<1> QED
  BY <1>2, <1>3

\* A patch of the OpenStackVersion keeps the type if the new status has it.
LEMMA PatchVersionType ==
    ASSUME TypeInv, NEW new \in VersionRec, PatchVersion(new), ovnSeen' \in BOOLEAN,
           ver.stage # "absent", new.stage # "absent", new.target = ver.target,
           new.init => new.images # Nil,
           ver.images # Nil => new.images # Nil
    PROVE  TypeInv'
<1>1. TypeOK'
  BY DEF PatchVersion, TypeInv, TypeOK, bounds
<1>2. TargetKnown'
  BY DEF PatchVersion, TypeInv, TargetKnown
<1> QED
  BY <1>1, <1>2 DEF TypeInv

\* What a reconcile of the OpenStackVersion reads has its type.
LEMMA VersionReadType == TypeInv /\ VersionRead => TypeInv'
<1> SUFFICES ASSUME TypeInv, VersionRead PROVE TypeInv'
  OBVIOUS
<1>1. verView' \in VersionViewRec
  BY DEF VersionRead, TypeInv, TypeOK, TargetKnown, VersionViewRec
<1>2. TypeOK'
  BY <1>1 DEF VersionRead, TypeInv, TypeOK, objects, history, bounds
<1>3. TargetKnown'
  BY DEF VersionRead, TypeInv, TargetKnown, objects
<1> QED
  BY <1>2, <1>3 DEF TypeInv

\* Each way a reconcile of the OpenStackVersion can end keeps the type.
LEMMA VersionReconcileType == TypeInv /\ VersionReconcile => TypeInv'
<1> SUFFICES ASSUME TypeInv, VersionReconcile PROVE TypeInv'
  OBVIOUS
<1> DEFINE t == verView.target
<1>1. ver \in VersionRec /\ ovnSeen \in BOOLEAN /\ TargetKnown /\ TypeOK
  BY DEF TypeInv, TypeOK
<1>2. KnownDefaults \in SUBSET Versions
  BY DEF KnownDefaults, TypeInv, TypeOK, VersionRec
<1>3. InitConditions(t) \in [Phases -> PhaseStates]
      /\ PhaseConditions \in [Phases -> PhaseStates]
  BY <1>1, ConditionsType
<1>4. CASE VersionAdopt
  <2> DEFINE new == [ver EXCEPT !.stage = "up"]
  <2>1. /\ new \in VersionRec /\ new.stage # "absent" /\ new.target = ver.target
        /\ new.init = ver.init /\ new.images = ver.images
    BY <1>1 DEF VersionRec
  <2>2. ovnSeen' \in BOOLEAN /\ ver.stage # "absent" /\ PatchVersion(new)
    BY <1>1, <1>4 DEF VersionAdopt
  <2> QED
    BY <1>1, <2>1, <2>2, PatchVersionType DEF TargetKnown
<1>5. CASE VersionUnknownTarget
  <2> DEFINE new == [ver EXCEPT !.known = KnownDefaults, !.init = FALSE,
                                !.cond = InitConditions(t)]
  <2>1. /\ new \in VersionRec /\ new.stage = ver.stage /\ new.target = ver.target
        /\ new.init = FALSE /\ new.images = ver.images
    BY <1>1, <1>2, <1>3 DEF VersionRec
  <2>2. ovnSeen' \in BOOLEAN /\ ver.stage = "up" /\ PatchVersion(new)
    BY <1>1, <1>5 DEF VersionUnknownTarget
  <2> QED
    BY <1>1, <2>1, <2>2, PatchVersionType
<1>6. ASSUME t \in KnownDefaults
      PROVE  /\ InitializedStatus \in VersionRec
             /\ InitializedStatus.stage = ver.stage
             /\ InitializedStatus.target = ver.target
             /\ InitializedStatus.images = t
             /\ t \in Versions
             /\ t # Nil
  BY <1>1, <1>2, <1>3, <1>6, VersionsAssumption DEF InitializedStatus, VersionRec
<1>7. CASE VersionInitialize
  <2>1. /\ t \in KnownDefaults /\ ver.stage = "up"
        /\ PatchVersion(InitializedStatus) /\ ovnSeen' \in BOOLEAN
    BY <1>1, <1>7 DEF VersionInitialize
  <2> QED
    BY <1>1, <1>6, <2>1, PatchVersionType
<1>8. CASE VersionUpdate
  <2> DEFINE updating == Updating(t)
             done == (updating => UpdateComplete) /\ IsReady(verView.cp)
             new == [InitializedStatus EXCEPT
                       !.cond = IF updating THEN PhaseConditions ELSE @,
                       !.deployed = IF done THEN t ELSE @]
  <2>1. t \in KnownDefaults /\ ver.stage = "up" /\ PatchVersion(new)
    BY <1>8 DEF VersionUpdate
  <2>2. ovnSeen' \in BOOLEAN
    BY <1>8 DEF VersionUpdate
  <2>3. /\ new \in VersionRec /\ new.stage = ver.stage /\ new.target = ver.target
        /\ new.images = t
    <3> HIDE DEF updating, done
    <3> QED
      BY <1>3, <1>6, <2>1 DEF VersionRec
  <2> HIDE DEF new
  <2> QED
    BY <1>1, <1>6, <2>1, <2>2, <2>3, PatchVersionType
<1> QED
  BY <1>4, <1>5, <1>7, <1>8 DEF VersionReconcile

----------------------------------------------------------------------------

\* What a reconcile of the control plane reads has its type.
LEMMA ControlPlaneReadType == TypeInv /\ ControlPlaneRead => TypeInv'
<1> SUFFICES ASSUME TypeInv, ControlPlaneRead PROVE TypeInv'
  OBVIOUS
<1>1. TypeOK'
  BY DEF ControlPlaneRead, TypeInv, TypeOK, objects, history, bounds
<1>2. TargetKnown'
  BY DEF ControlPlaneRead, TypeInv, TargetKnown, objects
<1> QED
  BY <1>1, <1>2 DEF TypeInv

\* A patch of the control plane keeps the type if what it writes has it.
LEMMA PatchControlPlaneType ==
    ASSUME TypeInv, NEW new \in ControlPlaneRec, NEW newSvc \in [Services -> ServiceRec],
           NEW requeue \in BOOLEAN, PatchControlPlane(new, newSvc, requeue),
           \A s \in Services : newSvc[s].observed => newSvc[s].image # Nil,
           verQueue' \in BOOLEAN, disturbances' \in Nat, ver' \in VersionRec,
           ver' = ver \/ (ver.stage = "absent" /\ ver' = NewVersion(env))
    PROVE  TypeInv'
<1>1. TypeOK'
  BY DEF PatchControlPlane, TypeInv, TypeOK, history
<1>2. CASE ver' = ver
  BY <1>1, <1>2 DEF PatchControlPlane, TypeInv, TargetKnown
<1>3. CASE ver.stage = "absent" /\ ver' = NewVersion(env)
  <2>1. /\ ver'.stage = "new" /\ ver'.target = env /\ ver'.images = ver.images
        /\ ver'.init = ver.init
    BY <1>3 DEF NewVersion, TypeInv, TypeOK, VersionRec
  <2> QED
    BY <1>1, <1>3, <2>1 DEF PatchControlPlane, TypeInv, TypeOK, TargetKnown
<1> QED
  BY <1>2, <1>3

\* Each way a reconcile of the control plane can end keeps the type.
LEMMA ControlPlaneStepType == TypeInv /\ ControlPlaneStep => TypeInv'
<1> SUFFICES ASSUME TypeInv, ControlPlaneStep PROVE TypeInv'
  OBVIOUS
<1>1. /\ cp \in ControlPlaneRec /\ ver \in VersionRec /\ env \in Versions
      /\ svc \in [Services -> ServiceRec] /\ verQueue \in BOOLEAN
      /\ disturbances \in Nat /\ (cpView # Nil => cpView \in VersionRec)
      /\ \A s \in Services : svc[s].observed => svc[s].image # Nil
  BY DEF TypeInv, TypeOK, TargetKnown
<1>2. \A c \in CpConds : InitCond(c) \in CpStates
  BY <1>1 DEF InitCond, ControlPlaneRec, CpStates
<1>3. NewVersion(env) \in VersionRec
  BY <1>1 DEF NewVersion, VersionRec
<1>4. CASE ControlPlaneAdopt
  <2> DEFINE new == [cp EXCEPT !.stage = "up",
                               !.cond = [c \in CpConds |-> InitCond(c)]]
  <2>1. new \in ControlPlaneRec
    BY <1>1, <1>2 DEF ControlPlaneRec
  <2>2. /\ PatchControlPlane(new, svc, FALSE) /\ verQueue' \in BOOLEAN
        /\ ver' = ver /\ disturbances' = disturbances
    BY <1>4 DEF ControlPlaneAdopt
  <2> HIDE DEF new
  <2> QED
    BY <1>1, <2>1, <2>2, PatchControlPlaneType
<1>5. CASE ControlPlaneAwaitVersion
  <2> DEFINE new == [cp EXCEPT !.cond = [c \in CpConds |->
                       IF c = "version" THEN "False" ELSE InitCond(c)]]
  <2>1. new \in ControlPlaneRec
    BY <1>1, <1>2 DEF ControlPlaneRec, CpStates
  <2>2. /\ PatchControlPlane(new, svc, ver.stage = "absent") /\ verQueue' \in BOOLEAN
        /\ ver' = (IF ver.stage = "absent" THEN NewVersion(env) ELSE ver)
        /\ disturbances' = disturbances
    BY <1>5 DEF ControlPlaneAwaitVersion
  <2> HIDE DEF new
  <2> QED
    BY <1>1, <1>3, <2>1, <2>2, PatchControlPlaneType
<1>6. ASSUME NEW k \in 0..(Len(StagedOrder) + Len(NormalOrder)), ControlPlaneReconcile(k)
      PROVE  TypeInv'
  <2>1. cpView \in VersionRec /\ cpView.images \in Versions
    BY <1>1, <1>6 DEF ControlPlaneReconcile, TypeInv, TargetKnown, VersionRec
  <2>2. \A s \in Services : VersionImage(s) \in Images
    BY <2>1, ImagesAssumption DEF VersionImage
  <2>3. \A s \in Services : RecordedImage(s) \in Images \cup {Nil}
    BY <1>1, <2>2 DEF RecordedImage, ControlPlaneRec
  <2>4. \A s \in Services : PatchedService(s) \in ServiceRec
    BY <1>1, <2>2 DEF PatchedService, ServiceRec
  <2>11. \A s \in Services : PatchedService(s).image # Nil
    BY <1>1, <2>2, ImagesAssumption DEF PatchedService, ServiceRec
  <2>5. \A W, F : \A c \in CpConds : PassCond(c, W, F) \in CpStates
    BY <1>2 DEF PassCond, ServiceCond, DisabledCond, CpStates
  <2> DEFINE W == {Plan[i] : i \in 1..k}
             F == IF k < Len(Plan) THEN {Plan[k + 1]} ELSE {}
             complete == k = Len(Plan)
             new == [cp EXCEPT
                       !.images = [s \in Services |->
                           IF s \in W THEN RecordedImage(s) ELSE cp.images[s]],
                       !.cond = [c \in CpConds |-> PassCond(c, W, F)],
                       !.deployed = IF complete /\ FullPass THEN cpView.target ELSE @,
                       !.ovnVersion = IF complete /\ ~NormalPass /\ ~OvnPhaseDone
                                      THEN cpView.target ELSE @]
             newSvc == [s \in Services |->
                           IF s \in W \cap Enabled /\ HasWorkload(s)
                           THEN PatchedService(s) ELSE svc[s]]
  <2>6. /\ PatchControlPlane(new, newSvc, ~complete)
        /\ verQueue' = (verQueue \/ (new # cp /\ ver.stage # "absent"))
        /\ disturbances' = (IF complete THEN disturbances ELSE disturbances + 1)
        /\ ver' = ver
    BY <1>6 DEF ControlPlaneReconcile
  <2> HIDE DEF W, F, complete
  <2>7. new \in ControlPlaneRec
    BY <1>1, <2>1, <2>3, <2>5 DEF ControlPlaneRec, VersionRec
  <2>8. /\ newSvc \in [Services -> ServiceRec]
        /\ \A s \in Services : newSvc[s].observed => newSvc[s].image # Nil
    BY <1>1, <2>4, <2>11
  <2> HIDE DEF new, newSvc
  <2>9. verQueue' \in BOOLEAN /\ disturbances' \in Nat /\ (~complete) \in BOOLEAN
    BY <1>1, <2>6
  <2> QED
    BY <1>1, <2>6, <2>7, <2>8, <2>9, PatchControlPlaneType
<1> QED
  BY <1>4, <1>5, <1>6 DEF ControlPlaneStep

----------------------------------------------------------------------------

\* Every step of the user keeps the type.
LEMMA UserType == TypeInv /\ User => TypeInv'
<1> SUFFICES ASSUME TypeInv, User PROVE TypeInv'
  OBVIOUS
<1> USE DEF TypeInv
<1>1. /\ cp \in ControlPlaneRec /\ ver \in VersionRec /\ env \in Versions
      /\ ns \in [NodeSets -> NodeSetRec] /\ dep \in DeploymentsRec
      /\ retargets \in Nat /\ disturbances \in Nat
  BY DEF TypeOK
<1>2. CASE CreateControlPlane
  <2>1. cp' \in ControlPlaneRec
    BY <1>1, <1>2 DEF CreateControlPlane, ControlPlaneRec
  <2> QED
    BY <1>2, <2>1 DEF CreateControlPlane, TypeOK, TargetKnown, history, bounds
<1>3. CASE CreateVersion
  <2>1. /\ ver' \in VersionRec /\ ver'.stage = "new" /\ ver'.target = env
        /\ ver'.images = ver.images /\ ver'.init = ver.init
    BY <1>1, <1>3 DEF CreateVersion, NewVersion, VersionRec
  <2>2. TypeOK'
    BY <1>3, <2>1 DEF CreateVersion, TypeOK, history, bounds
  <2>3. TargetKnown'
    BY <1>1, <1>3, <2>1 DEF CreateVersion, TargetKnown
  <2> QED
    BY <2>2, <2>3
<1>4. ASSUME NEW v \in Versions, Retarget(v) PROVE TypeInv'
  <2>1. /\ ver' \in VersionRec /\ ver'.stage = ver.stage /\ ver'.target = v
        /\ ver'.images = ver.images /\ ver'.init = ver.init
    BY <1>1, <1>4 DEF Retarget, VersionRec
  <2>2. dep' \in DeploymentsRec /\ dep'.active = dep.active
    BY <1>1, <1>4 DEF Retarget, DeploymentsRec
  <2>8. retargets' = retargets + 1 /\ ovnSeen' = FALSE
    BY <1>4, Zenon DEF Retarget
  <2>9. retargets' \in Nat
    BY <1>1, <2>8
  <2>3. retargets' \in Nat /\ ovnSeen' \in BOOLEAN
    BY <2>8, <2>9, Zenon
  <2>4. verQueue' \in BOOLEAN /\ cpQueue' \in BOOLEAN
    BY <1>4 DEF Retarget
  <2>5. UNCHANGED <<env, cp, svc, ns, verView, cpView, rolledOut, updatedTo, disturbances>>
    BY <1>4 DEF Retarget
  <2>6. TypeOK'
    BY <2>1, <2>2, <2>3, <2>4, <2>5 DEF TypeOK
  <2>7. TargetKnown'
    BY <1>4, <2>1, <2>2, <2>5 DEF Retarget, TargetKnown
  <2> QED
    BY <2>6, <2>7
<1>5. ASSUME NEW v \in Versions, UpgradeOperator(v) PROVE TypeInv'
  BY <1>5 DEF UpgradeOperator, TypeOK, TargetKnown, objects, history, bounds
<1>6. ASSUME NEW kind \in Kinds, CreateDeployment(kind) PROVE TypeInv'
  <2>1. dep' \in DeploymentsRec
    BY <1>1, <1>6 DEF CreateDeployment, DeploymentsRec
  <2>2. TypeOK'
    BY <1>1, <1>6, <2>1 DEF CreateDeployment, TypeOK, history
  <2>3. TargetKnown'
    BY <1>6 DEF CreateDeployment, TargetKnown
  <2> QED
    BY <2>2, <2>3
<1>7. CASE DeleteFailedDeployments
  <2>1. dep' \in DeploymentsRec /\ dep'.active = dep.active
    BY <1>1, <1>7 DEF DeleteFailedDeployments, DeploymentsRec
  <2> QED
    BY <1>7, <2>1 DEF DeleteFailedDeployments, TypeOK, TargetKnown, history, bounds
<1>8. ASSUME NEW n \in NodeSets, EditNodeSet(n) PROVE TypeInv'
  <2>1. ns' \in [NodeSets -> NodeSetRec]
    BY <1>1, <1>8 DEF EditNodeSet, NodeSetRec
  <2> QED
    BY <1>1, <1>8, <2>1 DEF EditNodeSet, TypeOK, TargetKnown, history
<1> QED
  BY <1>2, <1>3, <1>4, <1>5, <1>6, <1>7, <1>8 DEF User

\* Every step of the service operators and of the data plane keeps the type.
LEMMA EnvironmentType == TypeInv /\ Environment => TypeInv'
<1> SUFFICES ASSUME TypeInv, Environment PROVE TypeInv'
  OBVIOUS
<1> USE DEF TypeInv
<1>1. /\ svc \in [Services -> ServiceRec] /\ ns \in [NodeSets -> NodeSetRec]
      /\ dep \in DeploymentsRec /\ ver \in VersionRec /\ disturbances \in Nat
      /\ rolledOut \in [Services -> SUBSET Images] /\ updatedTo \subseteq Versions
      /\ \A s \in Services : svc[s].observed => svc[s].image # Nil
  BY DEF TypeOK, TargetKnown
<1>2. ASSUME NEW s \in Services, ServiceObserve(s) PROVE TypeInv'
  <2>1. /\ svc' \in [Services -> ServiceRec]
        /\ \A q \in Services : svc'[q].observed => svc'[q].image # Nil
    BY <1>1, <1>2 DEF ServiceObserve, ServiceRec
  <2> QED
    BY <1>2, <2>1 DEF ServiceObserve, TypeOK, TargetKnown, history, bounds
<1>3. ASSUME NEW s \in Services, ServiceReady(s) PROVE TypeInv'
  <2>1. /\ svc' \in [Services -> ServiceRec]
        /\ \A q \in Services : svc'[q].observed => svc'[q].image # Nil
    BY <1>1, <1>3 DEF ServiceReady, ServiceRec
  <2>2. rolledOut' \in [Services -> SUBSET Images]
    BY <1>1, <1>3 DEF ServiceReady, ServiceRec
  <2> QED
    BY <1>3, <2>1, <2>2 DEF ServiceReady, TypeOK, TargetKnown, bounds
<1>4. ASSUME NEW s \in Services, ServiceFlap(s) PROVE TypeInv'
  <2>1. /\ svc' \in [Services -> ServiceRec]
        /\ \A q \in Services : svc'[q].observed => svc'[q].image # Nil
    BY <1>1, <1>4 DEF ServiceFlap, ServiceRec
  <2> QED
    BY <1>1, <1>4, <2>1 DEF ServiceFlap, TypeOK, TargetKnown, history
<1>5. ASSUME NEW n \in NodeSets, NodeSetReconcile(n) PROVE TypeInv'
  <2>1. MatchingResult(n) \in ResultRec
    BY <1>1 DEF MatchingResult, NoResult, DeploymentsRec, ResultRec
  <2>2. NodeSetStatus(n) \in NodeSetRec
    BY <1>1, <2>1 DEF NodeSetStatus, ResultRec, NodeSetRec, DeploymentsRec
  <2>3. ns' \in [NodeSets -> NodeSetRec]
    BY <1>1, <1>5, <2>2 DEF NodeSetReconcile
  <2>4. dep' \in DeploymentsRec /\ dep'.active = dep.active
    BY <1>1, <1>5, <2>1 DEF NodeSetReconcile, DeploymentsRec
  <2> QED
    BY <1>5, <2>3, <2>4 DEF NodeSetReconcile, TypeOK, TargetKnown, history, bounds
<1>6. CASE FinishDeployment
  <2>1. ver.images \in Versions /\ ver.target \in Versions
    BY <1>1, <1>6 DEF FinishDeployment, TargetKnown, VersionRec
  <2>2. ImageOf["ovn"][ver.images] \in Images
    BY <2>1, ImagesAssumption, ServicesAssumption
  <2>3. dep' \in DeploymentsRec /\ dep'.active = Nil
    BY <1>1, <1>6, <2>1, <2>2 DEF FinishDeployment, DeploymentsRec, ResultRec
  <2>4. updatedTo' \subseteq Versions
    BY <1>1, <1>6, <2>1 DEF FinishDeployment
  <2> QED
    BY <1>6, <2>3, <2>4 DEF FinishDeployment, TypeOK, TargetKnown, bounds
<1>7. CASE FailDeployment
  <2>1. dep' \in DeploymentsRec /\ dep'.active = Nil
    BY <1>1, <1>7 DEF FailDeployment, DeploymentsRec
  <2> QED
    BY <1>1, <1>7, <2>1 DEF FailDeployment, TypeOK, TargetKnown, history
<1> QED
  BY <1>2, <1>3, <1>4, <1>5, <1>6, <1>7 DEF Environment

\* Every step keeps the type.
LEMMA NextType == TypeInv /\ [Next]_vars => TypeInv'
<1> SUFFICES ASSUME TypeInv, [Next]_vars PROVE TypeInv'
  OBVIOUS
<1>1. CASE UNCHANGED vars
  BY <1>1 DEF vars, objects, history, bounds, TypeInv, TypeOK, TargetKnown
<1>2. CASE Controllers
  BY <1>2, VersionReadType, VersionReconcileType, ControlPlaneReadType, ControlPlaneStepType
  DEF Controllers
<1>3. CASE User
  BY <1>3, UserType
<1>4. CASE Environment
  BY <1>4, EnvironmentType
<1> QED
  BY <1>1, <1>2, <1>3, <1>4 DEF Next

\* Type correctness, from an empty cluster: no controller ever stores a status
\* that another one cannot read, in particular no image of an unknown version.
THEOREM TypeCorrect == Spec => []TypeOK
<1>1. TypeInv => TypeOK
  BY DEF TypeInv
<1> QED
  BY <1>1, InitTypeInv, NextType, PTL DEF Spec

\* Type correctness of the updates of a deployment at rest.
THEOREM DeployedTypeCorrect == DeployedSpec => []TypeOK
<1>1. TypeInv => TypeOK
  BY DEF TypeInv
<1> QED
  BY <1>1, DeployedInitTypeInv, NextType, PTL DEF DeployedSpec

----------------------------------------------------------------------------
\* A CR whose generation is observed and ready runs the image it asks for.
ReadyImages ==
    \A s \in Services : svc[s].observed /\ svc[s].ready => svc[s].image \in rolledOut[s]

\* The recorded images of the copy have been rolled out.
SeenImages ==
    verView # Nil =>
        \A s \in Services : HasWorkload(s) /\ verView.cp.images[s] # Nil =>
                               verView.cp.images[s] \in rolledOut[s]

\* A version that a deployment or a node set reports is one that an update
\* deployment has finished for.
ReportedVersions ==
    \A n \in NodeSets :
        /\ dep.result[n].version # Nil => dep.result[n].version \in updatedTo
        /\ ns[n].version # Nil => ns[n].version \in updatedTo

\* So is a version that the copy holds.
SeenVersions ==
    verView # Nil =>
        \A n \in NodeSets : verView.ns[n].version # Nil =>
                               verView.ns[n].version \in updatedTo

SafetyInv ==
    RecordedWasRolledOut /\ ReadyImages /\ SeenImages /\ ReportedVersions /\ SeenVersions

\* Nothing has been recorded when nothing exists.
LEMMA InitSafety == Init => SafetyInv
<1> SUFFICES ASSUME Init PROVE SafetyInv
  OBVIOUS
<1>1. RecordedWasRolledOut /\ ReadyImages
  BY DEF Init, RecordedWasRolledOut, ReadyImages
<1>2. SeenImages /\ SeenVersions
  BY DEF Init, SeenImages, SeenVersions
<1>3. ReportedVersions
  BY DEF Init, ReportedVersions, NoResult
<1> QED
  BY <1>1, <1>2, <1>3 DEF SafetyInv

\* The deployed version 1 has been rolled out.
LEMMA DeployedInitSafety == DeployedInit => SafetyInv
<1> SUFFICES ASSUME DeployedInit PROVE SafetyInv
  OBVIOUS
<1>1. RecordedWasRolledOut
  BY DEF DeployedInit, RecordedWasRolledOut, DeployedImage
<1>2. ReadyImages
  BY DEF DeployedInit, ReadyImages
<1>3. SeenImages /\ SeenVersions
  BY DEF DeployedInit, SeenImages, SeenVersions
<1>4. ReportedVersions
  BY DEF DeployedInit, ReportedVersions
<1> QED
  BY <1>1, <1>2, <1>3, <1>4 DEF SafetyInv

----------------------------------------------------------------------------

\* A step that leaves all of this alone, or drops the copy, keeps it.
LEMMA SafetyFrame ==
    ASSUME SafetyInv, UNCHANGED <<svc, ns, rolledOut, updatedTo>>,
           cp'.images = cp.images, dep'.result = dep.result,
           verView' \in {verView, Nil}
    PROVE  SafetyInv'
<1>1. RecordedWasRolledOut' /\ ReadyImages'
  BY DEF SafetyInv, RecordedWasRolledOut, ReadyImages, HasWorkload
<1>2. SeenImages' /\ SeenVersions'
  BY DEF SafetyInv, SeenImages, SeenVersions, HasWorkload
<1>3. ReportedVersions'
  BY DEF SafetyInv, ReportedVersions
<1> QED
  BY <1>1, <1>2, <1>3 DEF SafetyInv

\* The OpenStackVersion controller copies recorded images and versions.
LEMMA VersionSafety ==
    TypeInv /\ SafetyInv /\ (VersionRead \/ VersionReconcile) => SafetyInv'
<1> SUFFICES ASSUME TypeInv, SafetyInv, VersionRead \/ VersionReconcile PROVE SafetyInv'
  OBVIOUS
<1>1. CASE VersionRead
  <2>1. /\ verView' = [target |-> ver.target, cp |-> cp, ns |-> ns]
        /\ UNCHANGED <<cp, svc, ns, dep, rolledOut, updatedTo>>
    BY <1>1 DEF VersionRead, objects, history
  <2>2. RecordedWasRolledOut' /\ ReadyImages' /\ ReportedVersions'
    BY <2>1 DEF SafetyInv, RecordedWasRolledOut, ReadyImages, ReportedVersions, HasWorkload
  <2>3. SeenImages'
    BY <2>1 DEF SafetyInv, RecordedWasRolledOut, SeenImages, HasWorkload
  <2>4. SeenVersions'
    BY <2>1 DEF SafetyInv, ReportedVersions, SeenVersions
  <2> QED
    BY <2>2, <2>3, <2>4 DEF SafetyInv
<1>2. CASE VersionReconcile
  <2>1. verView' = Nil /\ UNCHANGED <<cp, svc, ns, dep, rolledOut, updatedTo>>
    BY <1>2 DEF VersionReconcile, VersionAdopt, VersionUnknownTarget,
                VersionInitialize, VersionUpdate, PatchVersion
  <2> QED
    BY <2>1, SafetyFrame
<1> QED
  BY <1>1, <1>2

\* The control plane records an image only of a CR that is observed and ready,
\* and a CR it changes is no longer observed.
LEMMA ControlPlaneSafety ==
    TypeInv /\ SafetyInv /\ (ControlPlaneRead \/ ControlPlaneStep) => SafetyInv'
<1> SUFFICES ASSUME TypeInv, SafetyInv, ControlPlaneRead \/ ControlPlaneStep
             PROVE SafetyInv'
  OBVIOUS
<1>1. cp \in ControlPlaneRec /\ svc \in [Services -> ServiceRec]
  BY DEF TypeInv, TypeOK
<1>2. CASE ControlPlaneRead
  <2>1. UNCHANGED <<cp, svc, ns, dep, rolledOut, updatedTo, verView>>
    BY <1>2 DEF ControlPlaneRead, objects, history
  <2> QED
    BY <2>1, SafetyFrame
<1>3. CASE ControlPlaneAdopt \/ ControlPlaneAwaitVersion
  <2>1. /\ UNCHANGED <<svc, ns, dep, rolledOut, updatedTo, verView>>
        /\ cp'.images = cp.images
    BY <1>1, <1>3 DEF ControlPlaneAdopt, ControlPlaneAwaitVersion, PatchControlPlane,
                      history, ControlPlaneRec
  <2> QED
    BY <2>1, SafetyFrame
<1>4. ASSUME NEW k \in 0..(Len(StagedOrder) + Len(NormalOrder)), ControlPlaneReconcile(k)
      PROVE  SafetyInv'
  <2> DEFINE W == {Plan[i] : i \in 1..k}
  <2>1. /\ \A s \in Services :
             cp'.images[s] = (IF s \in W THEN RecordedImage(s) ELSE cp.images[s])
        /\ \A s \in Services : svc'[s] \in {PatchedService(s), svc[s]}
    <3> HIDE DEF W
    <3>1. cp'.images = [s \in Services |->
                          IF s \in W THEN RecordedImage(s) ELSE cp.images[s]]
      BY <1>1, <1>4 DEF ControlPlaneReconcile, PatchControlPlane, ControlPlaneRec, W
    <3>2. svc' = [s \in Services |-> IF s \in W \cap Enabled /\ HasWorkload(s)
                                     THEN PatchedService(s) ELSE svc[s]]
      BY <1>4 DEF ControlPlaneReconcile, PatchControlPlane, W
    <3> QED
      BY <3>1, <3>2
  <2>2. UNCHANGED <<ns, dep, rolledOut, updatedTo, verView>>
    BY <1>4 DEF ControlPlaneReconcile, PatchControlPlane, history
  <2> HIDE DEF W
  <2>3. RecordedWasRolledOut'
    <3> SUFFICES ASSUME NEW s \in Services, HasWorkload(s), cp'.images[s] # Nil
                 PROVE  cp'.images[s] \in rolledOut[s]
      BY <2>2 DEF RecordedWasRolledOut, HasWorkload
    <3>1. CASE cp'.images[s] = cp.images[s]
      BY <3>1 DEF SafetyInv, RecordedWasRolledOut
    <3>2. CASE cp'.images[s] = RecordedImage(s)
      BY <3>1, <3>2 DEF RecordedImage, RunsVersionImage, SafetyInv, ReadyImages
    <3> QED
      BY <2>1, <3>1, <3>2
  <2>4. ReadyImages'
    <3> SUFFICES ASSUME NEW s \in Services, svc'[s].observed, svc'[s].ready
                 PROVE  svc'[s].image \in rolledOut[s]
      BY <2>2 DEF ReadyImages
    <3>1. CASE svc'[s] = svc[s]
      BY <3>1 DEF SafetyInv, ReadyImages
    <3>2. CASE svc'[s] = PatchedService(s)
      BY <1>1, <3>2 DEF PatchedService, ServiceRec, SafetyInv, ReadyImages
    <3> QED
      BY <2>1, <3>1, <3>2
  <2>5. SeenImages' /\ SeenVersions' /\ ReportedVersions'
    BY <2>2 DEF SafetyInv, SeenImages, SeenVersions, ReportedVersions, HasWorkload
  <2> QED
    BY <2>3, <2>4, <2>5 DEF SafetyInv
<1> QED
  BY <1>2, <1>3, <1>4 DEF ControlPlaneStep

\* The user changes none of it.
LEMMA UserSafety == TypeInv /\ SafetyInv /\ User => SafetyInv'
<1> SUFFICES ASSUME TypeInv, SafetyInv, User PROVE SafetyInv'
  OBVIOUS
<1>1. cp \in ControlPlaneRec /\ dep \in DeploymentsRec /\ ns \in [NodeSets -> NodeSetRec]
  BY DEF TypeInv, TypeOK
<1>2. CASE CreateControlPlane
  <2>1. /\ UNCHANGED <<svc, ns, dep, rolledOut, updatedTo, verView>>
        /\ cp'.images = cp.images
    BY <1>1, <1>2 DEF CreateControlPlane, history, ControlPlaneRec
  <2> QED
    BY <2>1, SafetyFrame
<1>3. CASE CreateVersion
  BY <1>3, SafetyFrame DEF CreateVersion, history
<1>4. ASSUME NEW v \in Versions, Retarget(v) PROVE SafetyInv'
  <2>1. /\ UNCHANGED <<cp, svc, ns, rolledOut, updatedTo, verView>>
        /\ dep'.result = dep.result
    BY <1>1, <1>4 DEF Retarget, DeploymentsRec
  <2> QED
    BY <2>1, SafetyFrame
<1>5. ASSUME NEW v \in Versions, UpgradeOperator(v) PROVE SafetyInv'
  BY <1>5, SafetyFrame DEF UpgradeOperator, objects, history
<1>6. ASSUME NEW kind \in Kinds, CreateDeployment(kind) PROVE SafetyInv'
  <2>1. /\ UNCHANGED <<cp, svc, ns, rolledOut, updatedTo, verView>>
        /\ dep'.result = dep.result
    BY <1>1, <1>6 DEF CreateDeployment, DeploymentsRec, history
  <2> QED
    BY <2>1, SafetyFrame
<1>7. CASE DeleteFailedDeployments
  <2>1. /\ UNCHANGED <<cp, svc, ns, rolledOut, updatedTo, verView>>
        /\ dep'.result = dep.result
    BY <1>1, <1>7 DEF DeleteFailedDeployments, DeploymentsRec, history
  <2> QED
    BY <2>1, SafetyFrame
<1>8. ASSUME NEW n \in NodeSets, EditNodeSet(n) PROVE SafetyInv'
  <2>1. /\ UNCHANGED <<cp, svc, dep, rolledOut, updatedTo, verView>>
        /\ \A m \in NodeSets : ns'[m].version = ns[m].version
    BY <1>1, <1>8 DEF EditNodeSet, NodeSetRec, history
  <2> QED
    BY <2>1 DEF SafetyInv, RecordedWasRolledOut, ReadyImages, SeenImages,
                ReportedVersions, SeenVersions, HasWorkload
<1> QED
  BY <1>2, <1>3, <1>4, <1>5, <1>6, <1>7, <1>8 DEF User

\* A roll-out and a finished update deployment are where new images and
\* versions come from, and both are remembered.
LEMMA EnvironmentSafety == TypeInv /\ SafetyInv /\ Environment => SafetyInv'
<1> SUFFICES ASSUME TypeInv, SafetyInv, Environment PROVE SafetyInv'
  OBVIOUS
<1>1. /\ svc \in [Services -> ServiceRec] /\ dep \in DeploymentsRec
      /\ ns \in [NodeSets -> NodeSetRec] /\ rolledOut \in [Services -> SUBSET Images]
  BY DEF TypeInv, TypeOK
<1>2. ASSUME NEW s \in Services,
             ServiceObserve(s) \/ ServiceFlap(s)
      PROVE  SafetyInv'
  <2>1. /\ UNCHANGED <<cp, ns, dep, rolledOut, updatedTo, verView>>
        /\ \A q \in Services : svc'[q] = svc[q] \/ ~svc'[q].ready
    BY <1>1, <1>2 DEF ServiceObserve, ServiceFlap, ServiceRec, history
  <2>2. ReadyImages'
    BY <2>1 DEF SafetyInv, ReadyImages
  <2> QED
    BY <2>1, <2>2 DEF SafetyInv, RecordedWasRolledOut, SeenImages,
                      ReportedVersions, SeenVersions, HasWorkload
<1>3. ASSUME NEW s \in Services, ServiceReady(s) PROVE SafetyInv'
  <2>1. /\ UNCHANGED <<cp, ns, dep, updatedTo, verView>>
        /\ \A q \in Services : rolledOut[q] \subseteq rolledOut'[q]
    BY <1>1, <1>3 DEF ServiceReady
  <2>2. \A q \in Services :
           svc'[q] = svc[q] \/ svc'[q].image \in rolledOut'[q]
    BY <1>1, <1>3 DEF ServiceReady, ServiceRec
  <2>3. ReadyImages'
    BY <2>1, <2>2 DEF SafetyInv, ReadyImages
  <2>4. RecordedWasRolledOut' /\ SeenImages'
    BY <2>1 DEF SafetyInv, RecordedWasRolledOut, SeenImages, HasWorkload
  <2>5. ReportedVersions' /\ SeenVersions'
    BY <2>1 DEF SafetyInv, ReportedVersions, SeenVersions
  <2> QED
    BY <2>3, <2>4, <2>5 DEF SafetyInv
<1>4. ASSUME NEW n \in NodeSets, NodeSetReconcile(n) PROVE SafetyInv'
  <2>1. MatchingResult(n).version \in {Nil, dep.result[n].version}
    BY DEF MatchingResult, NoResult
  <2>2. NodeSetStatus(n).version \in {ns[n].version, dep.result[n].version}
    BY <2>1 DEF NodeSetStatus
  <2>3. /\ UNCHANGED <<cp, svc, rolledOut, updatedTo, verView>>
        /\ \A m \in NodeSets :
              /\ ns'[m].version \in {ns[m].version, dep.result[m].version}
              /\ dep'.result[m].version \in {Nil, dep.result[m].version}
    BY <1>1, <1>4, <2>1, <2>2 DEF NodeSetReconcile, history, DeploymentsRec
  <2>4. ReportedVersions'
    BY <2>3 DEF SafetyInv, ReportedVersions
  <2> QED
    BY <2>3, <2>4 DEF SafetyInv, RecordedWasRolledOut, ReadyImages, SeenImages,
                      SeenVersions, HasWorkload
<1>5. CASE FinishDeployment
  <2>1. /\ UNCHANGED <<cp, svc, ns, rolledOut, verView>>
        /\ updatedTo \subseteq updatedTo'
    BY <1>5 DEF FinishDeployment
  <2>2. \A n \in NodeSets :
           dep'.result[n].version # dep.result[n].version =>
              dep'.result[n].version \in updatedTo'
    BY <1>1, <1>5 DEF FinishDeployment, DeploymentsRec
  <2>3. ReportedVersions' /\ SeenVersions'
    BY <2>1, <2>2 DEF SafetyInv, ReportedVersions, SeenVersions
  <2> QED
    BY <2>1, <2>3 DEF SafetyInv, RecordedWasRolledOut, ReadyImages, SeenImages, HasWorkload
<1>6. CASE FailDeployment
  <2>1. /\ UNCHANGED <<cp, svc, ns, rolledOut, updatedTo, verView>>
        /\ dep'.result = dep.result
    BY <1>1, <1>6 DEF FailDeployment, DeploymentsRec, history
  <2> QED
    BY <2>1, SafetyFrame
<1> QED
  BY <1>2, <1>3, <1>4, <1>5, <1>6 DEF Environment

\* Every step keeps the invariant.
LEMMA NextSafety == TypeInv /\ SafetyInv /\ [Next]_vars => SafetyInv'
<1> SUFFICES ASSUME TypeInv, SafetyInv, [Next]_vars PROVE SafetyInv'
  OBVIOUS
<1>1. CASE UNCHANGED vars
  BY <1>1, SafetyFrame DEF vars, objects, history
<1>2. CASE Controllers
  BY <1>2, VersionSafety, ControlPlaneSafety DEF Controllers
<1> QED
  BY <1>1, <1>2, UserSafety, EnvironmentSafety DEF Next

----------------------------------------------------------------------------

\* Only a reconcile that has found the control plane ready, and every phase of
\* an update True, changes status.deployedVersion, and to the target it has read.
LEMMA DeployedWhenReady ==
    ASSUME TypeInv, [Next]_vars, ver'.deployed # ver.deployed
    PROVE  /\ verView # Nil
           /\ ver'.deployed = verView.target
           /\ verView.target \in Versions
           /\ IsReady(verView.cp)
           /\ Updating(verView.target) => UpdateComplete
<1>1. ver \in VersionRec
  BY DEF TypeInv, TypeOK
<1>2. VersionUpdate
  <2>1. UNCHANGED vars => ver' = ver
    BY DEF vars, objects
  <2>2. VersionRead \/ ControlPlaneRead => ver' = ver
    BY DEF VersionRead, ControlPlaneRead, objects
  <2>3. VersionAdopt \/ VersionUnknownTarget \/ VersionInitialize =>
           ver'.deployed = ver.deployed
    BY <1>1 DEF VersionAdopt, VersionUnknownTarget, VersionInitialize,
                InitializedStatus, PatchVersion, VersionRec
  <2>4. ControlPlaneStep => ver'.deployed = ver.deployed
    BY <1>1 DEF ControlPlaneStep, ControlPlaneAdopt, ControlPlaneAwaitVersion,
                ControlPlaneReconcile, NewVersion, VersionRec
  <2>5. User => ver'.deployed = ver.deployed
    BY <1>1 DEF User, CreateControlPlane, CreateVersion, NewVersion, Retarget,
                UpgradeOperator, CreateDeployment, DeleteFailedDeployments,
                EditNodeSet, VersionRec, objects
  <2>6. Environment => ver' = ver
    BY DEF Environment, ServiceObserve, ServiceReady, ServiceFlap,
           NodeSetReconcile, FinishDeployment, FailDeployment
  <2> QED
    BY <2>1, <2>2, <2>3, <2>4, <2>5, <2>6 DEF Next, Controllers, VersionReconcile
<1>3. verView # Nil /\ verView \in VersionViewRec
  BY <1>2 DEF VersionUpdate, TypeInv, TypeOK
<1> DEFINE done == (Updating(verView.target) => UpdateComplete) /\ IsReady(verView.cp)
<1>4. ver'.deployed = (IF done THEN verView.target ELSE ver.deployed)
  <2> DEFINE cond == IF Updating(verView.target) THEN PhaseConditions
                     ELSE InitializedStatus.cond
             new == [InitializedStatus EXCEPT
                       !.cond = cond,
                       !.deployed = IF done THEN verView.target ELSE @]
  <2>1. ver' = new
    BY <1>2, Zenon DEF VersionUpdate, PatchVersion
  <2>2. /\ InitializedStatus.deployed = ver.deployed
        /\ "deployed" \in DOMAIN InitializedStatus
    BY <1>1 DEF InitializedStatus, VersionRec
  <2> HIDE DEF done, cond
  <2> QED
    BY <2>1, <2>2
<1>5. done
  <2> HIDE DEF done
  <2> QED
    BY <1>4
<1> QED
  BY <1>3, <1>4, <1>5 DEF VersionViewRec

LEMMA DeployedByUpdate ==
    ASSUME TypeInv, [Next]_vars, ver'.deployed # ver.deployed, ver.deployed # Nil
    PROVE  verView # Nil /\ ver'.deployed = verView.target /\ verView.target \in Versions /\ UpdateComplete
  BY DeployedWhenReady DEF Updating

\* A completed update has found the images of the target recorded for every
\* service and the target recorded by every node set with nodes.
LEMMA CompleteMeansRecorded ==
    ASSUME UpdateComplete
    PROVE  /\ \A s \in Enabled \cap Services :
                 verView.cp.images[s] = ImageOf[s][verView.target]
           /\ \A n \in NodeSets \ EmptyNodeSets : verView.ns[n].version = verView.target
<1>1. Outcome("controlplane") = "True" /\ Outcome("dataplane") = "True"
  BY DEF UpdateComplete, Phases
<1>2. ControlplaneOutcome = "True" /\ DataplaneOutcome = "True"
  BY <1>1 DEF Outcome
<1>3. ControlplaneContainerImageMatch /\ DataplaneNodesetsDeployed
  BY <1>2 DEF ControlplaneOutcome, DataplaneOutcome
<1> QED
  BY <1>3 DEF ControlplaneContainerImageMatch, ImageMatch, DataplaneNodesetsDeployed

\* The step that declares an update complete is sound.
LEMMA StepSound ==
    TypeInv /\ SafetyInv /\ [Next]_vars =>
       (ver'.deployed # ver.deployed /\ ver.deployed # Nil => AtVersion(ver'.deployed))
<1> SUFFICES ASSUME TypeInv, SafetyInv, [Next]_vars, ver'.deployed # ver.deployed,
                    ver.deployed # Nil
             PROVE  AtVersion(ver'.deployed)
  OBVIOUS
<1> DEFINE v == verView.target
<1>1. verView # Nil /\ ver'.deployed = v /\ v \in Versions /\ UpdateComplete
  BY DeployedByUpdate
<1> HIDE DEF v
<1>2. ASSUME NEW s \in Enabled, HasWorkload(s) PROVE ImageOf[s][v] \in rolledOut[s]
  <2>1. s \in Services
    BY ServicesAssumption
  <2>2. verView.cp.images[s] = ImageOf[s][v]
    BY <1>1, <2>1, CompleteMeansRecorded DEF v
  <2>3. ImageOf[s][v] # Nil
    BY <1>1, <2>1, ImagesAssumption
  <2> QED
    BY <1>1, <1>2, <2>1, <2>2, <2>3 DEF SafetyInv, SeenImages
<1>3. ASSUME NodeSets # EmptyNodeSets PROVE v \in updatedTo
  <2>1. PICK n \in NodeSets : n \notin EmptyNodeSets
    BY <1>3, NodeSetsAssumption
  <2>2. verView.ns[n].version = v
    BY <1>1, <2>1, CompleteMeansRecorded DEF v
  <2>3. v # Nil
    BY <1>1, VersionsAssumption
  <2> QED
    BY <1>1, <2>1, <2>2, <2>3 DEF SafetyInv, SeenVersions
<1> QED
  BY <1>1, <1>2, <1>3 DEF AtVersion

\* From an empty cluster: whatever the user does, status.containerImages of the
\* control plane names only images that the service operators have rolled out.
THEOREM RecordedImagesSound == Spec => []RecordedWasRolledOut
<1>1. SafetyInv => RecordedWasRolledOut
  BY DEF SafetyInv
<1> QED
  BY <1>1, InitTypeInv, NextType, InitSafety, NextSafety, PTL DEF Spec

\* The same of the updates of a deployment at rest.
THEOREM DeployedRecordedImagesSound == DeployedSpec => []RecordedWasRolledOut
<1>1. SafetyInv => RecordedWasRolledOut
  BY DEF SafetyInv
<1> QED
  BY <1>1, DeployedInitTypeInv, NextType, DeployedInitSafety, NextSafety, PTL
  DEF DeployedSpec

\* From an empty cluster: for every user, deployedVersion moves on only to a
\* version that every service and the data plane have reached.
THEOREM UpdateCompletionSound == Spec => CompletionSound
<1> QED
  BY InitTypeInv, NextType, InitSafety, NextSafety, StepSound, PTL
  DEF Spec, CompletionSound

\* The same of the updates of a deployment at rest.
THEOREM DeployedUpdateCompletionSound == DeployedSpec => CompletionSound
<1> QED
  BY DeployedInitTypeInv, NextType, DeployedInitSafety, NextSafety, StepSound, PTL
  DEF DeployedSpec, CompletionSound

----------------------------------------------------------------------------
(* The first update of a deployment at rest, by a user who follows the     *)
(* procedure: its target is ver.target, and the images in use are the ones *)
(* of version 1 and of the target.                                         *)

First(s) == ImageOf[s][1]
Last(s) == ImageOf[s][ver.target]
Serves(s) == s \in Enabled /\ HasWorkload(s)

\* The OpenStackVersion controller has not taken up the target yet.
Fresh == ver.target = 1 \/ ver.images # ver.target

NoneTrue(c) == \A p \in Phases : c[p] # "True"

\* The control plane has not begun to move.
AtFirst ==
    /\ cp.deployed = 1
    /\ \A s \in Services : svc[s].image \in {Nil, First(s)}

\* There are two versions at most, in the objects and in the copies.
TwoVersions ==
    /\ ver.stage = "up" /\ ver.target \in Versions /\ (retargets = 0 => ver.target = 1)
    /\ ver.images \in {1, ver.target} /\ ver.deployed \in {1, ver.target} /\ cp.deployed \in {1, ver.target}
    /\ verView # Nil => verView.target \in {1, ver.target}
    /\ cpView # Nil => cpView.target \in {1, ver.target} /\ cpView.images \in {1, ver.target}

\* Until the target is taken up nothing is confirmed, deployed or moved.
Untouched ==
    Fresh =>
      /\ NoneTrue(ver.cond) /\ dep.active = Nil /\ ver.deployed = 1 /\ AtFirst
      /\ \A s \in Services : cp.images[s] \in {Nil, First(s)}
      /\ \A n \in NodeSets : /\ ns[n].version = Nil /\ dep.result[n].version = Nil
                             /\ ns[n].ovn = First("ovn") /\ dep.result[n].ovn \in {Nil, First("ovn")}
      /\ verView # Nil =>
           /\ \A s \in Services : verView.cp.images[s] \in {Nil, First(s)}
           /\ \A n \in NodeSets : verView.ns[n].ovn = First("ovn") /\ verView.ns[n].version = Nil
      /\ cpView # Nil => cpView.images = 1

\* A copy that is older than the target is used before anything moves.
InStep ==
    /\ ~Fresh /\ verView # Nil => verView.target = ver.target
    /\ cpView # Nil /\ cpView.images = 1 => AtFirst /\ NoneTrue(cpView.cond)
    /\ cpView # Nil /\ cpView.images # 1 => cpView.target = ver.target

\* What the phases of the update stand for.
OvnRolledOut == "ovn" \in Enabled /\ NicMappings => Last("ovn") \in rolledOut["ovn"]
OvnOnTarget == "ovn" \in Enabled => \A n \in NodeSets \ EmptyNodeSets : ns[n].ovn = Last("ovn")
StagedRolledOut == \A s \in Staged \cap Enabled : Last(s) \in rolledOut[s]

Bears(c) ==
    /\ c["ovnControlplane"] = "True" => OvnRolledOut
    /\ c["ovnDataplane"] = "True" => OvnOnTarget
    /\ \A s \in Staged \cap Enabled : c[s] = "True" => Last(s) \in rolledOut[s]

\* A phase that is True, also in the copy of the control plane, has been reached.
Confirmed ==
    /\ Bears(ver.cond)
    /\ cpView # Nil => Bears(cpView.cond)
    /\ cp.deployed # 1 => OvnRolledOut /\ OvnOnTarget /\ StagedRolledOut
    /\ dep.active = "ovn" => OvnRolledOut

\* The nodes do not go back, and the copy of them is no further than they are.
NodesAdvance ==
    \A n \in NodeSets :
      /\ ns[n].ovn \in Images /\ ns[n].version \in {Nil, ver.target} /\ dep.result[n].version \in {Nil, ver.target}
      /\ ns[n].ovn = Last("ovn") => dep.result[n].ovn \in {Nil, Last("ovn")}
      /\ verView # Nil => /\ verView.ns[n].ovn \in Images
                          /\ verView.ns[n].ovn = Last("ovn") => ns[n].ovn = Last("ovn")
                          /\ verView.ns[n].version = ver.target => ns[n].version = ver.target

\* The OVN images of the nodes have been rolled out on the control plane.
OvnKnown ==
    "ovn" \in Enabled /\ NicMappings =>
      /\ First("ovn") \in rolledOut["ovn"]
      /\ \A n \in NodeSets : /\ ns[n].ovn \in rolledOut["ovn"]
                             /\ dep.result[n].ovn # Nil => dep.result[n].ovn \in rolledOut["ovn"]

\* Nor do the services go back, and what is recorded is no further than they are.
ServicesAdvance ==
    \A s \in Services : Serves(s) =>
      /\ svc[s].image \in {First(s), Last(s)}
      /\ cp.images[s] = Last(s) => svc[s].image = Last(s)
      /\ verView # Nil /\ verView.cp.images[s] = Last(s) => svc[s].image = Last(s)

OrderInv == TwoVersions /\ Untouched /\ InStep /\ Confirmed /\ NodesAdvance /\ OvnKnown /\ ServicesAdvance

LEMMA VersionOne == 1 \in Versions /\ 1 # Nil /\ \A v \in Versions : v # Nil
  BY VersionsAssumption

LEMMA KnownImages == \A s \in Services, v \in Versions : ImageOf[s][v] \in Images /\ ImageOf[s][v] # Nil
  BY ImagesAssumption

LEMMA StagedServices == /\ Staged \subseteq Services \cap Phases
                        /\ \A s \in Staged : s \notin {"ovn", "ovnControlplane", "ovnDataplane", "controlplane", "dataplane"}
<1>1. \A i \in DOMAIN StagedOrder : StagedOrder[i] \in Services
  BY ServicesAssumption
<1> QED
  BY <1>1, ServicesAssumption DEF Staged, Phases

LEMMA DeployedInitOrder == DeployedInit => OrderInv
<1> SUFFICES ASSUME DeployedInit PROVE OrderInv
  OBVIOUS
<1> USE VersionOne, KnownImages, ServicesAssumption
<1>1. TwoVersions /\ InStep
  BY DEF DeployedInit, TwoVersions, InStep
<1>2. AtFirst
  BY DEF DeployedInit, AtFirst, First
<1>3. Untouched
  BY <1>2 DEF DeployedInit, Untouched, First, NoneTrue, DeployedImage
<1>4. Confirmed
  BY StagedServices DEF DeployedInit, Confirmed, Bears, Phases
<1>5. NodesAdvance /\ OvnKnown
  BY DEF DeployedInit, NodesAdvance, OvnKnown, First, Last, HasWorkload
<1>6. ServicesAdvance
  BY DEF DeployedInit, ServicesAdvance, First, Last, Serves
<1> QED
  BY <1>1, <1>3, <1>4, <1>5, <1>6 DEF OrderInv

\* What the phases stand for is not lost when nothing goes back.
LEMMA FactsKept ==
    ASSUME ver'.target = ver.target, \A s \in Services : rolledOut[s] \subseteq rolledOut'[s],
           \A n \in NodeSets : ns[n].ovn = Last("ovn") => ns'[n].ovn = Last("ovn")
    PROVE  /\ OvnRolledOut => OvnRolledOut'
           /\ OvnOnTarget => OvnOnTarget'
           /\ StagedRolledOut => StagedRolledOut'
           /\ \A s \in Staged \cap Enabled : Last(s) \in rolledOut[s] => Last(s)' \in rolledOut'[s]
  BY ServicesAssumption, StagedServices DEF OvnRolledOut, OvnOnTarget, StagedRolledOut, Last

\* A step that leaves all of this alone, or drops a copy, keeps it.
LEMMA OrderFrame ==
    ASSUME OrderInv, ver'.stage = ver.stage, ver'.target = ver.target, ver'.images = ver.images,
           ver'.deployed = ver.deployed, ver'.cond = ver.cond \/ NoneTrue(ver'.cond), retargets' = retargets,
           cp'.deployed = cp.deployed, cp'.images = cp.images, \A s \in Services : svc'[s].image = svc[s].image,
           \A s \in Services : rolledOut[s] \subseteq rolledOut'[s],
           \A n \in NodeSets : ns'[n].ovn = ns[n].ovn /\ ns'[n].version = ns[n].version,
           dep'.result = dep.result, dep'.active \in {dep.active, Nil},
           verView' \in {verView, Nil}, cpView' \in {cpView, Nil}
    PROVE  OrderInv'
<1> USE DEF OrderInv
<1>1. TwoVersions' /\ (Fresh' <=> Fresh) /\ (AtFirst' <=> AtFirst)
  BY DEF TwoVersions, Fresh, AtFirst, First
<1>2. Untouched'
  BY <1>1 DEF Untouched, NoneTrue, First
<1>3. InStep'
  BY <1>1 DEF InStep, NoneTrue
<1>4. /\ OvnRolledOut => OvnRolledOut'
      /\ OvnOnTarget => OvnOnTarget'
      /\ StagedRolledOut => StagedRolledOut'
      /\ \A s \in Staged \cap Enabled : Last(s) \in rolledOut[s] => Last(s)' \in rolledOut'[s]
  BY FactsKept
<1>5. Confirmed'
  <2>1. Bears(ver.cond)'
    <3>1. CASE ver'.cond = ver.cond
      BY <1>4, <3>1 DEF Confirmed, Bears
    <3>2. CASE NoneTrue(ver'.cond)
      BY <3>2, StagedServices DEF Bears, NoneTrue, Phases
    <3> QED
      BY <3>1, <3>2
  <2>2. cpView' # Nil => Bears(cpView.cond)'
    BY <1>4 DEF Confirmed, Bears
  <2>3. dep'.active = "ovn" => OvnRolledOut'
    BY <1>4, ServicesAssumption DEF Confirmed
  <2> QED
    BY <1>4, <2>1, <2>2, <2>3 DEF Confirmed
<1>6. NodesAdvance'
  BY DEF NodesAdvance, Last
<1>7. OvnKnown'
  BY ServicesAssumption DEF OvnKnown, First
<1>8. ServicesAdvance'
  BY DEF ServicesAdvance, First, Last, Serves, HasWorkload
<1> QED
  BY <1>1, <1>2, <1>3, <1>5, <1>6, <1>7, <1>8

\* A phase the OpenStackVersion controller finds True has been reached.
LEMMA OutcomeBears ==
    ASSUME TypeInv, SafetyInv, OrderInv, verView # Nil, verView.target = ver.target
    PROVE  Bears(PhaseConditions)
<1>0. /\ ver.target \in Versions /\ \A s \in Services : Last(s) # Nil
      /\ \A s \in Services : HasWorkload(s) /\ verView.cp.images[s] = Last(s) => Last(s) \in rolledOut[s]
  BY KnownImages DEF OrderInv, TwoVersions, SafetyInv, SeenImages, Last
<1>1. \A p \in Phases : PhaseConditions[p] = "True" => Outcome(p) = "True"
  BY DEF PhaseConditions
<1>2. {"ovnControlplane", "ovnDataplane"} \subseteq Phases
  BY DEF Phases
<1>3. ASSUME PhaseConditions["ovnControlplane"] = "True" PROVE OvnRolledOut
  <2>1. OVNControlplaneOutcome = "True"
    BY <1>1, <1>2, <1>3 DEF Outcome
  <2>2. "ovn" \in Enabled => verView.cp.images["ovn"] = Last("ovn")
    BY <2>1 DEF OVNControlplaneOutcome, ImageMatch, Last
  <2> QED
    BY <1>0, <2>2, ServicesAssumption DEF OvnRolledOut, HasWorkload
<1>4. ASSUME PhaseConditions["ovnDataplane"] = "True" PROVE OvnOnTarget
  <2>1. OVNDataplaneOutcome = "True"
    BY <1>1, <1>2, <1>4 DEF Outcome
  <2>2. "ovn" \in Enabled => \A n \in NodeSets \ EmptyNodeSets : verView.ns[n].ovn \in {Nil, Last("ovn")}
    BY <2>1 DEF OVNDataplaneOutcome, DataplaneNodesetsOVNControllerImagesMatch, Last
  <2> QED
    BY <2>2, ImagesAssumption DEF OrderInv, NodesAdvance, OvnOnTarget
<1>5. ASSUME NEW s \in Staged \cap Enabled, PhaseConditions[s] = "True" PROVE Last(s) \in rolledOut[s]
  <2>1. s \in Services /\ s \in Phases /\ s \notin {"ovn", "ovnControlplane", "ovnDataplane", "controlplane", "dataplane"}
    BY StagedServices
  <2>2. StagedOutcome(s) = "True"
    BY <1>1, <1>5, <2>1 DEF Outcome
  <2>3. verView.cp.images[s] = Last(s) /\ HasWorkload(s)
    BY <2>1, <2>2 DEF StagedOutcome, ImageMatch, Last, HasWorkload
  <2> QED
    BY <1>0, <2>1, <2>3
<1> QED
  BY <1>3, <1>4, <1>5 DEF Bears

\* What a reconcile of the OpenStackVersion writes.
LEMMA VersionPatch ==
    ASSUME TypeInv, ver.stage = "up", VersionReconcile
    PROVE  /\ verView # Nil /\ verView' = Nil /\ ver'.stage = "up" /\ ver'.target = ver.target
           /\ UNCHANGED <<cp, svc, ns, dep, cpView, rolledOut, retargets>>
           /\ \/ /\ ver'.images = ver.images /\ ver'.deployed = ver.deployed
                 /\ ver'.cond = ver.cond \/ NoneTrue(ver'.cond)
              \/ /\ ver'.images = verView.target /\ ver'.deployed \in {ver.deployed, verView.target}
                 /\ IF Updating(verView.target) THEN NoneTrue(ver'.cond) \/ ver'.cond = PhaseConditions
                    ELSE ver'.cond = ver.cond
<1>0. ver \in VersionRec
  BY DEF TypeInv, TypeOK
<1>1. \A t : InitConditions(t) = ver.cond \/ NoneTrue(InitConditions(t))
  BY DEF InitConditions, NoneTrue
<1>2. ~VersionAdopt
  BY DEF VersionAdopt
<1>3. CASE VersionUnknownTarget
  <2>1. ver' = [ver EXCEPT !.known = KnownDefaults, !.init = FALSE, !.cond = InitConditions(verView.target)]
    BY <1>3 DEF VersionUnknownTarget, PatchVersion
  <2>2. /\ ver'.stage = "up" /\ ver'.target = ver.target /\ ver'.images = ver.images /\ ver'.deployed = ver.deployed
        /\ ver'.cond = InitConditions(verView.target)
    BY <1>0, <2>1 DEF VersionRec
  <2> QED
    BY <1>1, <1>3, <2>2 DEF VersionUnknownTarget, PatchVersion, bounds
<1>a. /\ InitializedStatus.stage = ver.stage /\ InitializedStatus.target = ver.target
      /\ InitializedStatus.images = verView.target /\ InitializedStatus.deployed = ver.deployed
      /\ InitializedStatus.cond = InitConditions(verView.target)
      /\ DOMAIN InitializedStatus = {"stage", "target", "deployed", "known", "images", "init", "cond"}
  BY <1>0 DEF InitializedStatus, VersionRec
<1>4. CASE VersionInitialize
  <2>1. ver' = InitializedStatus
    BY <1>4 DEF VersionInitialize, PatchVersion
  <2>2. IF Updating(verView.target) THEN NoneTrue(ver'.cond) ELSE ver'.cond = ver.cond
    BY <1>a, <2>1 DEF InitConditions, NoneTrue
  <2>3. verView # Nil /\ verView' = Nil /\ UNCHANGED <<cp, svc, ns, dep, cpView, rolledOut, retargets>>
    BY <1>4 DEF VersionInitialize, PatchVersion, bounds
  <2> QED
    BY <1>a, <2>1, <2>2, <2>3
<1>5. CASE VersionUpdate
  <2>1. PICK d : /\ ver' = [InitializedStatus EXCEPT
                              !.cond = IF Updating(verView.target) THEN PhaseConditions ELSE @,
                              !.deployed = IF d THEN verView.target ELSE @]
    BY <1>5 DEF VersionUpdate, PatchVersion
  <2>2. /\ ver'.stage = ver.stage /\ ver'.target = ver.target /\ ver'.images = verView.target
        /\ ver'.deployed \in {ver.deployed, verView.target}
        /\ ver'.cond = IF Updating(verView.target) THEN PhaseConditions ELSE InitializedStatus.cond
    BY <1>a, <2>1
  <2>3. ~Updating(verView.target) => InitializedStatus.cond = ver.cond
    BY <1>a DEF InitConditions
  <2>4. verView # Nil /\ verView' = Nil /\ UNCHANGED <<cp, svc, ns, dep, cpView, rolledOut, retargets>>
    BY <1>5 DEF VersionUpdate, PatchVersion, bounds
  <2> QED
    BY <2>2, <2>3, <2>4
<1> QED
  BY <1>2, <1>3, <1>4, <1>5 DEF VersionReconcile

LEMMA VersionOrder ==
    TypeInv /\ SafetyInv /\ OrderInv /\ (VersionRead \/ VersionReconcile) => OrderInv'
<1> SUFFICES ASSUME TypeInv, SafetyInv, OrderInv, VersionRead \/ VersionReconcile PROVE OrderInv'
  OBVIOUS
<1> USE DEF OrderInv
<1>0. ver.target \in Versions /\ ver.target # Nil
  BY VersionOne DEF TwoVersions
<1>1. CASE VersionRead
  <2>1. /\ verView' = [target |-> ver.target, cp |-> cp, ns |-> ns]
        /\ UNCHANGED <<ver, cp, svc, ns, dep, cpView, rolledOut, retargets>>
    BY <1>1 DEF VersionRead, objects, history, bounds
  <2>2. TwoVersions' /\ InStep' /\ Confirmed' /\ OvnKnown'
    BY <2>1 DEF TwoVersions, InStep, Confirmed, OvnKnown, Fresh, AtFirst, Bears, NoneTrue, OvnRolledOut, OvnOnTarget,
                StagedRolledOut, First, Last
  <2>3. Untouched'
    BY <2>1 DEF Untouched, Fresh, AtFirst, NoneTrue, First
  <2>4. NodesAdvance'
    BY <2>1 DEF NodesAdvance, Last
  <2>5. ServicesAdvance'
    BY <2>1 DEF ServicesAdvance, First, Last, Serves, HasWorkload
  <2> QED
    BY <2>2, <2>3, <2>4, <2>5
<1>2. CASE VersionReconcile
  <2>0. /\ verView # Nil /\ verView' = Nil /\ ver'.stage = "up" /\ ver'.target = ver.target
        /\ UNCHANGED <<cp, svc, ns, dep, cpView, rolledOut, retargets>>
    BY <1>2, VersionPatch DEF TwoVersions
  <2>1. CASE /\ ver'.images = ver.images /\ ver'.deployed = ver.deployed
             /\ ver'.cond = ver.cond \/ NoneTrue(ver'.cond)
    BY <2>0, <2>1, OrderFrame DEF TwoVersions
  <2>2. CASE /\ ver'.images = verView.target /\ ver'.deployed \in {ver.deployed, verView.target}
             /\ IF Updating(verView.target) THEN NoneTrue(ver'.cond) \/ ver'.cond = PhaseConditions
                ELSE ver'.cond = ver.cond
    <3>1. CASE verView.target # ver.target \/ ver.target = 1
      <4>1. Fresh /\ verView.target = 1
        BY <2>0, <3>1 DEF InStep, TwoVersions, Fresh
      <4>2. ver.images = 1 /\ ver.deployed = 1
        BY <4>1 DEF TwoVersions, Untouched, Fresh
      <4>3. ver'.images = ver.images /\ ver'.deployed = ver.deployed /\ ver'.cond = ver.cond
        BY <2>2, <4>1, <4>2 DEF Updating
      <4> QED
        BY <2>1, <4>3
    <3>2. CASE verView.target = ver.target /\ ver.target # 1
      <4>1. ~Fresh'
        BY <2>0, <2>2, <3>2 DEF Fresh
      <4>2. TwoVersions' /\ Untouched'
        BY <2>0, <2>2, <3>2, <4>1 DEF TwoVersions, Untouched
      <4>3. InStep'
        BY <2>0 DEF InStep, AtFirst, NoneTrue, First
      <4>4. Bears(ver.cond)'
        <5>1. CASE NoneTrue(ver'.cond)
          BY <5>1, StagedServices DEF Bears, NoneTrue, Phases
        <5>2. CASE ver'.cond = ver.cond \/ ver'.cond = PhaseConditions
          <6>1. Bears(ver'.cond)
            BY <2>0, <3>2, <5>2, OutcomeBears DEF Confirmed
          <6> QED
            BY <2>0, <6>1, FactsKept DEF Bears
        <5> QED
          BY <2>2, <5>1, <5>2
      <4>5. Confirmed'
        BY <2>0, <4>4 DEF Confirmed, Bears, OvnRolledOut, OvnOnTarget, StagedRolledOut, Last
      <4>6. NodesAdvance' /\ OvnKnown'
        BY <2>0 DEF NodesAdvance, OvnKnown, First, Last
      <4>7. ServicesAdvance'
        BY <2>0 DEF ServicesAdvance, First, Last, Serves, HasWorkload
      <4> QED
        BY <4>2, <4>3, <4>5, <4>6, <4>7
    <3> QED
      BY <3>1, <3>2
  <2> QED
    BY <1>2, <2>1, <2>2, VersionPatch DEF TwoVersions
<1> QED
  BY <1>1, <1>2

\* What a pass of the control plane writes.
LEMMA PassWrites ==
    ASSUME TypeInv, NEW k, ControlPlaneReconcile(k)
    PROVE  LET W == {Plan[i] : i \in 1..k}
           IN /\ cpView # Nil /\ cpView' = Nil /\ k \in 0..Len(Plan)
              /\ UNCHANGED <<ver, ns, dep, verView, rolledOut, retargets>>
              /\ cp'.deployed = (IF k = Len(Plan) /\ FullPass THEN cpView.target ELSE cp.deployed)
              /\ \A s \in Services :
                   /\ cp'.images[s] = (IF s \in W THEN RecordedImage(s) ELSE cp.images[s])
                   /\ svc'[s].image = (IF s \in W /\ Serves(s) THEN VersionImage(s) ELSE svc[s].image)
<1> DEFINE W == {Plan[i] : i \in 1..k}
<1>0. cp \in ControlPlaneRec /\ svc \in [Services -> ServiceRec]
  BY DEF TypeInv, TypeOK
<1>1. /\ cpView # Nil /\ cpView' = Nil /\ k \in 0..Len(Plan)
      /\ UNCHANGED <<ver, ns, dep, verView, rolledOut, retargets>>
  BY DEF ControlPlaneReconcile, PatchControlPlane, history
<1> HIDE DEF W
<1>2. cp'.images = [s \in Services |-> IF s \in W THEN RecordedImage(s) ELSE cp.images[s]]
  BY <1>0 DEF ControlPlaneReconcile, PatchControlPlane, ControlPlaneRec, W
<1>3. cp'.deployed = (IF k = Len(Plan) /\ FullPass THEN cpView.target ELSE cp.deployed)
  BY <1>0 DEF ControlPlaneReconcile, PatchControlPlane, ControlPlaneRec
<1>4. svc' = [s \in Services |-> IF s \in W \cap Enabled /\ HasWorkload(s) THEN PatchedService(s) ELSE svc[s]]
  BY DEF ControlPlaneReconcile, PatchControlPlane, W
<1>5. \A s \in Services : PatchedService(s).image = VersionImage(s)
  BY <1>0 DEF PatchedService, ServiceRec
<1> QED
  BY <1>1, <1>2, <1>3, <1>4, <1>5 DEF W, Serves

\* A pass with the images of version 1 moves nothing; a later one moves the
\* control plane on to the target.
LEMMA FirstPass ==
    ASSUME TypeInv, OrderInv, NEW k, ControlPlaneReconcile(k), cpView.images = 1
    PROVE  /\ cp'.deployed = cp.deployed /\ AtFirst
           /\ \A s \in Services : /\ svc'[s].image = svc[s].image
                                  /\ cp'.images[s] \in {cp.images[s], Nil, First(s)}
                                  /\ Serves(s) => svc[s].image = First(s)
<1>1. cpView # Nil /\ AtFirst /\ NoneTrue(cpView.cond)
  BY PassWrites DEF OrderInv, InStep
<1>2. "ovnControlplane" \in Phases
  BY DEF Phases
<1>3. FullPass => cpView.target = 1
  BY <1>1, <1>2, VersionOne DEF FullPass, NormalPass, OvnPhaseDone, AtFirst, NoneTrue
<1>4. cp'.deployed = cp.deployed
  BY <1>1, <1>3, PassWrites DEF AtFirst
<1>5. \A s \in Services : Serves(s) => svc[s].image = First(s)
  BY <1>1, KnownImages DEF AtFirst, OrderInv, ServicesAdvance, TwoVersions, First, Last
<1>6. \A s \in Services : VersionImage(s) = First(s)
  BY DEF VersionImage, First
<1>7. \A s \in Services : RecordedImage(s) \in {cp.images[s], Nil, First(s)}
  BY <1>6 DEF RecordedImage
<1> QED
  BY <1>1, <1>4, <1>5, <1>6, <1>7, PassWrites

LEMMA LastPass ==
    ASSUME TypeInv, OrderInv, NEW k, ControlPlaneReconcile(k), cpView.images # 1
    PROVE  /\ ~Fresh /\ cpView.images = ver.target /\ cpView.target = ver.target /\ ver.target # 1
           /\ cp'.deployed \in {cp.deployed, ver.target}
           /\ cp'.deployed # 1 => OvnRolledOut /\ OvnOnTarget /\ StagedRolledOut
           /\ \A s \in Services : /\ svc'[s].image \in {svc[s].image, Last(s)}
                                  /\ svc[s].image = Last(s) => svc'[s].image = Last(s)
                                  /\ Serves(s) /\ cp'.images[s] = Last(s) => svc'[s].image = Last(s)
<1>0. cpView # Nil /\ Bears(cpView.cond)
  BY PassWrites DEF OrderInv, Confirmed
<1>1. ~Fresh /\ cpView.images = ver.target /\ cpView.target = ver.target /\ ver.target # 1
  BY <1>0 DEF OrderInv, Untouched, TwoVersions, InStep
<1>2. cp'.deployed \in {cp.deployed, ver.target}
  BY <1>1, PassWrites
<1>3. ASSUME cp'.deployed # 1 PROVE OvnRolledOut /\ OvnOnTarget /\ StagedRolledOut
  <2>1. CASE cp.deployed # 1
    BY <2>1 DEF OrderInv, Confirmed
  <2>2. CASE cp.deployed = 1
    <3>1. FullPass /\ ~NormalPass
      BY <1>1, <1>3, <2>2, PassWrites, VersionOne DEF NormalPass
    <3>2. /\ cpView.cond["ovnControlplane"] = "True" /\ cpView.cond["ovnDataplane"] = "True"
          /\ \A s \in Staged : cpView.cond[s] = "True"
      BY <3>1 DEF FullPass, OvnPhaseDone
    <3> QED
      BY <1>0, <3>2 DEF Bears, StagedRolledOut
  <2> QED
    BY <2>1, <2>2
<1>4. \A s \in Services : VersionImage(s) = Last(s)
  BY <1>1 DEF VersionImage, Last
<1>5. ASSUME NEW s \in Services
      PROVE  /\ svc'[s].image \in {svc[s].image, Last(s)}
             /\ svc[s].image = Last(s) => svc'[s].image = Last(s)
             /\ Serves(s) /\ cp'.images[s] = Last(s) => svc'[s].image = Last(s)
  <2>1. /\ svc'[s].image \in {svc[s].image, Last(s)}
        /\ svc[s].image = Last(s) => svc'[s].image = Last(s)
    BY <1>4, PassWrites
  <2>2. ASSUME Serves(s), cp'.images[s] = Last(s) PROVE svc'[s].image = Last(s)
    <3>1. CASE cp'.images[s] = cp.images[s]
      BY <2>1, <2>2, <3>1 DEF OrderInv, ServicesAdvance
    <3>2. CASE s \in {Plan[i] : i \in 1..k}
      BY <1>4, <2>2, <3>2, PassWrites
    <3> QED
      BY <3>1, <3>2, PassWrites
  <2> QED
    BY <2>1, <2>2
<1> QED
  BY <1>1, <1>2, <1>3, <1>5

LEMMA ControlPlaneOrder ==
    TypeInv /\ OrderInv /\ (ControlPlaneRead \/ ControlPlaneStep) => OrderInv'
<1> SUFFICES ASSUME TypeInv, OrderInv, ControlPlaneRead \/ ControlPlaneStep PROVE OrderInv'
  OBVIOUS
<1>0. cp \in ControlPlaneRec /\ svc \in [Services -> ServiceRec] /\ ver \in VersionRec
  BY DEF TypeInv, TypeOK
<1>1. CASE ControlPlaneRead
  <2>1. cpView' = ver /\ UNCHANGED <<ver, cp, svc, ns, dep, verView, rolledOut, retargets>>
    BY <1>1 DEF ControlPlaneRead, objects, history, bounds
  <2>2. ver.images = 1 <=> Fresh
    BY DEF Fresh, OrderInv, TwoVersions
  <2>3. TwoVersions' /\ NodesAdvance' /\ OvnKnown'
    BY <2>1 DEF OrderInv, TwoVersions, NodesAdvance, OvnKnown, First, Last
  <2>4. InStep'
    BY <2>1, <2>2 DEF OrderInv, TwoVersions, InStep, Untouched, Fresh, AtFirst, NoneTrue, First
  <2>5. Untouched'
    BY <2>1, <2>2 DEF OrderInv, Untouched, Fresh, AtFirst, NoneTrue, First
  <2>6. Confirmed'
    BY <2>1 DEF OrderInv, Confirmed, Bears, OvnRolledOut, OvnOnTarget, StagedRolledOut, Last
  <2>7. ServicesAdvance'
    BY <2>1 DEF OrderInv, ServicesAdvance, First, Last, Serves, HasWorkload
  <2> QED
    BY <2>3, <2>4, <2>5, <2>6, <2>7 DEF OrderInv
<1>2. CASE ControlPlaneAdopt \/ ControlPlaneAwaitVersion
  <2>1. /\ UNCHANGED <<svc, ns, dep, rolledOut, verView, retargets>> /\ cpView' = Nil
        /\ cp'.images = cp.images /\ cp'.deployed = cp.deployed
    BY <1>0, <1>2 DEF ControlPlaneAdopt, ControlPlaneAwaitVersion, PatchControlPlane, history, ControlPlaneRec
  <2>2. UNCHANGED ver
    BY <1>2 DEF ControlPlaneAdopt, ControlPlaneAwaitVersion, OrderInv, TwoVersions
  <2> QED
    BY <2>1, <2>2, OrderFrame
<1>3. ASSUME NEW k, ControlPlaneReconcile(k) PROVE OrderInv'
  <2>1. cpView # Nil /\ cpView' = Nil /\ UNCHANGED <<ver, ns, dep, verView, rolledOut, retargets>>
    BY <1>3, PassWrites
  <2>2. NodesAdvance' /\ OvnKnown'
    BY <2>1 DEF OrderInv, NodesAdvance, OvnKnown, First, Last
  <2>3. InStep'
    BY <2>1 DEF OrderInv, InStep, Fresh
  <2>4. CASE cpView.images = 1
    <3>1. /\ cp'.deployed = cp.deployed /\ AtFirst
          /\ \A s \in Services : /\ svc'[s].image = svc[s].image
                                 /\ cp'.images[s] \in {cp.images[s], Nil, First(s)}
                                 /\ Serves(s) => svc[s].image = First(s)
      BY <1>3, <2>4, FirstPass
    <3>2. TwoVersions' /\ Confirmed'
      BY <2>1, <3>1 DEF OrderInv, TwoVersions, Confirmed, Bears, OvnRolledOut, OvnOnTarget, StagedRolledOut, Last
    <3>3. AtFirst'
      BY <3>1 DEF AtFirst, First
    <3>4. Untouched'
      BY <2>1, <3>1, <3>3 DEF OrderInv, Untouched, Fresh, NoneTrue, First
    <3>5. ServicesAdvance'
      <4>1. \A s \in Services : Last(s) # Nil
        BY KnownImages DEF OrderInv, TwoVersions, Last
      <4> QED
        BY <2>1, <3>1, <4>1 DEF OrderInv, ServicesAdvance, First, Last, Serves, HasWorkload
    <3> QED
      BY <2>2, <2>3, <3>2, <3>4, <3>5 DEF OrderInv
  <2>5. CASE cpView.images # 1
    <3>1. /\ ~Fresh /\ cp'.deployed \in {cp.deployed, ver.target}
          /\ cp'.deployed # 1 => OvnRolledOut /\ OvnOnTarget /\ StagedRolledOut
          /\ \A s \in Services : /\ svc'[s].image \in {svc[s].image, Last(s)}
                                 /\ svc[s].image = Last(s) => svc'[s].image = Last(s)
                                 /\ Serves(s) /\ cp'.images[s] = Last(s) => svc'[s].image = Last(s)
      BY <1>3, <2>5, LastPass
    <3>2. TwoVersions' /\ Untouched'
      BY <2>1, <3>1 DEF OrderInv, TwoVersions, Untouched, Fresh
    <3>3. Confirmed'
      BY <2>1, <3>1 DEF OrderInv, Confirmed, Bears, OvnRolledOut, OvnOnTarget, StagedRolledOut, Last
    <3>4. ServicesAdvance'
      BY <2>1, <3>1 DEF OrderInv, ServicesAdvance, First, Last, Serves, HasWorkload
    <3> QED
      BY <2>2, <2>3, <3>2, <3>3, <3>4 DEF OrderInv
  <2> QED
    BY <2>4, <2>5
<1> QED
  BY <1>1, <1>2, <1>3 DEF ControlPlaneStep

\* The user retargets once, and creates a deployment when the phase before it
\* is reached.
LEMMA UserOrder ==
    ASSUME MaxRetargets <= 1, FollowsProcedure, TypeInv, OrderInv, User
    PROVE  OrderInv'
<1>0. /\ cp \in ControlPlaneRec /\ dep \in DeploymentsRec /\ ns \in [NodeSets -> NodeSetRec] /\ ver \in VersionRec
      /\ retargets \in Nat /\ ver.stage = "up"
  BY DEF TypeInv, TypeOK, OrderInv, TwoVersions
<1>1. CASE CreateControlPlane
  <2>1. /\ UNCHANGED <<ver, svc, ns, dep, rolledOut, verView, cpView, retargets>>
        /\ cp'.images = cp.images /\ cp'.deployed = cp.deployed
    BY <1>0, <1>1 DEF CreateControlPlane, history, bounds, ControlPlaneRec
  <2> QED
    BY <2>1, OrderFrame
<1>2. CASE CreateVersion
  BY <1>0, <1>2 DEF CreateVersion
<1>3. ASSUME NEW v \in Versions, Retarget(v) PROVE OrderInv'
  <2>1. retargets = 0 /\ ver.target = 1 /\ v # 1 /\ retargets' = 1
    BY <1>0, <1>3, BoundsAssumption DEF Retarget, OrderInv, TwoVersions
  <2>2. Fresh /\ ver.images = 1 /\ ver.deployed = 1 /\ cp.deployed = 1 /\ AtFirst /\ NoneTrue(ver.cond) /\ dep.active = Nil
    BY <2>1 DEF Fresh, OrderInv, TwoVersions, Untouched
  <2>3. /\ ver'.stage = "up" /\ ver'.target = v /\ ver'.images = 1 /\ ver'.deployed = 1 /\ ver'.cond = ver.cond
        /\ dep'.result = dep.result /\ dep'.active = Nil
        /\ UNCHANGED <<cp, svc, ns, verView, cpView, rolledOut>>
    BY <1>0, <1>3, <2>2 DEF Retarget, VersionRec, DeploymentsRec
  <2>4. Fresh' /\ AtFirst'
    BY <2>1, <2>2, <2>3 DEF Fresh, AtFirst, First
  <2>5. TwoVersions'
    BY <2>1, <2>2, <2>3 DEF OrderInv, TwoVersions
  <2>6. Untouched'
    BY <2>2, <2>3, <2>4 DEF OrderInv, Untouched, NoneTrue, First
  <2>7. cpView # Nil => cpView.images = 1 /\ NoneTrue(cpView.cond)
    BY <2>2 DEF OrderInv, Untouched, InStep
  <2>8. InStep'
    BY <2>3, <2>4, <2>7 DEF InStep, NoneTrue
  <2>9. Confirmed'
    <3>1. Bears(ver.cond)'
      BY <2>2, <2>3, StagedServices DEF Bears, NoneTrue, Phases
    <3>2. cpView' # Nil => Bears(cpView.cond)'
      BY <2>3, <2>7, StagedServices DEF Bears, NoneTrue, Phases
    <3> QED
      BY <2>2, <2>3, <3>1, <3>2, ServicesAssumption DEF Confirmed
  <2>10. NodesAdvance'
    <3>1. First("ovn") \in Images /\ v # Nil
      BY KnownImages, VersionOne, ServicesAssumption DEF First
    <3> QED
      BY <2>2, <2>3, <3>1 DEF OrderInv, Untouched, NodesAdvance, Last
  <2>11. OvnKnown'
    BY <2>3 DEF OrderInv, OvnKnown, First
  <2>12. ServicesAdvance'
    <3>1. \A s \in Services : Serves(s) => svc[s].image = First(s)
      BY <2>1 DEF OrderInv, ServicesAdvance, First, Last
    <3>2. \A s \in Services : ImageOf[s][v] # Nil
      BY KnownImages
    <3> QED
      BY <2>2, <2>3, <3>1, <3>2 DEF OrderInv, Untouched, ServicesAdvance, First, Last, Serves, HasWorkload
  <2> QED
    BY <2>5, <2>6, <2>8, <2>9, <2>10, <2>11, <2>12 DEF OrderInv
<1>4. ASSUME NEW v \in Versions, UpgradeOperator(v) PROVE OrderInv'
  BY <1>4, OrderFrame DEF UpgradeOperator, objects, history, bounds
<1>5. ASSUME NEW kind \in Kinds, CreateDeployment(kind) PROVE OrderInv'
  <2>1. /\ UNCHANGED <<ver, cp, svc, ns, rolledOut, verView, cpView, retargets>>
        /\ dep'.result = dep.result /\ dep'.active = kind /\ ProcedureAllows(kind)
    BY <1>0, <1>5 DEF CreateDeployment, DeploymentsRec, history
  <2>2. \A n \in NodeSets : ns[n].ovn # Nil
    BY ImagesAssumption DEF OrderInv, NodesAdvance
  <2>3. (kind = "ovn" => ver.cond["ovnControlplane"] = "True") /\ \E p \in Phases : ver.cond[p] = "True"
    BY <2>1, <2>2 DEF ProcedureAllows, Phases
  <2>4. ~Fresh /\ (kind = "ovn" => OvnRolledOut)
    BY <2>3 DEF OrderInv, Untouched, NoneTrue, Confirmed, Bears
  <2>5. TwoVersions' /\ Untouched' /\ InStep'
    BY <2>1, <2>4 DEF OrderInv, TwoVersions, Untouched, InStep, Fresh, AtFirst, NoneTrue, First
  <2>6. Confirmed'
    BY <2>1, <2>4 DEF OrderInv, Confirmed, Bears, OvnRolledOut, OvnOnTarget, StagedRolledOut, Last
  <2>7. NodesAdvance' /\ OvnKnown'
    BY <2>1 DEF OrderInv, NodesAdvance, OvnKnown, First, Last
  <2>8. ServicesAdvance'
    BY <2>1 DEF OrderInv, ServicesAdvance, First, Last, Serves, HasWorkload
  <2> QED
    BY <2>5, <2>6, <2>7, <2>8 DEF OrderInv
<1>6. CASE DeleteFailedDeployments
  <2>1. /\ UNCHANGED <<ver, cp, svc, ns, rolledOut, verView, cpView, retargets>>
        /\ dep'.result = dep.result /\ dep'.active = dep.active
    BY <1>0, <1>6 DEF DeleteFailedDeployments, DeploymentsRec, history, bounds
  <2> QED
    BY <2>1, OrderFrame
<1>7. ASSUME NEW n \in NodeSets, EditNodeSet(n) PROVE OrderInv'
  <2>1. /\ UNCHANGED <<ver, cp, svc, dep, rolledOut, verView, cpView, retargets>>
        /\ \A m \in NodeSets : ns'[m].ovn = ns[m].ovn /\ ns'[m].version = ns[m].version
    BY <1>0, <1>7 DEF EditNodeSet, NodeSetRec, history
  <2> QED
    BY <2>1, OrderFrame
<1> QED
  BY <1>1, <1>2, <1>3, <1>4, <1>5, <1>6, <1>7 DEF User

LEMMA EnvironmentOrder ==
    ASSUME TypeInv, OrderInv, Environment
    PROVE  OrderInv'
<1>0. /\ svc \in [Services -> ServiceRec] /\ dep \in DeploymentsRec /\ ns \in [NodeSets -> NodeSetRec]
      /\ rolledOut \in [Services -> SUBSET Images]
  BY DEF TypeInv, TypeOK
<1>1. ASSUME NEW s \in Services, ServiceObserve(s) \/ ServiceReady(s) \/ ServiceFlap(s) PROVE OrderInv'
  <2>1. /\ UNCHANGED <<ver, cp, ns, dep, verView, cpView, retargets>>
        /\ \A q \in Services : svc'[q].image = svc[q].image /\ rolledOut[q] \subseteq rolledOut'[q]
    BY <1>0, <1>1 DEF ServiceObserve, ServiceReady, ServiceFlap, ServiceRec, history, bounds
  <2> QED
    BY <2>1, OrderFrame
<1>2. ASSUME NEW n \in NodeSets, NodeSetReconcile(n) PROVE OrderInv'
  <2>1. /\ MatchingResult(n).ovn \in {Nil, dep.result[n].ovn} /\ MatchingResult(n).version \in {Nil, dep.result[n].version}
    BY DEF MatchingResult, NoResult
  <2>2. /\ NodeSetStatus(n).ovn = IF MatchingResult(n).ovn # Nil THEN MatchingResult(n).ovn ELSE ns[n].ovn
        /\ NodeSetStatus(n).version \in {ns[n].version, dep.result[n].version}
        /\ ns[n].version # Nil => NodeSetStatus(n).version # Nil
    BY <2>1 DEF NodeSetStatus
  <2>3. /\ UNCHANGED <<ver, cp, svc, rolledOut, verView, cpView, retargets>> /\ dep'.active = dep.active
        /\ \A m \in NodeSets :
              /\ ns'[m].version \in {ns[m].version, dep.result[m].version}
              /\ ns[m].version # Nil => ns'[m].version # Nil
              /\ dep'.result[m].version \in {Nil, dep.result[m].version}
              /\ dep'.result[m].ovn \in {Nil, dep.result[m].ovn}
              /\ \/ ns'[m].ovn = ns[m].ovn /\ dep'.result[m].ovn = dep.result[m].ovn
                 \/ ns'[m].ovn = IF dep'.result[m].ovn # Nil THEN dep'.result[m].ovn ELSE ns[m].ovn
    BY <1>0, <1>2, <2>1, <2>2 DEF NodeSetReconcile, DeploymentsRec, history, bounds
  <2>4. \A m \in NodeSets : ns[m].ovn = Last("ovn") => ns'[m].ovn = Last("ovn")
    BY <2>3 DEF OrderInv, NodesAdvance
  <2>5. TwoVersions' /\ InStep'
    BY <2>3 DEF OrderInv, TwoVersions, InStep, Fresh, AtFirst, NoneTrue, First
  <2>6. Untouched'
    BY <2>3 DEF OrderInv, Untouched, Fresh, AtFirst, NoneTrue, First
  <2>7. Confirmed'
    BY <2>3, <2>4, FactsKept DEF OrderInv, Confirmed, Bears
  <2>8. NodesAdvance'
    <3>1. \A m \in NodeSets : dep.result[m].ovn \in Images \cup {Nil}
      BY <1>0 DEF DeploymentsRec, ResultRec
    <3>2. ver.target # Nil
      BY VersionOne DEF OrderInv, TwoVersions
    <3> QED
      BY <2>3, <2>4, <3>1, <3>2 DEF OrderInv, NodesAdvance, Last
  <2>9. OvnKnown'
    BY <2>3 DEF OrderInv, OvnKnown, First
  <2>10. ServicesAdvance'
    BY <2>3 DEF OrderInv, ServicesAdvance, First, Last, Serves, HasWorkload
  <2> QED
    BY <2>5, <2>6, <2>7, <2>8, <2>9, <2>10 DEF OrderInv
<1>3. CASE FinishDeployment
  <2>1. ~Fresh /\ ver.images = ver.target
    BY <1>3 DEF FinishDeployment, OrderInv, Untouched, Fresh
  <2>2. /\ UNCHANGED <<ver, cp, svc, ns, rolledOut, verView, cpView, retargets>> /\ dep'.active = Nil
        /\ \A n \in NodeSets :
              /\ dep'.result[n].version \in {dep.result[n].version, ver.target}
              /\ dep'.result[n].ovn = IF dep.active = "ovn" THEN Last("ovn") ELSE dep.result[n].ovn
    BY <1>0, <1>3, <2>1 DEF FinishDeployment, DeploymentsRec, bounds, Last
  <2>3. TwoVersions' /\ InStep' /\ Untouched'
    BY <2>1, <2>2 DEF OrderInv, TwoVersions, InStep, Untouched, Fresh, AtFirst, NoneTrue, First
  <2>4. Confirmed'
    BY <2>2, ServicesAssumption DEF OrderInv, Confirmed, Bears, OvnRolledOut, OvnOnTarget, StagedRolledOut, Last
  <2>5. NodesAdvance'
    BY <2>2 DEF OrderInv, NodesAdvance, Last
  <2>6. OvnKnown'
    BY <2>2 DEF OrderInv, Confirmed, OvnRolledOut, OvnKnown, First
  <2>7. ServicesAdvance'
    BY <2>2 DEF OrderInv, ServicesAdvance, First, Last, Serves, HasWorkload
  <2> QED
    BY <2>3, <2>4, <2>5, <2>6, <2>7 DEF OrderInv
<1>4. CASE FailDeployment
  <2>1. /\ UNCHANGED <<ver, cp, svc, ns, rolledOut, verView, cpView, retargets>>
        /\ dep'.result = dep.result /\ dep'.active = Nil
    BY <1>0, <1>4 DEF FailDeployment, DeploymentsRec, history, bounds
  <2> QED
    BY <2>1, OrderFrame
<1> QED
  BY <1>1, <1>2, <1>3, <1>4 DEF Environment

\* Every step keeps the invariant.
LEMMA NextOrder ==
    ASSUME MaxRetargets <= 1, FollowsProcedure
    PROVE  TypeInv /\ SafetyInv /\ OrderInv /\ [Next]_vars => OrderInv'
<1> SUFFICES ASSUME TypeInv, SafetyInv, OrderInv, [Next]_vars PROVE OrderInv'
  OBVIOUS
<1>1. CASE UNCHANGED vars
  BY <1>1, OrderFrame DEF vars, objects, history, bounds
<1>2. CASE Controllers
  BY <1>2, VersionOrder, ControlPlaneOrder DEF Controllers
<1> QED
  BY <1>1, <1>2, UserOrder, EnvironmentOrder DEF Next

----------------------------------------------------------------------------

\* Only a pass with the images of the target moves a service, and it moves the
\* services of its plan.
LEMMA MovedByPass ==
    ASSUME TypeInv, OrderInv, [Next]_vars, NEW s \in Services, Moves(s)
    PROVE  /\ cpView # Nil /\ cpView.images = ver.target /\ cpView.target = ver.target /\ ver.target # 1
           /\ \E i \in 1 .. Len(Plan) : s = Plan[i]
<1>0. svc \in [Services -> ServiceRec]
  BY DEF TypeInv, TypeOK
<1>1. ~UNCHANGED svc
  BY DEF Moves
<1>3. ~Environment
  <2>1. ASSUME NEW q \in Services, ServiceObserve(q) \/ ServiceReady(q) \/ ServiceFlap(q) PROVE FALSE
    BY <1>0, <2>1 DEF Moves, ServiceObserve, ServiceReady, ServiceFlap, ServiceRec
  <2> QED
    BY <1>1, <2>1 DEF Environment, NodeSetReconcile, FinishDeployment, FailDeployment
<1>4. ~User
  BY <1>1 DEF User, CreateControlPlane, CreateVersion, Retarget, UpgradeOperator, CreateDeployment,
              DeleteFailedDeployments, EditNodeSet, objects
<1>5. ~(VersionRead \/ VersionReconcile \/ ControlPlaneRead)
  BY <1>1 DEF VersionRead, VersionReconcile, VersionAdopt, VersionUnknownTarget, VersionInitialize, VersionUpdate,
              PatchVersion, ControlPlaneRead, objects
<1>6. ~(ControlPlaneAdopt \/ ControlPlaneAwaitVersion) /\ ~UNCHANGED vars
  BY <1>1 DEF ControlPlaneAdopt, ControlPlaneAwaitVersion, PatchControlPlane, vars, objects
<1>7. PICK k : ControlPlaneReconcile(k)
  BY <1>3, <1>4, <1>5, <1>6 DEF Next, Controllers, ControlPlaneStep
<1>8. cpView.images # 1
  BY <1>7, FirstPass DEF Moves
<1>9. s \in {Plan[i] : i \in 1..k} /\ k \in 0..Len(Plan) /\ cpView # Nil
  BY <1>7, PassWrites DEF Moves
<1>10. \E i \in 1 .. Len(Plan) : s = Plan[i]
  <2>1. PICK i \in 1..k : s = Plan[i]
    BY <1>9
  <2>2. k \in Nat /\ k <= Len(Plan)
    BY <1>9
  <2> QED
    BY <2>1, <2>2
<1> QED
  BY <1>7, <1>8, <1>9, <1>10, LastPass

\* There is a first service that the version has not acknowledged.
LEMMA FirstExists ==
    ASSUME NEW T \in SUBSET Nat, T # {}
    PROVE  \E m \in T : \A j \in T : m <= j
<1>1. PICK m \in T : \A j \in T : <<j, m>> \notin OpToRel(<, Nat)
  BY WFMin, NatLessThanWellFounded
<1>2. ASSUME NEW j \in T PROVE m <= j
  <2>1. j \in Nat /\ m \in Nat
    OBVIOUS
  <2>2. j < m => <<j, m>> \in OpToRel(<, Nat)
    BY <2>1 DEF OpToRel
  <2>3. ~(j < m)
    BY <1>1, <2>2
  <2> QED
    BY <2>1, <2>3
<1> QED
  BY <1>2

\* The staged plan stops at that service: what comes after a staged service is
\* in the plan only when the version has acknowledged the staged service.
LEMMA StagedPlanStops ==
    ASSUME NEW p \in 1 .. Len(StagedPlan), NEW i \in DOMAIN StagedOrder,
           \A j \in 1..i : StagedOrder[j] # StagedPlan[p]
    PROVE  cpView.cond[StagedOrder[i]] = "True"
<1> DEFINE waiting == {q \in DOMAIN StagedOrder : cpView.cond[StagedOrder[q]] # "True"}
           m == CHOOSE q \in waiting : \A j \in waiting : q <= j
<1>0. StagedOrder \in Seq(Services) /\ DOMAIN StagedOrder = 1 .. Len(StagedOrder) /\ Len(StagedOrder) \in Nat
  BY ServicesAssumption
<1>1. SUFFICES ASSUME i \in waiting PROVE FALSE
  OBVIOUS
<1>2. StagedPlan = SubSeq(StagedOrder, 1, m)
  BY <1>1 DEF StagedPlan
<1>3. m \in waiting /\ m <= i
  <2>1. waiting \in SUBSET Nat /\ waiting # {}
    BY <1>0, <1>1
  <2> HIDE DEF waiting
  <2>2. \E q \in waiting : \A j \in waiting : q <= j
    BY <2>1, FirstExists
  <2> QED
    BY <1>1, <2>2
<1>4. m \in 1 .. Len(StagedOrder) /\ i \in 1 .. Len(StagedOrder)
  BY <1>0, <1>3
<1> HIDE DEF m
<1>5. Len(StagedPlan) = m /\ \A q \in 1..m : StagedPlan[q] = StagedOrder[q]
  BY <1>0, <1>2, <1>4
<1>6. p \in 1..i
  BY <1>3, <1>4, <1>5
<1> QED
  BY <1>3, <1>4, <1>5, <1>6

\* A service other than OVN is moved when OVN is at the target everywhere, and
\* the staged services before it are.
LEMMA MoveOrder ==
    ASSUME TypeInv, OrderInv, [Next]_vars, NEW s \in Services \ {"ovn"}, Moves(s)
    PROVE  /\ cpView.images = ver.target /\ OvnRolledOut /\ OvnOnTarget
           /\ \A i \in DOMAIN StagedOrder :
                 (\A j \in 1..i : StagedOrder[j] # s) /\ StagedOrder[i] \in Enabled
                    => Last(StagedOrder[i]) \in rolledOut[StagedOrder[i]]
<1>1. /\ cpView # Nil /\ cpView.images = ver.target /\ cpView.target = ver.target /\ ver.target # 1
      /\ \E p \in 1 .. Len(Plan) : s = Plan[p]
  BY MovedByPass
<1>2. CASE NormalPass
  <2>1. cp.deployed # 1
    BY <1>1, <1>2, VersionOne DEF NormalPass, OrderInv, TwoVersions
  <2>2. OvnRolledOut /\ OvnOnTarget /\ StagedRolledOut
    BY <2>1 DEF OrderInv, Confirmed
  <2> QED
    BY <1>1, <2>2 DEF StagedRolledOut, Staged
<1>3. CASE ~NormalPass
  <2>1. OvnPhaseDone
    BY <1>1, <1>3 DEF Plan
  <2>2. cpView.cond["ovnDataplane"] = "True"
    BY <1>1, <1>3, <2>1 DEF Plan
  <2>3. Bears(cpView.cond)
    BY <1>1 DEF OrderInv, Confirmed
  <2>4. OvnRolledOut /\ OvnOnTarget
    BY <2>1, <2>2, <2>3 DEF Bears, OvnPhaseDone
  <2>5. Plan = StagedPlan
    BY <1>3, <2>1, <2>2 DEF Plan
  <2>6. ASSUME NEW i \in DOMAIN StagedOrder, \A j \in 1..i : StagedOrder[j] # s, StagedOrder[i] \in Enabled
        PROVE  Last(StagedOrder[i]) \in rolledOut[StagedOrder[i]]
    <3>1. PICK p \in 1 .. Len(StagedPlan) : s = StagedPlan[p]
      BY <1>1, <2>5
    <3>2. cpView.cond[StagedOrder[i]] = "True"
      BY <2>6, <3>1, StagedPlanStops
    <3> QED
      BY <2>3, <2>6, <3>2 DEF Bears, Staged
  <2> QED
    BY <1>1, <2>4, <2>6
<1> QED
  BY <1>2, <1>3

\* The step that declares an update complete finds the services and the nodes
\* at the target.
LEMMA StepCurrent ==
    ASSUME TypeInv, SafetyInv, OrderInv, [Next]_vars, ver'.deployed # ver.deployed, ver.deployed # Nil
    PROVE  /\ ver'.deployed = ver.target
           /\ \A s \in Enabled : HasWorkload(s) => svc[s].image = Last(s)
           /\ "ovn" \in Enabled => OvnOnNodes(ver.target)
           /\ \A n \in NodeSets \ EmptyNodeSets : ns[n].version = ver.target
<1>1. verView # Nil /\ ver'.deployed = verView.target /\ UpdateComplete
  BY DeployedByUpdate
<1>2. verView.target = ver.target /\ ver.target \in Versions
  <2>1. CASE ~Fresh
    BY <1>1, <2>1 DEF OrderInv, InStep, TwoVersions
  <2>2. CASE Fresh
    <3>1. ver.deployed = 1
      BY <2>2 DEF OrderInv, Untouched
    <3> QED
      BY <1>1, <3>1 DEF OrderInv, TwoVersions
  <2> QED
    BY <2>1, <2>2
<1>3. /\ \A s \in Enabled \cap Services : verView.cp.images[s] = Last(s)
      /\ \A n \in NodeSets \ EmptyNodeSets : verView.ns[n].version = ver.target
  BY <1>1, <1>2, CompleteMeansRecorded DEF Last
<1>4. \A s \in Enabled : HasWorkload(s) => svc[s].image = Last(s)
  BY <1>1, <1>3, ServicesAssumption DEF OrderInv, ServicesAdvance, Serves
<1>5. \A n \in NodeSets \ EmptyNodeSets : ns[n].version = ver.target
  BY <1>1, <1>3 DEF OrderInv, NodesAdvance
<1>6. "ovn" \in Enabled => OvnOnNodes(ver.target)
  <2>1. OVNDataplaneOutcome = "True"
    BY <1>1 DEF UpdateComplete, Phases, Outcome
  <2>2. "ovn" \in Enabled => \A n \in NodeSets \ EmptyNodeSets : verView.ns[n].ovn \in {Nil, Last("ovn")}
    BY <1>2, <2>1 DEF OVNDataplaneOutcome, DataplaneNodesetsOVNControllerImagesMatch, Last
  <2>3. \A n \in NodeSets : verView.ns[n].ovn # Nil /\ (verView.ns[n].ovn = Last("ovn") => ns[n].ovn = Last("ovn"))
    BY <1>1, ImagesAssumption DEF OrderInv, NodesAdvance
  <2> QED
    BY <2>2, <2>3 DEF OvnOnNodes, Last
<1> QED
  BY <1>1, <1>2, <1>4, <1>5, <1>6

\* The first update of a deployment at rest, by a user who follows the procedure:
\* no node gets an OVN image, from a deployment or from a node set that takes over
\* what a deployment recorded, that the control plane does not have.
THEOREM OvnReachesControlPlaneFirst ==
    ASSUME MaxRetargets <= 1, FollowsProcedure
    PROVE  DeployedSpec => []OvnControlPlaneFirst
<1>1. OrderInv => OvnControlPlaneFirst
  BY DEF OrderInv, OvnKnown, OvnControlPlaneFirst
<1> QED
  BY <1>1, DeployedInitTypeInv, NextType, DeployedInitSafety, NextSafety, DeployedInitOrder, NextOrder, PTL
  DEF DeployedSpec

\* However old the copy of the OpenStackVersion is that a pass of the control
\* plane works with, it moves a service other than OVN only after OVN has been
\* moved, on the control plane and on the nodes.
THEOREM OvnGoesFirst ==
    ASSUME MaxRetargets <= 1, FollowsProcedure
    PROVE  DeployedSpec => OvnBeforeServices
<1>1. TypeInv /\ OrderInv /\ [Next]_vars =>
        \A s \in Services \ {"ovn"} : Moves(s) /\ "ovn" \in Enabled =>
           /\ OvnOnNodes(cpView.images)
           /\ NicMappings => ImageOf["ovn"][cpView.images] \in rolledOut["ovn"]
  <2> SUFFICES ASSUME TypeInv, OrderInv, [Next]_vars, NEW s \in Services \ {"ovn"}, Moves(s), "ovn" \in Enabled
               PROVE  /\ OvnOnNodes(cpView.images)
                      /\ NicMappings => ImageOf["ovn"][cpView.images] \in rolledOut["ovn"]
    OBVIOUS
  <2>1. cpView.images = ver.target /\ OvnRolledOut /\ OvnOnTarget
    BY MoveOrder
  <2> QED
    BY <2>1 DEF OvnRolledOut, OvnOnTarget, OvnOnNodes, Last
<1> QED
  BY <1>1, DeployedInitTypeInv, NextType, DeployedInitSafety, NextSafety, DeployedInitOrder, NextOrder, PTL
  DEF DeployedSpec, OvnBeforeServices

\* Nor does a pass move a service before the staged services that precede it
\* have been rolled out with the images of the target.
THEOREM StagedServicesGoInOrder ==
    ASSUME MaxRetargets <= 1, FollowsProcedure
    PROVE  DeployedSpec => StagedInOrder
<1>1. TypeInv /\ OrderInv /\ [Next]_vars =>
        \A s \in Services \ {"ovn"}, i \in DOMAIN StagedOrder :
          /\ Moves(s)
          /\ \A j \in 1..i : StagedOrder[j] # s
          /\ StagedOrder[i] \in Enabled
          => ImageOf[StagedOrder[i]][cpView.images] \in rolledOut[StagedOrder[i]]
  BY MoveOrder DEF Last
<1> QED
  BY <1>1, DeployedInitTypeInv, NextType, DeployedInitSafety, NextSafety, DeployedInitOrder, NextOrder, PTL
  DEF DeployedSpec, StagedInOrder

\* When the OpenStackVersion controller sets deployedVersion to the target, from
\* a copy of the objects that may be old, every service CR still asks for the
\* image of the target and every node still has its version and its OVN.
THEOREM CompletionFindsTheTarget ==
    ASSUME MaxRetargets <= 1, FollowsProcedure
    PROVE  DeployedSpec => CompletionCurrent
<1>1. TypeInv /\ SafetyInv /\ OrderInv /\ [Next]_vars =>
        LET v == ver'.deployed
        IN v # ver.deployed /\ ver.deployed # Nil =>
             /\ \A s \in Enabled : HasWorkload(s) => svc[s].image = ImageOf[s][v]
             /\ "ovn" \in Enabled => OvnOnNodes(v)
             /\ \A n \in NodeSets \ EmptyNodeSets : ns[n].version = v
  BY StepCurrent DEF Last
<1> QED
  BY <1>1, DeployedInitTypeInv, NextType, DeployedInitSafety, NextSafety, DeployedInitOrder, NextOrder, PTL
  DEF DeployedSpec, CompletionCurrent

----------------------------------------------------------------------------
(* The first deployment, while its target stays the one it was created     *)
(* with: every image in use is one of that target.                         *)

\* Whoever has a target or its images has those of the OpenStackVersion.
OneTarget ==
    /\ ver.stage = "absent" => verView = Nil
    /\ verView # Nil => verView.target = ver.target
    /\ ver.images \in {Nil, ver.target} /\ cp.deployed \in {Nil, ver.target}
    /\ cpView # Nil /\ cpView.init =>
         ver.stage # "absent" /\ cpView.images = ver.target /\ cpView.target = ver.target

\* A service that is ready has been rolled out with the image of the target.
ReadyAtTarget ==
    \A s \in Services :
      /\ svc[s].image # Nil => ver.stage # "absent" /\ svc[s].image = Last(s)
      /\ svc[s].ready => svc[s].image # Nil /\ Last(s) \in rolledOut[s]

\* So has one whose condition is True, and no enabled service lacks a condition.
Vouches(c) ==
    c.stage = "up" => \A s \in Enabled :
      /\ c.cond[s] # "Absent"
      /\ c.cond[s] = "True" /\ HasWorkload(s) => ver.stage # "absent" /\ Last(s) \in rolledOut[s]

FirstInv ==
    /\ OneTarget /\ ReadyAtTarget /\ Vouches(cp)
    /\ ver.stage = "absent" => cp.deployed = Nil
    /\ verView # Nil => Vouches(verView.cp)

LEMMA InitFirst == Init => FirstInv
  BY DEF Init, FirstInv, OneTarget, ReadyAtTarget, Vouches

\* A step that keeps the target and the control plane, takes up its images or
\* drops a copy keeps this.
LEMMA FirstFrame ==
    ASSUME FirstInv, ver'.target = ver.target, ver'.images \in {ver.images, ver.target},
           ver'.stage = ver.stage \/ ver'.stage # "absent", cp' = cp,
           \A s \in Services : /\ svc'[s].image = svc[s].image /\ rolledOut[s] \subseteq rolledOut'[s]
                               /\ svc'[s].ready => svc[s].ready,
           verView' \in {verView, Nil}, cpView' \in {cpView, Nil}
    PROVE  FirstInv'
<1>1. OneTarget'
  BY DEF FirstInv, OneTarget
<1>2. ReadyAtTarget'
  BY DEF FirstInv, ReadyAtTarget, Last
<1>3. Vouches(cp)' /\ (verView' # Nil => Vouches(verView.cp)')
  BY ServicesAssumption DEF FirstInv, Vouches, Last, HasWorkload
<1> QED
  BY <1>1, <1>2, <1>3 DEF FirstInv

\* Nothing refers to a target before the OpenStackVersion is created.
LEMMA FirstCreated ==
    ASSUME TypeInv, FirstInv, ver.stage = "absent", ver' = NewVersion(env), UNCHANGED <<svc, rolledOut, verView>>,
           cpView' \in {cpView, Nil}, cp'.deployed = cp.deployed,
           cp' = cp \/ \A s \in Enabled : cp'.cond[s] = "Unknown"
    PROVE  FirstInv'
<1>0. ver \in VersionRec /\ ver.images = Nil
  BY DEF TypeInv, TypeOK, TargetKnown
<1>1. ver'.stage = "new" /\ ver'.images = Nil
  BY <1>0 DEF NewVersion, VersionRec
<1>2. OneTarget'
  BY <1>1 DEF FirstInv, OneTarget
<1>3. ReadyAtTarget'
  BY DEF FirstInv, ReadyAtTarget
<1>4. Vouches(cp)'
  BY ServicesAssumption DEF FirstInv, Vouches, HasWorkload
<1> QED
  BY <1>1, <1>2, <1>3, <1>4 DEF FirstInv, OneTarget

LEMMA VersionFirst ==
    ASSUME TypeInv, FirstInv, VersionRead \/ VersionReconcile
    PROVE  FirstInv'
<1>0. ver \in VersionRec
  BY DEF TypeInv, TypeOK
<1>1. CASE VersionRead
  <2>1. /\ ver.stage # "absent" /\ verView' = [target |-> ver.target, cp |-> cp, ns |-> ns]
        /\ UNCHANGED <<ver, cp, svc, cpView, rolledOut>>
    BY <1>1 DEF VersionRead, objects, history
  <2> QED
    BY <2>1 DEF FirstInv, OneTarget, ReadyAtTarget, Vouches, Last, HasWorkload
<1>2. CASE VersionReconcile
  <2>1. ver.stage # "absent" /\ verView # Nil /\ verView.target = ver.target
    BY <1>2 DEF VersionReconcile, VersionAdopt, VersionUnknownTarget, VersionInitialize, VersionUpdate, FirstInv, OneTarget
  <2>2. verView' = Nil /\ UNCHANGED <<cp, svc, cpView, rolledOut>>
    BY <1>2 DEF VersionReconcile, VersionAdopt, VersionUnknownTarget, VersionInitialize, VersionUpdate, PatchVersion
  <2>3. ver'.stage # "absent" /\ ver'.target = ver.target /\ ver'.images \in {ver.images, ver.target}
    <3>1. CASE VersionAdopt \/ VersionUnknownTarget
      BY <1>0, <2>1, <3>1 DEF VersionAdopt, VersionUnknownTarget, PatchVersion, VersionRec
    <3>2. CASE VersionInitialize \/ VersionUpdate
      <4>1. ver.stage = "up"
        BY <3>2 DEF VersionInitialize, VersionUpdate
      <4> QED
        BY <2>1, <2>2, <3>2, <4>1, VersionPatch, <1>2
    <3> QED
      BY <1>2, <3>1, <3>2 DEF VersionReconcile
  <2> QED
    BY <2>2, <2>3, FirstFrame
<1> QED
  BY <1>1, <1>2

LEMMA ControlPlaneFirst ==
    ASSUME TypeInv, FirstInv, ControlPlaneRead \/ ControlPlaneStep
    PROVE  FirstInv'
<1>0. ver \in VersionRec /\ cp \in ControlPlaneRec /\ svc \in [Services -> ServiceRec] /\ Enabled \subseteq CpConds
  BY ServicesAssumption DEF TypeInv, TypeOK, CpConds
<1>1. CASE ControlPlaneRead
  <2>1. cpView' = ver /\ UNCHANGED <<ver, cp, svc, verView, rolledOut>>
    BY <1>1 DEF ControlPlaneRead, objects, history
  <2>2. ver.init => ver.images = ver.target /\ ver.stage # "absent"
    BY DEF FirstInv, OneTarget, TypeInv, TargetKnown
  <2> QED
    BY <2>1, <2>2 DEF FirstInv, OneTarget, ReadyAtTarget, Vouches, Last, HasWorkload
<1>2. CASE ControlPlaneAdopt \/ ControlPlaneAwaitVersion
  <2>1. /\ UNCHANGED <<svc, rolledOut, verView>> /\ cpView' = Nil /\ cp'.deployed = cp.deployed
        /\ ver' = IF ControlPlaneAwaitVersion /\ ver.stage = "absent" THEN NewVersion(env) ELSE ver
    BY <1>0, <1>2 DEF ControlPlaneAdopt, ControlPlaneAwaitVersion, PatchControlPlane, history, ControlPlaneRec
  <2>2. \A s \in Enabled : cp'.cond[s] = "Unknown"
    <3>1. \A s \in Enabled : InitCond(s) = "Unknown" /\ s # "version"
      BY ServicesAssumption DEF InitCond
    <3>2. CASE ControlPlaneAdopt
      <4>1. cp'.cond = [c \in CpConds |-> InitCond(c)]
        BY <1>0, <3>2 DEF ControlPlaneAdopt, PatchControlPlane, ControlPlaneRec
      <4> QED
        BY <1>0, <3>1, <4>1
    <3>3. CASE ControlPlaneAwaitVersion
      <4>1. cp'.cond = [c \in CpConds |-> IF c = "version" THEN "False" ELSE InitCond(c)]
        BY <1>0, <3>3 DEF ControlPlaneAwaitVersion, PatchControlPlane, ControlPlaneRec
      <4> QED
        BY <1>0, <3>1, <4>1
    <3> QED
      BY <1>2, <3>2, <3>3
  <2>3. CASE ver' = ver
    <3>1. Vouches(cp)'
      BY <2>2 DEF Vouches
    <3> QED
      BY <2>1, <2>3, <3>1 DEF FirstInv, OneTarget, ReadyAtTarget, Vouches, Last, HasWorkload
  <2>4. CASE ver.stage = "absent" /\ ver' = NewVersion(env)
    BY <2>1, <2>2, <2>4, FirstCreated
  <2> QED
    BY <2>1, <2>3, <2>4
<1>3. ASSUME NEW k, ControlPlaneReconcile(k) PROVE FirstInv'
  <2> DEFINE W == {Plan[i] : i \in 1..k}
             F == IF k < Len(Plan) THEN {Plan[k + 1]} ELSE {}
  <2>1. /\ cpView # Nil /\ cpView.init /\ ver.stage # "absent"
        /\ cpView.images = ver.target /\ cpView.target = ver.target
    BY <1>3 DEF ControlPlaneReconcile, FirstInv, OneTarget
  <2>2. /\ cpView' = Nil /\ UNCHANGED <<ver, verView, rolledOut>> /\ cp'.deployed \in {cp.deployed, ver.target}
    BY <1>3, <2>1, PassWrites
  <2>3. NormalPass
    BY <2>1 DEF NormalPass, FirstInv, OneTarget
  <2> HIDE DEF W, F
  <2>4. cp'.cond = [c \in CpConds |-> PassCond(c, W, F)]
    BY <1>0, <1>3 DEF ControlPlaneReconcile, PatchControlPlane, ControlPlaneRec, W, F
  <2>5. \A s \in Services : VersionImage(s) = Last(s)
    BY <2>1 DEF VersionImage, Last
  <2>6. ASSUME NEW s \in Enabled
        PROVE  /\ PassCond(s, W, F) # "Absent"
               /\ PassCond(s, W, F) = "True" /\ HasWorkload(s) => Last(s) \in rolledOut[s]
    <3>1. s \in Services /\ s # "version"
      BY ServicesAssumption
    <3>2. InitCond(s) = "Unknown"
      BY DEF InitCond
    <3>3. ServiceCond(s) \in {"True", "False"}
      BY DEF ServiceCond
    <3>4. ServiceCond(s) = "True" /\ HasWorkload(s) => svc[s].ready
      BY DEF ServiceCond, RunsVersionImage
    <3>5. svc[s].ready => Last(s) \in rolledOut[s]
      BY <3>1 DEF FirstInv, ReadyAtTarget
    <3> QED
      BY <2>3, <3>1, <3>2, <3>3, <3>4, <3>5 DEF PassCond
  <2>7. Vouches(cp)'
    BY <1>0, <2>1, <2>2, <2>4, <2>6 DEF Vouches, Last, HasWorkload
  <2>8. ReadyAtTarget'
    <3>1. svc' = [s \in Services |-> IF s \in W \cap Enabled /\ HasWorkload(s) THEN PatchedService(s) ELSE svc[s]]
      BY <1>3 DEF ControlPlaneReconcile, PatchControlPlane, W
    <3>2. \A s \in Services : PatchedService(s).image = Last(s) /\ PatchedService(s).ready = svc[s].ready
      BY <1>0, <2>5 DEF PatchedService, ServiceRec
    <3>3. \A s \in Services : /\ svc'[s].image \in {svc[s].image, Last(s)} /\ svc'[s].ready = svc[s].ready
      BY <3>1, <3>2
    <3> QED
      BY <2>1, <2>2, <3>3 DEF FirstInv, ReadyAtTarget, Last
  <2>9. OneTarget'
    BY <2>1, <2>2 DEF FirstInv, OneTarget
  <2> QED
    BY <2>1, <2>2, <2>7, <2>8, <2>9 DEF FirstInv, Vouches, Last, HasWorkload
<1> QED
  BY <1>1, <1>2, <1>3 DEF ControlPlaneStep

LEMMA NextFirst ==
    ASSUME MaxRetargets = 0
    PROVE  TypeInv /\ FirstInv /\ [Next]_vars => FirstInv'
<1> SUFFICES ASSUME TypeInv, FirstInv, [Next]_vars PROVE FirstInv'
  OBVIOUS
<1>0. svc \in [Services -> ServiceRec] /\ rolledOut \in [Services -> SUBSET Images] /\ retargets \in Nat /\ cp \in ControlPlaneRec
  BY DEF TypeInv, TypeOK
<1>1. CASE UNCHANGED vars
  BY <1>1, FirstFrame DEF vars, objects, history
<1>2. CASE Controllers
  BY <1>2, VersionFirst, ControlPlaneFirst DEF Controllers
<1>3. CASE CreateControlPlane
  <2>1. cp'.stage = "new" /\ cp'.deployed = cp.deployed /\ UNCHANGED <<ver, svc, rolledOut, verView, cpView>>
    BY <1>0, <1>3 DEF CreateControlPlane, ControlPlaneRec, history
  <2> QED
    BY <2>1 DEF FirstInv, OneTarget, ReadyAtTarget, Vouches, Last, HasWorkload
<1>4. CASE CreateVersion
  BY <1>4, FirstCreated DEF CreateVersion, history
<1>5. ASSUME NEW v \in Versions, Retarget(v) PROVE FirstInv'
  BY <1>0, <1>5 DEF Retarget
<1>6. CASE \/ \E v \in Versions : UpgradeOperator(v)
           \/ \E kind \in Kinds : CreateDeployment(kind)
           \/ DeleteFailedDeployments \/ \E n \in NodeSets : EditNodeSet(n) \/ NodeSetReconcile(n)
           \/ FinishDeployment \/ FailDeployment
  <2>1. UNCHANGED <<ver, cp, svc, rolledOut>> /\ verView' \in {verView, Nil} /\ cpView' \in {cpView, Nil}
    BY <1>6 DEF UpgradeOperator, CreateDeployment, DeleteFailedDeployments, EditNodeSet, NodeSetReconcile,
                FinishDeployment, FailDeployment, objects, history
  <2> QED
    BY <2>1, FirstFrame
<1>7. ASSUME NEW s \in Services, ServiceObserve(s) \/ ServiceFlap(s) PROVE FirstInv'
  <2>1. /\ UNCHANGED <<ver, cp, rolledOut, verView, cpView>>
        /\ \A q \in Services : svc'[q].image = svc[q].image /\ (svc'[q].ready => svc[q].ready)
    BY <1>0, <1>7 DEF ServiceObserve, ServiceFlap, ServiceRec, history
  <2> QED
    BY <2>1, FirstFrame
<1>8. ASSUME NEW s \in Services, ServiceReady(s) PROVE FirstInv'
  <2>1. svc[s].image # Nil /\ ver.stage # "absent" /\ svc[s].image = Last(s)
    BY <1>8 DEF ServiceReady, TypeInv, TargetKnown, FirstInv, ReadyAtTarget
  <2>2. /\ UNCHANGED <<ver, cp, verView, cpView>>
        /\ \A q \in Services : /\ svc'[q].image = svc[q].image /\ rolledOut[q] \subseteq rolledOut'[q]
                               /\ q # s => svc'[q].ready = svc[q].ready
        /\ Last(s) \in rolledOut'[s]
    BY <1>0, <1>8, <2>1 DEF ServiceReady, ServiceRec
  <2>3. ReadyAtTarget'
    BY <2>1, <2>2 DEF FirstInv, ReadyAtTarget, Last
  <2>4. Vouches(cp)' /\ (verView' # Nil => Vouches(verView.cp)')
    BY <2>2, ServicesAssumption DEF FirstInv, Vouches, Last, HasWorkload
  <2> QED
    BY <2>2, <2>3, <2>4 DEF FirstInv, OneTarget
<1> QED
  BY <1>1, <1>2, <1>3, <1>4, <1>5, <1>6, <1>7, <1>8 DEF Next, User, Environment

\* From an empty cluster, with a target that stays: whenever the controllers run,
\* services flap, reconciles fail and the operator is upgraded meanwhile, the
\* first deployedVersion is set only after the service operators have rolled out
\* its images, although a condition of the control plane may only mirror the
\* status of an earlier generation of a CR.
THEOREM FirstDeploymentIsSound ==
    ASSUME MaxRetargets = 0
    PROVE  Spec => FirstDeploymentSound
<1>1. TypeInv /\ FirstInv /\ [Next]_vars =>
        (ver'.deployed # ver.deployed /\ ver.deployed = Nil =>
           \A s \in Enabled : HasWorkload(s) => ImageOf[s][ver'.deployed] \in rolledOut[s])
  <2> SUFFICES ASSUME TypeInv, FirstInv, [Next]_vars, ver'.deployed # ver.deployed,
                      NEW s \in Enabled, HasWorkload(s)
               PROVE  ImageOf[s][ver'.deployed] \in rolledOut[s]
    OBVIOUS
  <2>1. verView # Nil /\ ver'.deployed = verView.target /\ IsReady(verView.cp)
    BY DeployedWhenReady
  <2>2. verView.target = ver.target /\ Vouches(verView.cp)
    BY <2>1 DEF FirstInv, OneTarget
  <2>3. verView.cp.stage = "up" /\ verView.cp.cond[s] = "True"
    BY <2>1, <2>2, ServicesAssumption DEF IsReady, CpConds, Vouches
  <2> QED
    BY <2>1, <2>2, <2>3 DEF Vouches, Last
<1> QED
  BY <1>1, InitTypeInv, NextType, InitFirst, NextFirst, PTL
  DEF Spec, FirstDeploymentSound

=============================================================================
