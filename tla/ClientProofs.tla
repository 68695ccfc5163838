---------------------------- MODULE ClientProofs ----------------------------
(***************************************************************************)
(* Safety of the OpenStackClient controller for any sources and bounds:    *)
(* when it rests, the pod is made from the inputs as they are, and a pod   *)
(* made from them is deleted only after a fault or a reverted input, or by *)
(* a pass whose copy of the status is behind.                              *)
(*                                                                         *)
(* The controller compares what it computes with a hash in a copy of the   *)
(* status, not with the pod.  That the hash can stand for the pod has two  *)
(* reasons: without a fault the stored one is the pod's (HashIsPods); and  *)
(* as long as no input goes back, the copies of the hash, the stored hash, *)
(* the pod, the spec a pass has computed and the inputs only follow each   *)
(* other (InOrder), so that a copy equal to what is computed leaves the    *)
(* pod no room to differ.                                                  *)
(***************************************************************************)
EXTENDS OpenStackClient, TLAPS

\* How far the inputs of a pod have come.
Rank(m) == IF m = "absent" THEN 0 ELSE IF m = "plain" THEN 1 ELSE 2

Before(a, b) ==
    /\ a.spec <= b.spec
    /\ \A s \in Sources : a.content[s] <= b.content[s]
    /\ Rank(a.metrics) <= Rank(b.metrics)

\* The cache is behind only while an event is under way, a pass is no further
\* than the cache, and has the hash it has read until it decides on the pod.
Copies ==
    /\ behind \/ cache = [spec |-> spec, status |-> status]
    /\ cache.spec <= spec
    /\ view # Nil => view.spec <= cache.spec
    /\ view # Nil /\ view.step # "done" => view.status.hash = view.before.hash

\* The types, with what bounds the editions and what a pass has computed.
TypeInv ==
    /\ TypeOK
    /\ spec <= edits + 1 /\ \A s \in Sources : content[s] <= edits + 1
    /\ view # Nil /\ view.step = "made" => view.made \in PodSpecs

\* The hash as it will be stored when the pass under way has patched it.
Known == IF view # Nil /\ view.status.hash # view.before.hash THEN view.status.hash ELSE status.hash

HashIsPods == faults = 0 /\ ~(reverted /\ stale) /\ pod # Nil => pod.made = Known

NoLater(a, b) == a # Nil => b # Nil /\ Before(a, b)

\* Neither the hashes H nor the pod p are ahead of w, nor the hashes of the pod.
NotAhead(p, H, w) ==
    /\ p # Nil => Before(p.made, w)
    /\ \A h \in H \ {Nil} : Before(h, w) /\ (p # Nil => Before(h, p.made))

Hashes == {status.hash, Known}

\* The inputs as the pass under way has read or will read them, and as the next
\* one will.
Fresh == [spec |-> view.spec, content |-> content, metrics |-> metrics]
Seen == [spec |-> cache.spec, content |-> content, metrics |-> metrics]

HashesFollow ==
    /\ NoLater(cache.status.hash, status.hash) /\ NoLater(status.hash, Known)
    /\ view # Nil => NoLater(view.before.hash, status.hash)

InOrder ==
    ~reverted =>
        /\ HashesFollow
        /\ NotAhead(pod, Hashes, Seen)
        /\ view # Nil /\ view.step = "read" => NotAhead(pod, Hashes, Fresh)
        /\ view # Nil /\ view.step = "made" => NotAhead(pod, Hashes, view.made) /\ Before(view.made, Seen)

\* The pod, the hash and the conditions are what the inputs ask for.
Settled(st) ==
    pod # Nil /\ pod.made = Current /\ st.hash = Current /\ Ready(st) = pod.ready

\* A pass that nothing has disturbed since it began sees the inputs as they are.
Undisturbed ==
    absent = {} /\ ~queued /\ ~timer /\ ~behind =>
        IF view = Nil THEN Mistaken \/ Settled(status)
        ELSE /\ view.spec = spec /\ view.before = status
             /\ view.step = "made" => (Mistaken \/ view.made = Current) /\ view.status.tlsInput = "True"
             /\ view.step = "done" => Mistaken \/ Settled(view.status)

ClientInv == HashIsPods /\ InOrder /\ Undisturbed

----------------------------------------------------------------------------
(* Types *)

LEMMA EditionFacts == Edition \subseteq Nat /\ 1 \in Edition /\ MaxEvents \in Nat
  BY BoundsAssumption DEF Edition

LEMMA InitType == Init => TypeInv
<1> SUFFICES ASSUME Init PROVE TypeInv
  OBVIOUS
<1> USE BoundsAssumption, EditionFacts
<1>1. status \in StatusRec
  BY DEF Init, StatusRec
<1>2. spec <= edits + 1 /\ \A s \in Sources : content[s] <= edits + 1
  BY DEF Init
<1>3. /\ faults \in Nat /\ edits \in Nat /\ outages \in Nat /\ faults + edits + outages <= MaxEvents
      /\ content \in [Sources -> Edition] /\ cache \in CacheRec
  BY <1>1 DEF Init, CacheRec
<1>4. TypeOK
  BY <1>1, <1>3 DEF Init, TypeOK, MetricStates
<1> QED
  BY <1>2, <1>4 DEF Init, TypeInv

\* A pass goes on with another view, and perhaps another pod; the inputs stay.
LEMMA StepType ==
    ASSUME TypeInv, UNCHANGED <<inputs, edits, outages>>,
           status' \in StatusRec, cache' \in CacheRec, behind' \in BOOLEAN,
           pod' = Nil \/ pod' \in PodRec, queued' \in BOOLEAN, timer' \in BOOLEAN,
           faults' \in Nat, faults' + edits + outages <= MaxEvents, reverted' \in BOOLEAN, stale' \in BOOLEAN,
           view' = Nil \/ view' \in ViewRec,
           view' # Nil /\ view'.step = "made" => view'.made \in PodSpecs
    PROVE  TypeInv'
  BY DEF TypeInv, TypeOK, inputs

LEMMA ViewFacts ==
    ASSUME TypeInv, view # Nil
    PROVE  /\ view \in ViewRec /\ view.status \in StatusRec /\ view.spec \in Edition /\ view.before \in StatusRec
           /\ view.step \in {"read", "made", "done"} /\ view.status.hash \in PodSpecs \cup {Nil}
           /\ view.before.hash \in PodSpecs \cup {Nil}
  BY DEF TypeInv, TypeOK, ViewRec, StatusRec

\* The next fault is within the bound.
LEMMA FaultType ==
    ASSUME TypeInv, Fault
    PROVE  faults' \in Nat /\ faults' + edits + outages <= MaxEvents /\ faults' > 0 /\ faults' > faults
  BY BoundsAssumption DEF TypeInv, TypeOK, Fault, Bounded

LEMMA ReadView ==
    ASSUME TypeInv, ReconcileRead
    PROVE  /\ view' \in ViewRec /\ view'.step = "read" /\ view'.spec = cache.spec
           /\ view'.before = cache.status /\ view'.status.hash = cache.status.hash
<1>1. cache.status \in StatusRec /\ cache.spec \in Edition
  BY DEF TypeInv, TypeOK, CacheRec
<1>2. [cache.status EXCEPT !.client = "Unknown", !.observed = cache.spec] \in StatusRec
  BY <1>1 DEF StatusRec
<1> QED
  BY <1>1, <1>2 DEF ReconcileRead, ViewRec, StatusRec

LEMMA EarlyView ==
    ASSUME TypeInv, view # Nil, NEW client \in {"Unknown", "False"}, NEW tlsInput \in {Nil, "False", "True"},
           NEW again, EndsEarly(client, tlsInput, again)
    PROVE  /\ view' \in ViewRec /\ view'.step = "done" /\ view'.spec = view.spec
           /\ view'.before = view.before /\ view'.status.hash = view.status.hash
<1>1. [view.status EXCEPT !.client = client, !.tlsInput = tlsInput] \in StatusRec
  BY ViewFacts DEF StatusRec
<1> QED
  BY <1>1, ViewFacts DEF EndsEarly, ViewRec, StatusRec

LEMMA MadeView ==
    ASSUME TypeInv, view # Nil, absent = {}, NEW m \in MetricStates, MakePodSpecFrom(m)
    PROVE  /\ view' \in ViewRec /\ view'.step = "made" /\ view'.spec = view.spec
           /\ view'.made = [Fresh EXCEPT !.metrics = m] /\ view'.made \in PodSpecs
           /\ view'.before = view.before
           /\ view'.status.hash = view.status.hash /\ view'.status.tlsInput = "True"
<1>0. view \in ViewRec /\ view.status \in StatusRec /\ view.spec \in Edition
  BY ViewFacts
<1>1. ClientPodSpec(m) = [Fresh EXCEPT !.metrics = m] /\ ClientPodSpec(m) \in PodSpecs
  BY <1>0 DEF ClientPodSpec, Content, Fresh, PodSpecs, TypeInv, TypeOK
<1>2. [view.status EXCEPT !.tlsInput = "True"] \in StatusRec
  BY <1>0 DEF StatusRec
<1> QED
  BY <1>0, <1>1, <1>2 DEF MakePodSpecFrom, ViewRec, StatusRec

LEMMA DoneView ==
    ASSUME TypeInv, view # Nil, NEW st \in StatusRec,
           view' = [view EXCEPT !.step = "done", !.status = st]
    PROVE  /\ view' \in ViewRec /\ view'.step = "done" /\ view'.spec = view.spec /\ view'.status = st
           /\ view'.before = view.before
  BY ViewFacts DEF ViewRec

LEMMA PodStatusType ==
    ASSUME TypeInv, view # Nil, view.step = "made", NEW p \in PodRec
    PROVE  /\ PodStatus(p) \in StatusRec /\ PodStatus(p).hash = view.made
           /\ PodStatus(p).tlsInput = view.status.tlsInput
           /\ PodStatus(p).client = IF p.ready THEN "True" ELSE "False"
<1>1. view.status \in StatusRec /\ view.made \in PodSpecs
  BY ViewFacts DEF TypeInv
<1> QED
  BY <1>1 DEF PodStatus, StatusRec, PodRec

\* Without a decision on the pod the pass ends with the status it had.
LEMMA UndecidedView ==
    ASSUME TypeInv, view # Nil, view' = [view EXCEPT !.step = "done"]
    PROVE  /\ view' \in ViewRec /\ view'.step = "done" /\ view'.spec = view.spec /\ view'.status = view.status
           /\ view'.before = view.before
  BY ViewFacts DEF ViewRec

\* The patch leaves a status, with the hash that was known to come.
LEMMA PatchedType ==
    ASSUME TypeInv, view # Nil, NEW reworded \in BOOLEAN
    PROVE  Patched(reworded) \in StatusRec /\ Patched(reworded).hash = Known
<1>1. view.status \in StatusRec /\ view.before \in StatusRec /\ status \in StatusRec
  BY ViewFacts DEF TypeInv, TypeOK
<1> QED
  BY <1>1 DEF Patched, Known, StatusRec

LEMMA InputsCases ==
    ASSUME TypeInv, ReconcileInputs
    PROVE  \/ AwaitKeystone \/ AwaitSource
           \/ absent # {} /\ AwaitCABundle
           \/ absent = {} /\ MakePodSpec
           \/ absent = {} /\ MetricsUnread
  BY DEF ReconcileInputs, TypeInv, TypeOK

LEMMA ReconcileType == ASSUME TypeInv, Reconcile PROVE TypeInv'
<1>0. /\ TypeOK /\ status \in StatusRec /\ cache \in CacheRec /\ behind \in BOOLEAN /\ spec \in Edition
      /\ pod = Nil \/ pod \in PodRec
      /\ queued \in BOOLEAN /\ timer \in BOOLEAN /\ faults \in Nat /\ faults + edits + outages <= MaxEvents
      /\ reverted \in BOOLEAN /\ stale \in BOOLEAN
  BY DEF TypeInv, TypeOK
<1>1. CASE ReconcileRead
  BY <1>0, <1>1, ReadView, StepType DEF ReconcileRead, object, history
<1>2. CASE ReconcileInputs
  <2>0. view # Nil /\ view.status \in StatusRec
    BY <1>2, ViewFacts DEF ReconcileInputs
  <2>1. ASSUME NEW client \in {"Unknown", "False"}, NEW tlsInput \in {Nil, "False", "True"}, NEW again \in BOOLEAN,
               EndsEarly(client, tlsInput, again)
        PROVE  TypeInv'
    <3>1. view' \in ViewRec /\ view'.step = "done"
      BY <2>0, <2>1, EarlyView
    <3> QED
      BY <1>0, <2>1, <3>1, StepType DEF EndsEarly, object, history
  <2>2. CASE AwaitKeystone \/ AwaitSource \/ AwaitCABundle
    <3>1. view.status.tlsInput \in {Nil, "False", "True"}
      BY <2>0 DEF StatusRec
    <3> QED
      BY <2>1, <2>2, <3>1 DEF AwaitKeystone, AwaitSource, AwaitCABundle
  <2>3. CASE absent = {} /\ MakePodSpec
    <3>1. metrics \in MetricStates
      BY <1>0 DEF TypeOK
    <3>2. view' \in ViewRec /\ view'.made \in PodSpecs
      BY <2>0, <2>3, <3>1, MadeView DEF MakePodSpec
    <3> QED
      BY <1>0, <2>3, <3>2, StepType DEF MakePodSpec, MakePodSpecFrom, object
  <2>4. CASE absent = {} /\ MetricsUnread
    <3>1. "absent" \in MetricStates
      BY DEF MetricStates
    <3>2. view' \in ViewRec /\ view'.made \in PodSpecs
      BY <2>0, <2>4, <3>1, MadeView DEF MetricsUnread
    <3>3. faults' \in Nat /\ faults' + edits + outages <= MaxEvents
      BY <2>4, FaultType DEF MetricsUnread
    <3> QED
      BY <1>0, <2>4, <3>2, <3>3, StepType DEF MetricsUnread, MakePodSpecFrom, object
  <2> QED
    BY <1>2, <2>2, <2>3, <2>4, InputsCases
<1>3. CASE ReconcilePod
  <2>0. view # Nil /\ view.step = "made" /\ view.made \in PodSpecs
    BY <1>3 DEF ReconcilePod, TypeInv
  <2>1. UNCHANGED <<inputs, status, cache, behind, edits, outages, reverted>> /\ stale' \in BOOLEAN
    BY <1>3 DEF ReconcilePod, object
  <2>2. CASE CreatePod
    <3>1. pod' \in PodRec
      BY <2>0, <2>2 DEF CreatePod, PodRec
    <3>0. PodStatus(pod') \in StatusRec
      BY <2>0, <3>1, PodStatusType
    <3>2. view' \in ViewRec /\ view'.step = "done"
      BY <2>0, <2>2, <3>0, ViewFacts DEF CreatePod, ViewRec
    <3> QED
      BY <1>0, <2>1, <2>2, <3>1, <3>2, StepType DEF CreatePod
  <2>3. CASE KeepPod
    <3>0. PodStatus(pod) \in StatusRec
      BY <1>0, <2>0, <2>3, PodStatusType DEF KeepPod
    <3>1. view' \in ViewRec /\ view'.step = "done"
      BY <2>0, <2>3, <3>0, ViewFacts DEF KeepPod, ViewRec
    <3> QED
      BY <1>0, <2>1, <2>3, <3>1, StepType DEF KeepPod
  <2>4. CASE ReplacePod \/ PodError
    <3>1. view' \in ViewRec /\ view'.step = "done"
      BY <2>0, <2>4, UndecidedView DEF ReplacePod, PodError
    <3>2. faults' \in Nat /\ faults' + edits + outages <= MaxEvents
      BY <1>0, <2>4, FaultType DEF ReplacePod, PodError
    <3> QED
      BY <1>0, <2>1, <2>4, <3>1, <3>2, StepType DEF ReplacePod, PodError
  <2> QED
    BY <1>3, <2>2, <2>3, <2>4 DEF ReconcilePod
<1>4. CASE ReconcilePatch
  <2>1. status' \in StatusRec /\ behind' \in BOOLEAN
    BY <1>0, <1>4, PatchedType DEF ReconcilePatch
  <2> QED
    BY <1>0, <1>4, <2>1, StepType DEF ReconcilePatch, history
<1>5. CASE ReconcilePatchFails
  BY <1>0, <1>5, FaultType, StepType DEF ReconcilePatchFails, object
<1> QED
  BY <1>1, <1>2, <1>3, <1>4, <1>5 DEF Reconcile

LEMMA OthersType == ASSUME TypeInv, CacheCatchesUp \/ Timer \/ Restart \/ Resync \/ Environment PROVE TypeInv'
<1> USE BoundsAssumption
<1>0. TypeOK /\ [spec |-> spec, status |-> status] \in CacheRec
  BY DEF TypeInv, TypeOK, CacheRec
<1>1. CASE Timer \/ Resync
  BY <1>0, <1>1 DEF Timer, Resync, inputs, object, history, TypeInv, TypeOK
<1>2. CASE Restart
  BY <1>0, <1>2, FaultType, StepType DEF Restart, TypeOK
<1>3. CASE EditSpec
  <2>1. /\ spec' \in Edition /\ spec' <= edits' + 1 /\ edits' \in Nat /\ faults + edits' + outages <= MaxEvents
        /\ \A s \in Sources : content[s] <= edits' + 1
    BY <1>0, <1>3, EditionFacts DEF EditSpec, Edit, Bounded, TypeInv, TypeOK, Edition
  <2> QED
    BY <1>0, <1>3, <2>1 DEF EditSpec, TypeInv, TypeOK
<1>4. ASSUME NEW s \in Sources, EditSource(s) PROVE TypeInv'
  <2>1. /\ content' \in [Sources -> Edition] /\ spec <= edits' + 1 /\ edits' \in Nat
        /\ faults + edits' + outages <= MaxEvents
        /\ \A t \in Sources : content'[t] <= edits' + 1
    BY <1>0, <1>4 DEF EditSource, Edit, Bounded, TypeInv, TypeOK, Edition
  <2> QED
    BY <1>0, <1>4, <2>1 DEF EditSource, findObjectsForSrc, object, TypeInv, TypeOK
<1>5. ASSUME NEW s \in Sources, CreateSource(s) \/ RemoveSource(s) PROVE TypeInv'
  <2>1. outages' \in Nat /\ faults + edits + outages' <= MaxEvents /\ absent' \subseteq Sources
    BY <1>0, <1>5 DEF CreateSource, RemoveSource, Outage, Bounded, history, TypeOK
  <2>2. /\ UNCHANGED <<spec, content, metrics, keystone, object, pod, timer, view, faults, edits, reverted, stale>>
        /\ queued' = TRUE
    BY <1>5 DEF CreateSource, RemoveSource, findObjectsForSrc, history
  <2> QED
    BY <1>0, <2>1, <2>2 DEF object, TypeInv, TypeOK
<1>6. CASE ChangeMetrics
  <2>1. /\ edits' \in Nat /\ faults + edits' + outages <= MaxEvents /\ spec <= edits' + 1
        /\ \A s \in Sources : content[s] <= edits' + 1
    BY <1>0, <1>6, EditionFacts DEF ChangeMetrics, Edit, Bounded, TypeInv, TypeOK, Edition
  <2>2. metrics' \in MetricStates /\ reverted' \in BOOLEAN
    BY <1>0, <1>6 DEF ChangeMetrics, MetricStates
  <2> QED
    BY <1>0, <1>6, <2>1, <2>2 DEF ChangeMetrics, object, TypeInv, TypeOK
<1>7. CASE KeystoneUp \/ KeystoneDown
  <2>0. outages \in Nat /\ faults + edits + outages <= MaxEvents
    BY <1>0 DEF TypeOK
  <2>1. outages' \in Nat /\ faults + edits + outages' <= MaxEvents
    <3>1. CASE KeystoneUp
      BY <2>0, <3>1 DEF KeystoneUp, history
    <3>2. CASE KeystoneDown
      BY <1>0, <3>2 DEF KeystoneDown, Outage, Bounded, TypeOK
    <3> QED
      BY <1>7, <3>1, <3>2
  <2>3. keystone' \in BOOLEAN
    BY <1>7, Zenon DEF KeystoneUp, KeystoneDown
  <2>2. UNCHANGED <<spec, content, absent, metrics, object, pod, queued, timer, view, faults, edits,
                    reverted, stale>>
    BY <1>7 DEF KeystoneUp, KeystoneDown, history
  <2> QED
    BY <1>0, <2>1, <2>2, <2>3 DEF object, TypeInv, TypeOK
<1>8. CASE PodStarts \/ PodEvicted \/ PodTerminates
  <2>1. pod' = Nil \/ pod' \in PodRec
    BY <1>0, <1>8 DEF PodStarts, PodEvicted, PodTerminates, PodRec, TypeOK
  <2>2. faults' \in Nat /\ faults' + edits + outages <= MaxEvents
    BY <1>0, <1>8, FaultType DEF PodStarts, PodEvicted, PodTerminates, history, TypeOK
  <2> QED
    BY <1>0, <1>8, <2>1, <2>2 DEF PodStarts, PodEvicted, PodTerminates, inputs, object, history, TypeInv, TypeOK
<1>9. CASE CacheCatchesUp
  BY <1>0, <1>9 DEF CacheCatchesUp, inputs, history, TypeInv, TypeOK
<1> QED
  BY <1>1, <1>2, <1>3, <1>4, <1>5, <1>6, <1>7, <1>8, <1>9 DEF Environment

LEMMA NextType == TypeInv /\ [Next]_vars => TypeInv'
<1> SUFFICES ASSUME TypeInv, [Next]_vars PROVE TypeInv'
  OBVIOUS
<1>1. CASE UNCHANGED vars
  BY <1>1 DEF vars, inputs, object, history, TypeInv, TypeOK
<1> QED
  BY <1>1, ReconcileType, OthersType DEF Next

\* The client's objects keep their types, and a pass computes the spec of a pod
\* only from sources that exist: a missing one never gets into the hash.
THEOREM ClientTypeCorrect == Spec => []TypeOK
<1>1. TypeInv => TypeOK
  BY DEF TypeInv
<1> QED
  BY <1>1, InitType, NextType, PTL DEF Spec

----------------------------------------------------------------------------
(* The order of the inputs *)

LEMMA PodSpecFacts ==
    ASSUME NEW a \in PodSpecs
    PROVE  /\ a.spec \in Nat /\ a.metrics \in MetricStates /\ a.content \in [Sources -> Nat]
           /\ Rank(a.metrics) \in Nat
           /\ a = [spec |-> a.spec, content |-> a.content, metrics |-> a.metrics]
  BY EditionFacts DEF PodSpecs, Rank

LEMMA BeforeItself == ASSUME NEW a \in PodSpecs PROVE Before(a, a)
  BY PodSpecFacts DEF Before

LEMMA BeforeTransitive ==
    ASSUME NEW a \in PodSpecs, NEW b \in PodSpecs, NEW c \in PodSpecs, Before(a, b), Before(b, c)
    PROVE  Before(a, c)
<1>1. a.spec <= c.spec
  BY PodSpecFacts DEF Before
<1>2. ASSUME NEW s \in Sources PROVE a.content[s] <= c.content[s]
  <2>1. a.content[s] \in Nat /\ b.content[s] \in Nat /\ c.content[s] \in Nat
    BY PodSpecFacts
  <2> QED
    BY <2>1 DEF Before
<1>3. Rank(a.metrics) <= Rank(c.metrics)
  BY PodSpecFacts DEF Before
<1> QED
  BY <1>1, <1>2, <1>3 DEF Before

LEMMA BeforeEachOther ==
    ASSUME NEW a \in PodSpecs, NEW b \in PodSpecs, Before(a, b), Before(b, a)
    PROVE  a = b
<1>1. a.spec = b.spec
  BY PodSpecFacts DEF Before
<1>2. a.content = b.content
  <2>1. ASSUME NEW s \in Sources PROVE a.content[s] = b.content[s]
    <3>1. a.content[s] \in Nat /\ b.content[s] \in Nat
      BY PodSpecFacts
    <3> QED
      BY <3>1 DEF Before
  <2> QED
    BY <2>1, PodSpecFacts
<1>3. a.metrics = b.metrics
  BY PodSpecFacts DEF Before, Rank, MetricStates
<1> QED
  BY <1>1, <1>2, <1>3, PodSpecFacts

\* Nothing that was behind w comes ahead of a later w2.
LEMMA NotAheadGrows ==
    ASSUME NEW p, NEW p2, NEW H, NEW H2, NEW w \in PodSpecs, NEW w2 \in PodSpecs,
           NotAhead(p, H, w), Before(w, w2),
           p # Nil => p.made \in PodSpecs, H \subseteq PodSpecs \cup {Nil}, H2 \subseteq H,
           p2 = Nil \/ (p # Nil /\ p2.made = p.made)
    PROVE  NotAhead(p2, H2, w2)
<1>1. p2 # Nil => Before(p2.made, w2)
  BY BeforeTransitive DEF NotAhead
<1>2. ASSUME NEW h \in H2 \ {Nil} PROVE Before(h, w2) /\ (p2 # Nil => Before(h, p2.made))
  BY <1>2, BeforeTransitive DEF NotAhead
<1> QED
  BY <1>1, <1>2 DEF NotAhead

OrderTyped ==
    /\ Current \in PodSpecs /\ Seen \in PodSpecs /\ Hashes \subseteq PodSpecs \cup {Nil}
    /\ status.hash \in PodSpecs \cup {Nil} /\ Known \in PodSpecs \cup {Nil}
    /\ cache.status.hash \in PodSpecs \cup {Nil}
    /\ spec \in Nat /\ cache.spec \in Nat /\ faults \in Nat
    /\ view # Nil => Fresh \in PodSpecs /\ view.spec \in Nat /\ view.before.hash \in PodSpecs \cup {Nil}
    /\ pod # Nil => pod.made \in PodSpecs

LEMMA OrderTypes == TypeInv => OrderTyped
<1> SUFFICES ASSUME TypeInv PROVE OrderTyped
  OBVIOUS
<1>0. cache.spec \in Edition /\ cache.status \in StatusRec /\ status \in StatusRec
  BY DEF TypeInv, TypeOK, CacheRec
<1>1. Current \in PodSpecs /\ Seen \in PodSpecs
  BY <1>0 DEF TypeInv, TypeOK, Current, Seen, PodSpecs
<1>2. view # Nil => Fresh \in PodSpecs /\ view.spec \in Nat /\ view.before.hash \in PodSpecs \cup {Nil}
  BY ViewFacts, EditionFacts DEF TypeInv, TypeOK, Fresh, PodSpecs
<1>3. /\ status.hash \in PodSpecs \cup {Nil} /\ cache.status.hash \in PodSpecs \cup {Nil}
      /\ Known \in PodSpecs \cup {Nil}
  BY <1>0, ViewFacts DEF Known, StatusRec
<1>4. pod # Nil => pod.made \in PodSpecs
  BY DEF TypeInv, TypeOK, PodRec
<1>5. spec \in Nat /\ cache.spec \in Nat /\ faults \in Nat
  BY <1>0, EditionFacts, BoundsAssumption DEF TypeInv, TypeOK
<1> QED
  BY <1>1, <1>2, <1>3, <1>4, <1>5 DEF OrderTyped, Hashes

LEMMA OrderTypesNext == TypeInv' => OrderTyped'
  BY OrderTypes, PTL

LEMMA NoLaterItself == ASSUME NEW a \in PodSpecs \cup {Nil} PROVE NoLater(a, a)
  BY BeforeItself DEF NoLater

LEMMA NoLaterTransitive ==
    ASSUME NEW a \in PodSpecs \cup {Nil}, NEW b \in PodSpecs \cup {Nil}, NEW c \in PodSpecs \cup {Nil},
           NoLater(a, b), NoLater(b, c)
    PROVE  NoLater(a, c)
  BY BeforeTransitive DEF NoLater

----------------------------------------------------------------------------
(* The copies *)

LEMMA InitCopies == Init => Copies
  BY DEF Init, Copies

\* A patch that changes nothing leaves what is stored.
LEMMA PatchedSame ==
    ASSUME TypeInv, view # Nil, view.status = view.before
    PROVE  Patched(FALSE) = status
<1>1. status \in StatusRec
  BY DEF TypeInv, TypeOK
<1> QED
  BY <1>1 DEF Patched, StatusRec

LEMMA NextCopies == TypeInv /\ TypeInv' /\ Copies /\ [Next]_vars => Copies'
<1> SUFFICES ASSUME TypeInv, TypeInv', Copies, [Next]_vars PROVE Copies'
  OBVIOUS
<1>0. /\ spec \in Nat /\ cache.spec \in Nat
      /\ view # Nil => view.spec \in Nat
  BY OrderTypes DEF OrderTyped
<1>1. ASSUME UNCHANGED <<spec, object, view>> PROVE Copies'
  BY <1>1 DEF Copies, object
\* A pass goes on: what it has read stays, the hash until it decides.
<1>2. ASSUME UNCHANGED <<spec, object>>, view # Nil, view'.spec = view.spec,
             view'.step = "done" \/ view'.status.hash = view'.before.hash
      PROVE  Copies'
  BY <1>2 DEF Copies, object
<1>3. CASE ReconcileRead
  <2>1. /\ UNCHANGED <<spec, status, cache, behind>> /\ view'.spec = cache.spec
        /\ view'.status.hash = view'.before.hash
    BY <1>3, ReadView DEF ReconcileRead, object, inputs
  <2> QED
    BY <1>0, <2>1 DEF Copies
<1>4. CASE ReconcileInputs
  <2>0. view # Nil /\ view.step = "read" /\ view.status.hash = view.before.hash /\ view.status \in StatusRec
    BY <1>4, ViewFacts DEF ReconcileInputs, Copies
  <2>1. ASSUME NEW client \in {"Unknown", "False"}, NEW tlsInput \in {Nil, "False", "True"}, NEW again,
               EndsEarly(client, tlsInput, again)
        PROVE  Copies'
    BY <1>2, <2>0, <2>1, EarlyView DEF EndsEarly, inputs
  <2>2. view.status.tlsInput \in {Nil, "False", "True"}
    BY <2>0 DEF StatusRec
  <2>3. CASE AwaitKeystone \/ AwaitSource \/ AwaitCABundle
    BY <2>1, <2>2, <2>3 DEF AwaitKeystone, AwaitSource, AwaitCABundle
  <2>4. ASSUME absent = {}, NEW m \in MetricStates, MakePodSpecFrom(m) PROVE Copies'
    <3>1. view'.spec = view.spec /\ view'.before = view.before /\ view'.status.hash = view.status.hash
      BY <2>0, <2>4, MadeView
    <3>2. UNCHANGED <<spec, object>>
      BY <2>4 DEF MakePodSpecFrom, inputs
    <3> QED
      BY <1>2, <2>0, <3>1, <3>2
  <2>5. metrics \in MetricStates /\ "absent" \in MetricStates
    BY DEF TypeInv, TypeOK, MetricStates
  <2> QED
    BY <1>4, <2>3, <2>4, <2>5, InputsCases DEF MakePodSpec, MetricsUnread
<1>5. CASE ReconcilePod
  <2>1. UNCHANGED <<spec, object>> /\ view # Nil
    BY <1>5 DEF ReconcilePod, inputs
  <2>2. view'.spec = view.spec /\ view'.step = "done"
    BY <1>5, <2>1, ViewFacts DEF ReconcilePod, CreatePod, ReplacePod, KeepPod, PodError, ViewRec
  <2> QED
    BY <1>2, <2>1, <2>2
<1>6. CASE ReconcilePatch
  <2>1. view # Nil /\ view' = Nil /\ UNCHANGED <<spec, cache>>
    BY <1>6 DEF ReconcilePatch, inputs
  <2>2. behind' \/ (~behind /\ status' = status)
    BY <1>6, <2>1, PatchedSame DEF ReconcilePatch
  <2> QED
    BY <2>1, <2>2 DEF Copies
<1>7. CASE ReconcilePatchFails
  BY <1>7 DEF ReconcilePatchFails, Copies, object, inputs
<1>8. CASE CacheCatchesUp \/ Restart
  <2>1. cache' = [spec |-> spec, status |-> status] /\ UNCHANGED <<spec, status>> /\ (view' = Nil \/ view' = view)
    BY <1>8 DEF CacheCatchesUp, Restart, inputs
  <2> QED
    BY <1>0, <2>1 DEF Copies
<1>9. CASE EditSpec
  BY <1>0, <1>9 DEF EditSpec, Copies
<1>10. CASE UNCHANGED vars \/ Timer \/ Resync \/ (Environment /\ ~EditSpec)
  BY <1>1, <1>10
    DEF vars, Timer, Resync, Environment, EditSource, CreateSource, RemoveSource, ChangeMetrics,
        KeystoneUp, KeystoneDown, PodStarts, PodEvicted, PodTerminates, inputs
<1> QED
  BY <1>3, <1>4, <1>5, <1>6, <1>7, <1>8, <1>9, <1>10 DEF Next, Reconcile, Environment

----------------------------------------------------------------------------
(* The invariant *)

\* Steps that leave the stored status and the pass alone.  The inputs may have
\* come further, the cache be as stored, or the pod gone; then a pass is queued
\* or an event under way.
LEMMA ClientFrame ==
    ASSUME TypeInv, TypeInv', Copies, ClientInv, UNCHANGED <<status, view, stale>>,
           cache' = cache \/ cache' = [spec |-> spec, status |-> status],
           ~reverted' => ~reverted /\ Before(Seen, Seen') /\ (view # Nil => Before(Fresh, Fresh')),
           faults <= faults', reverted => reverted',
           pod' = Nil \/ (pod # Nil /\ pod'.made = pod.made),
           \/ queued' \/ behind'
           \/ UNCHANGED <<spec, content, metrics, absent, queued, timer, behind, pod>>
    PROVE  ClientInv'
<1>a. OrderTyped /\ OrderTyped'
  BY OrderTypes, OrderTypesNext
<1>0. faults \in Nat /\ faults' \in Nat
  BY <1>a DEF OrderTyped
<1>1. Hashes' = Hashes /\ Known' = Known
  BY DEF Hashes, Known
<1>2. HashIsPods'
  BY <1>0, <1>1 DEF ClientInv, HashIsPods
<1>3. ASSUME ~reverted'
      PROVE  /\ HashesFollow' /\ NotAhead(pod', Hashes', Seen')
             /\ view # Nil /\ view.step = "read" => NotAhead(pod', Hashes', Fresh')
             /\ view # Nil /\ view.step = "made"
                   => NotAhead(pod', Hashes', view.made) /\ Before(view.made, Seen')
  <2>0. Seen \in PodSpecs /\ Seen' \in PodSpecs /\ ~reverted /\ Before(Seen, Seen')
    BY <1>a, <1>3 DEF OrderTyped
  <2>1. HashesFollow'
    <3>1. HashesFollow /\ NoLater(status.hash, status.hash)
      BY <1>a, <2>0, NoLaterItself DEF ClientInv, InOrder, OrderTyped
    <3>2. cache'.status.hash = cache.status.hash \/ cache'.status.hash = status.hash
      OBVIOUS
    <3> QED
      BY <1>1, <3>1, <3>2 DEF HashesFollow
  <2>2. NotAhead(pod', Hashes', Seen')
    <3>1. NotAhead(pod, Hashes, Seen)
      BY <2>0 DEF ClientInv, InOrder
    <3> QED
      BY <1>a, <1>1, <2>0, <3>1, NotAheadGrows DEF OrderTyped
  <2>3. ASSUME view # Nil, view.step = "read" PROVE NotAhead(pod', Hashes', Fresh')
    <3>1. Fresh \in PodSpecs /\ Fresh' \in PodSpecs /\ Before(Fresh, Fresh')
      BY <1>a, <1>3, <2>3 DEF OrderTyped
    <3>2. NotAhead(pod, Hashes, Fresh)
      BY <2>0, <2>3 DEF ClientInv, InOrder
    <3> QED
      BY <1>a, <1>1, <2>3, <3>1, <3>2, NotAheadGrows DEF OrderTyped
  <2>4. ASSUME view # Nil, view.step = "made" PROVE NotAhead(pod', Hashes', view.made) /\ Before(view.made, Seen')
    <3>1. view.made \in PodSpecs
      BY <2>4 DEF TypeInv
    <3>2. NotAhead(pod, Hashes, view.made) /\ Before(view.made, Seen)
      BY <2>0, <2>4 DEF ClientInv, InOrder
    <3>3. NotAhead(pod', Hashes', view.made)
      BY <1>a, <1>1, <3>1, <3>2, NotAheadGrows, BeforeItself DEF OrderTyped
    <3> QED
      BY <2>0, <3>1, <3>2, <3>3, BeforeTransitive
  <2> QED
    BY <2>1, <2>2, <2>3, <2>4
<1>4. InOrder'
  BY <1>3 DEF InOrder
<1>5. Undisturbed'
  <2>1. CASE queued' \/ behind'
    BY <2>1 DEF Undisturbed
  <2>2. CASE UNCHANGED <<spec, content, metrics, absent, queued, timer, behind, pod>>
    <3>1. Mistaken => Mistaken'
      BY <1>0 DEF Mistaken
    <3>2. Current' = Current /\ \A st : Settled(st)' <=> Settled(st)
      BY <2>2 DEF Current, Settled
    <3> QED
      BY <2>2, <3>1, <3>2 DEF ClientInv, Undisturbed, Settled
  <2> QED
    BY <2>1, <2>2
<1> QED
  BY <1>2, <1>4, <1>5 DEF ClientInv

\* The informer only brings the pass closer to the inputs.
LEMMA SeenGrows ==
    ASSUME TypeInv, Copies, UNCHANGED <<spec, content, metrics>>,
           cache' = cache \/ cache' = [spec |-> spec, status |-> status]
    PROVE  Before(Seen, Seen')
<1>1. OrderTyped /\ Before(Seen, Seen) /\ cache.spec <= spec
  BY OrderTypes, BeforeItself DEF OrderTyped, Copies
<1> QED
  BY <1>1 DEF Seen, Before

LEMMA SameInputs ==
    ASSUME TypeInv, Copies, UNCHANGED <<spec, content, metrics, view>>,
           cache' = cache \/ cache' = [spec |-> spec, status |-> status]
    PROVE  Before(Seen, Seen') /\ (view # Nil => Before(Fresh, Fresh'))
<1>1. Fresh' = Fresh /\ OrderTyped
  BY OrderTypes DEF Fresh
<1> QED
  BY <1>1, SeenGrows, BeforeItself DEF OrderTyped

\* The user, Keystone, Kubernetes, the watch and the work queue leave the
\* stored status alone, and whatever matters to a pass wakes it.
LEMMA EnvironmentInv ==
    ASSUME TypeInv, TypeInv', Copies, ClientInv, CacheCatchesUp \/ Timer \/ Resync \/ Environment
    PROVE  ClientInv'
<1>a. OrderTyped /\ faults \in Nat /\ spec \in Nat /\ cache.spec \in Nat
  BY OrderTypes DEF OrderTyped
<1>b. pod' = pod => pod' = Nil \/ (pod # Nil /\ pod'.made = pod.made)
  OBVIOUS
<1>1. CASE CacheCatchesUp \/ Timer \/ Resync
  <2>1. /\ UNCHANGED <<spec, content, metrics, view, status, pod, faults, reverted, stale>> /\ queued'
        /\ cache' = cache \/ cache' = [spec |-> spec, status |-> status]
    BY <1>1 DEF CacheCatchesUp, Timer, Resync, inputs, object, history
  <2> QED
    BY <1>a, <1>b, <2>1, SameInputs, ClientFrame
<1>2. CASE EditSpec
  <2>1. /\ UNCHANGED <<content, metrics, view, status, cache, pod, faults, reverted, stale>>
        /\ behind'
    BY <1>2 DEF EditSpec
  <2>2. Seen' = Seen /\ Fresh' = Fresh
    BY <2>1 DEF Seen, Fresh
  <2> QED
    BY <1>a, <1>b, <2>1, <2>2, BeforeItself, ClientFrame DEF OrderTyped
<1>3. ASSUME NEW s \in Sources, EditSource(s) PROVE ClientInv'
  <2>1. UNCHANGED <<spec, metrics, view, status, cache, pod, faults, reverted, stale>> /\ queued'
    BY <1>3 DEF EditSource, findObjectsForSrc, object
  <2>2. \A t \in Sources : content[t] <= content'[t]
    <3>1. content \in [Sources -> Nat] /\ content' = [content EXCEPT ![s] = content[s] + 1]
      BY <1>3, EditionFacts DEF EditSource, TypeInv, TypeOK
    <3> QED
      BY <3>1
  <2>3. Rank(metrics) <= Rank(metrics)
    BY DEF Rank
  <2>4. Before(Seen, Seen')
    BY <1>a, <2>1, <2>2, <2>3 DEF Seen, Before
  <2>5. view # Nil => Before(Fresh, Fresh')
    BY <1>a, <2>1, <2>2, <2>3 DEF Fresh, Before, OrderTyped
  <2>6. faults <= faults'
    BY <1>a, <2>1
  <2> QED
    BY <1>b, <2>1, <2>4, <2>5, <2>6, ClientFrame
<1>4. ASSUME NEW s \in Sources, CreateSource(s) \/ RemoveSource(s) PROVE ClientInv'
  <2>1. UNCHANGED <<spec, content, metrics, view, status, cache, pod, faults, reverted, stale>> /\ queued'
    BY <1>4 DEF CreateSource, RemoveSource, findObjectsForSrc, object, history
  <2> QED
    BY <1>a, <1>b, <2>1, SameInputs, ClientFrame
<1>5. CASE ChangeMetrics
  <2>1. UNCHANGED <<spec, content, view, status, cache, pod, faults, stale>> /\ queued'
    BY <1>5 DEF ChangeMetrics, object
  <2>2. (reverted => reverted') /\ (~reverted' => Rank(metrics) <= Rank(metrics') /\ ~reverted)
    <3>1. (reverted => reverted') /\ (~reverted' => metrics # "tls" /\ ~reverted)
      BY <1>5, Zenon DEF ChangeMetrics
    <3>2. metrics # "tls" => Rank(metrics) <= Rank(metrics')
      BY <1>5 DEF ChangeMetrics, Rank, TypeInv, TypeOK, MetricStates
    <3> QED
      BY <3>1, <3>2
  <2>3. ~reverted' => Before(Seen, Seen')
    BY <1>a, <2>1, <2>2, PodSpecFacts, BeforeItself DEF Seen, Before, OrderTyped
  <2>4. ~reverted' /\ view # Nil => Before(Fresh, Fresh')
    BY <1>a, <2>1, <2>2, PodSpecFacts, BeforeItself DEF Fresh, Before, OrderTyped
  <2>5. faults <= faults'
    BY <1>a, <2>1
  <2> QED
    BY <1>b, <2>1, <2>2, <2>3, <2>4, <2>5, ClientFrame
<1>6. CASE KeystoneUp \/ KeystoneDown
  <2>1. UNCHANGED <<spec, content, metrics, absent, queued, timer, behind, view, status, cache, pod, faults,
                    reverted, stale>>
    BY <1>6 DEF KeystoneUp, KeystoneDown, object, history
  <2> QED
    BY <1>a, <1>b, <2>1, SameInputs, ClientFrame
<1>7. CASE PodStarts \/ PodEvicted \/ PodTerminates
  <2>1. UNCHANGED <<spec, content, metrics, view, status, cache, reverted, stale>> /\ queued'
    BY <1>7 DEF PodStarts, PodEvicted, PodTerminates, inputs, object, history
  <2>2. faults <= faults'
    BY <1>7, <1>a, FaultType DEF PodStarts, PodEvicted, PodTerminates, history
  <2>3. pod' = Nil \/ (pod # Nil /\ pod'.made = pod.made)
    BY <1>7 DEF PodStarts, PodEvicted, PodTerminates, TypeInv, TypeOK, PodRec
  <2> QED
    BY <2>1, <2>2, <2>3, SameInputs, ClientFrame
<1> QED
  BY <1>1, <1>2, <1>3, <1>4, <1>5, <1>6, <1>7 DEF Environment

\* A pass begins with the status and the spec as the cache has them.
LEMMA ReadInv == ASSUME TypeInv, TypeInv', Copies, ClientInv, ReconcileRead PROVE ClientInv'
<1>1. /\ UNCHANGED <<inputs, object, pod, timer, history>> /\ view = Nil /\ view' # Nil
      /\ view'.step = "read" /\ view'.spec = cache.spec /\ view'.before = cache.status
      /\ view'.status.hash = cache.status.hash
  BY ReadView, BoundsAssumption DEF ReconcileRead
<1>2. Known = status.hash /\ Known' = Known /\ Hashes' = Hashes /\ UNCHANGED <<status, cache>>
  BY <1>1 DEF Known, Hashes, object
<1>3. HashIsPods'
  BY <1>1, <1>2 DEF ClientInv, HashIsPods, history
<1>4. Seen' = Seen /\ Fresh' = Seen
  BY <1>1 DEF Seen, Fresh, inputs, object
<1>5. InOrder'
  BY <1>1, <1>2, <1>4 DEF ClientInv, InOrder, HashesFollow, history
<1>6. Undisturbed'
  BY <1>1 DEF Undisturbed, Copies, inputs, object
<1> QED
  BY <1>3, <1>5, <1>6 DEF ClientInv

\* The pass under way is given up, its status lost.
LEMMA AbandonInv ==
    ASSUME TypeInv, TypeInv', Copies, ClientInv, UNCHANGED <<inputs, status, pod, reverted, stale>>,
           cache' = cache \/ cache' = [spec |-> spec, status |-> status],
           view' = Nil, faults' > 0, queued' \/ timer'
    PROVE  ClientInv'
<1>1. HashIsPods'
  BY OrderTypesNext DEF HashIsPods, OrderTyped
<1>2. /\ Known' = status.hash /\ Hashes' = {status.hash} /\ Hashes' \subseteq Hashes /\ OrderTyped
      /\ NoLater(status.hash, status.hash)
  BY OrderTypes, NoLaterItself DEF Hashes, Known, OrderTyped
<1>3. ASSUME ~reverted PROVE HashesFollow' /\ NotAhead(pod, Hashes', Seen')
  <2>1. HashesFollow /\ NotAhead(pod, Hashes, Seen)
    BY <1>3 DEF ClientInv, InOrder
  <2>2. HashesFollow'
    BY <1>2, <2>1 DEF HashesFollow
  <2>3. Before(Seen, Seen') /\ Seen' \in PodSpecs
    BY SeenGrows, OrderTypesNext DEF OrderTyped, inputs
  <2> QED
    BY <1>2, <2>1, <2>2, <2>3, NotAheadGrows DEF OrderTyped
<1>4. InOrder'
  BY <1>3 DEF InOrder
<1>5. Undisturbed'
  BY DEF Undisturbed
<1> QED
  BY <1>1, <1>4, <1>5 DEF ClientInv

\* An input is missing or Keystone is: the hash stays what it was, and the pass
\* comes again by the timer or when the CA bundle appears.
LEMMA EndsEarlyInv ==
    ASSUME TypeInv, TypeInv', ClientInv, view # Nil, NEW client \in {"Unknown", "False"},
           NEW tlsInput \in {Nil, "False", "True"}, NEW again \in BOOLEAN, EndsEarly(client, tlsInput, again),
           again \/ absent # {}
    PROVE  ClientInv'
<1>1. /\ UNCHANGED <<inputs, status, cache, pod, history>> /\ view' # Nil /\ view'.step = "done"
      /\ view'.before = view.before /\ view'.status.hash = view.status.hash
  BY EarlyView, BoundsAssumption DEF EndsEarly, object
<1>2. Known' = Known /\ Hashes' = Hashes /\ Seen' = Seen
  BY <1>1 DEF Known, Hashes, Seen, inputs
<1>3. HashIsPods' /\ InOrder'
  BY <1>1, <1>2 DEF ClientInv, HashIsPods, InOrder, HashesFollow, history
<1>4. Undisturbed'
  BY <1>1 DEF Undisturbed, EndsEarly, inputs
<1> QED
  BY <1>3, <1>4 DEF ClientInv

LEMMA InputsInv == ASSUME TypeInv, TypeInv', Copies, ClientInv, ReconcileInputs PROVE ClientInv'
<1>0. view # Nil /\ view.step = "read" /\ OrderTyped
  BY OrderTypes DEF ReconcileInputs
<1>1. CASE AwaitKeystone \/ AwaitSource
  <2>1. view.status.tlsInput \in {Nil, "False", "True"}
    BY <1>0, ViewFacts DEF StatusRec
  <2> QED
    BY <1>0, <1>1, <2>1, EndsEarlyInv DEF AwaitKeystone, AwaitSource
<1>2. CASE absent # {} /\ AwaitCABundle
  BY <1>0, <1>2, EndsEarlyInv DEF AwaitCABundle
<1>3. CASE absent = {} /\ MakePodSpec
  <2>1. metrics \in MetricStates /\ MakePodSpecFrom(metrics) /\ UNCHANGED <<faults, reverted>>
    BY <1>3 DEF MakePodSpec, TypeInv, TypeOK
  <2>2. /\ view' \in ViewRec /\ view'.step = "made" /\ view'.spec = view.spec /\ view'.before = view.before
        /\ view'.made = [Fresh EXCEPT !.metrics = metrics] /\ view'.status.hash = view.status.hash
        /\ view'.status.tlsInput = "True"
    BY <1>0, <1>3, <2>1, MadeView
  <2>3. view'.made = Fresh /\ view' # Nil
    BY <2>2, BoundsAssumption DEF Fresh
  <2>4. UNCHANGED <<inputs, status, cache, behind, pod, queued, timer, history>>
    BY <2>1 DEF MakePodSpecFrom, object, history
  <2>5. Known' = Known /\ Hashes' = Hashes /\ Seen' = Seen
    BY <1>0, <2>2, <2>3, <2>4 DEF Known, Hashes, Seen, inputs
  <2>6. HashIsPods'
    BY <2>4, <2>5 DEF ClientInv, HashIsPods, history
  <2>7. Before(Fresh, Seen)
    <3>1. Before(Seen, Seen) /\ view.spec <= cache.spec
      BY <1>0, BeforeItself DEF OrderTyped, Copies
    <3> QED
      BY <3>1 DEF Fresh, Seen, Before
  <2>8. InOrder'
    BY <1>0, <2>2, <2>3, <2>4, <2>5, <2>7 DEF ClientInv, InOrder, HashesFollow, history
  <2>9. Undisturbed'
    <3> SUFFICES ASSUME absent = {}, ~queued, ~timer, ~behind
                 PROVE  view.spec = spec /\ view.before = status /\ Fresh = Current'
      BY <2>2, <2>3, <2>4 DEF Undisturbed, inputs
    <3>1. view.spec = spec /\ view.before = status
      BY <1>0 DEF ClientInv, Undisturbed
    <3> QED
      BY <2>4, <3>1 DEF Fresh, Current, inputs
  <2> QED
    BY <2>6, <2>8, <2>9 DEF ClientInv
\* The MetricStorage is taken for absent: from here on the pod may be mistaken.
<1>4. CASE absent = {} /\ MetricsUnread
  <2>1. "absent" \in MetricStates /\ MakePodSpecFrom("absent") /\ reverted' = TRUE /\ faults' > 0
    BY <1>4, FaultType DEF MetricsUnread, MetricStates
  <2>2. /\ view' \in ViewRec /\ view'.step = "made" /\ view'.spec = view.spec /\ view'.before = view.before
        /\ view'.status.tlsInput = "True"
    BY <1>0, <1>4, <2>1, MadeView
  <2>3. HashIsPods' /\ InOrder'
    BY <2>1, OrderTypesNext DEF HashIsPods, InOrder, OrderTyped
  <2>4. Undisturbed'
    <3>1. UNCHANGED <<absent, spec, status, queued, timer, behind>> /\ Mistaken'
      BY <2>1 DEF MakePodSpecFrom, inputs, object, Mistaken
    <3> QED
      BY <1>0, <2>2, <3>1, BoundsAssumption DEF ClientInv, Undisturbed
  <2> QED
    BY <2>3, <2>4 DEF ClientInv
<1> QED
  BY <1>1, <1>2, <1>3, <1>4, InputsCases

\* A hash equal to what the pass has computed is the pod's, unless an input has
\* gone back and a fault, or the lag of the cache, has hidden the pod.
LEMMA HashTells ==
    ASSUME TypeInv, Copies, ClientInv, view # Nil, view.step = "made", pod # Nil,
           view.status.hash = view.made
    PROVE  pod.made = view.made \/ (reverted /\ (faults > 0 \/ stale \/ view.before.hash # status.hash))
<1>0. view.made \in PodSpecs /\ view.made # Nil /\ OrderTyped /\ Known = status.hash /\ view.before.hash = view.made
  BY OrderTypes, BoundsAssumption DEF TypeInv, Known, Copies
<1>1. CASE faults = 0 /\ ~stale /\ view.before.hash = status.hash
  BY <1>0, <1>1 DEF ClientInv, HashIsPods
<1>2. CASE ~reverted
  <2>1. NotAhead(pod, Hashes, view.made) /\ status.hash \in Hashes /\ status.hash # Nil
        /\ Before(view.made, status.hash)
    BY <1>0, <1>2 DEF ClientInv, InOrder, Hashes, HashesFollow, NoLater
  <2>2. Before(pod.made, view.made) /\ Before(status.hash, pod.made) /\ status.hash \in PodSpecs
    BY <1>0, <2>1 DEF NotAhead, OrderTyped
  <2>3. Before(view.made, pod.made)
    BY <1>0, <2>1, <2>2, BeforeTransitive DEF OrderTyped
  <2> QED
    BY <1>0, <2>2, <2>3, BeforeEachOther DEF OrderTyped
<1> QED
  BY <1>0, <1>1, <1>2 DEF OrderTyped

LEMMA PodInv == ASSUME TypeInv, TypeInv', Copies, ClientInv, ReconcilePod PROVE ClientInv'
<1>0. /\ view # Nil /\ view.step = "made" /\ view.made \in PodSpecs /\ view.made # Nil /\ OrderTyped
      /\ UNCHANGED <<inputs, status, cache, behind, reverted>> /\ Seen' = Seen /\ Current' = Current
      /\ stale' = (stale \/ view.before.hash # status.hash)
  BY OrderTypes, BoundsAssumption DEF ReconcilePod, TypeInv, Seen, Current, inputs, object
<1>1. view.status.hash = view.before.hash /\ Known = status.hash /\ Hashes = {status.hash}
  BY <1>0 DEF Known, Hashes, Copies
<1>2. ASSUME ~reverted
      PROVE  /\ HashesFollow /\ NotAhead(pod, {status.hash}, Seen) /\ NotAhead(pod, {status.hash}, view.made)
             /\ Before(view.made, Seen)
  BY <1>0, <1>1, <1>2 DEF ClientInv, InOrder
\* The pass has done its work, and nothing has overtaken the pod it leaves.
<1>3. ASSUME view' # Nil, view'.step = "done", view'.before = view.before, NoLater(status.hash, Known'),
             NotAhead(pod', {status.hash, Known'}, Seen)
      PROVE  InOrder'
  <2>1. ~reverted => HashesFollow'
    BY <1>0, <1>2, <1>3 DEF HashesFollow
  <2> QED
    BY <1>0, <1>3, <2>1 DEF InOrder, Hashes
<1>4. CASE CreatePod
  <2>1. pod' \in PodRec /\ pod'.made = view.made /\ queued' /\ faults' = faults
    BY <1>0, <1>4 DEF CreatePod, PodRec
  <2>2. PodStatus(pod') \in StatusRec /\ PodStatus(pod').hash = view.made
    BY <1>0, <2>1, PodStatusType
  <2>3. /\ view' # Nil /\ view'.step = "done" /\ view'.before = view.before
        /\ view'.status.hash = view.made
    BY <1>0, <1>4, <2>2, ViewFacts, BoundsAssumption DEF CreatePod, ViewRec
  <2>4. Known' = IF view.made # view.before.hash THEN view.made ELSE status.hash
    BY <1>0, <2>3 DEF Known
  <2>5. ASSUME ~reverted, view.made = view.before.hash PROVE status.hash = view.made
    <3>1. status.hash # Nil /\ Before(view.made, status.hash) /\ Before(status.hash, view.made)
      BY <1>0, <1>2, <2>5 DEF HashesFollow, NoLater, NotAhead
    <3> QED
      BY <1>0, <3>1, BeforeEachOther DEF OrderTyped
  <2>6. HashIsPods'
    BY <1>0, <2>1, <2>4, <2>5 DEF HashIsPods
  <2>7. ASSUME ~reverted PROVE InOrder'
    <3>1. Known' \in {status.hash, view.made}
      BY <2>4
    <3>2. NotAhead(pod', {status.hash, view.made}, Seen)
      BY <1>0, <1>2, <2>1, <2>7, BeforeItself DEF NotAhead
    <3>3. NotAhead(pod', {status.hash, Known'}, Seen)
      BY <3>1, <3>2 DEF NotAhead
    <3>4. NoLater(status.hash, Known')
      BY <1>0, <1>2, <2>4, <2>7, NoLaterItself DEF NoLater, NotAhead, OrderTyped
    <3> QED
      BY <1>3, <2>3, <3>3, <3>4
  <2>8. Undisturbed'
    BY <2>1 DEF Undisturbed
  <2> QED
    BY <1>0, <2>6, <2>7, <2>8 DEF ClientInv, InOrder
\* The hash stays; the pod goes or stays.
<1>5. ASSUME view' # Nil, view'.step = "done", view'.before = view.before, view'.status.hash = view.status.hash,
             pod' = Nil \/ pod' = pod, faults' = 0 => faults = 0
      PROVE  HashIsPods' /\ InOrder'
  <2>1. Known' = status.hash
    BY <1>0, <1>1, <1>5 DEF Known
  <2>2. HashIsPods'
    BY <1>0, <1>1, <1>5, <2>1 DEF ClientInv, HashIsPods
  <2>3. ASSUME ~reverted PROVE InOrder'
    <3>1. NotAhead(pod', {status.hash, Known'}, Seen)
      BY <1>2, <1>5, <2>1, <2>3 DEF NotAhead
    <3>2. NoLater(status.hash, Known')
      BY <1>0, <2>1, NoLaterItself DEF OrderTyped
    <3> QED
      BY <1>3, <1>5, <3>1, <3>2
  <2> QED
    BY <1>0, <2>2, <2>3 DEF InOrder
<1>6. CASE ReplacePod \/ PodError
  <2>1. view' # Nil /\ view'.step = "done" /\ view'.before = view.before /\ view'.status = view.status
    BY <1>0, <1>6, UndecidedView, BoundsAssumption DEF ReplacePod, PodError
  <2>2. (pod' = Nil \/ pod' = pod) /\ (queued' \/ timer')
    BY <1>6 DEF ReplacePod, PodError
  <2>3. faults' = 0 => faults = 0
    BY <1>0, <1>6, FaultType DEF ReplacePod, PodError, OrderTyped
  <2>4. Undisturbed'
    BY <2>2 DEF Undisturbed
  <2> QED
    BY <1>5, <2>1, <2>2, <2>3, <2>4 DEF ClientInv
<1>7. CASE KeepPod
  <2>0. pod # Nil /\ pod \in PodRec /\ faults' = faults /\ timer' = timer /\ view.status.hash = view.made
    BY <1>7 DEF KeepPod, TypeInv, TypeOK
  <2>1. /\ PodStatus(pod) \in StatusRec /\ PodStatus(pod).hash = view.made
        /\ PodStatus(pod).tlsInput = view.status.tlsInput
        /\ PodStatus(pod).client = IF pod.ready THEN "True" ELSE "False"
    BY <1>0, <2>0, PodStatusType
  <2>2. /\ view' # Nil /\ view'.step = "done" /\ view'.before = view.before /\ view'.spec = view.spec
        /\ view'.status = PodStatus(pod)
    BY <1>0, <1>7, <2>1, ViewFacts, BoundsAssumption DEF KeepPod, ViewRec
  <2>3. (pod' = pod /\ queued' = queued) \/ (pod' = Nil /\ queued')
    BY <1>7, Zenon DEF KeepPod
  <2>4. HashIsPods' /\ InOrder'
    BY <1>5, <2>0, <2>1, <2>2, <2>3
  <2>5. Undisturbed'
    <3> SUFFICES ASSUME absent = {}, ~queued', ~timer', ~behind'
                 PROVE  view'.spec = spec /\ view'.before = status /\ (Mistaken' \/ Settled(view.status)')
      BY <1>0, <2>2 DEF Undisturbed, inputs
    <3>1. pod' = pod /\ ~queued /\ ~timer /\ ~behind
      BY <1>0, <2>0, <2>3
    <3>2. /\ view.spec = spec /\ view.before = status /\ view.status.tlsInput = "True"
          /\ Mistaken \/ view.made = Current
      BY <1>0, <3>1 DEF ClientInv, Undisturbed
    <3>3. (Mistaken => Mistaken') /\ (pod.made = view.made \/ Mistaken')
      BY <1>0, <2>0, HashTells DEF Mistaken
    <3>4. view'.status.hash = view.made /\ Ready(view'.status) = pod.ready
      BY <2>0, <2>1, <2>2, <3>2 DEF Ready, PodRec
    <3> QED
      BY <1>0, <2>0, <2>2, <3>1, <3>2, <3>3, <3>4 DEF Settled
  <2> QED
    BY <2>4, <2>5 DEF ClientInv
<1> QED
  BY <1>4, <1>6, <1>7 DEF ReconcilePod

LEMMA PatchInv == ASSUME TypeInv, TypeInv', ClientInv, ReconcilePatch PROVE ClientInv'
<1>0. /\ view # Nil /\ view.step = "done" /\ view' = Nil
      /\ UNCHANGED <<inputs, cache, pod, queued, timer, history>> /\ Seen' = Seen /\ OrderTyped
  BY OrderTypes DEF ReconcilePatch, Seen, inputs
<1>1. PICK reworded \in BOOLEAN : /\ status' = Patched(reworded)
                                  /\ behind' = (behind \/ reworded \/ view.status # view.before)
  BY DEF ReconcilePatch
<1>2. status'.hash = Known /\ Known' = Known /\ Hashes' = {Known}
  BY <1>0, <1>1, PatchedType DEF Known, Hashes
<1>3. HashIsPods'
  BY <1>0, <1>2 DEF ClientInv, HashIsPods, history
<1>4. ASSUME ~reverted PROVE HashesFollow' /\ NotAhead(pod, {Known}, Seen)
  <2>1. HashesFollow /\ NotAhead(pod, Hashes, Seen) /\ Known \in Hashes
    BY <1>4 DEF ClientInv, InOrder, Hashes
  <2>2. NoLater(cache.status.hash, Known) /\ NoLater(Known, Known)
    BY <1>0, <2>1, NoLaterItself, NoLaterTransitive DEF HashesFollow, OrderTyped
  <2> QED
    BY <1>0, <1>2, <2>1, <2>2 DEF HashesFollow, NotAhead
<1>5. InOrder'
  BY <1>0, <1>2, <1>4 DEF InOrder, history
<1>6. Undisturbed'
  <2> SUFFICES ASSUME absent = {}, ~queued, ~timer, ~behind' PROVE Mistaken' \/ Settled(status)'
    BY <1>0 DEF Undisturbed, inputs
  <2>1. ~behind /\ ~reworded /\ view.status = view.before
    BY <1>1
  <2>2. view.before = status /\ (Mistaken \/ Settled(view.status))
    BY <1>0, <2>1 DEF ClientInv, Undisturbed
  <2>3. status' = status
    BY <1>0, <1>1, <2>1, PatchedSame
  <2> QED
    BY <1>0, <2>1, <2>2, <2>3 DEF Mistaken, Settled, Current, inputs, history
<1> QED
  BY <1>3, <1>5, <1>6 DEF ClientInv

LEMMA InitClient == Init => ClientInv
  BY DEF Init, ClientInv, HashIsPods, InOrder, HashesFollow, NoLater, NotAhead, Hashes, Known, Undisturbed

LEMMA NextClient == TypeInv /\ TypeInv' /\ Copies /\ ClientInv /\ [Next]_vars => ClientInv'
<1> SUFFICES ASSUME TypeInv, TypeInv', Copies, ClientInv, [Next]_vars PROVE ClientInv'
  OBVIOUS
<1>1. CASE UNCHANGED vars
  <2>1. UNCHANGED <<spec, content, metrics, absent, queued, timer, behind, pod, view, status, cache, faults,
                    reverted, stale>>
    BY <1>1 DEF vars, inputs, object, history
  <2>2. faults <= faults'
    BY <2>1, OrderTypes DEF OrderTyped
  <2> QED
    BY <2>1, <2>2, SameInputs, ClientFrame
<1>2. CASE ReconcilePatchFails \/ Restart
  <2>1. faults' > 0
    BY <1>2, FaultType DEF ReconcilePatchFails, Restart
  <2>2. /\ UNCHANGED <<inputs, status, pod, reverted, stale>> /\ view' = Nil /\ (queued' \/ timer')
        /\ cache' = cache \/ cache' = [spec |-> spec, status |-> status]
    BY <1>2 DEF ReconcilePatchFails, Restart, object
  <2> QED
    BY <2>1, <2>2, AbandonInv
<1> QED
  BY <1>1, <1>2, ReadInv, InputsInv, PodInv, PatchInv, EnvironmentInv DEF Next, Reconcile

LEMMA ClientInvariant == Spec => [](TypeInv /\ Copies /\ ClientInv)
  BY InitType, NextType, InitCopies, NextCopies, InitClient, NextClient, PTL DEF Spec

----------------------------------------------------------------------------
(* What the controller promises *)

\* When no pass is under way or due and nothing is missing, the pod is made from
\* the inputs as they are, the hash in the status says so and Ready is the
\* pod's (NothingLost): the watches, the timers and the order in which Reconcile
\* reads its inputs and writes the pod and the status lose no change, however
\* changes, outages, failed calls and restarts fall between them.
THEOREM ChangesReachThePod == Spec => []NothingLost
<1>1. ClientInv => NothingLost
  BY DEF ClientInv, Undisturbed, NothingLost, Quiet, Settled
<1> QED
  BY <1>1, ClientInvariant, PTL

\* A pod made from the current inputs is deleted only when it was being deleted,
\* a call has failed, an input was put back, or the pass that deletes it has a
\* copy of the status whose hash is not the stored one (PodKept): apart from that
\* lag of the cache, for which DeletedWhenChanged fails, the hash
\* comparison in Reconcile never throws away a pod somebody may work in, however
\* the events of the inputs and of the pod fall between the steps of a pass.
THEOREM ClientPodIsKept == Spec => PodKept
<1>1. ASSUME TypeInv, Copies, ClientInv, [Next]_vars, pod # Nil, pod' = Nil, pod.made = Current
      PROVE  Excused \/ view.before.hash # status.hash
  <2> SUFFICES ASSUME ~pod.deleting, faults = 0, ~reverted, view.before.hash = status.hash PROVE FALSE
    BY <1>1, OrderTypes DEF Excused, OrderTyped
  <2>0. OrderTyped
    BY <1>1, OrderTypes
  <2>1. view # Nil /\ view.step = "made" /\ ReplacePod
    <3>1. pod' # pod
      BY <1>1
    <3>2. CASE Environment
      <4>1. pod' = pod \/ PodStarts \/ PodEvicted \/ PodTerminates
        BY <3>2 DEF Environment, EditSpec, EditSource, CreateSource, RemoveSource, ChangeMetrics,
          KeystoneUp, KeystoneDown
      <4>2. pod \in PodRec
        BY <1>1 DEF TypeInv, TypeOK
      <4> QED
        BY <1>1, <3>1, <4>1, <4>2, BoundsAssumption DEF PodStarts, PodEvicted, PodTerminates, PodRec
    <3>3. CASE ReconcilePod
      <4>1. CASE CreatePod \/ PodError
        BY <1>1, <3>1, <4>1 DEF CreatePod, PodError
      <4>2. CASE KeepPod
        BY <1>1, <3>1, <4>2 DEF KeepPod
      <4> QED
        BY <3>3, <4>1, <4>2 DEF ReconcilePod
    <3>4. CASE UNCHANGED vars \/ CacheCatchesUp \/ Timer \/ Restart \/ Resync
      BY <3>1, <3>4 DEF vars, CacheCatchesUp, Timer, Restart, Resync
    <3>5. CASE ReconcileRead \/ ReconcilePatch \/ ReconcilePatchFails
      BY <3>1, <3>5 DEF ReconcileRead, ReconcilePatch, ReconcilePatchFails
    <3>6. CASE ReconcileInputs
      BY <1>1, <3>1, <3>6, InputsCases
        DEF AwaitKeystone, AwaitSource, AwaitCABundle, EndsEarly, MakePodSpec, MetricsUnread, MakePodSpecFrom
    <3> QED
      BY <1>1, <3>2, <3>3, <3>4, <3>5, <3>6 DEF Next, Reconcile
  <2>2. view.status.hash # view.made /\ view.made \in PodSpecs /\ view.status.hash = view.before.hash
    BY <1>1, <2>1 DEF ReplacePod, TypeInv, Copies
  <2>3. pod.made = view.status.hash
    BY <1>1, <2>1, <2>2 DEF ClientInv, HashIsPods, Known
  <2>4. Before(pod.made, view.made) /\ Before(view.made, Seen)
    BY <1>1, <2>1 DEF ClientInv, InOrder, NotAhead
  <2>5. Before(Seen, Current)
    <3>1. Before(Seen, Seen) /\ cache.spec <= spec
      BY <1>1, <2>0, BeforeItself DEF OrderTyped, Copies
    <3> QED
      BY <3>1 DEF Seen, Current, Before
  <2>6. Before(view.made, pod.made)
    BY <1>1, <2>0, <2>2, <2>4, <2>5, BeforeTransitive DEF OrderTyped
  <2> QED
    BY <1>1, <2>0, <2>2, <2>3, <2>4, <2>6, BeforeEachOther DEF OrderTyped
<1>2. TypeInv /\ Copies /\ ClientInv /\ [Next]_vars
        => [pod # Nil /\ pod' = Nil /\ pod.made = Current => Excused \/ view.before.hash # status.hash]_vars
  BY <1>1
<1> QED
  BY <1>2, ClientInvariant, PTL DEF Spec, PodKept

=============================================================================
