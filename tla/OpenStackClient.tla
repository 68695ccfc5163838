-------------------------- MODULE OpenStackClient --------------------------
(***************************************************************************)
(* The controller that keeps one pod with the command line client. The pod *)
(* is immutable: when anything it is made from changes, the controller     *)
(* deletes it and makes another one. Whether it has changed is decided     *)
(* from a hash in the status of the OpenStackClient, which is written some *)
(* steps after the pod is.                                                 *)
(*                                                                         *)
(* A pass reads the OpenStackClient from the informer's cache, then its    *)
(* inputs, then creates or deletes the pod, then patches the status; the   *)
(* inputs, the pod and the operator itself may change or go between any    *)
(* two of these steps, and the cache may be behind: the pass that the new  *)
(* pod wakes need not see the status that the last pass has patched.       *)
(***************************************************************************)
EXTENDS Naturals

CONSTANTS
    Sources,      \* the config map and the secrets the pod mounts
    CABundle,     \* the one the user provides: spec.caBundleSecretName
    MaxEvents,    \* bound: edits, outages and faults together
    Nil

VARIABLES
    spec,       \* metadata.generation of the OpenStackClient
    content,    \* the content of every source
    absent,     \* the sources that do not exist
    metrics,    \* the MetricStorage: absent, with or without PrometheusTLS
    keystone,   \* is the KeystoneAPI there and ready?
    status,     \* the status of the OpenStackClient
    cache,      \* its spec and status in the informer's cache
    behind,     \* is an event of it under way to the cache?
    pod,        \* the pod, or Nil
    queued,     \* an event has put the OpenStackClient into the work queue
    timer,      \* it is queued again after an interval or the error backoff
    view,       \* the pass under way, or Nil
    faults,     \* crashes, failed calls and lost pods so far
    edits,      \* bound: edits so far, of the spec (image, node selector, env),
                \* the sources and the TLS setting of the MetricStorage
    outages,    \* bound: sources removed and Keystone gone so far
    reverted,   \* has an input gone back to an earlier value, or been read so?
    stale       \* has a pass acted on the pod with a hash behind the stored one?

inputs == <<spec, content, absent, metrics, keystone>>
object == <<status, cache, behind>>
history == <<faults, edits, outages, reverted, stale>>
vars == <<inputs, object, pod, queued, timer, view, history>>

----------------------------------------------------------------------------

Edition == 1 .. MaxEvents + 1

MetricStates == {"absent", "plain", "tls"}

\* What the pod is made from, and so what its hash tells apart: the spec and
\* the hashes of the sources and of the TLS setting of the MetricStorage.
PodSpecs == [spec : Edition, content : [Sources -> Edition],
             metrics : MetricStates]

PodRec == [made : PodSpecs, ready : BOOLEAN, deleting : BOOLEAN]

\* client is the condition OpenStackClientReady, tlsInput TLSInputReady, which
\* is not there at first; hash is Status.Hash["podSpec"].
StatusRec == [client : {"Unknown", "False", "True"},
              tlsInput : {Nil, "False", "True"},
              hash : PodSpecs \cup {Nil}, observed : {0} \cup Edition]

CacheRec == [spec : Edition, status : StatusRec]

\* before is the status as the pass has read it, made the spec of the pod it
\* has computed.
ViewRec == [step : {"read", "made", "done"}, spec : Edition, before : StatusRec,
            status : StatusRec, made : PodSpecs \cup {Nil}]

ASSUME BoundsAssumption ==
    /\ CABundle \in Sources
    /\ MaxEvents \in Nat
    /\ Nil \notin BOOLEAN /\ Nil \notin Nat
    /\ Nil \notin PodSpecs /\ Nil \notin PodRec /\ Nil \notin ViewRec

\* Every object has its type; a pod is made from sources that exist.
TypeOK ==
    /\ spec \in Edition
    /\ content \in [Sources -> Edition]
    /\ absent \subseteq Sources
    /\ metrics \in MetricStates
    /\ keystone \in BOOLEAN
    /\ status \in StatusRec
    /\ cache \in CacheRec
    /\ behind \in BOOLEAN
    /\ pod = Nil \/ pod \in PodRec
    /\ queued \in BOOLEAN
    /\ timer \in BOOLEAN
    /\ view = Nil \/ view \in ViewRec
    /\ faults \in Nat /\ edits \in Nat /\ outages \in Nat
    /\ faults + edits + outages <= MaxEvents
    /\ reverted \in BOOLEAN
    /\ stale \in BOOLEAN

Init ==
    /\ spec = 1
    /\ content = [s \in Sources |-> 1]
    /\ absent = Sources
    /\ metrics \in MetricStates
    /\ keystone = FALSE
    /\ status = [client |-> "Unknown", tlsInput |-> Nil, hash |-> Nil, observed |-> 0]
    /\ cache = [spec |-> spec, status |-> status]
    /\ behind = FALSE
    /\ pod = Nil
    /\ queued = TRUE
    /\ timer = FALSE
    /\ view = Nil
    /\ faults = 0
    /\ edits = 0
    /\ outages = 0
    /\ reverted = FALSE
    /\ stale = FALSE

\* The deferred function computes Ready from the two conditions.
Ready(st) == st.client = "True" /\ st.tlsInput # "False"

Bounded == faults + edits + outages < MaxEvents
Fault == Bounded /\ faults' = faults + 1
Edit == Bounded /\ edits' = edits + 1
Outage == Bounded /\ outages' = outages + 1

----------------------------------------------------------------------------
(* A pass of Reconcile *)

\* The OpenStackClient is read from the cache. Every condition the controller
\* always has starts over as Unknown.
ReconcileRead ==
    /\ queued
    /\ view = Nil
    /\ queued' = FALSE
    /\ view' = [step |-> "read", spec |-> cache.spec, before |-> cache.status, made |-> Nil,
                status |-> [cache.status EXCEPT !.client = "Unknown", !.observed = cache.spec]]
    /\ UNCHANGED <<inputs, object, pod, timer, history>>

\* The pass ends early: with these conditions, and a timer or not.
EndsEarly(client, tlsInput, again) ==
    /\ view' = [view EXCEPT !.step = "done", !.status.client = client,
                            !.status.tlsInput = tlsInput]
    /\ timer' = (timer \/ again)
    /\ UNCHANGED <<inputs, object, pod, queued, history>>

\* Keystone is polled; nothing of it is watched.
AwaitKeystone == EndsEarly("False", view.status.tlsInput, TRUE)

AwaitSource == EndsEarly("False", view.status.tlsInput, TRUE)

\* The user has to provide the CA bundle; only the watch wakes the pass again.
AwaitCABundle == EndsEarly("Unknown", "False", FALSE)

Content(s) == IF s \in absent THEN Nil ELSE content[s]

ClientPodSpec(m) ==
    [spec |-> view.spec, content |-> [s \in Sources |-> Content(s)], metrics |-> m]

MakePodSpecFrom(m) ==
    /\ view' = [view EXCEPT !.step = "made", !.made = ClientPodSpec(m), !.status.tlsInput = "True"]
    /\ UNCHANGED <<inputs, object, pod, queued, timer, edits, outages, stale>>

MakePodSpec == MakePodSpecFrom(metrics) /\ UNCHANGED <<faults, reverted>>

\* An error reading the MetricStorage counts as its absence.
MetricsUnread ==
    /\ metrics # "absent"
    /\ Fault
    /\ reverted' = TRUE
    /\ MakePodSpecFrom("absent")

\* The config map is read before the secrets, the CA bundle last.
ReconcileInputs ==
    /\ view # Nil /\ view.step = "read"
    /\ CASE ~keystone -> AwaitKeystone
         [] keystone /\ absent \ {CABundle} # {} -> AwaitSource
         [] keystone /\ absent = {CABundle} -> AwaitCABundle
         [] OTHER -> MakePodSpec \/ MetricsUnread

\* The status this pass ends with when it has left the pod p in place.
PodStatus(p) ==
    [view.status EXCEPT !.hash = view.made, !.client = IF p.ready THEN "True" ELSE "False"]

\* Mutant: the hash is kept only when a pod is found.
CreatePodUnrecorded ==
    /\ pod = Nil
    /\ pod' = [made |-> view.made, ready |-> FALSE, deleting |-> FALSE]
    /\ queued' = TRUE
    /\ view' = [view EXCEPT !.step = "done", !.status.client = "False"]
    /\ UNCHANGED <<timer, faults>>

CreatePod ==
    /\ pod = Nil
    /\ pod' = [made |-> view.made, ready |-> FALSE, deleting |-> FALSE]
    /\ queued' = TRUE
    /\ view' = [view EXCEPT !.step = "done", !.status = PodStatus(pod')]
    /\ UNCHANGED <<timer, faults>>

\* The spec of a pod may not change: the API server refuses the patch, the
\* controller deletes the pod, for which it grants no time, and asks for
\* another pass. The hash stays what it was.
ReplacePod ==
    /\ pod # Nil
    /\ view.status.hash # view.made
    /\ pod' = Nil
    /\ queued' = TRUE
    /\ view' = [view EXCEPT !.step = "done"]
    /\ UNCHANGED <<timer, faults>>

\* Mutant: a pod that is stuck in termination is waited for.
KeepStuckPod ==
    /\ pod # Nil
    /\ view.status.hash = view.made
    /\ view' = [view EXCEPT !.step = "done", !.status = PodStatus(pod)]
    /\ UNCHANGED <<pod, queued, timer, faults>>

\* A pod that has been terminating for three minutes is deleted by force.
KeepPod ==
    /\ pod # Nil
    /\ view.status.hash = view.made
    /\ \/ UNCHANGED <<pod, queued>>
       \/ pod.deleting /\ pod' = Nil /\ queued' = TRUE
    /\ view' = [view EXCEPT !.step = "done", !.status = PodStatus(pod)]
    /\ UNCHANGED <<timer, faults>>

\* A call fails; the pass is retried with backoff.
PodError ==
    /\ Fault
    /\ timer' = TRUE
    /\ view' = [view EXCEPT !.step = "done"]
    /\ UNCHANGED <<pod, queued>>

ReconcilePod ==
    /\ view # Nil /\ view.step = "made"
    /\ CreatePod \/ ReplacePod \/ KeepPod \/ PodError
    /\ stale' = (stale \/ view.before.hash # status.hash)
    /\ UNCHANGED <<inputs, object, edits, outages, reverted>>

\* A merge patch: what the pass has changed in its copy is written over what is
\* stored. The conditions are one list, and the wording of one may have changed
\* alone (reworded).
Patched(reworded) ==
    LET new == view.status
        old == view.before
        list == IF reworded \/ new.client # old.client \/ new.tlsInput # old.tlsInput THEN new ELSE status
    IN  [client |-> list.client, tlsInput |-> list.tlsInput,
         hash |-> IF new.hash # old.hash THEN new.hash ELSE status.hash,
         observed |-> IF new.observed # old.observed THEN new.observed ELSE status.observed]

\* PatchInstance; the controller will be woken by its own change.
ReconcilePatch ==
    /\ view # Nil /\ view.step = "done"
    /\ \E reworded \in {FALSE, view.status.client = "False"} :
          /\ status' = Patched(reworded)
          /\ behind' = (behind \/ reworded \/ view.status # view.before)
    /\ view' = Nil
    /\ UNCHANGED <<inputs, cache, pod, queued, timer, history>>

ReconcilePatchFails ==
    /\ view # Nil /\ view.step = "done"
    /\ Fault
    /\ timer' = TRUE
    /\ view' = Nil
    /\ UNCHANGED <<inputs, object, pod, queued, edits, outages, reverted, stale>>

\* The informer gets the OpenStackClient as it is stored, and wakes the
\* controller.
CacheCatchesUp ==
    /\ behind
    /\ cache' = [spec |-> spec, status |-> status]
    /\ behind' = FALSE
    /\ queued' = TRUE
    /\ UNCHANGED <<inputs, status, pod, timer, view, history>>

Timer ==
    /\ timer
    /\ timer' = FALSE
    /\ queued' = TRUE
    /\ UNCHANGED <<inputs, object, pod, view, history>>

\* The operator is replaced: it lists every object again.
Restart ==
    /\ Fault
    /\ view' = Nil
    /\ queued' = TRUE
    /\ timer' = FALSE
    /\ cache' = [spec |-> spec, status |-> status]
    /\ behind' = FALSE
    /\ UNCHANGED <<inputs, status, pod, edits, outages, reverted, stale>>

\* The informers report every object again every ten hours.
Resync ==
    /\ ~queued
    /\ queued' = TRUE
    /\ UNCHANGED <<inputs, object, pod, timer, view, history>>

----------------------------------------------------------------------------
(* The user, Keystone and Kubernetes *)

\* The generation changes with the spec, and the controller watches it.
EditSpec ==
    /\ Edit
    /\ spec' = spec + 1
    /\ behind' = TRUE
    /\ UNCHANGED <<content, absent, metrics, keystone, status, cache, pod, queued, timer, view, faults, outages,
                   reverted, stale>>

\* Mutant: the field that names the source is not indexed.
findObjectsForNothing(s) == UNCHANGED queued

\* Secrets and config maps wake the OpenStackClients that name them.
findObjectsForSrc(s) == queued' = TRUE

EditSource(s) ==
    /\ s \notin absent
    /\ Edit
    /\ content' = [content EXCEPT ![s] = @ + 1]
    /\ findObjectsForSrc(s)
    /\ UNCHANGED <<spec, absent, metrics, keystone, object, pod, timer, view, faults, outages, reverted, stale>>

CreateSource(s) ==
    /\ s \in absent
    /\ absent' = absent \ {s}
    /\ findObjectsForSrc(s)
    /\ UNCHANGED <<spec, content, metrics, keystone, object, pod, timer, view, history>>

RemoveSource(s) ==
    /\ s \notin absent
    /\ Outage
    /\ absent' = absent \cup {s}
    /\ findObjectsForSrc(s)
    /\ UNCHANGED <<spec, content, metrics, keystone, object, pod, timer, view, faults, edits, reverted, stale>>

\* A MetricStorage is created or its TLS setting changed: metricStorageFn
\* wakes every OpenStackClient.
ChangeMetrics ==
    /\ Edit
    /\ metrics' \in {"plain", "tls"} \ {metrics}
    /\ reverted' = (reverted \/ metrics = "tls")
    /\ queued' = TRUE
    /\ UNCHANGED <<spec, content, absent, keystone, object, pod, timer, view, faults, outages, stale>>

KeystoneUp ==
    /\ ~keystone
    /\ keystone' = TRUE
    /\ UNCHANGED <<spec, content, absent, metrics, object, pod, queued, timer, view, history>>

KeystoneDown ==
    /\ keystone
    /\ Outage
    /\ keystone' = FALSE
    /\ UNCHANGED <<spec, content, absent, metrics, object, pod, queued, timer, view, faults, edits, reverted, stale>>

\* The controller owns the pod and is woken by every change of it.
PodStarts ==
    /\ pod # Nil
    /\ ~pod.ready /\ ~pod.deleting
    /\ pod' = [pod EXCEPT !.ready = TRUE]
    /\ queued' = TRUE
    /\ UNCHANGED <<inputs, object, timer, view, history>>

\* Somebody deletes the pod and grants it time, which it may not use in time:
\* its node may be down.
PodEvicted ==
    /\ pod # Nil
    /\ ~pod.deleting
    /\ Fault
    /\ pod' = [pod EXCEPT !.deleting = TRUE]
    /\ queued' = TRUE
    /\ UNCHANGED <<inputs, object, timer, view, edits, outages, reverted, stale>>

PodTerminates ==
    /\ pod # Nil
    /\ pod.deleting
    /\ pod' = Nil
    /\ queued' = TRUE
    /\ UNCHANGED <<inputs, object, timer, view, history>>

----------------------------------------------------------------------------

Reconcile ==
    \/ ReconcileRead \/ ReconcileInputs \/ ReconcilePod
    \/ ReconcilePatch \/ ReconcilePatchFails

Environment ==
    \/ EditSpec
    \/ \E s \in Sources : EditSource(s) \/ CreateSource(s) \/ RemoveSource(s)
    \/ ChangeMetrics
    \/ KeystoneUp \/ KeystoneDown
    \/ PodStarts \/ PodEvicted \/ PodTerminates

Next == Reconcile \/ CacheCatchesUp \/ Timer \/ Restart \/ Resync \/ Environment

Spec == Init /\ [][Next]_vars

\* The work queue is served and a pass goes on; the watch delivers what has
\* changed; timers and the resync come; a
\* pod that is scheduled starts; a pod that has been terminating for long
\* enough is found so by some pass. Nobody owes the sources or Keystone.
Fairness ==
    /\ WF_vars(ReconcileRead)
    /\ WF_vars(ReconcileInputs)
    /\ WF_vars(ReconcilePod)
    /\ SF_vars(ReconcilePod /\ pod # Nil /\ pod' = Nil)
    /\ WF_vars(ReconcilePatch)
    /\ WF_vars(CacheCatchesUp)
    /\ WF_vars(Timer)
    /\ WF_vars(Resync)
    /\ WF_vars(PodStarts)

FairSpec == Spec /\ Fairness

----------------------------------------------------------------------------
(* Properties *)

Current == [spec |-> spec, content |-> content, metrics |-> metrics]

\* The pod may be taken for one it is not: an input is what it was before, and
\* the operator stopped between the pod and the hash, or went by an old hash.
Mistaken == reverted /\ (faults > 0 \/ stale)

\* No pass is under way and none is due, other than the resync.
Quiet == view = Nil /\ ~queued /\ ~timer /\ ~behind

\* When the controller rests and nothing it needs is missing, the pod is made
\* from the inputs as they are now, the hash in the status says so, and Ready
\* is the pod's: no change that came during a pass, an outage or a crash was
\* lost, although Keystone is not watched and the CA bundle is not polled.
NothingLost ==
    Quiet /\ absent = {} /\ ~Mistaken =>
       /\ pod # Nil
       /\ pod.made = Current
       /\ status.hash = Current
       /\ Ready(status) = pod.ready

\* Why a pod made from the current inputs may go: it was being deleted, a call
\* has failed, an input was put back.
Excused == pod.deleting \/ faults > 0 \/ reverted

\* A pod somebody may work in is deleted by the controller only because an
\* input has changed, or because the cache has not yet brought the hash of the
\* last pass: the deletion is then at most the price of that lag, and never of
\* an interleaving with the inputs, the pod's own events or a pass that ends
\* early.
PodKept ==
    [][pod # Nil /\ pod' = Nil /\ pod.made = Current =>
          Excused \/ view.before.hash # status.hash]_vars

\* What the comment at the deletion says: the pod is deleted when its
\* configuration has changed.
DeletedWhenChanged ==
    [][pod # Nil /\ pod' = Nil /\ pod.made = Current => Excused]_vars

\* Once Keystone and the sources are there for good, the pod is made from the
\* latest of everything and Ready is reported, with pods lost, nodes that do
\* not answer, failed calls and restarts on the way.
ClientRuns ==
    <>[](keystone /\ absent = {}) =>
        <>[](Mistaken \/ (/\ pod # Nil /\ pod.made = Current /\ ~pod.deleting
                          /\ Ready(status)))
=============================================================================
