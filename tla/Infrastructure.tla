--------------------------- MODULE Infrastructure ---------------------------
(***************************************************************************)
(* The infrastructure of a control plane: RabbitMQ, Galera, Memcached and  *)
(* Redis, each of them any number of instances by templates of the spec    *)
(* (rabbitmq.go, galera.go, memcached.go, redis.go), and OVN with its      *)
(* database clusters, northd and the OVN controller (ovn.go).              *)
(*                                                                         *)
(* A pass works on a copy of the OpenStackControlPlane (work) and takes    *)
(* one kind after the other; it saves conditions and images when it ends.  *)
(* Everything it owns wakes the controller, the Certificates included.     *)
(***************************************************************************)
EXTENDS Naturals, Sequences, Functions

CONSTANTS
    Names,       \* names of templates, in their order
    Foreign,     \* names of instances somebody else created
    Scenarios,   \* the kinds under control in the order of a pass, the initial spec, and the edits and faults
    Checked,     \* the kinds whose update is checked
    None         \* no resource, no image

VARIABLES
    scenario,    \* the scenario
    spec,        \* OpenStackControlPlane.spec
    target,      \* the version of the images in OpenStackVersion.status
    status,      \* OpenStackControlPlane.status: conditions and images
    work,        \* the pass under way
    queued,      \* is a reconcile request queued?
    cr,          \* the custom resources: by part and name
    cert,        \* the Certificates, by the same keys
    legacy,      \* RabbitmqClusters the control plane still controls itself
    deployed,    \* versions each resource has been rolled out with
    events       \* edits and faults so far

vars == <<scenario, spec, target, status, work, queued, cr, cert, legacy, deployed, events>>

----------------------------------------------------------------------------
(* What tells the template kinds apart: how instances without a template are removed, how the results of *)
(* the templates are put together, and how one template is reconciled.                                   *)

deleteUndefinedGaleras == [first |-> FALSE, certs |-> TRUE]
ReconcileGaleras == [whenOff |-> "return", pending |-> "end", mirrors |-> TRUE]
reconcileGalera == [tls |-> "always", generation |-> TRUE, clears |-> TRUE]

\* Mutant: RabbitMQ mirrors the conditions of its instances like the others.
ReconcileRabbitMQsMirrored == [whenOff |-> "True", pending |-> "last", mirrors |-> TRUE]

deleteUndefinedRabbitMQs == [first |-> FALSE, certs |-> TRUE]
ReconcileRabbitMQs == [whenOff |-> "True", pending |-> "last", mirrors |-> FALSE]

reconcileRabbitMQ == [tls |-> "pod", generation |-> TRUE, clears |-> TRUE]

ReconcileMemcacheds == [whenOff |-> "True", pending |-> "last", mirrors |-> TRUE]
reconcileMemcached == [tls |-> "mtls", generation |-> TRUE, clears |-> TRUE]

(* Redis does not look at the generation its operator has seen, and keeps its image when switched off. *)
ReconcileRedis == [whenOff |-> "none", pending |-> "last", mirrors |-> TRUE]
reconcileRedis == [tls |-> "pod", generation |-> FALSE, clears |-> FALSE]

removedFirst == [first |-> TRUE, certs |-> FALSE]

Templates ==
    [galera    |-> [undefined |-> deleteUndefinedGaleras, all |-> ReconcileGaleras, one |-> reconcileGalera],
     rabbitmq  |-> [undefined |-> deleteUndefinedRabbitMQs, all |-> ReconcileRabbitMQs, one |-> reconcileRabbitMQ],
     memcached |-> [undefined |-> removedFirst, all |-> ReconcileMemcacheds, one |-> reconcileMemcached],
     redis     |-> [undefined |-> removedFirst, all |-> ReconcileRedis, one |-> reconcileRedis]]

OvnParts == <<"ovndbcluster", "ovnnorthd", "ovncontroller">>

Kinds == DOMAIN Templates \cup {"ovn", "infra"}

(* A custom resource: the generation of its spec the operator has seen, its conditions and readiness. *)
CustomResources == [spec : [image : 1..2, tls : BOOLEAN], owned : BOOLEAN, deleting : BOOLEAN, observed : BOOLEAN,
                    conditions : BOOLEAN, ready : BOOLEAN]

ASSUME InfrastructureAssumption ==
    /\ Names \subseteq Nat \ {0} /\ Foreign \subseteq Nat \ (Names \cup {0})
    /\ None \notin Nat /\ None \notin Range(OvnParts) \cup {"end"} /\ None \notin CustomResources
    /\ \A c \in Scenarios : /\ c.plan \in Seq(Kinds) /\ c.templates \subseteq Names
                           /\ c.podTLS \in BOOLEAN /\ c.nics \in BOOLEAN /\ c.events \in Nat

plan == scenario.plan
Managed == Range(plan) \ {"infra"}
PartsOf(k) == IF k = "ovn" THEN Range(OvnParts) ELSE {k}
NamesOf(p) == CASE p \in {"ovnnorthd", "ovncontroller", "ovn-metrics"} -> {0}
                [] p \in {"ovndbcluster", "memcached-mtls"} -> Names
                [] OTHER -> Names \cup Foreign
Keys(parts) == UNION {{p} \X NamesOf(p) : p \in parts}

Parts == UNION {PartsOf(k) : k \in Managed}
Resources == Keys(Parts)
Certs == Resources \cup (IF "memcached" \in Managed THEN Keys({"memcached-mtls"}) ELSE {})
                   \cup (IF "ovn" \in Managed THEN Keys({"ovn-metrics"}) ELSE {})

Conditions == {"none", "Unknown", "False", "True"}
Idle == [at |-> 0]

----------------------------------------------------------------------------
(* A pass. *)

(* The conditions of enabled kinds start over; the status is about this generation of the spec (seen). *)
InitConditions(st) == [st EXCEPT !.cond = [k \in Managed |-> IF spec.kind[k].enabled THEN "Unknown" ELSE @[k]],
                                 !.infra = "Unknown", !.seen = spec]

BeginPass ==
    /\ work = Idle /\ queued
    /\ queued' = FALSE
    /\ work' = [at |-> 1, spec |-> spec, target |-> target, status |-> InitConditions(status), begun |-> FALSE,
                todo |-> {}, part |-> None, ok |-> TRUE, failed |-> FALSE, busy |-> FALSE, wait |-> FALSE,
                conds |-> "none"]
    /\ UNCHANGED <<scenario, spec, target, status, cr, cert, legacy, deployed, events>>

InPass == work # Idle /\ work.at <= Len(plan)
Kind == plan[work.at]
InTemplates == InPass /\ Kind \in DOMAIN Templates
InOvn == InPass /\ Kind = "ovn"
On == work.spec.kind[Kind].enabled
Defined == work.spec.kind[Kind].templates

NextKind(w) == [w EXCEPT !.at = @ + 1, !.begun = FALSE, !.todo = {}, !.part = None, !.ok = TRUE, !.failed = FALSE,
                         !.busy = FALSE, !.wait = FALSE, !.conds = "none"]

Wake == queued' = (queued \/ <<cr, cert>>' # <<cr, cert>>)

EndPass(st, again) ==
    /\ work' = Idle
    /\ status' = st
    /\ queued' = (queued \/ again \/ st # status \/ <<cr, cert>>' # <<cr, cert>>)

Event(kind) == kind \in scenario.edits /\ events < scenario.events /\ events' = events + 1

EnsureDeleted(keys) == [r \in DOMAIN cr |-> IF r \in keys /\ cr[r] # None THEN [cr[r] EXCEPT !.deleting = TRUE] ELSE cr[r]]

\* Mutant: whoever created the instance.
UndefinedOfAnybody(k) ==
    {r \in {k} \X NamesOf(k) : cr[r] # None /\ r[2] \notin Defined}

(* Instances that the control plane owns and that no template defines. *)
Undefined(k) == {r \in {k} \X NamesOf(k) : cr[r] # None /\ cr[r].owned /\ r[2] \notin Defined}

\* Mutant: a certificate that is gone already counts as a failed deletion.
DeleteUndefinedOnce(k, bad, bare) ==
    LET gone == {r \in Undefined(k) \ bad : Templates[k].undefined.certs => cert[r] # "none"}
    IN  /\ cr' = EnsureDeleted(gone)
        /\ cert' = [c \in DOMAIN cert |-> IF Templates[k].undefined.certs /\ c \in gone \cup bare THEN "none" ELSE cert[c]]

(* They are deleted, for some kinds after their certificates; what fails (bad) is left for the next pass, *)
(* some of it without its certificate (bare).                                                             *)
DeleteUndefined(k, bad, bare) ==
    LET gone == Undefined(k) \ bad
    IN  /\ cr' = EnsureDeleted(gone)
        /\ cert' = [c \in DOMAIN cert |-> IF Templates[k].undefined.certs /\ c \in gone \cup bare THEN "none" ELSE cert[c]]

Failing(bad) == IF bad = {} THEN UNCHANGED events ELSE Event("fail")

(* ReconcileRabbitMQs, ReconcileMemcacheds, ...: the beginning. *)
StartTemplates ==
    /\ InTemplates /\ ~work.begun
    /\ \E bad \in SUBSET Undefined(Kind) : \E bare \in SUBSET bad :
         IF ~On /\ Templates[Kind].all.whenOff = "return"
           THEN bad = {} /\ work' = NextKind(work) /\ UNCHANGED <<cr, cert, events>>
           ELSE /\ work' = [work EXCEPT !.begun = TRUE, !.failed = bad # {}, !.todo = Defined]
                /\ IF Templates[Kind].undefined.first
                     THEN Failing(bad) /\ DeleteUndefined(Kind, bad, bare)
                     ELSE bad = {} /\ UNCHANGED <<cr, cert, events>>
    /\ Wake
    /\ UNCHANGED <<scenario, spec, target, status, legacy, deployed>>

(* The certificates of a template, in the order they are asked for. *)
CertsOf(r) ==
    CASE r[1] \in DOMAIN Templates /\ Templates[r[1]].one.tls = "always" -> <<r>>
      [] r[1] \in DOMAIN Templates /\ Templates[r[1]].one.tls = "mtls" /\ work.spec.podTLS /\ work.spec.mtls ->
           <<r, <<"memcached-mtls", r[2]>>>>
      [] OTHER -> IF work.spec.podTLS THEN <<r>> ELSE <<>>

(* EnsureCert for each of them; the first that is not issued is waited for. *)
Pending(r) == SelectSeq(CertsOf(r), LAMBDA c : cert[c] # "issued")
Request(r) == cert' = [cert EXCEPT ![Head(Pending(r))] = "requested"]

(* CreateOrPatch: a change of the spec starts a new generation. *)
Written(r) ==
    LET new == [image |-> work.target, tls |-> CertsOf(r) # <<>>]
    IN  IF cr[r] = None
          THEN [spec |-> new, owned |-> TRUE, deleting |-> FALSE, observed |-> FALSE, conditions |-> FALSE, ready |-> FALSE]
          ELSE [cr[r] EXCEPT !.spec = new, !.owned = TRUE, !.observed = @ /\ cr[r].spec = new]

(* The conditions collected for MirrorSubResourceCondition, that takes the worst of them. *)
Collect(conds, r) ==
    IF r = None \/ ~r.conditions THEN conds ELSE IF r.ready /\ conds # "false" THEN "true" ELSE "false"
Mirror(conds) == IF conds = "true" THEN "True" ELSE "False"

\* Mutant: the generation the operator has seen is never looked at.
ReadyUnobserved(r) == cr'[r].ready

(* The result: the operator has seen this generation and is done with it; Redis does not ask. *)
IsReady(r) == cr'[r].ready /\ (cr'[r].observed \/ (r[1] \in DOMAIN Templates /\ ~Templates[r[1]].one.generation))

\* Mutant: the old control plane keeps its RabbitmqCluster.
HandOverNothing(r) == UNCHANGED legacy

(* The infra operator takes over the RabbitmqCluster of an earlier release, and its config map. *)
HandOver(r) == legacy' = IF r[1] = "rabbitmq" THEN legacy \ {r[2]} ELSE legacy

(* The templates are taken in the order of their names. *)
InTurn(n) == n \in work.todo /\ \A m \in work.todo : n <= m

(* reconcileRabbitMQ, reconcileGalera, reconcileMemcached, reconcileRedis *)
ReconcileTemplate ==
    /\ InTemplates /\ work.begun
    /\ \E n \in work.todo :
       LET r == <<Kind, n>>
           w == [work EXCEPT !.todo = @ \ {n}, !.wait = FALSE]
           clears == Templates[Kind].one.clears
       IN  /\ InTurn(n)
           /\ \/ /\ ~On
                 /\ cr' = EnsureDeleted({r})
                 /\ work' = [w EXCEPT !.status.cond[Kind] = IF clears THEN "none" ELSE @,
                                      !.status.image[Kind] = IF clears THEN None ELSE @]
                 /\ UNCHANGED <<status, cert, legacy>>
                 /\ Wake
              \/ /\ On /\ Pending(r) # <<>>
                 /\ Request(r)
                 /\ UNCHANGED <<cr, legacy>>
                 /\ IF Templates[Kind].all.pending = "end" THEN EndPass(work.status, TRUE)
                    ELSE work' = [w EXCEPT !.busy = TRUE, !.wait = TRUE] /\ Wake /\ UNCHANGED status
              \/ /\ On /\ Pending(r) = <<>>
                 /\ HandOver(r)
                 /\ cr' = [cr EXCEPT ![r] = Written(r)]
                 /\ work' = [w EXCEPT !.conds = Collect(@, cr'[r]), !.busy = @ \/ ~IsReady(r),
                                      !.status.image[Kind] = IF IsReady(r) THEN work.target ELSE @]
                 /\ UNCHANGED <<status, cert>>
                 /\ Wake
    /\ UNCHANGED <<scenario, spec, target, deployed, events>>

(* A call fails: the next template's turn, or the end of the pass for a certificate of Galera. *)
FailTemplate ==
    /\ InTemplates /\ work.begun /\ Event("fail")
    /\ UNCHANGED <<cr, cert>>
    /\ \E n \in work.todo :
         /\ InTurn(n)
         /\ \/ work' = [work EXCEPT !.todo = @ \ {n}, !.wait = FALSE, !.failed = TRUE] /\ UNCHANGED <<status, queued>>
            \/ On /\ Templates[Kind].all.pending = "end" /\ EndPass(work.status, TRUE)
         /\ \/ UNCHANGED legacy
            \/ On /\ Pending(<<Kind, n>>) = <<>> /\ HandOver(<<Kind, n>>)
    /\ UNCHANGED <<scenario, spec, target, deployed>>

(* The condition of a kind after its last template. *)
KindCondition ==
    CASE work.failed -> "False"
      [] ~work.failed /\ work.busy -> IF Templates[Kind].all.mirrors /\ work.conds # "none" THEN Mirror(work.conds) ELSE "False"
      [] OTHER -> IF On THEN "True" ELSE Templates[Kind].all.whenOff

(* The end of ReconcileRabbitMQs, ...: the result of the last template decides whether the pass goes on. *)
FinishTemplates ==
    /\ InTemplates /\ work.begun /\ work.todo = {}
    /\ \E bad \in SUBSET Undefined(Kind) : \E bare \in SUBSET bad :
         LET delete == ~work.failed /\ ~Templates[Kind].undefined.first
             st == [work.status EXCEPT !.cond[Kind] = IF bad # {} THEN "False" ELSE KindCondition]
         IN  /\ IF delete THEN Failing(bad) /\ DeleteUndefined(Kind, bad, bare)
                ELSE bad = {} /\ UNCHANGED <<cr, cert, events>>
             /\ IF work.failed \/ bad # {} \/ work.wait THEN EndPass(st, TRUE)
                ELSE work' = NextKind([work EXCEPT !.status = st]) /\ Wake /\ UNCHANGED status
    /\ UNCHANGED <<scenario, spec, target, legacy, deployed>>

----------------------------------------------------------------------------
(* ReconcileOVN: its parts one after the other, whatever becomes of the one before.  A certificate that *)
(* is pending ends a part, and the one for the metrics the pass, as an error.                           *)

ToPart(w, p, names) == [w EXCEPT !.part = p, !.todo = names]
Following(p) == CASE p = "ovndbcluster" -> "ovnnorthd" [] p = "ovnnorthd" -> "ovncontroller" [] OTHER -> "end"

(* The beginning, with EnsureOVNMetricsCert. *)
EnsureOVNMetricsCert ==
    /\ InOvn /\ ~work.begun
    /\ LET metrics == <<"ovn-metrics", 0>>
           start == [work EXCEPT !.begun = TRUE, !.ok = Defined # {}]
       IN  IF On /\ work.spec.podTLS /\ cert[metrics] # "issued"
             THEN /\ cert' = [cert EXCEPT ![metrics] = "requested"]
                  /\ UNCHANGED cr
                  /\ EndPass([work.status EXCEPT !.cond["ovn"] = "False"], TRUE)
             ELSE /\ work' = IF Defined = {} THEN ToPart(start, "ovnnorthd", {0})
                            ELSE ToPart(start, "ovndbcluster", Defined)
                  /\ UNCHANGED <<status, queued, cr, cert>>
    /\ UNCHANGED <<scenario, spec, target, legacy, deployed, events>>

(* A part is done when it has no resource left to do; the images of the clusters are recorded once all of *)
(* them are ready, and also when OVN is disabled.                                                         *)
PartDone(w) ==
    IF w.todo # {} THEN w
    ELSE ToPart([w EXCEPT !.status.image["ovndbcluster"] =
                   IF w.part = "ovndbcluster" /\ w.ok THEN w.target ELSE @], Following(w.part), {0})

ReconcileOVNDbCluster(r) ==
    /\ cr' = [cr EXCEPT ![r] = Written(r)]
    /\ work' = PartDone([work EXCEPT !.todo = @ \ {r[2]}, !.conds = Collect(@, cr[r]), !.ok = @ /\ IsReady(r)])

ReconcileOVNNorthd(r) ==
    /\ cr' = [cr EXCEPT ![r] = Written(r)]
    /\ work' = PartDone([work EXCEPT !.todo = @ \ {r[2]}, !.conds = Collect(@, cr[r]), !.ok = @ /\ IsReady(r),
                                     !.status.image["ovnnorthd"] = IF IsReady(r) THEN work.target ELSE @])

ReconcileOVNController(r) ==
    /\ cr' = [cr EXCEPT ![r] = Written(r)]
    /\ work' = PartDone([work EXCEPT !.todo = @ \ {r[2]}, !.conds = Collect(@, cr[r]), !.ok = @ /\ IsReady(r),
                                     !.status.image["ovncontroller"] = IF IsReady(r) THEN work.target ELSE @])

Ovn == InOvn /\ work.begun /\ work.part # "end"

(* The clusters are a map, that is read in any order.  Without NIC mappings there is no OVN controller, and its images count as deployed. *)
NoController == work.part = "ovncontroller" /\ On /\ ~work.spec.nics

ReconcileOvnPart ==
    /\ Ovn
    /\ \E n \in work.todo :
       LET r == <<work.part, n>>
       IN  \/ /\ ~On
              /\ cr' = EnsureDeleted({r})
              /\ work' = PartDone([work EXCEPT !.todo = @ \ {n}, !.ok = @ /\ work.part = "ovndbcluster",
                                               !.status.image[work.part] = None])
              /\ UNCHANGED cert
           \/ /\ NoController
              /\ cr' = EnsureDeleted({r})
              /\ work' = PartDone([work EXCEPT !.todo = {}, !.status.image["ovncontroller"] = work.target])
              /\ UNCHANGED cert
           \/ /\ On /\ ~NoController /\ Pending(r) # <<>>
              /\ Request(r)
              /\ work' = PartDone([work EXCEPT !.todo = {}, !.conds = Collect(@, cr[r]), !.ok = FALSE])
              /\ UNCHANGED cr
           \/ /\ On /\ ~NoController /\ Pending(r) = <<>>
              /\ CASE work.part = "ovndbcluster" -> ReconcileOVNDbCluster(r)
                   [] work.part = "ovnnorthd" -> ReconcileOVNNorthd(r)
                   [] work.part = "ovncontroller" -> ReconcileOVNController(r)
              /\ UNCHANGED cert
    /\ Wake
    /\ UNCHANGED <<scenario, spec, target, status, legacy, deployed, events>>

(* A part fails: the condition it sets is overwritten at the end, and the pass goes on. *)
FailOvn ==
    /\ Ovn /\ Event("fail")
    /\ \E n \in work.todo : \E conds \in {work.conds, Collect(work.conds, cr[<<work.part, n>>])} :
         work' = PartDone([work EXCEPT !.todo = {}, !.ok = FALSE, !.conds = conds,
                                       !.status.image[work.part] = IF On THEN @ ELSE None])
    /\ UNCHANGED <<scenario, spec, target, status, queued, cr, cert, legacy, deployed>>

FinishOvn ==
    /\ InOvn /\ work.begun /\ work.part = "end"
    /\ work' = NextKind([work EXCEPT !.status.cond["ovn"] =
                        IF work.ok THEN "True" ELSE IF ~On THEN "none"
                        ELSE IF work.conds # "none" THEN Mirror(work.conds) ELSE "False"])
    /\ UNCHANGED <<scenario, spec, target, status, queued, cr, cert, legacy, deployed, events>>

----------------------------------------------------------------------------
(* isInfrastructureReady, of the kinds the pass has been over. *)
CheckInfrastructure ==
    /\ InPass /\ Kind = "infra"
    /\ work' = NextKind([work EXCEPT !.status.infra =
                        IF \A k \in Managed \ {"redis"} : work.spec.kind[k].enabled => work.status.cond[k] = "True"
                          THEN "True" ELSE "False"])
    /\ UNCHANGED <<scenario, spec, target, status, queued, cr, cert, legacy, deployed, events>>

FinishPass ==
    /\ work # Idle /\ work.at > Len(plan)
    /\ UNCHANGED <<cr, cert>>
    /\ EndPass(work.status, FALSE)
    /\ UNCHANGED <<scenario, spec, target, legacy, deployed, events>>

(* The informers of the manager replay every object they hold, every ten hours. *)
Resync ==
    /\ work = Idle /\ ~queued
    /\ queued' = TRUE
    /\ UNCHANGED <<scenario, spec, target, status, work, cr, cert, legacy, deployed, events>>

(* The process stops, at any time; the next one lists every object. *)
Crash ==
    /\ work # Idle /\ Event("crash")
    /\ work' = Idle /\ queued' = TRUE
    /\ UNCHANGED <<scenario, spec, target, status, cr, cert, legacy, deployed>>

----------------------------------------------------------------------------
(* The operators of the infrastructure and cert-manager, outside this repository. *)

Observe(r) ==
    /\ cr[r] # None /\ ~cr[r].deleting /\ ~cr[r].observed
    /\ cr' = [cr EXCEPT ![r].observed = TRUE, ![r].conditions = TRUE, ![r].ready = FALSE]
    /\ queued' = TRUE
    /\ UNCHANGED <<scenario, spec, target, status, work, cert, legacy, deployed, events>>

Rollout(r) ==
    /\ cr[r] # None /\ ~cr[r].deleting /\ cr[r].observed /\ ~cr[r].ready
    /\ cr[r].spec.tls => cert[r] = "issued"
    /\ cr' = [cr EXCEPT ![r].ready = TRUE]
    /\ deployed' = [deployed EXCEPT ![r] = @ \cup {cr[r].spec.image}]
    /\ queued' = TRUE
    /\ UNCHANGED <<scenario, spec, target, status, work, cert, legacy, events>>

Finalize(r) ==
    /\ cr[r] # None /\ cr[r].deleting
    /\ cr' = [cr EXCEPT ![r] = None]
    /\ queued' = TRUE
    /\ UNCHANGED <<scenario, spec, target, status, work, cert, legacy, deployed, events>>

Issue(c) ==
    /\ cert[c] = "requested"
    /\ cert' = [cert EXCEPT ![c] = "issued"]
    /\ queued' = TRUE
    /\ UNCHANGED <<scenario, spec, target, status, work, cr, legacy, deployed, events>>

----------------------------------------------------------------------------
(* The user. *)

EditSpec(new) ==
    /\ spec' = new /\ queued' = TRUE
    /\ UNCHANGED <<scenario, target, status, work, cr, cert, legacy, deployed>>

SetEnabled(k) == Event("enabled") /\ EditSpec([spec EXCEPT !.kind[k].enabled = ~@])
AddTemplate(k, n) == Event("template") /\ n \notin spec.kind[k].templates /\ EditSpec([spec EXCEPT !.kind[k].templates = @ \cup {n}])
RemoveTemplate(k, n) == Event("template") /\ n \in spec.kind[k].templates /\ EditSpec([spec EXCEPT !.kind[k].templates = @ \ {n}])
SetTLS == Event("tls") /\ EditSpec([spec EXCEPT !.podTLS = ~@])
SetNicMappings == Event("nics") /\ EditSpec([spec EXCEPT !.nics = ~@])

(* A new version: at any time, or when the first one is deployed. *)
UpdateVersion ==
    /\ Event("version") \/ (Event("update") /\ \A r \in Resources : deployed[r] = {1} /\ cr[r].ready /\ ~queued)
    /\ target = 1
    /\ target' = 2
    /\ queued' = TRUE
    /\ UNCHANGED <<scenario, spec, status, work, cr, cert, legacy, deployed>>

----------------------------------------------------------------------------
Existing == [spec |-> [image |-> 1, tls |-> FALSE], owned |-> FALSE, deleting |-> FALSE, observed |-> TRUE,
             conditions |-> TRUE, ready |-> TRUE]

(* A new control plane, next to instances of somebody else and what an earlier release left behind. *)
Init ==
    /\ scenario \in Scenarios
    /\ spec = [podTLS |-> scenario.podTLS, mtls |-> "memcached" \in Managed, nics |-> scenario.nics,
               kind |-> [k \in Managed |-> [enabled |-> TRUE, templates |-> scenario.templates]]]
    /\ target = 1
    /\ status = [cond |-> [k \in Managed |-> "none"], image |-> [p \in Parts |-> None], infra |-> "none", seen |-> None]
    /\ work = Idle /\ queued = TRUE
    /\ cr = [r \in Resources |-> IF r[2] \in Foreign THEN Existing ELSE None]
    /\ cert = [c \in Certs |-> "none"]
    /\ legacy = IF "rabbitmq" \in Managed THEN Names ELSE {}
    /\ deployed = [r \in Resources |-> IF r[2] \in Foreign THEN {1} ELSE {}]
    /\ events = 0

PassStep == \/ BeginPass \/ StartTemplates \/ ReconcileTemplate \/ FinishTemplates \/ EnsureOVNMetricsCert
            \/ ReconcileOvnPart \/ FinishOvn \/ CheckInfrastructure \/ FinishPass

OperatorStep == \/ \E r \in Resources : Observe(r) \/ Rollout(r) \/ Finalize(r)
                \/ \E c \in Certs : Issue(c)

UserStep == \/ \E k \in Managed : SetEnabled(k) \/ \E n \in Names : AddTemplate(k, n) \/ RemoveTemplate(k, n)
            \/ SetTLS \/ SetNicMappings \/ UpdateVersion

Next == PassStep \/ OperatorStep \/ FailTemplate \/ FailOvn \/ Crash \/ Resync \/ UserStep

Spec == Init /\ [][Next]_vars

(* The work queue runs a request it holds and a pass runs to its end; the operators do their work; the *)
(* informers resync.  Only an error in a part of OVN needs the last one: nothing else retries it.       *)
FairSpec == Spec /\ WF_vars(PassStep) /\ WF_vars(OperatorStep) /\ WF_vars(Resync)

----------------------------------------------------------------------------
(* The variables have their types; a pass that is at a kind has its templates or its parts to do. *)
Specs == [podTLS : BOOLEAN, mtls : BOOLEAN, nics : BOOLEAN,
          kind : [Managed -> [enabled : BOOLEAN, templates : SUBSET Names]]]
Statuses == [cond : [Managed -> Conditions], image : [Parts -> {None, 1, 2}], infra : Conditions, seen : Specs \cup {None}]
Works == [at : 1..(Len(plan) + 1), spec : Specs, target : 1..2, status : Statuses, begun : BOOLEAN,
          todo : SUBSET (Names \cup {0}), part : Range(OvnParts) \cup {"end", None}, ok : BOOLEAN,
          failed : BOOLEAN, busy : BOOLEAN, wait : BOOLEAN, conds : {"none", "true", "false"}]

TypeOK ==
    /\ scenario \in Scenarios /\ spec \in Specs /\ target \in 1..2 /\ status \in Statuses
    /\ work = Idle \/ work \in Works
    /\ queued \in BOOLEAN /\ events \in Nat
    /\ cr \in [Resources -> CustomResources \cup {None}]
    /\ cert \in [Certs -> {"none", "requested", "issued"}]
    /\ legacy \subseteq Names
    /\ deployed \in [Resources -> SUBSET (1..2)]

(* Instances in the namespace that the control plane does not own outlive every edit of its templates: *)
(* deleteUndefinedGaleras and its likes go by the owner, not by the list of templates alone.           *)
ForeignKept == \A r \in Resources : r[2] \in Foreign => cr[r] = Existing

(* No RabbitmqCluster has two controllers: by the time the infra operator is asked for an instance, the *)
(* control plane has given the cluster up, also when a call fails or the process stops in between.       *)
HandedOver == "rabbitmq" \in Managed => \A n \in Names : cr[<<"rabbitmq", n>>] # None => n \notin legacy

(* An image is recorded as deployed only if some instance has been rolled out with it.  Redis records it *)
(* without looking at the generation, OVN records the one of its databases also when disabled.            *)
RecordedWasDeployed ==
    \A p \in Parts \cap {"galera", "rabbitmq", "memcached", "ovnnorthd"} :
      status.image[p] # None => \E r \in Resources : r[1] = p /\ r[2] \notin Foreign /\ status.image[p] \in deployed[r]

(* The test of the OpenStackVersion controller for a step of a minor update: the image of the kind matches *)
(* and its condition is True.                                                                              *)
Updated(k) == /\ spec.kind[k].enabled => status.image[k] = target
              /\ status.cond[k] = "True"

(* A kind that passes the test has every instance of its templates updated. *)
UpdatedMeansAll ==
    \A k \in Checked \cap Managed :
      (status.seen = spec /\ spec.kind[k].enabled /\ Updated(k))
        => \A n \in spec.kind[k].templates : target \in deployed[<<k, n>>]

(* The same of a minor update, as the OpenStackVersion controller relies on it. *)
MinorUpdateMeansAll == target = 2 => UpdatedMeansAll

(* What the spec asks for. *)
Deployed(r) == /\ cr[r] # None /\ ~cr[r].deleting /\ cr[r].observed /\ cr[r].ready
               /\ cr[r].spec = [image |-> target, tls |-> spec.podTLS \/ r[1] = "galera"]
               /\ target \in deployed[r]

TemplatesSettled(k) ==
    LET on == spec.kind[k].enabled
        defined == spec.kind[k].templates
    IN  /\ on \/ k # "galera"
          => \A n \in Names : IF on /\ n \in defined THEN Deployed(<<k, n>>) ELSE cr[<<k, n>>] = None
        /\ on => status.cond[k] = "True" /\ (defined # {} => status.image[k] = target)
        /\ on /\ k = "rabbitmq" => legacy \cap defined = {}

OvnSettled ==
    LET on == spec.kind["ovn"].enabled
        defined == spec.kind["ovn"].templates
        settled(r, want) == IF want THEN Deployed(r) ELSE cr[r] = None
    IN  /\ \A n \in defined : settled(<<"ovndbcluster", n>>, on)
        /\ settled(<<"ovnnorthd", 0>>, on) /\ settled(<<"ovncontroller", 0>>, on /\ spec.nics)
        /\ on /\ defined # {} => status.cond["ovn"] = "True" /\ \A p \in Range(OvnParts) : status.image[p] = target
        /\ ~on => status.cond["ovn"] = "none"

(* After the last edit the passes come to rest: every instance the templates define runs the version's image *)
(* with the TLS settings of the spec, the ones that are no longer defined or enabled are gone, and the        *)
(* conditions say so, whatever failed or was interrupted on the way.                                          *)
Settles == <>[](\A k \in Managed : IF k = "ovn" THEN OvnSettled ELSE TemplatesSettled(k))
=============================================================================
