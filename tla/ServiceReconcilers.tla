------------------------- MODULE ServiceReconcilers -------------------------
(***************************************************************************)
(* The passes of the control plane controller over the services of the     *)
(* catalog.  A pass works on a copy of the OpenStackControlPlane (work):   *)
(* it calls one reconciler after the other, each of which asks for         *)
(* certificates, application credentials and endpoints before it writes    *)
(* the service's custom resource, and ends early when one has to wait or   *)
(* fails.  The conditions and the recorded images it changed in the copy   *)
(* are saved when it ends, and lost when the process stops.                *)
(*                                                                         *)
(* Around it: the operators of the services, cert-manager, the router, the *)
(* keystone operator and the user.  The controller is woken by changes of  *)
(* the objects it owns and by its own requeues, and by nothing else: it    *)
(* does not watch the Services.                                            *)
(***************************************************************************)
EXTENDS Endpoints, ServiceCatalog, FiniteSets, Functions

CONSTANTS
    Plans,       \* the services under control: sequences of services in the order of the passes
    ComponentsOff, \* sets of components the user may switch off: of telemetry
    Kinds,       \* for each plan, the kinds of edits and faults that may happen
    MaxEvents    \* bound: how many of them, for each plan

(* A plan keeps the order in which reconcileNormal calls the reconcilers. *)
InOrder(p) == \A i, j \in DOMAIN p : i < j => \E k, l \in DOMAIN Order : k < l /\ Order[k] = p[i] /\ Order[l] = p[j]

ASSUME ReconcilersAssumption ==
    /\ Plans \subseteq Seq(Services) /\ \A p \in Plans : InOrder(p)
    /\ DOMAIN Kinds = Plans /\ MaxEvents \in [Plans -> Nat]
    /\ None # Custom

VARIABLES
    plan,      \* the services under control
    spec,      \* OpenStackControlPlane.spec
    target,    \* the version of the images in OpenStackVersion.status
    status,    \* OpenStackControlPlane.status: conditions and images
    work,      \* the pass under way
    queued,    \* is a reconcile request queued?
    cr,        \* the custom resource of each service
    svcs,      \* the Services of the APIs
    net,       \* certificates and routes
    ac,        \* the KeystoneApplicationCredentials
    secret,    \* does the user's certificate secret for the ingress exist?
    deployed,  \* versions each service's operator has rolled out
    events     \* edits and faults so far

owned == <<cr, net, ac>>
vars == <<plan, spec, target, status, work, queued, owned, svcs, secret, deployed, events>>

Managed == Range(plan)
Apis(s) == Range(Catalog[s].apis)
ApiNames(s) == {a.name : a \in Apis(s)}
Creds(s) == Range(Catalog[s].credentials)
CertSlots(s) == UNION {{a.name} \X (a.endpoints \cup a.also) : a \in Apis(s)}
PublicApis(s) == {a.name : a \in {x \in Apis(s) : "public" \in x.endpoints}}
AllApis == UNION {PublicApis(s) : s \in Managed}
AllCreds == UNION {{c.name : c \in Creds(s)} : s \in Managed}
Sections(s) == {c.section : c \in Creds(s)}

(* nil names no certificate. *)
ASSUME CertificatesAssumption == \A s \in Services : None \notin CertSlots(s)

Conditions == {"none", "Unknown", "False", "True"}

Idle == [at |-> 0]

(* The image of a key in a version, if the images that are new in version 2 are `new'. *)
Image(k, v, new) == IF v = 2 /\ k \in new THEN 2 ELSE 1

(* KeystoneImageMatch, HeatImageMatch, ...: the recorded images the function compares are the version's. *)
ImageMatch(s, new) ==
    spec.svc[s].enabled =>
      \A k \in Catalog[s].images.compared :
        status.images[s][k] # None /\ Image(k, status.images[s][k], new) = Image(k, target, new)

(* The Ready condition of the control plane: every condition it has is True. *)
Ready == /\ \A s \in Managed : status.ready[s] \in {"none", "True"} /\ status.expose[s] \in {"none", "True"}
         /\ status.custom \in {"none", "True"}

----------------------------------------------------------------------------
(* A pass. *)

(* InitConditions: the condition of an enabled service starts over, the others stay as they are. *)
InitConditions(st) == [st EXCEPT !.ready = [s \in Managed |->
                               IF spec.svc[s].enabled /\ ~Catalog[s].config THEN "Unknown" ELSE @[s]]]

BeginPass ==
    /\ work = Idle /\ queued
    /\ queued' = FALSE
    /\ work' = [at |-> 1, spec |-> spec, target |-> target, status |-> InitConditions(status),
                steps |-> <<>>, begun |-> FALSE, api |-> None, items |-> {}, skip |-> FALSE,
                tls |-> <<>>, url |-> <<>>, auth |-> <<>>, ready |-> FALSE]
    /\ UNCHANGED <<plan, spec, target, status, owned, svcs, secret, deployed, events>>

InPass == work # Idle /\ work.at <= Len(plan)
Svc == plan[work.at]
Template == work.spec.svc[Svc]

(* The informers of the manager replay every object they hold, every ten hours. *)
Resync ==
    /\ work = Idle /\ ~queued
    /\ queued' = TRUE
    /\ UNCHANGED <<plan, spec, target, status, work, owned, svcs, secret, deployed, events>>

(* The controller is woken by a change of what it owns. *)
Wake == queued' = (queued \/ owned' # owned)

(* The next service's turn. *)
Done(w) == [w EXCEPT !.at = @ + 1, !.begun = FALSE, !.steps = <<>>, !.api = None, !.items = {}, !.skip = FALSE,
                     !.tls = <<>>, !.url = <<>>, !.auth = <<>>, !.ready = FALSE]

(* The pass ends: what it changed is saved, and a failed or waiting one comes back. *)
EndPass(st, again) ==
    /\ work' = Idle
    /\ status' = st
    /\ queued' = (queued \/ again \/ st # status \/ owned' # owned)

(* The branch of a service that is not enabled, or lacks one that it needs. *)
Disable ==
    /\ InPass /\ ~work.begun
    /\ ~Template.enabled \/ \E n \in Catalog[Svc].needs : n \in Managed /\ ~work.spec.svc[n].enabled
    /\ IF Template.enabled
         THEN work' = Done(work) /\ UNCHANGED owned
         ELSE /\ cr' = [cr EXCEPT ![Svc] = IF @ = None THEN None ELSE [@ EXCEPT !.deleting = TRUE]]
              /\ ac' = [c \in DOMAIN ac |-> IF c \in {x.name : x \in Creds(Svc)} THEN None ELSE ac[c]]
              /\ work' = Done([work EXCEPT
                   !.status.ready[Svc] = "none",
                   !.status.expose[Svc] = IF Catalog[Svc].expose THEN "none" ELSE @,
                   !.status.images[Svc] = [k \in DOMAIN @ |->
                                             IF k \in Catalog[Svc].images.cleared THEN None ELSE @[k]]])
              /\ UNCHANGED net
    /\ Wake
    /\ UNCHANGED <<plan, spec, target, status, svcs, secret, deployed, events>>

Steps(s) ==
    [i \in DOMAIN Catalog[s].certs |-> [do |-> "cert", of |-> Catalog[s].certs[i]]]
    \o [i \in DOMAIN Catalog[s].credentials |-> [do |-> "credential", of |-> Catalog[s].credentials[i]]]
    \o [i \in DOMAIN Catalog[s].apis |-> [do |-> "api", of |-> Catalog[s].apis[i]]]

\* Mutant: the TLS settings come from the spec only.
TemplateTLSOfSpec(s, r) ==
    [e \in CertSlots(s) |-> IF e[2] = "public" /\ work.spec.svc[s].custom THEN Custom ELSE None]

(* The TLS settings of the resource replace the template's when pods use TLS. *)
TemplateTLS(s, r) ==
    [e \in CertSlots(s) |->
       IF work.spec.podTLS THEN IF r # None /\ Catalog[s].keepsTLS THEN r.spec.tls[e] ELSE None
       ELSE IF e[2] = "public" /\ work.spec.svc[s].custom THEN Custom ELSE None]

(* The service is enabled: its resource is read. *)
Begin ==
    /\ InPass /\ ~work.begun
    /\ Template.enabled /\ \A n \in Catalog[Svc].needs : n \in Managed => work.spec.svc[n].enabled
    /\ work' = [work EXCEPT
         !.begun = TRUE, !.steps = Steps(Svc), !.tls = TemplateTLS(Svc, cr[Svc]),
         !.url = [a \in PublicApis(Svc) |-> "none"], !.auth = [c \in Creds(Svc) |-> FALSE],
         !.ready = cr[Svc] # None /\ cr[Svc].observed /\ cr[Svc].ready]
    /\ UNCHANGED <<plan, spec, target, status, queued, owned, svcs, secret, deployed, events>>

Step(kind) == InPass /\ work.begun /\ work.items = {} /\ work.steps # <<>> /\ Head(work.steps).do = kind

(* A certificate that belongs to no endpoint.  A pending one ends the service's turn and not the pass, *)
(* except for the one that makes it an error.                                                          *)
EnsureServiceCert ==
    /\ Step("cert")
    /\ UNCHANGED <<cr, ac>>
    /\ LET cert == EnsureCert(net, <<Head(work.steps).of, "svc">>)
       IN  IF ~work.spec.podTLS
             THEN work' = [work EXCEPT !.steps = Tail(@)] /\ UNCHANGED <<status, queued, net>>
             ELSE /\ net' = cert.net
                  /\ CASE cert.end = "done" ->
                            work' = [work EXCEPT !.steps = Tail(@)] /\ queued' = (queued \/ net' # net) /\ UNCHANGED status
                       [] cert.end = "wait" /\ Catalog[Svc].onWait = "skip" ->
                            work' = Done(work) /\ queued' = (queued \/ net' # net) /\ UNCHANGED status
                       [] cert.end = "wait" /\ Catalog[Svc].onWait = "error" ->
                            EndPass([work.status EXCEPT !.ready[Svc] = "False"], TRUE)
    /\ UNCHANGED <<plan, spec, target, svcs, secret, deployed, events>>

(* EnsureApplicationCredentialForService, called only if the spec has a section for the credential.  It *)
(* waits for a credential that exists and is not ready, and creates one only when the service is ready. *)
EnsureApplicationCredential ==
    /\ Step("credential")
    /\ UNCHANGED <<cr, net>>
    /\ LET c == Head(work.steps).of
           section == Template.section[c.section]
           off == c.component \in work.spec.off \/ section = "off"
           use(secretName) == work' = [work EXCEPT !.steps = Tail(@), !.auth[c] = secretName] /\ UNCHANGED status
       IN  CASE off -> /\ ac' = [ac EXCEPT ![c.name] = None]
                       /\ use(FALSE) /\ Wake
             [] ~off /\ (section = "nil" \/ (section = "on" /\ ac[c.name] = None /\ ~work.ready)) ->
                  use(FALSE) /\ UNCHANGED <<queued, ac>>
             [] ~off /\ section = "on" /\ ac[c.name] = "ready" ->
                  use(TRUE) /\ UNCHANGED <<queued, ac>>
             [] ~off /\ section = "on" /\ (ac[c.name] = "requested" \/ (ac[c.name] = None /\ work.ready)) ->
                  ac' = [ac EXCEPT ![c.name] = "requested"] /\ EndPass(work.status, TRUE)
    /\ UNCHANGED <<plan, spec, target, svcs, secret, deployed, events>>

(* The Services of an API are listed; it is left alone until all of them exist. *)
ListServices ==
    /\ Step("api")
    /\ LET api == Head(work.steps).of
           found == {svc \in svcs : svc.api \in api.among}
           configure == /\ api.counted => Cardinality(found) = Cardinality(api.endpoints)
                        /\ api.afterReady => work.ready
           last == {[api |-> api.name, endpoint |-> e, lb |-> FALSE] : e \in api.also}
       IN  work' = [work EXCEPT
             !.steps = Tail(@), !.api = api,
             !.items = IF configure THEN found \cup last ELSE {},
             !.tls = [e \in DOMAIN @ |->
                        IF configure /\ ~api.counted /\ e[1] = api.name THEN None ELSE @[e]]]
    /\ UNCHANGED <<plan, spec, target, status, queued, owned, svcs, secret, deployed, events>>

(* EnsureEndpointConfig for one of the Services, in the order the list happens to have. *)
EnsureEndpoint ==
    /\ InPass
    /\ UNCHANGED <<cr, ac>>
    /\ \E svc \in work.items :
         LET want == [podTLS |-> work.spec.podTLS, ingressTLS |-> work.spec.ingressTLS,
                      given |-> Template.ingressSecret, exists |-> secret]
             slot == <<work.api.name, svc.endpoint>>
             template == IF work.api.custom /\ slot \in DOMAIN work.tls THEN work.tls[slot] ELSE None
             r == EnsureEndpointConfig(net, svc, want, template,
                                       [expose |-> work.status.expose[Svc], custom |-> work.status.custom])
             st == [work.status EXCEPT !.expose[Svc] = r.conds.expose, !.custom = r.conds.custom]
         IN  /\ svc.endpoint \in work.api.also => \A x \in work.items : x.endpoint \in work.api.also
             /\ net' = r.net
             /\ \/ /\ r.end = "done"
                   /\ work' = [work EXCEPT
                        !.status = st, !.items = @ \ {svc},
                        !.tls = [e \in DOMAIN @ |-> IF e = slot THEN r.secret ELSE @[e]],
                        !.url = [a \in DOMAIN @ |-> IF <<a, "public">> = slot THEN r.url ELSE @[a]]]
                   /\ queued' = (queued \/ net' # net)
                   /\ UNCHANGED status
                \/ /\ r.end = "wait" /\ Catalog[Svc].remember
                   /\ work' = [work EXCEPT !.status = st, !.items = {}, !.skip = TRUE]
                   /\ queued' = (queued \/ net' # net)
                   /\ UNCHANGED status
                \/ /\ r.end = "error" \/ (r.end = "wait" /\ ~Catalog[Svc].remember)
                   /\ EndPass(st, TRUE)
    /\ UNCHANGED <<plan, spec, target, svcs, secret, deployed, events>>

\* Mutant: the endpoint URLs of a resource are set when it is created, and never again.
WrittenOnce(s) ==
    LET new == [image |-> work.target, tls |-> work.tls, url |-> work.url, auth |-> work.auth,
                lb |-> Template.lb, off |-> work.spec.off]
    IN  IF cr[s] = None
          THEN [spec |-> new, deleting |-> FALSE, observed |-> FALSE, conditions |-> FALSE, ready |-> FALSE]
          ELSE LET kept == [new EXCEPT !.url = cr[s].spec.url]
               IN [cr[s] EXCEPT !.spec = kept, !.observed = @ /\ cr[s].spec = kept]

(* The custom resource as the reconciler writes it: a change of its spec starts a new generation. *)
Written(s) ==
    LET new == [image |-> work.target, tls |-> work.tls, url |-> work.url, auth |-> work.auth,
                lb |-> Template.lb, off |-> work.spec.off]
    IN  IF cr[s] = None
          THEN [spec |-> new, deleting |-> FALSE, observed |-> FALSE, conditions |-> FALSE, ready |-> FALSE]
          ELSE [cr[s] EXCEPT !.spec = new, !.observed = @ /\ cr[s].spec = new]

(* MirrorSubResourceCondition: the worst condition of the resource, True if all are. *)
MirrorSubResourceCondition(r) == IF r.conditions /\ r.ready THEN "True" ELSE "False"

\* Mutant: the generation the operator has seen is not looked at.
EvaluateUnobserved(st, s, r) ==
    IF r.ready
      THEN [st EXCEPT !.ready[s] = "True", !.images[s] = [k \in DOMAIN @ |-> work.target]]
      ELSE [st EXCEPT !.ready[s] = MirrorSubResourceCondition(r)]

(* The result: images are recorded once the operator has seen the resource and it is ready. *)
Evaluate(st, s, r) ==
    IF r.observed /\ r.ready
      THEN [st EXCEPT !.ready[s] = "True", !.images[s] = [k \in DOMAIN @ |-> work.target]]
      ELSE [st EXCEPT !.ready[s] = MirrorSubResourceCondition(r)]

CreateOrPatch ==
    /\ InPass /\ work.begun /\ work.items = {} /\ work.steps = <<>>
    /\ IF work.skip THEN work' = Done(work) /\ UNCHANGED owned
       ELSE /\ cr' = [cr EXCEPT ![Svc] = IF Catalog[Svc].config
                                            THEN [Written(Svc) EXCEPT !.observed = TRUE, !.conditions = TRUE, !.ready = TRUE]
                                            ELSE Written(Svc)]
            /\ work' = Done([work EXCEPT !.status = Evaluate(@, Svc, cr'[Svc])])
            /\ UNCHANGED <<net, ac>>
    /\ Wake
    /\ deployed' = IF Catalog[Svc].config THEN [deployed EXCEPT ![Svc] = @ \cup {work.target}] ELSE deployed
    /\ UNCHANGED <<plan, spec, target, status, svcs, secret, events>>

(* The last call of a pass that got this far: DeleteCertsAndRoutes. *)
FinishPass ==
    /\ work # Idle /\ work.at > Len(plan)
    /\ net' = DeleteCertsAndRoutes(net, svcs)
    /\ UNCHANGED <<cr, ac>>
    /\ EndPass(work.status, FALSE)
    /\ UNCHANGED <<plan, spec, target, svcs, secret, deployed, events>>

Event(kind) == kind \in Kinds[plan] /\ events < MaxEvents[plan] /\ events' = events + 1

(* A call to the API fails: the pass ends, with a condition of the service if it was the last call. *)
Fail ==
    /\ InPass /\ Event("fail")
    /\ UNCHANGED owned
    /\ EndPass(IF work.begun /\ work.items = {} /\ work.steps = <<>> /\ ~work.skip
                 THEN [work.status EXCEPT !.ready[Svc] = "False"] ELSE work.status, TRUE)
    /\ UNCHANGED <<plan, spec, target, svcs, secret, deployed>>

(* The process stops, at any time; the next one lists every object. *)
Crash ==
    /\ work # Idle /\ Event("crash")
    /\ work' = Idle /\ queued' = TRUE
    /\ UNCHANGED <<plan, spec, target, status, owned, svcs, secret, deployed>>

----------------------------------------------------------------------------
(* The operators of the services, outside this repository. *)

(* The Services an operator creates: those of the components that are on. *)
Wanted(s, off, lb) ==
    {[api |-> x[1], endpoint |-> x[2], lb |-> lb /\ x[2] = "public"] :
       x \in UNION {{a.name} \X a.endpoints : a \in {y \in Apis(s) : y.name \notin off}}}

(* The operator sees a new generation: it creates or updates the Services. *)
Observe(s) ==
    /\ cr[s] # None /\ ~cr[s].deleting /\ ~cr[s].observed
    /\ cr' = [cr EXCEPT ![s].observed = TRUE, ![s].conditions = TRUE, ![s].ready = FALSE]
    /\ svcs' = {x \in svcs : x.api \notin ApiNames(s)} \cup Wanted(s, cr[s].spec.off, cr[s].spec.lb)
    /\ queued' = TRUE
    /\ UNCHANGED <<plan, spec, target, status, work, net, ac, secret, deployed, events>>

(* It has rolled the resource out. *)
Rollout(s) ==
    /\ cr[s] # None /\ ~cr[s].deleting /\ cr[s].observed /\ ~cr[s].ready
    /\ cr' = [cr EXCEPT ![s].ready = TRUE]
    /\ deployed' = [deployed EXCEPT ![s] = @ \cup {cr[s].spec.image}]
    /\ queued' = TRUE
    /\ UNCHANGED <<plan, spec, target, status, work, net, ac, svcs, secret, events>>

(* A deleted resource goes away; the garbage collector removes the Services later. *)
Finalize(s) ==
    /\ cr[s] # None /\ cr[s].deleting
    /\ cr' = [cr EXCEPT ![s] = None]
    /\ queued' = TRUE
    /\ UNCHANGED <<plan, spec, target, status, work, net, ac, svcs, secret, deployed, events>>

CollectServices(s) ==
    /\ cr[s] = None /\ \E x \in svcs : x.api \in ApiNames(s)
    /\ svcs' = {x \in svcs : x.api \notin ApiNames(s)}
    /\ UNCHANGED <<plan, spec, target, status, work, queued, owned, secret, deployed, events>>

(* A Service is deleted by mistake; its operator creates it again, and nothing tells the controller. *)
LoseService(s) ==
    /\ Event("lose")
    /\ \E x \in svcs : x.api \in ApiNames(s) /\ svcs' = svcs \ {x}
    /\ UNCHANGED <<plan, spec, target, status, work, queued, owned, secret, deployed>>

RestoreServices(s) ==
    /\ cr[s] # None /\ ~cr[s].deleting /\ cr[s].observed
    /\ svcs # svcs \cup Wanted(s, cr[s].spec.off, cr[s].spec.lb)
    /\ svcs' = svcs \cup Wanted(s, cr[s].spec.off, cr[s].spec.lb)
    /\ UNCHANGED <<plan, spec, target, status, work, queued, owned, secret, deployed, events>>

(* cert-manager issues a certificate. *)
Issue(c) ==
    /\ c \in net.certs \ net.issued
    /\ net' = [net EXCEPT !.issued = @ \cup {c}]
    /\ queued' = TRUE
    /\ UNCHANGED <<plan, spec, target, status, work, cr, ac, svcs, secret, deployed, events>>

(* The router rejects a route, and admits it when what it collides with is gone. *)
AdmitRoute(a) ==
    /\ net.routes[a] # None /\ ~net.routes[a].admitted
    /\ net' = [net EXCEPT !.routes[a].admitted = TRUE]
    /\ queued' = TRUE
    /\ UNCHANGED <<plan, spec, target, status, work, cr, ac, svcs, secret, deployed, events>>

RejectRoute(a) ==
    /\ Event("reject")
    /\ net.routes[a] # None /\ net.routes[a].admitted
    /\ net' = [net EXCEPT !.routes[a].admitted = FALSE]
    /\ queued' = TRUE
    /\ UNCHANGED <<plan, spec, target, status, work, cr, ac, svcs, secret, deployed>>

(* The keystone operator creates the application credential and its secret. *)
ReadyCredential(c) ==
    /\ ac[c] = "requested"
    /\ ac' = [ac EXCEPT ![c] = "ready"]
    /\ queued' = TRUE
    /\ UNCHANGED <<plan, spec, target, status, work, cr, net, svcs, secret, deployed, events>>

----------------------------------------------------------------------------
(* The user. *)

EditSpec(s, new) ==
    /\ spec' = [spec EXCEPT !.svc[s] = new] /\ spec' # spec
    /\ queued' = TRUE
    /\ UNCHANGED <<plan, target, status, work, owned, svcs, secret, deployed>>

(* Services that can be switched off. *)
Optional(s) == ~Catalog[s].config /\ Catalog[s].needs = {}

SetEnabled(s) == Event("enabled") /\ Optional(s) /\ EditSpec(s, [spec.svc[s] EXCEPT !.enabled = ~@])
SetLoadBalancer(s) == Event("lb") /\ PublicApis(s) # {} /\ EditSpec(s, [spec.svc[s] EXCEPT !.lb = ~@])
SetSection(s) ==
    /\ Event("section")
    /\ \E n \in Sections(s), v \in {"nil", "off", "on"} : EditSpec(s, [spec.svc[s] EXCEPT !.section[n] = v])
SetCustom(s) == Event("custom") /\ PublicApis(s) # {} /\ EditSpec(s, [spec.svc[s] EXCEPT !.custom = ~@])

(* A secret with a certificate for the route, that may be created later; the reference may be withdrawn, *)
(* which is giving up if the certificate was never in use.                                               *)
SetIngressSecret(s) ==
    /\ Event("ingressSecret") /\ PublicApis(s) # {} /\ ~spec.svc[s].ingressSecret
    /\ EditSpec(s, [spec.svc[s] EXCEPT !.ingressSecret = TRUE])
WithdrawIngressSecret(s) ==
    /\ Event(IF status.custom = "True" THEN "withdraw" ELSE "giveUp")
    /\ spec.svc[s].ingressSecret
    /\ EditSpec(s, [spec.svc[s] EXCEPT !.ingressSecret = FALSE])

CreateSecret ==
    /\ ~secret
    /\ \E s \in Managed : spec.svc[s].ingressSecret
    /\ secret' = TRUE
    /\ UNCHANGED <<plan, spec, target, status, work, queued, owned, svcs, deployed, events>>

SetTLS ==
    /\ Event("tls")
    /\ \/ spec' = [spec EXCEPT !.podTLS = ~@]
       \/ spec' = [spec EXCEPT !.ingressTLS = ~@]
    /\ queued' = TRUE
    /\ UNCHANGED <<plan, target, status, work, owned, svcs, secret, deployed>>

SetComponents ==
    /\ Event("components") /\ "telemetry" \in Managed
    /\ \E off \in ComponentsOff : off # spec.off /\ spec' = [spec EXCEPT !.off = off]
    /\ queued' = TRUE
    /\ UNCHANGED <<plan, target, status, work, owned, svcs, secret, deployed>>

(* A new version, with a new image at least for each of the services. *)
UpdateVersion ==
    /\ Event("version") /\ target = 1
    /\ target' = 2
    /\ queued' = TRUE
    /\ UNCHANGED <<plan, spec, status, work, owned, svcs, secret, deployed>>
=============================================================================
