--------------------------- MODULE ServicesProofs ---------------------------
(***************************************************************************)
(* Safety of ControlPlaneServices, for every choice of plans from the      *)
(* catalog, every user and any number of failures: what is recorded was    *)
(* deployed, matching images mean the target is deployed, no pass takes a  *)
(* certificate away, and none gives a service that of another.             *)
(*                                                                         *)
(* The catalog is data; what the proofs need to know of it is proved       *)
(* service by service first (CatalogIsRegular, OthersKeepSettings,         *)
(* OthersCompareAll).  FormInv says what the pass under way looks like,    *)
(* RecordInv follows an image from the resource through the copy into the  *)
(* status, and Kept says that the template a pass builds up has a          *)
(* certificate wherever the resource has one.  TypeInv is the types, with  *)
(* the certificates in the template and in the resource being the          *)
(* service's own.                                                          *)
(***************************************************************************)
EXTENDS ControlPlaneServices, TLAPS, SequenceTheorems

(* The catalog *)

\* A list, of whatever is in it.
Listed(q) == q \in Seq(Range(q))

\* What a reconciler goes through is a list, and a pending certificate is dealt with in one of two ways.
Regular(v) == Listed(v.certs) /\ Listed(v.credentials) /\ Listed(v.apis) /\ v.onWait \in {"skip", "error"}

\* The settings of a service that outlive a pass: they are taken over from its resource, and no API of it
\* is configured without all of its Services.
KeepsSettings(v) == v.keepsTLS /\ \A a \in Range(v.apis) : a.counted

\* No image is written that is not compared.
ComparesAll(v) == v.images.written \subseteq v.images.compared

\* Lists of the lengths the catalog has.
LEMMA EmptyListed == Listed(<<>>)
  BY DEF Listed

LEMMA OneListed == ASSUME NEW a PROVE Listed(<<a>>)
<1>1. a \in Range(<<a>>)
  BY DEF Range
<1> QED
  BY <1>1 DEF Listed

LEMMA TwoListed == ASSUME NEW a, NEW b PROVE Listed(<<a, b>>)
<1>1. a \in Range(<<a, b>>) /\ b \in Range(<<a, b>>)
  BY DEF Range
<1> QED
  BY <1>1 DEF Listed

LEMMA ThreeListed == ASSUME NEW a, NEW b, NEW c PROVE Listed(<<a, b, c>>)
<1>1. a \in Range(<<a, b, c>>) /\ b \in Range(<<a, b, c>>) /\ c \in Range(<<a, b, c>>)
  BY DEF Range
<1> QED
  BY <1>1 DEF Listed

\* A sequence over any set is a list.
LEMMA SequencesAreListed == ASSUME NEW S, NEW r \in Seq(S) PROVE Listed(r)
<1>1. \A i \in 1 .. Len(r) : r[i] \in Range(r)
  BY DEF Range
<1>2. r = [i \in 1 .. Len(r) |-> r[i]] /\ Len(r) \in Nat
  OBVIOUS
<1>3. r \in [1 .. Len(r) -> Range(r)]
  BY <1>1, <1>2
<1> QED
  BY <1>2, <1>3, SeqDef DEF Listed

\* So is one list after the other.
LEMMA AppendedListed ==
    ASSUME NEW p, NEW q, Listed(p), Listed(q) PROVE Listed(p \o q)
<1> DEFINE S == Range(p) \cup Range(q)
<1>1. p \in Seq(S) /\ q \in Seq(S)
  BY DEF Listed
<1>2. p \o q \in Seq(S)
  BY <1>1
<1> QED
  BY <1>2, SequencesAreListed

\* Every service of the catalog is regular.
LEMMA CatalogIsRegular == \A s \in Services : Regular(Catalog[s])
<1> USE EmptyListed, OneListed, TwoListed, ThreeListed DEF Regular, Plain
<1>1. Regular(DNSMasq)
  BY DEF DNSMasq
<1>2. Regular(Keystone)
  BY DEF Keystone, KeystoneEndpoints
<1>3. Regular(Placement)
  BY DEF Placement, PlacementEndpoints
<1>4. Regular(Glance)
  BY DEF Glance, GlanceEndpoints
<1>5. Regular(Cinder)
  BY DEF Cinder, CinderEndpoints
<1>6. Regular(Neutron)
  BY DEF Neutron, NeutronEndpoints
<1>7. Regular(Nova)
  BY DEF Nova, NovaEndpoints
<1>8. Regular(Heat)
  BY DEF Heat, HeatEndpoints
<1>9. Regular(Ironic)
  BY DEF Ironic, IronicEndpoints, IronicCredentials
<1>10. Regular(OpenStackClient)
  BY DEF OpenStackClient
<1>11. Regular(Manila)
  BY DEF Manila, ManilaEndpoints
<1>12. Regular(Horizon)
  BY DEF Horizon, HorizonEndpoints
<1>13. Regular(Telemetry)
  <2>1. Listed(TelemetryEndpoints \o <<TelemetryExporters["prometheus"], TelemetryExporters["ceilometer"],
                                       TelemetryExporters["ksm"]>>)
    BY AppendedListed DEF TelemetryEndpoints
  <2> QED
    BY <2>1 DEF Telemetry, TelemetryCredentials
<1>14. Regular(Barbican)
  BY DEF Barbican, BarbicanEndpoints
<1>15. Regular(Octavia)
  BY DEF Octavia, OctaviaEndpoints
<1>16. Regular(Designate)
  BY DEF Designate, DesignateEndpoints
<1>17. Regular(Swift)
  BY DEF Swift, SwiftEndpoints
<1>18. Regular(Test)
  BY DEF Test
<1>19. Regular(InstanceHa)
  BY DEF InstanceHa
<1>20. Regular(Watcher)
  BY DEF Watcher, WatcherEndpoints
<1> HIDE DEF Regular, Plain
<1> QED
  BY <1>1, <1>2, <1>3, <1>4, <1>5, <1>6, <1>7, <1>8, <1>9, <1>10, <1>11, <1>12, <1>13, <1>14, <1>15,
     <1>16, <1>17, <1>18, <1>19, <1>20 DEF Services, Catalog

\* The services that depart from the scheme in what they do to their TLS settings.
Departing == {"nova", "telemetry", "octavia", "designate"}

\* All others keep them.
LEMMA OthersKeepSettings == \A s \in Services \ Departing : KeepsSettings(Catalog[s])
<1> USE DEF KeepsSettings, Plain, Range, Api
<1>1. KeepsSettings(DNSMasq)
  BY DEF DNSMasq
<1>2. KeepsSettings(Keystone)
  BY DEF Keystone, KeystoneEndpoints
<1>3. KeepsSettings(Placement)
  BY DEF Placement, PlacementEndpoints
<1>4. KeepsSettings(Glance)
  BY DEF Glance, GlanceEndpoints
<1>5. KeepsSettings(Cinder)
  BY DEF Cinder, CinderEndpoints
<1>6. KeepsSettings(Neutron)
  BY DEF Neutron, NeutronEndpoints
<1>7. KeepsSettings(Heat)
  BY DEF Heat, HeatEndpoints
<1>8. KeepsSettings(Ironic)
  BY DEF Ironic, IronicEndpoints, IronicCredentials
<1>9. KeepsSettings(OpenStackClient)
  BY DEF OpenStackClient
<1>10. KeepsSettings(Manila)
  BY DEF Manila, ManilaEndpoints
<1>11. KeepsSettings(Horizon)
  BY DEF Horizon, HorizonEndpoints
<1>12. KeepsSettings(Barbican)
  BY DEF Barbican, BarbicanEndpoints
<1>13. KeepsSettings(Swift)
  BY DEF Swift, SwiftEndpoints
<1>14. KeepsSettings(Test)
  BY DEF Test
<1>15. KeepsSettings(InstanceHa)
  BY DEF InstanceHa
<1>16. KeepsSettings(Watcher)
  BY DEF Watcher, WatcherEndpoints
<1> HIDE DEF KeepsSettings, Plain, Range, Api
<1> QED
  BY <1>1, <1>2, <1>3, <1>4, <1>5, <1>6, <1>7, <1>8, <1>9, <1>10, <1>11, <1>12, <1>13, <1>14, <1>15, <1>16
     DEF Services, Catalog, Departing

\* All ImageMatch functions but two compare every image of their service.
LEMMA OthersCompareAll == \A s \in Services \ {"telemetry", "designate"} : ComparesAll(Catalog[s])
<1> USE DEF ComparesAll, Plain, Images
<1>1. ComparesAll(DNSMasq)
  BY DEF DNSMasq, DNSMasqImages
<1>2. ComparesAll(Keystone)
  BY DEF Keystone, KeystoneImages
<1>3. ComparesAll(Placement)
  BY DEF Placement, PlacementImages
<1>4. ComparesAll(Glance)
  BY DEF Glance, GlanceImages
<1>5. ComparesAll(Cinder)
  BY DEF Cinder, CinderImages
<1>6. ComparesAll(Neutron)
  BY DEF Neutron, NeutronImages
<1>7. ComparesAll(Nova)
  BY DEF Nova, NovaImages
<1>8. ComparesAll(Heat)
  BY DEF Heat, HeatImages
<1>9. ComparesAll(Ironic)
  BY DEF Ironic, IronicImages
<1>10. ComparesAll(OpenStackClient)
  BY DEF OpenStackClient, ClientImages
<1>11. ComparesAll(Manila)
  BY DEF Manila, ManilaImages
<1>12. ComparesAll(Horizon)
  BY DEF Horizon, HorizonImages
<1>13. ComparesAll(Barbican)
  BY DEF Barbican, BarbicanImages
<1>14. ComparesAll(Octavia)
  BY DEF Octavia, OctaviaImages
<1>15. ComparesAll(Swift)
  BY DEF Swift, SwiftImages
<1>16. ComparesAll(Test)
  BY DEF Test
<1>17. ComparesAll(InstanceHa)
  BY DEF InstanceHa
<1>18. ComparesAll(Watcher)
  BY DEF Watcher, WatcherImages
<1> HIDE DEF ComparesAll, Plain, Images
<1> QED
  BY <1>1, <1>2, <1>3, <1>4, <1>5, <1>6, <1>7, <1>8, <1>9, <1>10, <1>11, <1>12, <1>13, <1>14, <1>15,
     <1>16, <1>17, <1>18 DEF Services, Catalog

----------------------------------------------------------------------------
(* The pass under way *)

\* The fields of the records.
ResourceFields == {"spec", "deleting", "observed", "conditions", "ready"}
TemplateFields == {"enabled", "lb", "custom", "ingressSecret", "section"}
StatusFields == {"ready", "expose", "custom", "images"}
WorkFields == {"at", "spec", "target", "status", "steps", "begun", "api", "items", "skip",
               "tls", "url", "auth", "ready"}

\* The section of every credential is absent, off or on.
SpecForm(sp) ==
    /\ DOMAIN sp = {"podTLS", "ingressTLS", "off", "svc"} /\ DOMAIN sp.svc = Managed
    /\ \A s \in Managed :
         /\ DOMAIN sp.svc[s] = TemplateFields /\ DOMAIN sp.svc[s].section = Sections(s)
         /\ \A n \in Sections(s) : sp.svc[s].section[n] \in {"nil", "off", "on"}

\* The steps of a service: its certificates, its credentials and its APIs.
StepSet(s) ==
    {[do |-> "cert", of |-> c] : c \in Range(Catalog[s].certs)}
      \cup {[do |-> "credential", of |-> c] : c \in Creds(s)}
      \cup {[do |-> "api", of |-> a] : a \in Apis(s)}

\* What is left to do for a service belongs to it, and its template has a setting for every certificate.
WorkForm ==
    /\ DOMAIN work = WorkFields /\ work.at \in Nat \ {0} /\ SpecForm(work.spec) /\ work.ready \in BOOLEAN
    /\ InPass => work.steps \in Seq(StepSet(Svc))
    /\ InPass /\ work.begun => DOMAIN work.tls = CertSlots(Svc)

\* A credential is absent, requested or ready.
CredentialForm == DOMAIN ac = AllCreds /\ \A c \in AllCreds : ac[c] \in {None, "requested", "ready"}

\* What the copy of a pass, and what it is made from, look like.
FormInv == plan \in Plans /\ SpecForm(spec) /\ CredentialForm /\ (work # Idle => WorkForm)

\* The steps made of one of the lists.
LEMMA MappedListed ==
    ASSUME NEW q, Listed(q), NEW x
    PROVE  [i \in DOMAIN q |-> [do |-> x, of |-> q[i]]] \in Seq({[do |-> x, of |-> a] : a \in Range(q)})
<1> DEFINE S == {[do |-> x, of |-> a] : a \in Range(q)}
           r == [i \in DOMAIN q |-> [do |-> x, of |-> q[i]]]
<1>1. q \in [1 .. Len(q) -> Range(q)] /\ Len(q) \in Nat
  BY DEF Listed
<1>2. r \in [1 .. Len(q) -> S]
  BY <1>1
<1> HIDE DEF r, S
<1>3. r \in Seq(S)
  BY <1>1, <1>2, SeqDef
<1> QED
  BY <1>3 DEF r, S

\* All of the steps of a service are its own.
LEMMA StepsType == ASSUME NEW s \in Services PROVE Steps(s) \in Seq(StepSet(s))
<1> DEFINE A == {[do |-> "cert", of |-> c] : c \in Range(Catalog[s].certs)}
           B == {[do |-> "credential", of |-> c] : c \in Range(Catalog[s].credentials)}
           C == {[do |-> "api", of |-> a] : a \in Range(Catalog[s].apis)}
           a == [i \in DOMAIN Catalog[s].certs |-> [do |-> "cert", of |-> Catalog[s].certs[i]]]
           b == [i \in DOMAIN Catalog[s].credentials |-> [do |-> "credential", of |-> Catalog[s].credentials[i]]]
           c == [i \in DOMAIN Catalog[s].apis |-> [do |-> "api", of |-> Catalog[s].apis[i]]]
<1>1. a \in Seq(A) /\ b \in Seq(B) /\ c \in Seq(C)
  BY MappedListed, CatalogIsRegular DEF Regular
<1>2. StepSet(s) = A \cup B \cup C
  BY DEF StepSet, Creds, Apis
<1>3. Steps(s) = a \o b \o c
  BY DEF Steps
<1> HIDE DEF A, B, C, a, b, c
<1>4. a \in Seq(A \cup B \cup C) /\ b \in Seq(A \cup B \cup C) /\ c \in Seq(A \cup B \cup C)
  BY <1>1
<1> QED
  BY <1>2, <1>3, <1>4

\* The service whose turn it is.
LEMMA SvcManaged == ASSUME FormInv, InPass PROVE Svc \in Managed /\ Svc \in Services
<1>1. plan \in Seq(Services) /\ work.at \in 1 .. Len(plan)
  BY ReconcilersAssumption DEF FormInv, WorkForm, InPass
<1> QED
  BY <1>1 DEF Svc, Managed, Range

\* The step that is next.
LEMMA HeadOfSteps ==
    ASSUME FormInv, InPass, work.steps # <<>>
    PROVE  Head(work.steps) \in StepSet(Svc) /\ Tail(work.steps) \in Seq(StepSet(Svc))
  BY DEF FormInv, WorkForm, InPass

\* A step that deals with a credential has one of the service's to deal with.
LEMMA CredentialStep ==
    ASSUME FormInv, Step("credential")
    PROVE  /\ InPass /\ Head(work.steps).of \in Creds(Svc)
           /\ Tail(work.steps) \in Seq(StepSet(Svc))
<1>1. InPass /\ work.steps # <<>> /\ Head(work.steps).do = "credential"
  BY DEF Step
<1>2. Head(work.steps) \in StepSet(Svc) /\ Tail(work.steps) \in Seq(StepSet(Svc))
  BY <1>1, HeadOfSteps
<1> QED
  BY <1>1, <1>2 DEF StepSet

\* A step that lists Services does so for one of the service's APIs.
LEMMA ApiStep ==
    ASSUME FormInv, Step("api")
    PROVE  InPass /\ Head(work.steps).of \in Apis(Svc) /\ Tail(work.steps) \in Seq(StepSet(Svc))
<1>1. InPass /\ work.steps # <<>> /\ Head(work.steps).do = "api"
  BY DEF Step
<1>2. Head(work.steps) \in StepSet(Svc) /\ Tail(work.steps) \in Seq(StepSet(Svc))
  BY <1>1, HeadOfSteps
<1> QED
  BY <1>1, <1>2 DEF StepSet

----------------------------------------------------------------------------

\* The actions outside a pass leave its copy alone, and what is stored.
Around == \/ \E s \in Managed : Observe(s) \/ Rollout(s) \/ Finalize(s) \/ CollectServices(s) \/
             RestoreServices(s)
          \/ \E c \in net.certs : Issue(c)
          \/ \E a \in AllApis : AdmitRoute(a) \/ RejectRoute(a)
          \/ \E c \in AllCreds : ReadyCredential(c)
          \/ \E s \in Managed : LoseService(s)
          \/ UserStep \/ CreateSecret \/ Resync

\* A pass and what it has stored are its own.
LEMMA AroundKeepsWork == Around => UNCHANGED <<plan, status, work>>
<1>1. ASSUME UserStep PROVE UNCHANGED <<plan, status, work>>
  BY <1>1 DEF UserStep, SetEnabled, SetLoadBalancer, SetSection, SetCustom, SetIngressSecret,
     WithdrawIngressSecret, EditSpec, SetTLS, SetComponents, UpdateVersion
<1>2. ASSUME NEW s \in Managed, Observe(s) \/ Rollout(s) \/ Finalize(s) \/ CollectServices(s) \/
             RestoreServices(s) \/ LoseService(s)
      PROVE UNCHANGED <<plan, status, work>>
  BY <1>2 DEF Observe, Rollout, Finalize, CollectServices, RestoreServices, LoseService
<1>3. ASSUME NEW a, Issue(a) \/ AdmitRoute(a) \/ RejectRoute(a) \/ ReadyCredential(a)
      PROVE UNCHANGED <<plan, status, work>>
  BY <1>3 DEF Issue, AdmitRoute, RejectRoute, ReadyCredential
<1>4. ASSUME CreateSecret \/ Resync PROVE UNCHANGED <<plan, status, work>>
  BY <1>4 DEF CreateSecret, Resync
<1> QED
  BY <1>1, <1>2, <1>3, <1>4 DEF Around

\* The steps of a pass, and the ways it can be cut short.
InsidePass == BeginPass \/ Disable \/ Begin \/ EnsureServiceCert \/ EnsureApplicationCredential \/
              ListServices
              \/ EnsureEndpoint \/ CreateOrPatch \/ FinishPass \/ Fail \/ Crash

\* There are no other steps.
LEMMA Steppings == [Next]_vars => InsidePass \/ Around \/ UNCHANGED vars
  BY DEF Next, PassStep, OperatorStep, FaultStep, InsidePass, Around

\* A pass changes none of its inputs.
LEMMA PassKeepsInputs == InsidePass => UNCHANGED <<plan, spec, target, svcs, secret>>
  BY DEF InsidePass, BeginPass, Disable, Begin, EnsureServiceCert, EnsureApplicationCredential,
     ListServices, EnsureEndpoint, CreateOrPatch, FinishPass, Fail, Crash

\* The services under control stay the same.
LEMMA PlanStays == [Next]_vars => UNCHANGED plan
  BY Steppings, AroundKeepsWork, PassKeepsInputs DEF vars

\* The user edits the spec and keeps its form.
LEMMA SpecFormPreserved == ASSUME FormInv, [Next]_vars PROVE SpecForm(spec)'
<1>0. Managed' = Managed
  BY PlanStays DEF Managed
<1>1. CASE UNCHANGED spec
  BY <1>0, <1>1 DEF FormInv, SpecForm
<1>2. ASSUME NEW s \in Managed, NEW new, EditSpec(s, new), DOMAIN new = TemplateFields,
             DOMAIN new.section = Sections(s),
             \A n \in Sections(s) : new.section[n] \in {"nil", "off", "on"}
      PROVE  SpecForm(spec)'
  <2>1. spec' = [spec EXCEPT !.svc[s] = new] /\ DOMAIN spec = {"podTLS", "ingressTLS", "off", "svc"}
    BY <1>2 DEF EditSpec, FormInv, SpecForm
  <2>2. DOMAIN spec' = DOMAIN spec /\ DOMAIN spec'.svc = Managed /\
        \A x \in Managed : spec'.svc[x] = IF x = s THEN new ELSE spec.svc[x]
    BY <2>1 DEF FormInv, SpecForm
  <2> QED
    BY <1>0, <1>2, <2>1, <2>2 DEF FormInv, SpecForm
<1>3. ASSUME NEW s \in Managed, NEW new, EditSpec(s, new), DOMAIN new = TemplateFields,
             new.section = spec.svc[s].section
      PROVE  SpecForm(spec)'
  BY <1>2, <1>3 DEF FormInv, SpecForm
<1>4. \A s \in Managed : DOMAIN spec.svc[s] = TemplateFields
  BY DEF FormInv, SpecForm
<1>5. CASE \E s \in Managed : SetEnabled(s)
  BY <1>3, <1>4, <1>5 DEF SetEnabled, TemplateFields
<1>6. CASE \E s \in Managed : SetLoadBalancer(s)
  BY <1>3, <1>4, <1>6 DEF SetLoadBalancer, TemplateFields
<1>7. CASE \E s \in Managed : SetCustom(s)
  BY <1>3, <1>4, <1>7 DEF SetCustom, TemplateFields
<1>8. CASE \E s \in Managed : SetIngressSecret(s) \/ WithdrawIngressSecret(s)
  BY <1>3, <1>4, <1>8 DEF SetIngressSecret, WithdrawIngressSecret, TemplateFields
<1>9. ASSUME NEW s \in Managed, SetSection(s) PROVE SpecForm(spec)'
  <2>1. PICK n \in Sections(s),
        v \in {"nil", "off", "on"} : EditSpec(s, [spec.svc[s] EXCEPT !.section[n] = v])
    BY <1>9 DEF SetSection
  <2> DEFINE new == [spec.svc[s] EXCEPT !.section[n] = v]
  <2>2. DOMAIN new = TemplateFields /\ new.section = [spec.svc[s].section EXCEPT ![n] = v]
    BY <1>4 DEF TemplateFields
  <2>3. DOMAIN new.section = Sections(s) /\ \A x \in Sections(s) : new.section[x] \in {"nil", "off", "on"}
    BY <2>2 DEF FormInv, SpecForm
  <2> HIDE DEF new
  <2>4. EditSpec(s, new)
    BY <2>1 DEF new
  <2> QED
    BY <1>2, <2>2, <2>3, <2>4
<1>10. CASE SetTLS \/ SetComponents
  <2>1. spec'.svc = spec.svc /\ DOMAIN spec' = DOMAIN spec
    BY <1>10 DEF SetTLS, SetComponents, FormInv, SpecForm
  <2> QED
    BY <1>0, <2>1 DEF FormInv, SpecForm
<1>11. CASE UpdateVersion
  BY <1>1, <1>11 DEF UpdateVersion
<1>12. CASE UserStep
  BY <1>5, <1>6, <1>7, <1>8, <1>9, <1>10, <1>11, <1>12 DEF UserStep
<1>13. ASSUME Around, ~UserStep PROVE UNCHANGED spec
  <2>1. ASSUME NEW s \in Managed, Observe(s) \/ Rollout(s) \/ Finalize(s) \/ CollectServices(s) \/
               RestoreServices(s) \/ LoseService(s)
        PROVE UNCHANGED spec
    BY <2>1 DEF Observe, Rollout, Finalize, CollectServices, RestoreServices, LoseService
  <2>2. ASSUME NEW a, Issue(a) \/ AdmitRoute(a) \/ RejectRoute(a) \/ ReadyCredential(a)
        PROVE UNCHANGED spec
    BY <2>2 DEF Issue, AdmitRoute, RejectRoute, ReadyCredential
  <2> QED
    BY <1>13, <2>1, <2>2 DEF Around, CreateSecret, Resync
<1> QED
  BY <1>1, <1>12, <1>13, Steppings, PassKeepsInputs DEF vars

\* An application credential is requested, becomes ready and is deleted.
LEMMA CredentialFormPreserved == ASSUME FormInv, [Next]_vars PROVE CredentialForm'
<1>0. AllCreds' = AllCreds
  BY PlanStays DEF AllCreds, Managed
<1>1. CASE UNCHANGED ac
  BY <1>0, <1>1 DEF FormInv, CredentialForm
<1>2. ASSUME NEW x, NEW v \in {None, "requested", "ready"}, ac' = [ac EXCEPT ![x] = v] PROVE CredentialForm'
  BY <1>0, <1>2 DEF FormInv, CredentialForm
<1>3. CASE EnsureApplicationCredential
  <2> DEFINE c == Head(work.steps).of
  <2>1. InPass /\ c \in Creds(Svc)
    <3>1. Step("credential")
      BY <1>3 DEF EnsureApplicationCredential
    <3> QED
      BY <3>1, CredentialStep
  <2>2. c.section \in Sections(Svc)
    BY <2>1 DEF Sections
  <2>3. Template.section[c.section] \in {"nil", "off", "on"} /\ work.ready \in BOOLEAN
    BY <2>1, <2>2, SvcManaged DEF FormInv, WorkForm, SpecForm, Template, InPass
  <2>4. c.name \in AllCreds
    BY <2>1, SvcManaged DEF AllCreds
  <2>5. ac[c.name] \in {None, "requested", "ready"}
    BY <2>4 DEF FormInv, CredentialForm
  <2>6. UNCHANGED ac \/ ac' = [ac EXCEPT ![c.name] = None] \/ ac' = [ac EXCEPT ![c.name] = "requested"]
    BY <1>3, <2>3, <2>5 DEF EnsureApplicationCredential
  <2> QED
    BY <1>1, <1>2, <2>6
<1>4. CASE Disable
  BY <1>0, <1>1, <1>4 DEF Disable, owned, FormInv, CredentialForm
<1>5. CASE \E c \in AllCreds : ReadyCredential(c)
  BY <1>2, <1>5 DEF ReadyCredential
<1>6. CASE BeginPass \/ Begin \/ EnsureServiceCert \/ ListServices \/ EnsureEndpoint \/ CreateOrPatch \/
           FinishPass \/ Fail \/ Crash
  BY <1>1, <1>6 DEF BeginPass, Begin, EnsureServiceCert, ListServices, EnsureEndpoint, CreateOrPatch,
     FinishPass, Fail, Crash, owned
<1>7. CASE UserStep
  BY <1>1, <1>7 DEF UserStep, SetEnabled, SetLoadBalancer, SetSection, SetCustom, SetIngressSecret,
     WithdrawIngressSecret, EditSpec, SetTLS, SetComponents, UpdateVersion, owned
<1>8. ASSUME NEW s \in Managed, Observe(s) \/ Rollout(s) \/ Finalize(s) \/ CollectServices(s) \/
             RestoreServices(s) \/ LoseService(s)
      PROVE UNCHANGED ac
  BY <1>8 DEF Observe, Rollout, Finalize, CollectServices, RestoreServices, LoseService, owned
<1>9. ASSUME NEW a, Issue(a) \/ AdmitRoute(a) \/ RejectRoute(a)
      PROVE UNCHANGED ac
  BY <1>9 DEF Issue, AdmitRoute, RejectRoute
<1>10. CASE CreateSecret \/ Resync
  BY <1>1, <1>10 DEF CreateSecret, Resync, owned
<1>11. CASE Around
  BY <1>1, <1>5, <1>7, <1>8, <1>9, <1>10, <1>11 DEF Around
<1> QED
  BY <1>1, <1>3, <1>4, <1>6, <1>11, Steppings DEF vars, owned, InsidePass

\* The next service's turn starts with nothing to do.
LEMMA DoneForm ==
    ASSUME FormInv, work # Idle, UNCHANGED plan,
           NEW w, DOMAIN w = WorkFields, w.at = work.at, w.spec = work.spec, work' = Done(w)
    PROVE  WorkForm'
<1>1. DOMAIN work' = WorkFields
  BY DEF Done
<1>2. work'.at = work.at + 1 /\ work'.spec = work.spec /\ work'.ready = FALSE /\ work'.steps = <<>> /\
      work'.begun = FALSE
  BY DEF Done, WorkFields
<1>3. SpecForm(work.spec)'
  BY <1>2 DEF FormInv, WorkForm, SpecForm, Managed
<1>4. work'.at \in Nat \ {0}
  BY <1>2 DEF FormInv, WorkForm
<1>5. \A S : <<>> \in Seq(S)
  OBVIOUS
<1>6. work'.steps \in Seq(StepSet(Svc))'
  BY <1>2, <1>5
<1>7. work'.ready \in BOOLEAN /\ ~work'.begun
  BY <1>2
<1> QED
  BY <1>1, <1>3, <1>4, <1>6, <1>7 DEF WorkForm

\* A step of its turn leaves less of it.
LEMMA TurnForm ==
    ASSUME FormInv, InPass, UNCHANGED plan, DOMAIN work' = WorkFields,
           work'.at = work.at, work'.spec = work.spec, work'.ready = work.ready, work'.begun = work.begun,
           work'.steps \in Seq(StepSet(Svc)), DOMAIN work'.tls = DOMAIN work.tls
    PROVE  WorkForm'
<1>1. Svc' = Svc
  BY DEF Svc
<1>2. SpecForm(work.spec)'
  BY DEF FormInv, WorkForm, SpecForm, Managed, InPass
<1>3. WorkForm
  BY DEF FormInv, InPass
<1>4. InPass' => work'.steps \in Seq(StepSet(Svc))'
  BY <1>1 DEF StepSet, Creds, Apis
<1>5. InPass' /\ work'.begun => DOMAIN work'.tls = CertSlots(Svc)'
  BY <1>1, <1>3 DEF WorkForm, CertSlots, Apis
<1> QED
  BY <1>2, <1>3, <1>4, <1>5 DEF WorkForm

\* A pass begins with a copy of the resource as it is.
LEMMA BeginPassForm == ASSUME FormInv, BeginPass PROVE WorkForm'
<1>1. /\ DOMAIN work' = WorkFields /\ work'.at = 1 /\ work'.spec = spec /\ work'.ready = FALSE
      /\ work'.steps = <<>> /\ work'.begun = FALSE /\ UNCHANGED plan
  BY DEF BeginPass, WorkFields
<1>2. SpecForm(work.spec)'
  BY <1>1 DEF FormInv, SpecForm, Managed
<1>3. \A S : <<>> \in Seq(S)
  OBVIOUS
<1>4. work'.steps \in Seq(StepSet(Svc))'
  BY <1>1, <1>3
<1>5. work'.ready \in BOOLEAN /\ ~work'.begun
  BY <1>1
<1>6. work'.at \in Nat \ {0}
  BY <1>1
<1> QED
  BY <1>1, <1>2, <1>4, <1>5, <1>6 DEF WorkForm

\* The service's turn begins with all of its steps.
LEMMA BeginForm == ASSUME FormInv, Begin PROVE WorkForm'
<1>0. InPass /\ WorkForm /\ UNCHANGED plan
  BY DEF Begin, InPass, FormInv
<1>1. /\ DOMAIN work' = WorkFields /\ work'.at = work.at /\ work'.spec = work.spec
      /\ work'.ready = (cr[Svc] # None /\ cr[Svc].observed /\ cr[Svc].ready)
      /\ work'.steps = Steps(Svc) /\ work'.tls = TemplateTLS(Svc, cr[Svc])
  BY <1>0 DEF Begin, WorkForm, WorkFields
<1>2. SpecForm(work.spec)'
  BY <1>0, <1>1 DEF WorkForm, SpecForm, Managed
<1>3. Svc' = Svc
  BY <1>0, <1>1 DEF Svc
<1>4. work'.steps \in Seq(StepSet(Svc))'
  BY <1>0, <1>1, <1>3, SvcManaged, StepsType DEF StepSet, Creds, Apis
<1>5. DOMAIN work'.tls = CertSlots(Svc)'
  BY <1>1, <1>3 DEF TemplateTLS, CertSlots, Apis
<1>6. work'.ready \in BOOLEAN /\ work'.at \in Nat \ {0}
  BY <1>0, <1>1 DEF WorkForm
<1> QED
  BY <1>1, <1>2, <1>4, <1>5, <1>6 DEF WorkForm

\* The copy once a service is disabled, or its resource written.
Disabled == [work EXCEPT
    !.status.ready[Svc] = "none",
    !.status.expose[Svc] = IF Catalog[Svc].expose THEN "none" ELSE @,
    !.status.images[Svc] = [k \in DOMAIN @ |-> IF k \in Catalog[Svc].images.cleared THEN None ELSE @[k]]]

Evaluated == [work EXCEPT !.status = Evaluate(@, Svc, cr'[Svc])]

\* Both end the service's turn.
LEMMA TurnEnds ==
    ASSUME FormInv, Disable \/ CreateOrPatch
    PROVE  InPass /\ UNCHANGED status /\ \E w : DOMAIN w = WorkFields /\ w.at = work.at /\
           w.spec = work.spec /\ work' = Done(w)
<1>0. InPass /\ UNCHANGED status /\ DOMAIN work = WorkFields
  BY DEF Disable, CreateOrPatch, InPass, FormInv, WorkForm
<1>1. work' = Done(work) \/ work' = Done(Disabled) \/ work' = Done(Evaluated)
  BY DEF Disable, CreateOrPatch, Disabled, Evaluated
<1>2. DOMAIN Disabled = WorkFields /\ Disabled.at = work.at /\ Disabled.spec = work.spec
  BY <1>0 DEF Disabled, WorkFields
<1>3. DOMAIN Evaluated = WorkFields /\ Evaluated.at = work.at /\ Evaluated.spec = work.spec
  BY <1>0 DEF Evaluated, WorkFields
<1> QED
  BY <1>0, <1>1, <1>2, <1>3

\* The form of the copy for the next service.
LEMMA TurnEndForm == ASSUME FormInv, Disable \/ CreateOrPatch PROVE WorkForm'
<1>1. work # Idle /\ UNCHANGED plan
  BY DEF Disable, CreateOrPatch, InPass
<1> QED
  BY <1>1, TurnEnds, DoneForm

\* A certificate is there, ends the turn of the service or ends the pass.
LEMMA ServiceCertForm ==
    ASSUME FormInv, EnsureServiceCert
    PROVE  /\ InPass
           /\ \/ UNCHANGED status /\ work' = [work EXCEPT !.steps = Tail(@)] /\ WorkForm'
              \/ UNCHANGED status /\ work' = Done(work) /\ WorkForm'
              \/ work' = Idle /\ status' = [work.status EXCEPT !.ready[Svc] = "False"]
<1>0. InPass /\ WorkForm /\ work # Idle /\ UNCHANGED plan /\ Tail(work.steps) \in Seq(StepSet(Svc))
  BY HeadOfSteps DEF EnsureServiceCert, Step, InPass, FormInv
<1>1. Catalog[Svc].onWait \in {"skip", "error"}
  BY <1>0, SvcManaged, CatalogIsRegular DEF Regular
<1>2. EnsureCert(net, <<Head(work.steps).of, "svc">>).end \in {"done", "wait"}
  BY DEF EnsureCert
<1>3. \/ UNCHANGED status /\ work' = [work EXCEPT !.steps = Tail(@)]
      \/ UNCHANGED status /\ work' = Done(work)
      \/ work' = Idle /\ status' = [work.status EXCEPT !.ready[Svc] = "False"]
  BY <1>1, <1>2 DEF EnsureServiceCert, EndPass
<1>4. ASSUME work' = [work EXCEPT !.steps = Tail(@)] PROVE WorkForm'
  <2>1. /\ DOMAIN work' = WorkFields /\ work'.at = work.at /\ work'.spec = work.spec /\
           work'.ready = work.ready
        /\ work'.begun = work.begun /\ work'.steps = Tail(work.steps) /\ work'.tls = work.tls
    BY <1>0, <1>4 DEF WorkForm, WorkFields
  <2> QED
    BY <1>0, <2>1, TurnForm
<1>5. ASSUME work' = Done(work) PROVE WorkForm'
  BY <1>0, <1>5, DoneForm DEF WorkForm
<1> QED
  BY <1>0, <1>3, <1>4, <1>5

\* A credential is settled, one way or the other, or ends the pass.
LEMMA CredentialStepForm ==
    ASSUME FormInv, EnsureApplicationCredential
    PROVE  /\ InPass
           /\ \/ /\ UNCHANGED status /\ WorkForm'
                 /\ \E c, v : work' = [work EXCEPT !.steps = Tail(@), !.auth[c] = v]
              \/ work' = Idle /\ status' = work.status
<1>0. InPass /\ WorkForm /\ work # Idle /\ UNCHANGED plan /\ Tail(work.steps) \in Seq(StepSet(Svc))
  <2>1. Step("credential") /\ UNCHANGED plan
    BY DEF EnsureApplicationCredential
  <2> QED
    BY <2>1, CredentialStep DEF InPass, FormInv
<1> DEFINE c == Head(work.steps).of
<1>1. c \in Creds(Svc)
  <2>1. Step("credential")
    BY DEF EnsureApplicationCredential
  <2> QED
    BY <2>1, CredentialStep
<1>2. c.section \in Sections(Svc)
  BY <1>1 DEF Sections
<1>3. Template.section[c.section] \in {"nil", "off", "on"} /\ work.ready \in BOOLEAN
  BY <1>0, <1>2, SvcManaged DEF WorkForm, SpecForm, Template
<1>4. c.name \in AllCreds
  BY <1>0, <1>1, SvcManaged DEF AllCreds
<1>5. ac[c.name] \in {None, "requested", "ready"}
  BY <1>4 DEF FormInv, CredentialForm
<1>6. \/ UNCHANGED status /\ \E v : work' = [work EXCEPT !.steps = Tail(@), !.auth[c] = v]
      \/ work' = Idle /\ status' = work.status
  BY <1>3, <1>5 DEF EnsureApplicationCredential, EndPass
<1>7. ASSUME NEW v, work' = [work EXCEPT !.steps = Tail(@), !.auth[c] = v] PROVE WorkForm'
  <2>1. /\ DOMAIN work' = WorkFields /\ work'.at = work.at /\ work'.spec = work.spec /\
           work'.ready = work.ready
        /\ work'.begun = work.begun /\ work'.steps = Tail(work.steps) /\ work'.tls = work.tls
    BY <1>0, <1>7 DEF WorkForm, WorkFields
  <2> QED
    BY <1>0, <2>1, TurnForm
<1> QED
  BY <1>0, <1>6, <1>7

\* Listing the Services of an API changes no condition and no image.
LEMMA ListForm ==
    ASSUME FormInv, ListServices
    PROVE  InPass /\ UNCHANGED status /\ WorkForm' /\ work'.status = work.status
<1>0. InPass /\ WorkForm /\ work # Idle /\ UNCHANGED plan /\ Tail(work.steps) \in Seq(StepSet(Svc)) /\
      UNCHANGED status
  BY HeadOfSteps DEF ListServices, Step, InPass, FormInv
<1> DEFINE api == Head(work.steps).of
           found == {svc \in svcs : svc.api \in api.among}
           configure == /\ api.counted => Cardinality(found) = Cardinality(api.endpoints)
                        /\ api.afterReady => work.ready
           last == {[api |-> api.name, endpoint |-> e, lb |-> FALSE] : e \in api.also}
           items == IF configure THEN found \cup last ELSE {}
           tls == [e \in DOMAIN work.tls |->
                     IF configure /\ ~api.counted /\ e[1] = api.name THEN None ELSE work.tls[e]]
<1>1. work' = [work EXCEPT !.steps = Tail(@), !.api = api, !.items = items, !.tls = tls]
  BY DEF ListServices
<1>2. DOMAIN tls = DOMAIN work.tls
  OBVIOUS
<1> HIDE DEF api, items, tls
<1>3. /\ DOMAIN work' = WorkFields /\ work'.at = work.at /\ work'.spec = work.spec /\
         work'.ready = work.ready
      /\ work'.begun = work.begun /\ work'.steps = Tail(work.steps) /\ DOMAIN work'.tls = DOMAIN work.tls
      /\ work'.status = work.status
  BY <1>0, <1>1, <1>2 DEF WorkForm, WorkFields
<1> QED
  BY <1>0, <1>3, TurnForm

\* An endpoint is configured, is remembered to be pending, or ends the pass; only conditions change.
Conditioned(st, old) == \E x, y : st = [old EXCEPT !.expose[Svc] = x, !.custom = y]

\* What EnsureEndpointConfig is asked for a Service, what it returns, and the conditions that follow.
Asked == [podTLS |-> work.spec.podTLS, ingressTLS |-> work.spec.ingressTLS,
          given |-> Template.ingressSecret, exists |-> secret]
Slot(svc) == <<work.api.name, svc.endpoint>>
Given(svc) == IF work.api.custom /\ Slot(svc) \in DOMAIN work.tls THEN work.tls[Slot(svc)] ELSE None
Result(svc) == EnsureEndpointConfig(net, svc, Asked, Given(svc),
                                    [expose |-> work.status.expose[Svc], custom |-> work.status.custom])
StatusAfter(svc) ==
    [work.status EXCEPT !.expose[Svc] = Result(svc).conds.expose, !.custom = Result(svc).conds.custom]

\* The ways in which a call of it ends.
Ensured(svc) ==
    \/ /\ Result(svc).end = "done"
       /\ work' = [work EXCEPT
                    !.status = StatusAfter(svc), !.items = @ \ {svc},
                    !.tls = [e \in DOMAIN @ |-> IF e = Slot(svc) THEN Result(svc).secret ELSE @[e]],
                    !.url = [a \in DOMAIN @ |-> IF <<a, "public">> = Slot(svc) THEN Result(svc).url ELSE @[a]]]
       /\ UNCHANGED status
    \/ work' = [work EXCEPT !.status = StatusAfter(svc), !.items = {}, !.skip = TRUE] /\ UNCHANGED status
    \/ work' = Idle /\ status' = StatusAfter(svc)

\* There is no other way.
LEMMA EndpointEnsured == EnsureEndpoint => \E svc \in work.items : Ensured(svc)
<1> SUFFICES ASSUME EnsureEndpoint PROVE \E svc \in work.items : Ensured(svc)
  OBVIOUS
<1>1. PICK svc \in work.items :
        \/ /\ Result(svc).end = "done"
           /\ work' = [work EXCEPT
                        !.status = StatusAfter(svc), !.items = @ \ {svc},
                        !.tls = [e \in DOMAIN @ |-> IF e = Slot(svc) THEN Result(svc).secret ELSE @[e]],
                        !.url = [a \in DOMAIN @ |->
                                   IF <<a, "public">> = Slot(svc) THEN Result(svc).url ELSE @[a]]]
           /\ UNCHANGED status
        \/ work' = [work EXCEPT !.status = StatusAfter(svc), !.items = {}, !.skip = TRUE] /\ UNCHANGED status
        \/ EndPass(StatusAfter(svc), TRUE)
  BY Zenon DEF EnsureEndpoint, StatusAfter, Result, Given, Slot, Asked
<1> QED
  BY <1>1, Zenon DEF Ensured, EndPass

\* The copy keeps its form, and a pass that ends stores the conditions.
LEMMA EndpointForm ==
    ASSUME FormInv, EnsureEndpoint
    PROVE  /\ InPass
           /\ \/ UNCHANGED status /\ WorkForm' /\ Conditioned(work'.status, work.status)
              \/ work' = Idle /\ Conditioned(status', work.status)
<1>0. InPass /\ WorkForm /\ work # Idle /\ UNCHANGED plan
  BY DEF EnsureEndpoint, InPass, FormInv
<1>1. PICK svc \in work.items : Ensured(svc)
  BY EndpointEnsured
<1> DEFINE st == StatusAfter(svc)
<1>2. Conditioned(st, work.status)
  BY DEF Conditioned, StatusAfter
<1> HIDE DEF st
<1>3. CASE work' = Idle /\ status' = st
  BY <1>0, <1>2, <1>3
<1>4. CASE ~(work' = Idle /\ status' = st)
  <2>1. /\ DOMAIN work' = WorkFields /\ work'.at = work.at /\ work'.spec = work.spec /\
           work'.ready = work.ready
        /\ work'.begun = work.begun /\ work'.steps = work.steps /\ DOMAIN work'.tls = DOMAIN work.tls
        /\ work'.status = st /\ status' = status
    BY <1>0, <1>1, <1>4 DEF WorkForm, WorkFields, Ensured, st
  <2>2. work.steps \in Seq(StepSet(Svc))
    BY <1>0 DEF WorkForm
  <2> QED
    BY <1>0, <1>2, <2>1, <2>2, TurnForm
<1> QED
  BY <1>3, <1>4

\* The form holds of the first state.
LEMMA InitForm == Init => FormInv
<1> SUFFICES ASSUME Init PROVE FormInv
  OBVIOUS
<1>1. SpecForm(spec)
  BY DEF Init, SpecForm, TemplateFields
<1>2. CredentialForm
  BY DEF Init, CredentialForm
<1> QED
  BY <1>1, <1>2 DEF Init, FormInv

\* So every step keeps the form.
LEMMA FormPreserved == FormInv /\ [Next]_vars => FormInv'
<1> SUFFICES ASSUME FormInv, [Next]_vars PROVE FormInv'
  OBVIOUS
<1>1. UNCHANGED plan
  BY PlanStays
<1>2. work' # Idle => WorkForm'
  <2>1. CASE UNCHANGED work
    <3>1. Svc' = Svc /\ Managed' = Managed /\ InPass' = InPass
      BY <1>1, <2>1 DEF Svc, Managed, InPass
    <3> QED
      BY <2>1, <3>1 DEF FormInv, WorkForm, SpecForm, StepSet, Creds, Apis, CertSlots
  <2>2. CASE FinishPass \/ Fail \/ Crash
    BY <2>2 DEF FinishPass, Fail, Crash, EndPass
  <2>3. CASE BeginPass \/ Begin \/ Disable \/ CreateOrPatch
    BY <2>3, BeginPassForm, BeginForm, TurnEndForm
  <2>4. CASE EnsureServiceCert \/ EnsureApplicationCredential
    BY <2>4, ServiceCertForm, CredentialStepForm
  <2>5. CASE ListServices \/ EnsureEndpoint
    BY <2>5, ListForm, EndpointForm
  <2> QED
    BY <2>1, <2>2, <2>3, <2>4, <2>5, Steppings, AroundKeepsWork DEF InsidePass, vars
<1> QED
  BY <1>1, <1>2, SpecFormPreserved, CredentialFormPreserved DEF FormInv

----------------------------------------------------------------------------
(* What is recorded has been deployed *)

\* The images that a status records are versions in d, which are those deployed.
StatusSound(st, d) ==
    /\ DOMAIN st = StatusFields /\ DOMAIN st.images = Managed
    /\ \A s \in Managed :
         /\ DOMAIN st.images[s] = Catalog[s].images.written
         /\ \A k \in Catalog[s].images.written : st.images[s][k] \in d[s] \cup {None}

\* A resource that its operator has seen and reports ready runs the version it asks for.
ReadyResources ==
    /\ DOMAIN cr = Managed /\ DOMAIN deployed = Managed
    /\ \A s \in Managed : cr[s] # None =>
         DOMAIN cr[s] = ResourceFields /\
           (cr[s].observed /\ cr[s].ready => cr[s].spec.image \in deployed[s])

\* The stored status and the copy are sound.
RecordInv ==
    ReadyResources /\ StatusSound(status, deployed) /\ (work # Idle => StatusSound(work.status, deployed))

\* What records the same images of services that run at least as much is as sound.
LEMMA SoundImages ==
    ASSUME NEW st, NEW d, StatusSound(st, d), NEW t, DOMAIN t = StatusFields, t.images = st.images,
           NEW e, \A s \in Managed : d[s] \subseteq e[s]
    PROVE  StatusSound(t, e)
  BY DEF StatusSound

\* Resources are written by the pass, and by their operators.
LEMMA ResourceSteps ==
    [Next]_vars =>
      \/ Disable \/ CreateOrPatch \/ \E s \in Managed : Observe(s) \/ Rollout(s) \/ Finalize(s)
      \/ UNCHANGED <<cr, deployed>>
<1> SUFFICES ASSUME [Next]_vars, ~Disable, ~CreateOrPatch, ~\E s \in Managed : Observe(s) \/
                    Rollout(s) \/ Finalize(s)
             PROVE  UNCHANGED <<cr, deployed>>
  OBVIOUS
<1>1. CASE BeginPass \/ Begin \/ EnsureServiceCert \/ EnsureApplicationCredential \/ ListServices \/
           EnsureEndpoint
           \/ FinishPass \/ Fail \/ Crash
  BY <1>1 DEF BeginPass, Begin, EnsureServiceCert, EnsureApplicationCredential, ListServices,
     EnsureEndpoint, FinishPass, Fail, Crash, owned
<1>2. CASE UserStep
  BY <1>2 DEF UserStep, SetEnabled, SetLoadBalancer, SetSection, SetCustom, SetIngressSecret,
     WithdrawIngressSecret, EditSpec, SetTLS, SetComponents, UpdateVersion, owned
<1>3. ASSUME NEW s \in Managed, CollectServices(s) \/ RestoreServices(s) \/ LoseService(s)
      PROVE  UNCHANGED <<cr, deployed>>
  BY <1>3 DEF CollectServices, RestoreServices, LoseService, owned
<1>4. ASSUME NEW a, Issue(a) \/ AdmitRoute(a) \/ RejectRoute(a) \/ ReadyCredential(a)
      PROVE  UNCHANGED <<cr, deployed>>
  BY <1>4 DEF Issue, AdmitRoute, RejectRoute, ReadyCredential
<1>5. CASE Around
  BY <1>2, <1>3, <1>4, <1>5 DEF Around, CreateSecret, Resync, owned
<1> QED
  BY <1>1, <1>5, Steppings DEF InsidePass, vars, owned

\* What is deployed stays so.
LEMMA DeployedGrows ==
    ASSUME ReadyResources, [Next]_vars
    PROVE  DOMAIN deployed' = Managed /\ \A s \in Managed : deployed[s] \subseteq deployed'[s]
<1>1. CASE Disable \/ \E s \in Managed : Observe(s) \/ Finalize(s)
  BY <1>1 DEF Disable, Observe, Finalize, ReadyResources
<1>2. CASE CreateOrPatch
  BY <1>2 DEF CreateOrPatch, ReadyResources
<1>3. CASE \E s \in Managed : Rollout(s)
  BY <1>3 DEF Rollout, ReadyResources
<1> QED
  BY <1>1, <1>2, <1>3, ResourceSteps DEF ReadyResources

\* The resource that a reconciler leaves, and the spec it has written.
NewSpec == [image |-> work.target, tls |-> work.tls, url |-> work.url, auth |-> work.auth,
            lb |-> Template.lb, off |-> work.spec.off]

\* It is seen and ready only if nothing new was written, or if it is a config map.
LEMMA WrittenResource ==
    ASSUME FormInv, ReadyResources, CreateOrPatch, ~work.skip
    PROVE  /\ Svc \in Managed
           /\ \A s \in Managed \ {Svc} : cr'[s] = cr[s]
           /\ cr'[Svc].spec = NewSpec /\ DOMAIN cr'[Svc] = ResourceFields
           /\ cr'[Svc].observed /\ cr'[Svc].ready => work.target \in deployed'[Svc]
<1>1. Svc \in Managed
  BY SvcManaged DEF CreateOrPatch
<1>2. cr' = [cr EXCEPT ![Svc] = IF Catalog[Svc].config
                                  THEN [Written(Svc) EXCEPT !.observed = TRUE, !.conditions = TRUE, !.ready = TRUE]
                                  ELSE Written(Svc)]
  BY DEF CreateOrPatch
<1>3. /\ \A s \in Managed \ {Svc} : cr'[s] = cr[s]
      /\ cr'[Svc] = IF Catalog[Svc].config
                      THEN [Written(Svc) EXCEPT !.observed = TRUE, !.conditions = TRUE, !.ready = TRUE]
                      ELSE Written(Svc)
  BY <1>1, <1>2 DEF ReadyResources
<1>4. Written(Svc).spec = NewSpec /\ DOMAIN Written(Svc) = ResourceFields
  BY <1>1 DEF Written, NewSpec, ReadyResources, ResourceFields
<1>5. Written(Svc).observed /\ Written(Svc).ready =>
        cr[Svc] # None /\ cr[Svc].observed /\ cr[Svc].ready /\ cr[Svc].spec = NewSpec
  BY <1>1 DEF Written, NewSpec, ReadyResources, ResourceFields
<1>6. NewSpec.image = work.target
  BY DEF NewSpec
<1>7. CASE Catalog[Svc].config
  <2>1. work.target \in deployed'[Svc]
    BY <1>1, <1>7 DEF CreateOrPatch, ReadyResources
  <2>2. cr'[Svc].spec = NewSpec /\ DOMAIN cr'[Svc] = ResourceFields
    BY <1>3, <1>4, <1>7 DEF ResourceFields
  <2> QED
    BY <1>1, <1>3, <2>1, <2>2
<1>8. CASE ~Catalog[Svc].config
  <2>1. deployed' = deployed /\ cr'[Svc] = Written(Svc)
    BY <1>3, <1>8 DEF CreateOrPatch
  <2> QED
    BY <1>1, <1>3, <1>4, <1>5, <1>6, <2>1 DEF ReadyResources
<1> QED
  BY <1>7, <1>8

\* Every step keeps what ready resources stand for.
LEMMA ResourcesPreserved == ASSUME FormInv, ReadyResources, [Next]_vars PROVE ReadyResources'
<1>0. Managed' = Managed
  BY PlanStays DEF Managed
<1>1. CASE UNCHANGED <<cr, deployed>>
  BY <1>0, <1>1 DEF ReadyResources
<1>2. CASE Disable
  <2>1. deployed' = deployed /\ DOMAIN cr' = Managed
    BY <1>2 DEF Disable, ReadyResources, owned
  <2>2. ASSUME NEW s \in Managed, cr'[s] # None
        PROVE  cr[s] # None /\ (cr'[s] = cr[s] \/ cr'[s] = [cr[s] EXCEPT !.deleting = TRUE])
    BY <1>2, <2>2 DEF Disable, ReadyResources, owned
  <2> QED
    BY <1>0, <2>1, <2>2 DEF ReadyResources, ResourceFields
<1>3. CASE CreateOrPatch /\ ~work.skip
  <2>1. DOMAIN cr' = Managed
    BY <1>3 DEF CreateOrPatch, ReadyResources
  <2>2. NewSpec.image = work.target
    BY DEF NewSpec
  <2> QED
    BY <1>0, <1>3, <2>1, <2>2, DeployedGrows, WrittenResource DEF ReadyResources
<1>4. CASE CreateOrPatch /\ work.skip
  <2>1. UNCHANGED cr
    BY <1>4 DEF CreateOrPatch, owned
  <2> QED
    BY <1>0, <2>1, DeployedGrows DEF ReadyResources
<1>5. ASSUME NEW s \in Managed, Observe(s) PROVE ReadyResources'
  <2>1. cr[s] # None /\ cr' = [cr EXCEPT ![s].observed = TRUE, ![s].conditions = TRUE, ![s].ready = FALSE] /\ UNCHANGED deployed
    BY <1>5 DEF Observe
  <2>2. DOMAIN cr' = Managed /\ \A t \in Managed \ {s} : cr'[t] = cr[t]
    BY <2>1 DEF ReadyResources
  <2>3. DOMAIN cr'[s] = ResourceFields /\ cr'[s].ready = FALSE
    BY <2>1 DEF ReadyResources, ResourceFields
  <2> QED
    BY <1>0, <2>1, <2>2, <2>3 DEF ReadyResources
<1>6. ASSUME NEW s \in Managed, Rollout(s) PROVE ReadyResources'
  <2>1. cr[s] # None /\ cr' = [cr EXCEPT ![s].ready = TRUE] /\
        deployed' = [deployed EXCEPT ![s] = @ \cup {cr[s].spec.image}]
    BY <1>6 DEF Rollout
  <2>2. DOMAIN cr' = Managed /\ \A t \in Managed \ {s} : cr'[t] = cr[t] /\ deployed'[t] = deployed[t]
    BY <2>1 DEF ReadyResources
  <2>3. DOMAIN cr'[s] = ResourceFields /\ cr'[s].spec = cr[s].spec
    BY <2>1 DEF ReadyResources, ResourceFields
  <2>4. cr[s].spec.image \in deployed'[s]
    BY <2>1 DEF ReadyResources
  <2> QED
    BY <1>0, <2>2, <2>3, <2>4, DeployedGrows DEF ReadyResources
<1>7. ASSUME NEW s \in Managed, Finalize(s) PROVE ReadyResources'
  BY <1>0, <1>7 DEF Finalize, ReadyResources
<1> QED
  BY <1>1, <1>2, <1>3, <1>4, <1>5, <1>6, <1>7, ResourceSteps

\* A pass that ends stores the images of its copy, and its steps leave them alone but where a service is
\* disabled or its resource written.
LEMMA OtherStepsKeepImages ==
    ASSUME FormInv, RecordInv,
           EnsureServiceCert \/ EnsureApplicationCredential \/ ListServices \/ EnsureEndpoint
             \/ FinishPass \/ Fail \/ Crash
    PROVE  /\ UNCHANGED deployed
           /\ StatusSound(status', deployed)
           /\ work' # Idle => StatusSound(work'.status, deployed)
<1>0. /\ work # Idle /\ WorkForm /\ UNCHANGED deployed
      /\ DOMAIN work.status = StatusFields /\ StatusSound(work.status, deployed) /\
         StatusSound(status, deployed)
  BY DEF FormInv, RecordInv, StatusSound, EnsureServiceCert, EnsureApplicationCredential, ListServices,
     EnsureEndpoint, FinishPass, Fail, Crash, Step, InPass
<1>1. ASSUME NEW st, DOMAIN st = StatusFields, st.images = work.status.images
      PROVE  StatusSound(st, deployed)
  BY <1>0, <1>1, SoundImages
<1>2. CASE EnsureServiceCert
  <2>1. CASE work' = [work EXCEPT !.steps = Tail(@)] /\ UNCHANGED status
    <3>1. work'.status = work.status
      BY <1>0, <2>1 DEF WorkForm, WorkFields
    <3> QED
      BY <1>0, <2>1, <3>1
  <2>2. CASE work' = Done(work) /\ UNCHANGED status
    <3>1. work'.status = work.status
      BY <1>0, <2>2 DEF Done, WorkForm, WorkFields
    <3> QED
      BY <1>0, <2>2, <3>1
  <2>3. CASE work' = Idle /\ status' = [work.status EXCEPT !.ready[Svc] = "False"]
    <3>1. DOMAIN status' = StatusFields /\ status'.images = work.status.images
      BY <1>0, <2>3 DEF StatusFields
    <3> QED
      BY <1>0, <1>1, <2>3, <3>1
  <2> QED
    BY <1>2, <2>1, <2>2, <2>3, ServiceCertForm
<1>3. CASE EnsureApplicationCredential
  <2>1. ASSUME NEW c, NEW v, work' = [work EXCEPT !.steps = Tail(@), !.auth[c] = v]
        PROVE  work'.status = work.status
    BY <1>0, <2>1 DEF WorkForm, WorkFields
  <2> QED
    BY <1>0, <1>3, <2>1, CredentialStepForm
<1>4. CASE ListServices
  BY <1>0, <1>4, ListForm
<1>5. CASE EnsureEndpoint
  <2>1. ASSUME NEW st, Conditioned(st, work.status) PROVE StatusSound(st, deployed)
    <3>1. DOMAIN st = StatusFields /\ st.images = work.status.images
      BY <1>0, <2>1 DEF Conditioned, StatusFields
    <3> QED
      BY <1>1, <3>1
  <2> QED
    BY <1>0, <1>5, <2>1, EndpointForm
<1>6. CASE FinishPass \/ Crash
  BY <1>0, <1>6 DEF FinishPass, Crash, EndPass
<1>7. CASE Fail
  <2>1. work' = Idle /\ (status' = work.status \/ status' = [work.status EXCEPT !.ready[Svc] = "False"])
    BY <1>7 DEF Fail, EndPass
  <2>2. DOMAIN status' = StatusFields /\ status'.images = work.status.images
    BY <1>0, <2>1 DEF StatusFields
  <2> QED
    BY <1>0, <1>1, <2>1, <2>2
<1> QED
  BY <1>2, <1>3, <1>4, <1>5, <1>6, <1>7

\* A service that is disabled forgets some of its images.
LEMMA DisabledForgets ==
    ASSUME FormInv, RecordInv, Disable PROVE StatusSound(work'.status, deployed)
<1>0. work # Idle /\ WorkForm /\ StatusSound(work.status, deployed) /\ DOMAIN work.status = StatusFields
  BY DEF Disable, InPass, FormInv, RecordInv, StatusSound
<1>1. CASE work' = Done(work)
  <2>1. work'.status = work.status
    BY <1>0, <1>1 DEF Done, WorkForm, WorkFields
  <2> QED
    BY <1>0, <2>1
<1>2. CASE ~Template.enabled
  <2> DEFINE w == Disabled
  <2>1. work' = Done(w)
    BY <1>2 DEF Disable, Disabled
  <2>2. /\ DOMAIN w = WorkFields /\ DOMAIN w.status = StatusFields
        /\ w.status.images = [work.status.images EXCEPT ![Svc] =
              [k \in DOMAIN @ |-> IF k \in Catalog[Svc].images.cleared THEN None ELSE @[k]]]
    BY <1>0 DEF Disabled, WorkForm, WorkFields, StatusFields
  <2> HIDE DEF w
  <2>3. work'.status = w.status
    BY <2>1, <2>2 DEF Done, WorkFields
  <2>4. ASSUME NEW s \in Managed
        PROVE  /\ DOMAIN w.status.images[s] = Catalog[s].images.written
               /\ \A k \in Catalog[s].images.written : w.status.images[s][k] \in deployed[s] \cup {None}
    <3>1. CASE s = Svc
      <4>1. w.status.images[s] = [k \in DOMAIN work.status.images[s] |->
                                    IF k \in Catalog[Svc].images.cleared THEN None ELSE work.status.images[s][k]]
        BY <1>0, <2>2, <3>1 DEF StatusSound
      <4>2. /\ DOMAIN work.status.images[s] = Catalog[s].images.written
            /\ \A k \in Catalog[s].images.written : work.status.images[s][k] \in deployed[s] \cup {None}
        BY <1>0 DEF StatusSound
      <4> QED
        BY <4>1, <4>2
    <3>2. CASE s # Svc
      BY <1>0, <2>2, <3>2 DEF StatusSound
    <3> QED
      BY <3>1, <3>2
  <2>5. DOMAIN w.status.images = Managed
    BY <1>0, <2>2 DEF StatusSound
  <2> QED
    BY <2>2, <2>3, <2>4, <2>5 DEF StatusSound
<1> QED
  BY <1>1, <1>2 DEF Disable

\* An image is recorded when the resource is ready and its operator has seen it as it was written.
LEMMA WrittenRecords ==
    ASSUME FormInv, RecordInv, CreateOrPatch, \A s \in Managed : deployed[s] \subseteq deployed'[s]
    PROVE  StatusSound(work'.status, deployed')
<1>0. work # Idle /\ WorkForm /\ StatusSound(work.status, deployed) /\ DOMAIN work.status = StatusFields
  BY DEF CreateOrPatch, InPass, FormInv, RecordInv, StatusSound
<1>1. StatusSound(work.status, deployed')
  BY <1>0, SoundImages
<1>2. CASE work.skip
  <2>1. work' = Done(work)
    BY <1>2 DEF CreateOrPatch
  <2>2. DOMAIN work = WorkFields
    BY <1>0 DEF WorkForm
  <2>3. work'.status = work.status
    BY <2>1, <2>2 DEF Done, WorkFields
  <2> QED
    BY <1>1, <2>3
<1>3. CASE ~work.skip
  <2> DEFINE st == Evaluate(work.status, Svc, cr'[Svc])
             w == [work EXCEPT !.status = st]
  <2>1. work' = Done(w)
    BY <1>3 DEF CreateOrPatch
  <2>2. DOMAIN w = WorkFields /\ w.status = st
    BY <1>0 DEF WorkForm, WorkFields
  <2>3. StatusSound(st, deployed')
    <3>1. CASE cr'[Svc].observed /\ cr'[Svc].ready
      <4>1. Svc \in Managed /\ work.target \in deployed'[Svc]
        BY <1>3, <3>1, WrittenResource DEF RecordInv
      <4>2. /\ DOMAIN st = StatusFields
            /\ st.images = [work.status.images EXCEPT ![Svc] = [k \in DOMAIN @ |-> work.target]]
        BY <1>0, <3>1 DEF Evaluate, StatusFields
      <4> HIDE DEF st
      <4>3. ASSUME NEW s \in Managed
            PROVE  /\ DOMAIN st.images[s] = Catalog[s].images.written
                   /\ \A k \in Catalog[s].images.written : st.images[s][k] \in deployed'[s] \cup {None}
        <5>1. CASE s = Svc
          BY <1>1, <4>1, <4>2, <5>1 DEF StatusSound
        <5>2. CASE s # Svc
          BY <1>1, <4>2, <5>2 DEF StatusSound
        <5> QED
          BY <5>1, <5>2
      <4>4. DOMAIN st.images = Managed
        BY <1>1, <4>2 DEF StatusSound
      <4> QED
        BY <4>2, <4>3, <4>4 DEF StatusSound
    <3>2. CASE ~(cr'[Svc].observed /\ cr'[Svc].ready)
      <4>1. DOMAIN st = StatusFields /\ st.images = work.status.images
        BY <1>0, <3>2 DEF Evaluate, StatusFields
      <4> HIDE DEF st
      <4> QED
        BY <1>1, <4>1, SoundImages
    <3> QED
      BY <3>1, <3>2
  <2> HIDE DEF st, w
  <2>4. work'.status = st
    BY <2>1, <2>2 DEF Done, WorkFields
  <2> QED
    BY <2>3, <2>4
<1> QED
  BY <1>2, <1>3

\* Every step keeps what is recorded sound.
LEMMA RecordPreserved == FormInv /\ RecordInv /\ [Next]_vars => RecordInv'
<1> SUFFICES ASSUME FormInv, RecordInv, [Next]_vars PROVE RecordInv'
  OBVIOUS
<1>0. Managed' = Managed /\ ReadyResources
  BY PlanStays DEF Managed, RecordInv
<1>1. \A s \in Managed : deployed[s] \subseteq deployed'[s]
  BY <1>0, DeployedGrows
<1>2. ReadyResources'
  BY <1>0, ResourcesPreserved
<1>3. ASSUME StatusSound(status', deployed'), work' # Idle => StatusSound(work'.status, deployed')
      PROVE  RecordInv'
  BY <1>0, <1>2, <1>3 DEF RecordInv, StatusSound
<1>4. /\ StatusSound(status, deployed')
      /\ work # Idle => StatusSound(work.status, deployed')
  BY <1>1, SoundImages DEF RecordInv, StatusSound
<1>5. CASE UNCHANGED <<status, work>>
  BY <1>3, <1>4, <1>5
<1>6. CASE BeginPass
  <2>1. work'.status = InitConditions(status) /\ UNCHANGED status
    BY <1>6 DEF BeginPass
  <2>2. DOMAIN status = StatusFields
    BY DEF RecordInv, StatusSound
  <2>3. DOMAIN InitConditions(status) = StatusFields /\ InitConditions(status).images = status.images
    BY <2>2 DEF InitConditions, StatusFields
  <2>4. StatusSound(InitConditions(status), deployed')
    BY <1>1, <2>3, SoundImages DEF RecordInv
  <2> QED
    BY <1>3, <1>4, <2>1, <2>4
<1>7. CASE Begin
  <2>1. work # Idle /\ work'.status = work.status /\ UNCHANGED status
    BY <1>7 DEF Begin, InPass, FormInv, WorkForm, WorkFields
  <2> QED
    BY <1>3, <1>4, <2>1
<1>8. CASE Disable
  <2>1. UNCHANGED <<status, deployed>>
    BY <1>8 DEF Disable
  <2> QED
    BY <1>3, <1>4, <1>8, <2>1, DisabledForgets
<1>9. CASE CreateOrPatch
  <2>1. UNCHANGED status
    BY <1>9 DEF CreateOrPatch
  <2> QED
    BY <1>1, <1>3, <1>4, <1>9, <2>1, WrittenRecords
<1>10. CASE EnsureServiceCert \/ EnsureApplicationCredential \/ ListServices \/ EnsureEndpoint \/
            FinishPass \/ Fail \/ Crash
  BY <1>3, <1>10, OtherStepsKeepImages
<1> QED
  BY <1>5, <1>6, <1>7, <1>8, <1>9, <1>10, Steppings, AroundKeepsWork DEF InsidePass, vars

\* Nothing is recorded at first.
LEMMA InitRecord == Init => RecordInv
<1> SUFFICES ASSUME Init PROVE RecordInv
  OBVIOUS
<1>1. ReadyResources
  BY DEF Init, ReadyResources
<1>2. StatusSound(status, deployed)
  BY DEF Init, StatusSound, StatusFields
<1> QED
  BY <1>1, <1>2 DEF RecordInv, Init

\* Whatever the catalog's services, the user, the operators and the failures do, an image is recorded as
\* deployed only if the service's operator has rolled it out.
THEOREM RecordedServicesWereDeployed == Spec => []RecordedWasDeployed
<1>1. FormInv /\ RecordInv => RecordedWasDeployed
  BY DEF RecordInv, StatusSound, RecordedWasDeployed
<1> QED
  BY <1>1, InitForm, FormPreserved, InitRecord, RecordPreserved, PTL DEF Spec

\* The services that compare every image they write, all but two, are deployed in the target version when
\* their images match.
THEOREM MatchingServicesAreDeployed ==
    ASSUME Comparers \subseteq Services \ {"telemetry", "designate"}
    PROVE  Spec => []MatchMeansDeployed
<1>1. FormInv /\ RecordInv => MatchMeansDeployed
  <2> SUFFICES ASSUME FormInv, RecordInv, NEW s \in Comparers \cap Managed,
                      NEW new, Active(s), ImageMatch(s, new), NEW k \in Catalog[s].images.written
               PROVE  \E v \in deployed[s] : Image(k, v, new) = Image(k, target, new)
    BY DEF MatchMeansDeployed
  <2>1. k \in Catalog[s].images.compared
    BY OthersCompareAll DEF ComparesAll
  <2>2. status.images[s][k] # None /\ Image(k, status.images[s][k], new) = Image(k, target, new)
    BY <2>1 DEF Active, ImageMatch
  <2>3. status.images[s][k] \in deployed[s] \cup {None}
    BY DEF RecordInv, StatusSound
  <2> QED
    BY <2>2, <2>3
<1> QED
  BY <1>1, InitForm, FormPreserved, InitRecord, RecordPreserved, PTL DEF Spec

----------------------------------------------------------------------------
(* No certificate is taken away *)

\* A Service is named like one of the certificates.
Named(x) == \E s \in Services : <<x.api, x.endpoint>> \in CertSlots(s)

\* All Services are, those a pass has listed included.
ServiceNames == (\A x \in svcs : Named(x)) /\ (work # Idle => \A x \in work.items : Named(x))

\* An operator names its Services like the certificates of its APIs.
LEMMA WantedNamed == ASSUME NEW s \in Services, NEW off, NEW lb, NEW x \in Wanted(s, off, lb) PROVE Named(x)
<1>1. PICK y \in UNION {{a.name} \X a.endpoints : a \in {z \in Apis(s) : z.name \notin off}} :
         x = [api |-> y[1], endpoint |-> y[2], lb |-> lb /\ y[2] = "public"]
  BY DEF Wanted
<1>2. PICK a \in Apis(s) : y \in {a.name} \X a.endpoints
  BY <1>1
<1>3. <<x.api, x.endpoint>> \in {a.name} \X (a.endpoints \cup a.also)
  BY <1>1, <1>2
<1> QED
  BY <1>2, <1>3 DEF Named, CertSlots

\* The Services are created by the operators, and a pass works on those there are.
LEMMA NamesPreserved == FormInv /\ ServiceNames /\ [Next]_vars => ServiceNames'
<1> SUFFICES ASSUME FormInv, ServiceNames, [Next]_vars PROVE ServiceNames'
  OBVIOUS
<1>0. Managed \subseteq Services
  <2>1. plan \in Seq(Services)
    BY ReconcilersAssumption DEF FormInv
  <2> QED
    BY <2>1 DEF Managed, Range
<1>1. \A x \in svcs' : Named(x)
  <2>1. CASE svcs' \subseteq svcs
    BY <2>1 DEF ServiceNames
  <2>2. ASSUME NEW s \in Managed, Observe(s) \/ RestoreServices(s) PROVE \A x \in svcs' : Named(x)
    <3>1. svcs' \subseteq svcs \cup Wanted(s, cr[s].spec.off, cr[s].spec.lb)
      BY <2>2 DEF Observe, RestoreServices
    <3> QED
      BY <1>0, <3>1, WantedNamed DEF ServiceNames
  <2>3. CASE UserStep
    BY <2>1, <2>3 DEF UserStep, SetEnabled, SetLoadBalancer, SetSection, SetCustom, SetIngressSecret,
       WithdrawIngressSecret, EditSpec, SetTLS, SetComponents, UpdateVersion
  <2>4. ASSUME NEW s \in Managed, Rollout(s) \/ Finalize(s) \/ CollectServices(s) \/ LoseService(s)
        PROVE  svcs' \subseteq svcs
    BY <2>4 DEF Rollout, Finalize, CollectServices, LoseService
  <2>5. ASSUME NEW a, Issue(a) \/ AdmitRoute(a) \/ RejectRoute(a) \/ ReadyCredential(a)
        PROVE  svcs' \subseteq svcs
    BY <2>5 DEF Issue, AdmitRoute, RejectRoute, ReadyCredential
  <2>6. CASE CreateSecret \/ Resync
    BY <2>1, <2>6 DEF CreateSecret, Resync
  <2>7. CASE Around
    BY <2>1, <2>2, <2>3, <2>4, <2>5, <2>6, <2>7 DEF Around
  <2> QED
    BY <2>1, <2>7, Steppings, PassKeepsInputs DEF vars
<1>2. work' # Idle => \A x \in work'.items : Named(x)
  <2>1. CASE UNCHANGED work
    BY <2>1 DEF ServiceNames
  <2>2. CASE BeginPass
    BY <2>2 DEF BeginPass
  <2>3. ASSUME NEW w, DOMAIN w = WorkFields, work' = Done(w) PROVE work'.items = {}
    BY <2>3 DEF Done, WorkFields
  <2>4. CASE Disable \/ CreateOrPatch
    BY <2>3, <2>4, TurnEnds
  <2>5. CASE Begin
    <3>1. work # Idle /\ work'.items = work.items
      BY <2>5 DEF Begin, InPass, FormInv, WorkForm, WorkFields
    <3> QED
      BY <3>1 DEF ServiceNames
  <2>6. CASE EnsureServiceCert
    <3>1. work # Idle /\ DOMAIN work = WorkFields
      BY <2>6 DEF EnsureServiceCert, Step, InPass, FormInv, WorkForm
    <3>2. CASE work' = [work EXCEPT !.steps = Tail(@)]
      BY <3>1, <3>2 DEF WorkFields, ServiceNames
    <3> QED
      BY <2>3, <2>6, <3>1, <3>2, ServiceCertForm
  <2>7. CASE EnsureApplicationCredential
    <3>1. work # Idle /\ DOMAIN work = WorkFields
      BY <2>7 DEF EnsureApplicationCredential, Step, InPass, FormInv, WorkForm
    <3>2. ASSUME NEW c, NEW v, work' = [work EXCEPT !.steps = Tail(@), !.auth[c] = v]
          PROVE  work'.items = work.items
      BY <3>1, <3>2 DEF WorkFields
    <3> QED
      BY <2>7, <3>1, <3>2, CredentialStepForm DEF ServiceNames
  <2>8. CASE ListServices
    <3> DEFINE api == Head(work.steps).of
               last == {[api |-> api.name, endpoint |-> e, lb |-> FALSE] : e \in api.also}
    <3>1. InPass /\ DOMAIN work = WorkFields /\ api \in Apis(Svc) /\ Svc \in Services
      BY <2>8, HeadOfSteps, SvcManaged DEF ListServices, Step, StepSet, InPass, FormInv, WorkForm
    <3>2. work'.items \subseteq svcs \cup last
      BY <2>8, <3>1 DEF ListServices, WorkFields
    <3>3. ASSUME NEW x \in last PROVE Named(x)
      <4>1. PICK e \in api.also : x = [api |-> api.name, endpoint |-> e, lb |-> FALSE]
        BY <3>3
      <4>2. <<x.api, x.endpoint>> \in {api.name} \X (api.endpoints \cup api.also)
        BY <4>1
      <4> QED
        BY <3>1, <4>2 DEF Named, CertSlots
    <3> QED
      BY <3>2, <3>3 DEF ServiceNames
  <2>9. CASE EnsureEndpoint
    <3>1. InPass /\ DOMAIN work = WorkFields
      BY <2>9 DEF EnsureEndpoint, InPass, FormInv, WorkForm
    <3>2. PICK svc \in work.items : Ensured(svc)
      BY <2>9, EndpointEnsured
    <3>3. work' = Idle \/ work'.items = work.items \ {svc} \/ work'.items = {}
      BY <3>1, <3>2 DEF Ensured, WorkFields
    <3> QED
      BY <3>1, <3>3 DEF ServiceNames, InPass
  <2>10. CASE FinishPass \/ Fail \/ Crash
    BY <2>10 DEF FinishPass, Fail, Crash, EndPass
  <2> QED
    BY <2>1, <2>2, <2>4, <2>5, <2>6, <2>7, <2>8, <2>9, <2>10, Steppings, AroundKeepsWork DEF InsidePass,
       vars
<1> QED
  BY <1>1, <1>2 DEF ServiceNames, Named, CertSlots, Apis

\* With pod level TLS an endpoint that is configured has a certificate.
LEMMA SecretGiven ==
    ASSUME NEW svc, Named(svc), work.spec.podTLS, Result(svc).end = "done"
    PROVE  Result(svc).secret # None
<1>1. Asked.podTLS
  BY DEF Asked
<1>2. <<svc.api, svc.endpoint>> # None
  BY CertificatesAssumption DEF Named
<1> DEFINE conds == [expose |-> work.status.expose[Svc], custom |-> work.status.custom]
           want == Asked
           given == Given(svc)
           public == PublicCert(net, svc, want, given)
<1>3. ASSUME svc.endpoint = "public", public.end = "done" PROVE public.secret # None
  <2>1. <<svc.api, "public">> # None
    BY <1>2, <1>3
  <2> HIDE DEF want, given
  <2>2. want.podTLS
    BY <1>1 DEF want
  <2> QED
    BY <1>3, <2>1, <2>2 DEF PublicCert
<1>4. CASE svc.endpoint # "public"
  <2> HIDE DEF conds, want, given
  <2>1. want.podTLS /\ Result(svc) = EnsureEndpointConfig(net, svc, want, given, conds)
    BY <1>1 DEF want, given, conds, Result
  <2>2. EnsureEndpointConfig(net, svc, want, given, conds).secret = <<svc.api, svc.endpoint>>
    BY <1>4, <2>1 DEF EnsureEndpointConfig
  <2> QED
    BY <1>2, <2>1, <2>2
<1>5. CASE svc.endpoint = "public"
  <2> HIDE DEF conds, want, given, public
  <2>1. Result(svc) = EnsureEndpointConfig(net, svc, want, given, conds)
    BY DEF want, given, conds, Result
  <2>2. EnsureEndpointConfig(net, svc, want, given, conds).end = "done" =>
          public.end = "done" /\ EnsureEndpointConfig(net, svc, want, given, conds).secret = public.secret
    BY <1>5 DEF EnsureEndpointConfig, public
  <2> QED
    BY <1>3, <1>5, <2>1, <2>2
<1> QED
  BY <1>4, <1>5

\* The template has a certificate wherever the resource has one.
Kept ==
    (InPass /\ work.begun /\ work.spec.podTLS /\ Svc \in TLSKeepers /\ cr[Svc] # None) =>
       \A e \in CertSlots(Svc) : cr[Svc].spec.tls[e] # None => work.tls[e] # None

\* A step of a service's turn that keeps the certificates of the template.
LEMMA TurnKeeps ==
    ASSUME FormInv, InPass, Kept, UNCHANGED <<plan, cr>>, work'.at = work.at, work'.spec = work.spec,
           work'.begun = work.begun,
           \A e \in CertSlots(Svc) : work.begun /\ work.spec.podTLS /\ Svc \in TLSKeepers /\
             work.tls[e] # None => work'.tls[e] # None
    PROVE  Kept'
<1>1. Svc' = Svc /\ CertSlots(Svc)' = CertSlots(Svc)
  BY DEF Svc, CertSlots, Apis
<1> QED
  BY <1>1 DEF Kept

\* Every step of a pass, and of the operators around it, keeps it so.
LEMMA KeptPreserved ==
    ASSUME TLSKeepers \subseteq Services \ Departing, FormInv, ReadyResources, ServiceNames, Kept,
           [Next]_vars
    PROVE  Kept'
<1>0. UNCHANGED plan
  BY PlanStays
<1>1. ASSUME UNCHANGED work PROVE Kept'
  <2>1. Svc' = Svc /\ InPass' = InPass /\ CertSlots(Svc)' = CertSlots(Svc)
    BY <1>0, <1>1 DEF Svc, InPass, CertSlots, Apis
  <2>2. ASSUME InPass, cr'[Svc] # None PROVE cr[Svc] # None /\ cr'[Svc].spec = cr[Svc].spec
    <3>1. Svc \in Managed
      BY <2>2, SvcManaged
    <3>2. CASE UNCHANGED cr
      BY <2>2, <3>2
    <3>3. ASSUME NEW s \in Managed, Observe(s) PROVE cr[Svc] # None /\ cr'[Svc].spec = cr[Svc].spec
      BY <2>2, <3>1, <3>3 DEF Observe, ReadyResources, ResourceFields
    <3>4. ASSUME NEW s \in Managed, Rollout(s) PROVE cr[Svc] # None /\ cr'[Svc].spec = cr[Svc].spec
      BY <2>2, <3>1, <3>4 DEF Rollout, ReadyResources, ResourceFields
    <3>5. ASSUME NEW s \in Managed, Finalize(s) PROVE cr[Svc] # None /\ cr'[Svc].spec = cr[Svc].spec
      BY <2>2, <3>1, <3>5 DEF Finalize, ReadyResources
    <3>6. ~Disable /\ ~CreateOrPatch
      <4> SUFFICES ASSUME Disable \/ CreateOrPatch PROVE FALSE
        OBVIOUS
      <4>1. PICK w : DOMAIN w = WorkFields /\ w.at = work.at /\ work' = Done(w)
        BY TurnEnds
      <4>2. work'.at = work.at + 1
        BY <4>1 DEF Done, WorkFields
      <4>3. work.at \in Nat
        BY <2>2 DEF FormInv, WorkForm, InPass
      <4> QED
        BY <1>1, <4>2, <4>3
    <3> QED
      BY <3>2, <3>3, <3>4, <3>5, <3>6, ResourceSteps
  <2> QED
    BY <1>1, <2>1, <2>2 DEF Kept
<1>2. CASE ~InPass'
  BY <1>2 DEF Kept
<1>3. CASE ~work'.begun
  BY <1>3 DEF Kept
<1>4. CASE BeginPass
  BY <1>3, <1>4 DEF BeginPass
<1>5. ASSUME NEW w, DOMAIN w = WorkFields, work' = Done(w) PROVE ~work'.begun
  BY <1>5 DEF Done, WorkFields
<1>6. CASE Begin
  <2>1. InPass /\ DOMAIN work = WorkFields /\ UNCHANGED <<plan, cr>>
    BY <1>6 DEF Begin, InPass, FormInv, WorkForm, owned
  <2>2. work'.at = work.at /\ work'.spec = work.spec /\ work'.tls = TemplateTLS(Svc, cr[Svc])
    BY <1>6, <2>1 DEF Begin, WorkFields
  <2>3. Svc' = Svc /\ CertSlots(Svc)' = CertSlots(Svc)
    BY <2>1, <2>2 DEF Svc, CertSlots, Apis
  <2>4. ASSUME work.spec.podTLS, Svc \in TLSKeepers, cr[Svc] # None, NEW e \in CertSlots(Svc)
        PROVE  TemplateTLS(Svc, cr[Svc])[e] = cr[Svc].spec.tls[e]
    <3>1. Catalog[Svc].keepsTLS
      BY <2>4, OthersKeepSettings DEF KeepsSettings
    <3> QED
      BY <2>4, <3>1 DEF TemplateTLS
  <2> QED
    BY <2>1, <2>2, <2>3, <2>4 DEF Kept
<1>7. CASE Disable \/ CreateOrPatch
  BY <1>3, <1>5, <1>7, TurnEnds
<1>8. CASE EnsureServiceCert
  <2>1. InPass /\ DOMAIN work = WorkFields /\ UNCHANGED cr
    BY <1>8 DEF EnsureServiceCert, Step, InPass, FormInv, WorkForm
  <2>2. CASE work' = [work EXCEPT !.steps = Tail(@)]
    <3>1. work'.at = work.at /\ work'.spec = work.spec /\ work'.begun = work.begun /\ work'.tls = work.tls
      BY <2>1, <2>2 DEF WorkFields
    <3> QED
      BY <1>0, <2>1, <3>1, TurnKeeps
  <2>3. CASE work' = Idle
    BY <1>2, <2>3 DEF InPass
  <2> QED
    BY <1>3, <1>5, <1>8, <2>1, <2>2, <2>3, ServiceCertForm
<1>9. CASE EnsureApplicationCredential
  <2>1. InPass /\ DOMAIN work = WorkFields /\ UNCHANGED cr
    BY <1>9 DEF EnsureApplicationCredential, Step, InPass, FormInv, WorkForm
  <2>2. ASSUME NEW c, NEW v, work' = [work EXCEPT !.steps = Tail(@), !.auth[c] = v] PROVE Kept'
    <3>1. work'.at = work.at /\ work'.spec = work.spec /\ work'.begun = work.begun /\ work'.tls = work.tls
      BY <2>1, <2>2 DEF WorkFields
    <3> QED
      BY <1>0, <2>1, <3>1, TurnKeeps
  <2>3. CASE work' = Idle
    BY <1>2, <2>3 DEF InPass
  <2> QED
    BY <1>9, <2>2, <2>3, CredentialStepForm
<1>10. CASE ListServices
  <2> DEFINE api == Head(work.steps).of
             found == {svc \in svcs : svc.api \in api.among}
             configure == /\ api.counted => Cardinality(found) = Cardinality(api.endpoints)
                          /\ api.afterReady => work.ready
             last == {[api |-> api.name, endpoint |-> e, lb |-> FALSE] : e \in api.also}
             items == IF configure THEN found \cup last ELSE {}
             tls == [e \in DOMAIN work.tls |->
                       IF configure /\ ~api.counted /\ e[1] = api.name THEN None ELSE work.tls[e]]
  <2>1. InPass /\ WorkForm /\ DOMAIN work = WorkFields /\ UNCHANGED cr /\ api \in Apis(Svc)
    <3>1. Step("api") /\ UNCHANGED cr
      BY <1>10 DEF ListServices, owned
    <3> QED
      BY <3>1, ApiStep DEF InPass, FormInv, WorkForm
  <2>2. work' = [work EXCEPT !.steps = Tail(@), !.api = api, !.items = items, !.tls = tls]
    BY <1>10 DEF ListServices
  <2>3. ASSUME work.begun, Svc \in TLSKeepers, NEW e \in CertSlots(Svc) PROVE tls[e] = work.tls[e]
    <3>1. api.counted
      BY <2>1, <2>3, OthersKeepSettings DEF KeepsSettings, Apis
    <3>2. e \in DOMAIN work.tls
      BY <2>1, <2>3 DEF WorkForm
    <3> QED
      BY <3>1, <3>2
  <2> HIDE DEF items, tls, api
  <2>4. work'.at = work.at /\ work'.spec = work.spec /\ work'.begun = work.begun /\ work'.tls = tls
    BY <2>1, <2>2 DEF WorkFields
  <2> QED
    BY <1>0, <2>1, <2>3, <2>4, TurnKeeps
<1>11. CASE EnsureEndpoint
  <2>1. InPass /\ WorkForm /\ DOMAIN work = WorkFields /\ UNCHANGED cr
    BY <1>11 DEF EnsureEndpoint, InPass, FormInv, WorkForm
  <2>2. PICK svc \in work.items : Ensured(svc)
    BY <1>11, EndpointEnsured
  <2>3. Named(svc)
    BY <2>1, <2>2 DEF ServiceNames, InPass
  <2>4. CASE work' = Idle
    BY <1>2, <2>4 DEF InPass
  <2>5. CASE work' = [work EXCEPT !.status = StatusAfter(svc), !.items = {}, !.skip = TRUE]
    <3>1. work'.at = work.at /\ work'.spec = work.spec /\ work'.begun = work.begun /\ work'.tls = work.tls
      BY <2>1, <2>5 DEF WorkFields
    <3> QED
      BY <1>0, <2>1, <3>1, TurnKeeps
  <2>6. ASSUME Result(svc).end = "done",
               work' = [work EXCEPT
                    !.status = StatusAfter(svc), !.items = @ \ {svc},
                    !.tls = [e \in DOMAIN @ |-> IF e = Slot(svc) THEN Result(svc).secret ELSE @[e]],
                    !.url = [a \in DOMAIN @ |-> IF <<a, "public">> = Slot(svc) THEN Result(svc).url ELSE @[a]]]
        PROVE  Kept'
    <3>1. /\ work'.at = work.at /\ work'.spec = work.spec /\ work'.begun = work.begun
          /\ work'.tls = [e \in DOMAIN work.tls |-> IF e = Slot(svc) THEN Result(svc).secret ELSE work.tls[e]]
      BY <2>1, <2>6 DEF WorkFields
    <3>2. work.spec.podTLS => Result(svc).secret # None
      BY <2>3, <2>6, SecretGiven
    <3>3. work.begun => DOMAIN work.tls = CertSlots(Svc)
      BY <2>1 DEF WorkForm
    <3>4. \A e \in CertSlots(Svc) :
             work.begun /\ work.spec.podTLS /\ Svc \in TLSKeepers /\
               work.tls[e] # None => work'.tls[e] # None
      BY <3>1, <3>2, <3>3
    <3> QED
      BY <1>0, <2>1, <3>1, <3>4, TurnKeeps
  <2> QED
    BY <2>2, <2>4, <2>5, <2>6 DEF Ensured
<1>12. CASE FinishPass \/ Fail \/ Crash
  BY <1>2, <1>12 DEF FinishPass, Fail, Crash, EndPass, InPass
<1> QED
  BY <1>1, <1>4, <1>6, <1>7, <1>8, <1>9, <1>10, <1>11, <1>12, Steppings, AroundKeepsWork DEF InsidePass,
     vars

\* No pass takes a certificate away from a service that runs with it, for all services but those that depart
\* from the scheme: nova and telemetry configure endpoints without all of their Services, octavia and
\* designate take the settings over from a resource that is read only afterwards.
THEOREM CertificatesAreKept ==
    ASSUME TLSKeepers \subseteq Services \ Departing
    PROVE  Spec => TLSKept
<1> DEFINE Inv == FormInv /\ RecordInv /\ ServiceNames /\ Kept
           Keeps == \A s \in TLSKeepers \cap Managed :
                      (cr[s] # None /\ cr'[s] # None /\ ~cr[s].deleting /\ work # Idle /\ work.spec.podTLS)
                        => \A e \in CertSlots(s) : cr[s].spec.tls[e] # None => cr'[s].spec.tls[e] # None
<1>1. Init => Inv
  <2>1. Init => ServiceNames /\ Kept
    BY DEF Init, ServiceNames, Kept, InPass
  <2> QED
    BY <2>1, InitForm, InitRecord
<1>2. Inv /\ [Next]_vars => Inv'
  BY FormPreserved, RecordPreserved, NamesPreserved, KeptPreserved DEF RecordInv
<1>3. Inv /\ [Next]_vars => [Keeps]_vars
  <2> SUFFICES ASSUME Inv, [Next]_vars, NEW s \in TLSKeepers \cap Managed, cr[s] # None, cr'[s] # None,
                      work # Idle, work.spec.podTLS, NEW e \in CertSlots(s), cr[s].spec.tls[e] # None
               PROVE  cr'[s].spec.tls[e] # None
    OBVIOUS
  <2>0. ReadyResources
    BY DEF RecordInv
  <2>1. CASE cr'[s].spec = cr[s].spec
    BY <2>1
  <2>2. CASE CreateOrPatch /\ ~work.skip /\ s = Svc
    <3>1. cr'[s].spec.tls = work.tls
      BY <2>0, <2>2, WrittenResource DEF NewSpec
    <3>2. InPass /\ work.begun
      BY <2>2 DEF CreateOrPatch
    <3> QED
      BY <2>2, <3>1, <3>2 DEF Kept
  <2>3. CASE CreateOrPatch /\ ~work.skip /\ s # Svc
    BY <2>0, <2>1, <2>3, WrittenResource
  <2>4. CASE CreateOrPatch /\ work.skip
    BY <2>1, <2>4 DEF CreateOrPatch, owned
  <2>5. CASE Disable
    <3>1. cr'[s] = cr[s] \/ cr'[s] = [cr[s] EXCEPT !.deleting = TRUE]
      BY <2>0, <2>5 DEF Disable, ReadyResources, owned
    <3> QED
      BY <2>0, <2>1, <3>1 DEF ReadyResources, ResourceFields
  <2>6. ASSUME NEW t \in Managed, Observe(t) PROVE cr'[s].spec = cr[s].spec
    BY <2>0, <2>6 DEF Observe, ReadyResources, ResourceFields
  <2>7. ASSUME NEW t \in Managed, Rollout(t) PROVE cr'[s].spec = cr[s].spec
    BY <2>0, <2>7 DEF Rollout, ReadyResources, ResourceFields
  <2>8. ASSUME NEW t \in Managed, Finalize(t) PROVE cr'[s].spec = cr[s].spec
    BY <2>0, <2>8 DEF Finalize, ReadyResources
  <2> QED
    BY <2>1, <2>2, <2>3, <2>4, <2>5, <2>6, <2>7, <2>8, ResourceSteps
<1>4. TLSKept <=> [][Keeps]_vars
  BY DEF TLSKept
<1> QED
  BY <1>1, <1>2, <1>3, <1>4, PTL DEF Spec

----------------------------------------------------------------------------
(* The types, and whose certificates a resource names *)

\* The service an API belongs to.
OwnerOf(name) ==
    CASE name \in {"glance-default", "glance-edge"} -> "glance"
      [] name \in {"nova-api", "nova-metadata", "nova-novncproxy"} -> "nova"
      [] name \in {"heat-api", "heat-cfn"} -> "heat"
      [] name \in {"ironic-api", "ironic-inspector"} -> "ironic"
      [] name \in {"cloudkitty", "aodh", "prometheus", "ceilometer", "ksm"} -> "telemetry"
      [] name \notin {"glance-default", "glance-edge", "nova-api", "nova-metadata", "nova-novncproxy",
                      "heat-api", "heat-cfn", "ironic-api", "ironic-inspector",
                      "cloudkitty", "aodh", "prometheus", "ceilometer", "ksm"} -> name

\* The APIs of a service, and those they share a label with, are its own.
Owns(s, apis) == \A a \in Range(apis) : OwnerOf(a.name) = s /\ \A n \in a.among : OwnerOf(n) = s

\* Of no APIs it holds.
LEMMA OwnsNone == ASSUME NEW s PROVE Owns(s, <<>>)
  BY DEF Owns, Range

\* And of one after the other.
LEMMA OwnsAppended ==
    ASSUME NEW s, NEW p, NEW q, Listed(p), Listed(q), Owns(s, p), Owns(s, q)
    PROVE  Owns(s, p \o q)
<1>1. p \in Seq(Range(p) \cup Range(q)) /\ q \in Seq(Range(p) \cup Range(q))
  BY DEF Listed
<1>2. ASSUME NEW i \in DOMAIN (p \o q) PROVE (p \o q)[i] \in Range(p) \cup Range(q)
  BY <1>1, <1>2
<1>3. Range(p \o q) \subseteq Range(p) \cup Range(q)
  BY <1>2 DEF Range
<1> QED
  BY <1>3 DEF Owns

\* No API belongs to two services.
LEMMA ApisAreOwned == \A s \in Services : Owns(s, Catalog[s].apis)
<1> USE DEF Plain, Api, OwnerOf
<1>1. Owns("dnsmasq", DNSMasq.apis) /\ Owns("openstackclient", OpenStackClient.apis) /\ Owns("test", Test.apis)
      /\ Owns("instanceha", InstanceHa.apis)
  BY OwnsNone DEF DNSMasq, OpenStackClient, Test, InstanceHa
<1>2. Owns("keystone", Keystone.apis)
  BY DEF Keystone, KeystoneEndpoints, Owns, Range
<1>3. Owns("placement", Placement.apis)
  BY DEF Placement, PlacementEndpoints, Owns, Range
<1>4. Owns("glance", Glance.apis)
  BY DEF Glance, GlanceEndpoints, Owns, Range
<1>5. Owns("cinder", Cinder.apis)
  BY DEF Cinder, CinderEndpoints, Owns, Range
<1>6. Owns("neutron", Neutron.apis)
  BY DEF Neutron, NeutronEndpoints, Owns, Range
<1>7. Owns("nova", Nova.apis)
  BY DEF Nova, NovaEndpoints, Owns, Range
<1>8. Owns("heat", Heat.apis)
  BY DEF Heat, HeatEndpoints, Owns, Range
<1>9. Owns("ironic", Ironic.apis)
  BY DEF Ironic, IronicEndpoints, Owns, Range
<1>10. Owns("manila", Manila.apis)
  BY DEF Manila, ManilaEndpoints, Owns, Range
<1>11. Owns("horizon", Horizon.apis)
  BY DEF Horizon, HorizonEndpoints, Owns, Range
<1>12. Owns("barbican", Barbican.apis)
  BY DEF Barbican, BarbicanEndpoints, Owns, Range
<1>13. Owns("octavia", Octavia.apis)
  BY DEF Octavia, OctaviaEndpoints, Owns, Range
<1>14. Owns("designate", Designate.apis)
  BY DEF Designate, DesignateEndpoints, Owns, Range
<1>15. Owns("swift", Swift.apis)
  BY DEF Swift, SwiftEndpoints, Owns, Range
<1>16. Owns("watcher", Watcher.apis)
  BY DEF Watcher, WatcherEndpoints, Owns, Range
<1>17. Owns("telemetry", Telemetry.apis)
  <2> DEFINE exporters == <<TelemetryExporters["prometheus"], TelemetryExporters["ceilometer"],
                            TelemetryExporters["ksm"]>>
  <2>1. Owns("telemetry", TelemetryEndpoints) /\ Listed(TelemetryEndpoints)
    BY TwoListed DEF TelemetryEndpoints, Owns, Range
  <2>2. \A n \in {"prometheus", "ceilometer", "ksm"} :
          TelemetryExporters[n].name = n /\ TelemetryExporters[n].among = {n}
    BY DEF TelemetryExporters
  <2>3. Owns("telemetry", exporters) /\ Listed(exporters)
    BY <2>2, ThreeListed DEF Owns, Range
  <2> HIDE DEF exporters
  <2>4. Owns("telemetry", TelemetryEndpoints \o exporters)
    BY <2>1, <2>3, OwnsAppended
  <2> QED
    BY <2>4 DEF Telemetry, exporters
<1> HIDE DEF Plain, Api, OwnerOf
<1> QED
  BY <1>1, <1>2, <1>3, <1>4, <1>5, <1>6, <1>7, <1>8, <1>9, <1>10, <1>11, <1>12, <1>13, <1>14,
     <1>15, <1>16, <1>17 DEF Services, Catalog

\* Whatever names a certificate names one of the service's own, or the user's, or none.
OwnCerts(s) == {None, Custom} \cup CertSlots(s)

\* So do the resources.
ResourcesOwn ==
    \A s \in Managed : cr[s] # None => \A e \in CertSlots(s) : cr[s].spec.tls[e] \in OwnCerts(s)

\* The Services a pass goes through belong to the service whose turn it is, and its template names its own.
TurnOwns ==
    InPass =>
      /\ \A x \in work.items : <<x.api, x.endpoint>> \in CertSlots(Svc)
      /\ work.begun => \A e \in CertSlots(Svc) : work.tls[e] \in OwnCerts(Svc)

\* A status has a condition for everything.
Conditional(st) ==
    /\ DOMAIN st = StatusFields
    /\ st.ready \in [Managed -> Conditions] /\ st.expose \in [Managed -> Conditions] /\ st.custom \in Conditions

StatusTyped == Conditional(status) /\ (work # Idle => Conditional(work.status))

\* There are two versions, also in the copy, the resources and what is deployed.
VersionsTyped ==
    /\ target \in 1 .. 2 /\ (work # Idle => work.target \in 1 .. 2)
    /\ \A s \in Managed : (cr[s] # None => cr[s].spec.image \in 1 .. 2) /\ deployed[s] \subseteq 1 .. 2

\* Only certificates that were asked for are issued.
NetTyped(n) == DOMAIN n = {"certs", "issued", "routes"} /\ n.issued \subseteq n.certs

\* The queue, the user's secret and how far the pass has got.
QueueTyped == queued \in BOOLEAN /\ secret \in BOOLEAN /\ (work # Idle => work.at <= Len(plan) + 1)

TypeInv == ResourcesOwn /\ TurnOwns /\ StatusTyped /\ VersionsTyped /\ NetTyped(net) /\ QueueTyped

\* Asking for a certificate, deleting one and changing a route keep it so.
LEMMA NetSteps ==
    ASSUME NEW n, NetTyped(n), NEW c, NEW a, NEW r
    PROVE  NetTyped(EnsureCert(n, c).net) /\ NetTyped(DeleteCertificate(n, c)) /\ NetTyped([n EXCEPT !.routes[a] = r])
<1>1. NetTyped(EnsureCert(n, c).net)
  BY DEF NetTyped, EnsureCert
<1>2. NetTyped(DeleteCertificate(n, c))
  BY DEF NetTyped, DeleteCertificate
<1>3. NetTyped([n EXCEPT !.routes[a] = r])
  BY DEF NetTyped
<1> QED
  BY <1>1, <1>2, <1>3

\* So do the steps of an endpoint: its certificate,
LEMMA PublicCertNet ==
    ASSUME NEW n, NetTyped(n), NEW svc, NEW want, NEW template
    PROVE  NetTyped(PublicCert(n, svc, want, template).net)
<1>1. PublicCert(n, svc, want, template).net \in
        {n, DeleteCertificate(n, <<svc.api, "route">>), EnsureCert(n, <<svc.api, "public">>).net}
  BY DEF PublicCert
<1> QED
  BY <1>1, NetSteps

\* its route with the certificate of that,
LEMMA CreateRouteNet ==
    ASSUME NEW n, NetTyped(n), NEW svc, NEW want
    PROVE  NetTyped(CreateRoute(n, svc, want).net)
<1> DEFINE old == n.routes[svc.api]
           admitted == IF old = None THEN TRUE ELSE old.admitted
           plain == IF want.ingressTLS /\ old # None THEN n
                    ELSE [n EXCEPT !.routes[svc.api] = Route(FALSE, admitted)]
           cert == EnsureCert(plain, <<svc.api, "route">>)
           secured(m) == [m EXCEPT !.routes[svc.api] = Route(TRUE, admitted)]
           dropped == DeleteCertificate(secured(plain), <<svc.api, "route">>)
<1> HIDE DEF old, admitted
<1>1. NetTyped(plain)
  BY NetSteps
<1>2. CreateRoute(n, svc, want).net \in {plain, dropped, secured(cert.net), cert.net}
  BY DEF CreateRoute, old, admitted
<1> HIDE DEF plain
<1>3. NetTyped(cert.net)
  BY <1>1, NetSteps
<1> HIDE DEF cert
<1>4. NetTyped(secured(plain)) /\ NetTyped(secured(cert.net))
  BY <1>1, <1>3, NetSteps
<1> HIDE DEF secured
<1>5. NetTyped(dropped)
  BY <1>4, NetSteps
<1> QED
  BY <1>1, <1>2, <1>3, <1>4, <1>5

\* a route that is created or removed,
LEMMA RouteNet ==
    ASSUME NEW n, NetTyped(n), NEW svc, NEW want, NEW expose
    PROVE  NetTyped(ensureRoute(n, svc, want, expose).net)
<1> DEFINE gone == [n EXCEPT !.routes[svc.api] = None]
<1>1. ensureRoute(n, svc, want, expose).net \in
        {gone, DeleteCertificate(gone, <<svc.api, "route">>), CreateRoute(n, svc, want).net}
  BY DEF ensureRoute
<1>2. NetTyped(gone)
  BY NetSteps
<1> HIDE DEF gone
<1>3. NetTyped(DeleteCertificate(gone, <<svc.api, "route">>))
  BY <1>2, NetSteps
<1> QED
  BY <1>1, <1>2, <1>3, CreateRouteNet

\* and so all of it.
LEMMA EndpointNet ==
    ASSUME NEW n, NetTyped(n), NEW svc, NEW want, NEW template, NEW conds
    PROVE  NetTyped(EnsureEndpointConfig(n, svc, want, template, conds).net)
<1> DEFINE checked == [conds EXCEPT !.custom = IF ~(want.ingressTLS /\ want.given) THEN @
                                               ELSE IF want.exists THEN "True" ELSE "False"]
           public == PublicCert(n, svc, want, template)
<1>1. EnsureEndpointConfig(n, svc, want, template, conds).net \in
        {n, EnsureCert(n, <<svc.api, svc.endpoint>>).net, public.net,
         ensureRoute(public.net, svc, want, checked.expose).net}
  BY DEF EnsureEndpointConfig
<1>2. NetTyped(public.net)
  BY PublicCertNet
<1> HIDE DEF public, checked
<1> QED
  BY <1>1, <1>2, NetSteps, RouteNet

\* The conditions an endpoint is left with are conditions.
LEMMA EndpointConds ==
    ASSUME NEW n, NEW svc, NEW want, NEW template,
           NEW conds \in [expose : Conditions, custom : Conditions]
    PROVE  EnsureEndpointConfig(n, svc, want, template, conds).conds \in [expose : Conditions, custom : Conditions]
<1> DEFINE checked == [conds EXCEPT !.custom = IF ~(want.ingressTLS /\ want.given) THEN @
                                               ELSE IF want.exists THEN "True" ELSE "False"]
           public == PublicCert(n, svc, want, template)
           route == ensureRoute(public.net, svc, want, checked.expose)
<1>1. checked \in [expose : Conditions, custom : Conditions]
  BY DEF Conditions
<1>2. EnsureEndpointConfig(n, svc, want, template, conds).conds \in
        {conds, checked, [checked EXCEPT !.expose = route.expose]}
  BY DEF EnsureEndpointConfig
<1> HIDE DEF checked, public
<1>3. route.expose \in Conditions
  BY <1>1 DEF ensureRoute, Conditions
<1> HIDE DEF route
<1>4. [checked EXCEPT !.expose = route.expose] \in [expose : Conditions, custom : Conditions]
  BY <1>1, <1>3
<1> QED
  BY <1>1, <1>2, <1>4

\* The certificate an endpoint is left with is that of its Service, the template's or none.
LEMMA EndpointSecret ==
    ASSUME NEW n, NEW svc, NEW want, NEW template, NEW conds
    PROVE  EnsureEndpointConfig(n, svc, want, template, conds).secret \in
             {None, <<svc.api, svc.endpoint>>, template}
<1> DEFINE public == PublicCert(n, svc, want, template)
<1>1. public.secret \in {None, <<svc.api, "public">>, template}
  BY DEF PublicCert
<1> HIDE DEF public
<1>2. CASE svc.endpoint = "public"
  <2>1. EnsureEndpointConfig(n, svc, want, template, conds).secret \in {None, public.secret}
    BY <1>2 DEF EnsureEndpointConfig, public
  <2> QED
    BY <1>1, <1>2, <2>1
<1>3. CASE svc.endpoint # "public"
  BY <1>3 DEF EnsureEndpointConfig
<1> QED
  BY <1>2, <1>3

\* The step of a pass that has begun, and goes on: it works for the same version, for the same service or the next.
LEMMA CopyGoesOn ==
    ASSUME FormInv, InsidePass, ~BeginPass, work' # Idle
    PROVE  /\ work # Idle /\ work'.target = work.target
           /\ \/ work'.at = work.at
              \/ InPass /\ work'.at = work.at + 1
<1>0. work # Idle /\ DOMAIN work = WorkFields
  <2>1. work # Idle
    BY DEF InsidePass, Disable, Begin, EnsureServiceCert, EnsureApplicationCredential, ListServices,
       EnsureEndpoint, CreateOrPatch, FinishPass, Fail, Crash, Step, InPass
  <2> QED
    BY <2>1 DEF FormInv, WorkForm
<1>1. ASSUME NEW w, DOMAIN w = WorkFields, w.at = work.at, w.target = work.target, work' = Done(w)
      PROVE  work'.target = work.target /\ work'.at = work.at + 1
  BY <1>1 DEF Done, WorkFields
<1>2. CASE Disable \/ CreateOrPatch
  <2>1. InPass /\ (work' = Done(work) \/ work' = Done(Disabled) \/ work' = Done(Evaluated))
    BY <1>2 DEF Disable, CreateOrPatch, Disabled, Evaluated
  <2>2. DOMAIN Disabled = WorkFields /\ Disabled.at = work.at /\ Disabled.target = work.target
    BY <1>0 DEF Disabled, WorkFields
  <2>3. DOMAIN Evaluated = WorkFields /\ Evaluated.at = work.at /\ Evaluated.target = work.target
    BY <1>0 DEF Evaluated, WorkFields
  <2> QED
    BY <1>0, <1>1, <2>1, <2>2, <2>3
<1>3. CASE Begin \/ ListServices
  <2>1. work'.target = work.target /\ work'.at = work.at
    BY <1>0, <1>3 DEF Begin, ListServices, WorkFields
  <2> QED
    BY <1>0, <2>1
<1>4. CASE EnsureServiceCert
  <2>1. ASSUME work' = [work EXCEPT !.steps = Tail(@)] PROVE work'.target = work.target /\ work'.at = work.at
    BY <1>0, <2>1 DEF WorkFields
  <2>2. InPass /\ (work' = [work EXCEPT !.steps = Tail(@)] \/ work' = Done(work))
    BY <1>4, ServiceCertForm
  <2> QED
    BY <1>0, <1>1, <2>1, <2>2
<1>5. CASE EnsureApplicationCredential
  <2>1. PICK c, v : work' = [work EXCEPT !.steps = Tail(@), !.auth[c] = v]
    BY <1>5, CredentialStepForm
  <2>2. work'.target = work.target /\ work'.at = work.at
    BY <1>0, <2>1 DEF WorkFields
  <2> QED
    BY <1>0, <2>2
<1>6. CASE EnsureEndpoint
  <2>1. PICK svc \in work.items : Ensured(svc)
    BY <1>6, EndpointEnsured
  <2>2. work'.target = work.target /\ work'.at = work.at
    BY <1>0, <2>1 DEF Ensured, WorkFields
  <2> QED
    BY <1>0, <2>2
<1>7. CASE FinishPass \/ Fail \/ Crash
  BY <1>7 DEF FinishPass, Fail, Crash, EndPass
<1> QED
  BY <1>2, <1>3, <1>4, <1>5, <1>6, <1>7 DEF InsidePass

\* A credential that is settled or waited for queues the pass, or leaves the queue as it is.
LEMMA CredentialQueues == ASSUME FormInv, EnsureApplicationCredential PROVE queued' \in BOOLEAN \/ queued' = queued
<1> DEFINE c == Head(work.steps).of
<1>1. InPass /\ c \in Creds(Svc)
  BY CredentialStep DEF EnsureApplicationCredential
<1>2. c.section \in Sections(Svc) /\ c.name \in AllCreds
  BY <1>1, SvcManaged DEF Sections, AllCreds
<1>3. Template.section[c.section] \in {"nil", "off", "on"} /\ work.ready \in BOOLEAN
  BY <1>1, <1>2, SvcManaged DEF InPass, FormInv, WorkForm, SpecForm, Template
<1>4. ac[c.name] \in {None, "requested", "ready"}
  BY <1>2 DEF FormInv, CredentialForm
<1> QED
  BY <1>3, <1>4 DEF EnsureApplicationCredential, EndPass, Wake

\* The queue.
LEMMA QueuePreserved == ASSUME FormInv, QueueTyped, [Next]_vars PROVE QueueTyped'
<1>0. UNCHANGED plan
  BY PlanStays
<1>1. CASE UNCHANGED vars
  BY <1>0, <1>1 DEF QueueTyped, vars
<1>2. CASE Around
  <2>1. UNCHANGED work
    BY <1>2, AroundKeepsWork
  <2>2. CASE UserStep
    <3>1. queued' = TRUE /\ secret' = secret
      BY <2>2 DEF UserStep, SetEnabled, SetLoadBalancer, SetSection, SetCustom, SetIngressSecret,
         WithdrawIngressSecret, EditSpec, SetTLS, SetComponents, UpdateVersion
    <3> QED
      BY <1>0, <2>1, <3>1 DEF QueueTyped
  <2>3. ASSUME NEW s \in Managed, Observe(s) \/ Rollout(s) \/ Finalize(s) \/ CollectServices(s) \/
               RestoreServices(s) \/ LoseService(s)
        PROVE  (queued' = TRUE \/ queued' = queued) /\ secret' = secret
    BY <2>3 DEF Observe, Rollout, Finalize, CollectServices, RestoreServices, LoseService
  <2>4. ASSUME NEW a, Issue(a) \/ AdmitRoute(a) \/ RejectRoute(a) \/ ReadyCredential(a)
        PROVE  queued' = TRUE /\ secret' = secret
    BY <2>4 DEF Issue, AdmitRoute, RejectRoute, ReadyCredential
  <2>5. ASSUME CreateSecret \/ Resync PROVE queued' \in BOOLEAN /\ secret' \in BOOLEAN
    BY <2>5 DEF CreateSecret, Resync, QueueTyped
  <2> QED
    BY <1>0, <1>2, <2>1, <2>2, <2>3, <2>4, <2>5 DEF Around, QueueTyped
<1>3. CASE InsidePass
  <2>1. secret' = secret
    BY <1>3, PassKeepsInputs
  <2>2. queued' \in BOOLEAN
    <3>1. CASE BeginPass \/ Begin \/ ListServices \/ FinishPass \/ Fail \/ Crash
      BY <3>1 DEF QueueTyped, BeginPass, Begin, ListServices, FinishPass, Fail, Crash, EndPass
    <3>2. CASE Disable \/ CreateOrPatch
      BY <3>2 DEF Disable, CreateOrPatch, Wake
    <3>3. CASE EnsureServiceCert
      <4>1. Catalog[Svc].onWait \in {"skip", "error"}
        BY <3>3, SvcManaged, CatalogIsRegular DEF EnsureServiceCert, Step, Regular
      <4>2. EnsureCert(net, <<Head(work.steps).of, "svc">>).end \in {"done", "wait"}
        BY DEF EnsureCert
      <4> QED
        BY <3>3, <4>1, <4>2 DEF EnsureServiceCert, EndPass, QueueTyped
    <3>4. CASE EnsureApplicationCredential
      BY <3>4, CredentialQueues DEF QueueTyped
    <3>5. CASE EnsureEndpoint
      <4>1. \E st : queued' = (queued \/ net' # net) \/ EndPass(st, TRUE)
        BY <3>5, Zenon DEF EnsureEndpoint
      <4> QED
        BY <4>1 DEF EndPass
    <3> QED
      BY <1>3, <3>1, <3>2, <3>3, <3>4, <3>5 DEF InsidePass
  <2>3. work' # Idle => work'.at <= Len(plan) + 1
    <3>1. plan \in Seq(Services)
      BY ReconcilersAssumption DEF FormInv
    <3>2. CASE BeginPass
      BY <3>1, <3>2 DEF BeginPass
    <3>3. ASSUME ~BeginPass, work' # Idle PROVE work'.at <= Len(plan) + 1
      <4>1. /\ work # Idle
            /\ \/ work'.at = work.at
               \/ InPass /\ work'.at = work.at + 1
        BY <1>3, <3>3, CopyGoesOn
      <4>2. work.at \in Nat /\ work.at <= Len(plan) + 1
        BY <4>1 DEF QueueTyped, FormInv, WorkForm
      <4> QED
        BY <3>1, <4>1, <4>2 DEF InPass
    <3> QED
      BY <3>2, <3>3
  <2> QED
    BY <1>0, <2>1, <2>2, <2>3 DEF QueueTyped
<1> QED
  BY <1>1, <1>2, <1>3, Steppings

\* The network.
LEMMA NetPreserved == ASSUME FormInv, NetTyped(net), [Next]_vars PROVE NetTyped(net)'
<1>1. CASE UNCHANGED net
  BY <1>1 DEF NetTyped
<1>2. CASE EnsureServiceCert
  BY <1>1, <1>2, NetSteps DEF EnsureServiceCert
<1>3. CASE EnsureEndpoint
  <2>1. \E svc, want, template, conds : net' = EnsureEndpointConfig(net, svc, want, template, conds).net
    BY <1>3, Zenon DEF EnsureEndpoint
  <2> QED
    BY <2>1, EndpointNet
<1>4. CASE FinishPass
  <2>1. net' = DeleteCertsAndRoutes(net, svcs)
    BY <1>4 DEF FinishPass
  <2> QED
    BY <2>1 DEF DeleteCertsAndRoutes, NetTyped
<1>5. CASE BeginPass \/ Disable \/ Begin \/ EnsureApplicationCredential \/ ListServices \/ CreateOrPatch
           \/ Fail \/ Crash
  BY <1>1, <1>5 DEF BeginPass, Disable, Begin, EnsureApplicationCredential, ListServices, CreateOrPatch, Fail,
     Crash, owned
<1>6. CASE UserStep \/ CreateSecret \/ Resync
  BY <1>1, <1>6 DEF UserStep, SetEnabled, SetLoadBalancer, SetSection, SetCustom, SetIngressSecret,
     WithdrawIngressSecret, EditSpec, SetTLS, SetComponents, UpdateVersion, CreateSecret, Resync, owned
<1>7. ASSUME NEW s \in Managed, Observe(s) \/ Rollout(s) \/ Finalize(s) \/ CollectServices(s) \/
             RestoreServices(s) \/ LoseService(s)
      PROVE  UNCHANGED net
  BY <1>7 DEF Observe, Rollout, Finalize, CollectServices, RestoreServices, LoseService, owned
<1>8. ASSUME NEW c, Issue(c) PROVE NetTyped(net)'
  <2>1. c \in net.certs /\ net' = [net EXCEPT !.issued = @ \cup {c}]
    BY <1>8 DEF Issue
  <2> QED
    BY <2>1 DEF NetTyped
<1>9. ASSUME NEW a, AdmitRoute(a) \/ RejectRoute(a) PROVE NetTyped(net)'
  <2>1. \E r : net' = [net EXCEPT !.routes[a].admitted = r]
    BY <1>9 DEF AdmitRoute, RejectRoute
  <2> QED
    BY <2>1 DEF NetTyped
<1>10. ASSUME NEW c, ReadyCredential(c) PROVE UNCHANGED net
  BY <1>10 DEF ReadyCredential
<1>11. CASE Around
  BY <1>1, <1>6, <1>7, <1>8, <1>9, <1>10, <1>11 DEF Around
<1> QED
  BY <1>1, <1>2, <1>3, <1>4, <1>5, <1>11, Steppings DEF InsidePass, vars, owned

\* The spec of a resource is written by the pass at the end of a service's turn, and by nobody else.
LEMMA SpecsChange ==
    ASSUME FormInv, ReadyResources, [Next]_vars, NEW s \in Managed, cr'[s] # None
    PROVE  \/ cr[s] # None /\ cr'[s].spec = cr[s].spec
           \/ InPass /\ work.begun /\ s = Svc /\ cr'[s].spec = NewSpec
<1>1. CASE UNCHANGED cr
  BY <1>1
<1>2. CASE Disable
  <2>1. cr[s] # None /\ (cr'[s] = cr[s] \/ cr'[s] = [cr[s] EXCEPT !.deleting = TRUE])
    BY <1>2 DEF Disable, ReadyResources, owned
  <2> QED
    BY <2>1 DEF ReadyResources, ResourceFields
<1>3. CASE CreateOrPatch /\ work.skip
  BY <1>1, <1>3 DEF CreateOrPatch, owned
<1>4. CASE CreateOrPatch /\ ~work.skip
  <2>1. InPass /\ work.begun
    BY <1>4 DEF CreateOrPatch
  <2> QED
    BY <1>4, <2>1, WrittenResource
<1>5. ASSUME NEW t \in Managed, Observe(t) PROVE cr[s] # None /\ cr'[s].spec = cr[s].spec
  BY <1>5 DEF Observe, ReadyResources, ResourceFields
<1>6. ASSUME NEW t \in Managed, Rollout(t) PROVE cr[s] # None /\ cr'[s].spec = cr[s].spec
  BY <1>6 DEF Rollout, ReadyResources, ResourceFields
<1>7. ASSUME NEW t \in Managed, Finalize(t) PROVE cr[s] # None /\ cr'[s].spec = cr[s].spec
  BY <1>7 DEF Finalize, ReadyResources
<1> QED
  BY <1>1, <1>2, <1>3, <1>4, <1>5, <1>6, <1>7, ResourceSteps

\* The versions.
LEMMA VersionsPreserved == ASSUME FormInv, ReadyResources, VersionsTyped, [Next]_vars PROVE VersionsTyped'
<1>0. Managed' = Managed
  BY PlanStays DEF Managed
<1>1. target' \in 1 .. 2
  <2>1. CASE UNCHANGED target
    BY <2>1 DEF VersionsTyped
  <2>2. CASE UserStep
    BY <2>1, <2>2 DEF UserStep, SetEnabled, SetLoadBalancer, SetSection, SetCustom, SetIngressSecret,
       WithdrawIngressSecret, EditSpec, SetTLS, SetComponents, UpdateVersion
  <2>3. ASSUME NEW s \in Managed, Observe(s) \/ Rollout(s) \/ Finalize(s) \/ CollectServices(s) \/
               RestoreServices(s) \/ LoseService(s)
        PROVE  UNCHANGED target
    BY <2>3 DEF Observe, Rollout, Finalize, CollectServices, RestoreServices, LoseService
  <2>4. ASSUME NEW a, Issue(a) \/ AdmitRoute(a) \/ RejectRoute(a) \/ ReadyCredential(a)
        PROVE  UNCHANGED target
    BY <2>4 DEF Issue, AdmitRoute, RejectRoute, ReadyCredential
  <2>5. CASE Around
    BY <2>1, <2>2, <2>3, <2>4, <2>5 DEF Around, CreateSecret, Resync
  <2> QED
    BY <2>1, <2>5, Steppings, PassKeepsInputs DEF vars
<1>2. work' # Idle => work'.target \in 1 .. 2
  <2>1. CASE BeginPass
    BY <2>1 DEF BeginPass, VersionsTyped
  <2>2. CASE UNCHANGED work
    BY <2>2 DEF VersionsTyped
  <2>3. CASE InsidePass /\ ~BeginPass
    BY <2>3, CopyGoesOn DEF VersionsTyped
  <2> QED
    BY <2>1, <2>2, <2>3, Steppings, AroundKeepsWork DEF vars
<1>3. ASSUME NEW s \in Managed, cr'[s] # None PROVE cr'[s].spec.image \in 1 .. 2
  <2>1. InPass => NewSpec.image \in 1 .. 2
    BY DEF NewSpec, InPass, VersionsTyped
  <2> QED
    BY <1>3, <2>1, SpecsChange DEF VersionsTyped
<1>4. ASSUME NEW s \in Managed PROVE deployed'[s] \subseteq 1 .. 2
  <2>1. CASE CreateOrPatch
    BY <2>1 DEF CreateOrPatch, InPass, VersionsTyped, ReadyResources
  <2>2. CASE Disable \/ \E t \in Managed : Observe(t) \/ Finalize(t)
    BY <2>2 DEF Disable, Observe, Finalize, VersionsTyped
  <2>3. ASSUME NEW t \in Managed, Rollout(t) PROVE deployed'[s] \subseteq 1 .. 2
    BY <2>3 DEF Rollout, VersionsTyped, ReadyResources
  <2> QED
    BY <2>1, <2>2, <2>3, ResourceSteps DEF VersionsTyped
<1> QED
  BY <1>0, <1>1, <1>2, <1>3, <1>4 DEF VersionsTyped

\* A condition of a status that is set.
LEMMA ReadySet ==
    ASSUME NEW st, Conditional(st), NEW s \in Managed, NEW x \in Conditions
    PROVE  Conditional([st EXCEPT !.ready[s] = x])
  BY DEF Conditional, StatusFields

\* And two that an endpoint sets.
LEMMA ExposeSet ==
    ASSUME NEW st, Conditional(st), NEW s \in Managed, NEW x \in Conditions, NEW y \in Conditions
    PROVE  Conditional([st EXCEPT !.expose[s] = x, !.custom = y])
  BY DEF Conditional, StatusFields

\* The result of a service is one too.
LEMMA EvaluatedConditional ==
    ASSUME NEW st, Conditional(st), NEW s \in Managed, NEW r
    PROVE  Conditional(Evaluate(st, s, r))
<1>1. MirrorSubResourceCondition(r) \in Conditions
  BY DEF MirrorSubResourceCondition, Conditions
<1>2. CASE r.observed /\ r.ready
  <2>1. Evaluate(st, s, r) = [st EXCEPT !.ready[s] = "True", !.images[s] = [k \in DOMAIN @ |-> work.target]]
    BY <1>2 DEF Evaluate
  <2> QED
    BY <2>1 DEF Conditional, StatusFields, Conditions
<1>3. CASE ~(r.observed /\ r.ready)
  <2>1. Evaluate(st, s, r) = [st EXCEPT !.ready[s] = MirrorSubResourceCondition(r)]
    BY <1>3 DEF Evaluate
  <2> QED
    BY <1>1, <2>1, ReadySet
<1> QED
  BY <1>2, <1>3

\* The conditions, in the status and in the copy.
LEMMA StatusPreserved == ASSUME FormInv, StatusTyped, [Next]_vars PROVE StatusTyped'
<1>0. Managed' = Managed
  BY PlanStays DEF Managed
<1>1. ASSUME Conditional(status'), work' # Idle => Conditional(work'.status) PROVE StatusTyped'
  BY <1>0, <1>1 DEF StatusTyped, Conditional
<1>2. Conditional(status) /\ (work # Idle => Conditional(work.status) /\ DOMAIN work = WorkFields)
  BY DEF StatusTyped, FormInv, WorkForm
<1>3. CASE UNCHANGED <<status, work>>
  BY <1>1, <1>2, <1>3
<1>4. CASE BeginPass
  <2>1. work'.status = InitConditions(status) /\ UNCHANGED status
    BY <1>4 DEF BeginPass
  <2>2. Conditional(InitConditions(status))
    BY <1>2 DEF InitConditions, Conditional, StatusFields, Conditions
  <2> QED
    BY <1>1, <1>2, <2>1, <2>2
<1>5. CASE Begin
  <2>1. work # Idle /\ work'.status = work.status /\ UNCHANGED status
    BY <1>2, <1>5 DEF Begin, InPass, WorkFields
  <2> QED
    BY <1>1, <1>2, <2>1
<1>6. ASSUME NEW w, DOMAIN w = WorkFields, work' = Done(w) PROVE work'.status = w.status
  BY <1>6 DEF Done, WorkFields
<1>7. CASE Disable \/ CreateOrPatch
  <2>1. InPass /\ UNCHANGED status /\ (work' = Done(work) \/ work' = Done(Disabled) \/ work' = Done(Evaluated))
    BY <1>7 DEF Disable, CreateOrPatch, Disabled, Evaluated
  <2>2. Svc \in Managed /\ work # Idle
    BY <2>1, SvcManaged DEF InPass
  <2>3. DOMAIN Disabled = WorkFields /\ Conditional(Disabled.status)
    BY <1>2, <2>2 DEF Disabled, WorkFields, Conditional, StatusFields, Conditions
  <2>4. DOMAIN Evaluated = WorkFields /\ Evaluated.status = Evaluate(work.status, Svc, cr'[Svc])
    BY <1>2, <2>2 DEF Evaluated, WorkFields
  <2>5. Conditional(Evaluated.status)
    BY <1>2, <2>2, <2>4, EvaluatedConditional
  <2> QED
    BY <1>1, <1>2, <1>6, <2>1, <2>2, <2>3, <2>4, <2>5
<1>8. CASE EnsureServiceCert
  <2>1. InPass /\ Svc \in Managed /\ work # Idle
    BY <1>8, SvcManaged, ServiceCertForm DEF InPass
  <2>2. Conditional([work.status EXCEPT !.ready[Svc] = "False"])
    BY <1>2, <2>1, ReadySet DEF Conditions
  <2>3. ASSUME work' = [work EXCEPT !.steps = Tail(@)] PROVE work'.status = work.status
    BY <1>2, <2>1, <2>3 DEF WorkFields
  <2> QED
    BY <1>1, <1>2, <1>6, <1>8, <2>1, <2>2, <2>3, ServiceCertForm
<1>9. CASE EnsureApplicationCredential
  <2>1. InPass /\ work # Idle
    BY <1>9, CredentialStepForm DEF InPass
  <2>2. ASSUME NEW c, NEW v, work' = [work EXCEPT !.steps = Tail(@), !.auth[c] = v]
        PROVE  work'.status = work.status
    BY <1>2, <2>1, <2>2 DEF WorkFields
  <2> QED
    BY <1>1, <1>2, <1>9, <2>1, <2>2, CredentialStepForm
<1>10. CASE ListServices
  BY <1>1, <1>2, <1>10, ListForm DEF InPass
<1>11. CASE EnsureEndpoint
  <2>1. InPass /\ Svc \in Managed /\ work # Idle
    BY <1>11, SvcManaged DEF EnsureEndpoint, InPass
  <2>2. PICK svc \in work.items : Ensured(svc)
    BY <1>11, EndpointEnsured
  <2>3. [expose |-> work.status.expose[Svc], custom |-> work.status.custom] \in
          [expose : Conditions, custom : Conditions]
    BY <1>2, <2>1 DEF Conditional
  <2>4. Result(svc).conds \in [expose : Conditions, custom : Conditions]
    BY <2>3, EndpointConds DEF Result
  <2>5. Conditional(StatusAfter(svc))
    BY <1>2, <2>1, <2>4, ExposeSet DEF StatusAfter
  <2>6. \/ work' = Idle /\ status' = StatusAfter(svc)
        \/ UNCHANGED status /\ work'.status = StatusAfter(svc)
    BY <1>2, <2>1, <2>2 DEF Ensured, WorkFields
  <2> QED
    BY <1>1, <1>2, <2>5, <2>6
<1>12. CASE FinishPass \/ Fail \/ Crash
  <2>1. work # Idle /\ work' = Idle
    BY <1>12 DEF FinishPass, Fail, Crash, EndPass, InPass
  <2>2. \/ status' \in {status, work.status}
        \/ InPass /\ status' = [work.status EXCEPT !.ready[Svc] = "False"]
    BY <1>12 DEF FinishPass, Fail, Crash, EndPass
  <2>3. InPass => Conditional([work.status EXCEPT !.ready[Svc] = "False"])
    BY <1>2, <2>1, SvcManaged, ReadySet DEF Conditions
  <2> QED
    BY <1>1, <1>2, <2>1, <2>2, <2>3
<1> QED
  BY <1>3, <1>4, <1>5, <1>7, <1>8, <1>9, <1>10, <1>11, <1>12, Steppings, AroundKeepsWork DEF InsidePass, vars

\* A Service that an API goes through belongs to the service of the API.
LEMMA FoundOwned ==
    ASSUME NEW s \in Services, NEW api \in Apis(s), NEW x, Named(x), x.api \in api.among
    PROVE  <<x.api, x.endpoint>> \in CertSlots(s)
<1>1. PICK t \in Services : <<x.api, x.endpoint>> \in CertSlots(t)
  BY DEF Named
<1>2. PICK a \in Apis(t) : <<x.api, x.endpoint>> \in {a.name} \X (a.endpoints \cup a.also)
  BY <1>1 DEF CertSlots
<1>3. OwnerOf(x.api) = t
  <2>1. x.api = a.name
    BY <1>2
  <2> QED
    BY <2>1, ApisAreOwned DEF Owns, Apis
<1>4. OwnerOf(x.api) = s
  BY ApisAreOwned DEF Owns, Apis
<1> QED
  BY <1>1, <1>3, <1>4

\* A step of a service's turn that keeps its certificates its own.
LEMMA StepOwns ==
    ASSUME FormInv, InPass, UNCHANGED plan, work'.at = work.at,
           \A x \in work'.items : <<x.api, x.endpoint>> \in CertSlots(Svc),
           work'.begun => \A e \in CertSlots(Svc) : work'.tls[e] \in OwnCerts(Svc)
    PROVE  TurnOwns'
<1>1. Svc' = Svc /\ CertSlots(Svc)' = CertSlots(Svc) /\ OwnCerts(Svc)' = OwnCerts(Svc)
  BY DEF Svc, CertSlots, Apis, OwnCerts
<1> QED
  BY <1>1 DEF TurnOwns

\* Resources are written from the template.
LEMMA ResourcesOwnPreserved ==
    ASSUME FormInv, ReadyResources, ResourcesOwn, TurnOwns, [Next]_vars PROVE ResourcesOwn'
<1>1. Managed' = Managed
  BY PlanStays DEF Managed
<1>2. ASSUME NEW s \in Managed, cr'[s] # None, NEW e \in CertSlots(s) PROVE cr'[s].spec.tls[e] \in OwnCerts(s)
  <2>1. NewSpec.tls = work.tls
    BY DEF NewSpec
  <2>2. CASE cr[s] # None /\ cr'[s].spec = cr[s].spec
    BY <1>2, <2>2 DEF ResourcesOwn
  <2>3. CASE InPass /\ work.begun /\ s = Svc /\ cr'[s].spec = NewSpec
    BY <1>2, <2>1, <2>3 DEF TurnOwns
  <2> QED
    BY <1>2, <2>2, <2>3, SpecsChange
<1>3. \A s : CertSlots(s)' = CertSlots(s) /\ OwnCerts(s)' = OwnCerts(s)
  BY DEF CertSlots, Apis, OwnCerts
<1> QED
  BY <1>1, <1>2, <1>3 DEF ResourcesOwn

\* A turn begins with the certificates of the resource, and goes on with those of its Services.
LEMMA TurnOwnsPreserved ==
    ASSUME FormInv, ServiceNames, ResourcesOwn, TurnOwns, [Next]_vars PROVE TurnOwns'
<1>0. UNCHANGED plan
  BY PlanStays
<1>1. ASSUME InPass PROVE /\ work # Idle /\ DOMAIN work = WorkFields /\ Svc \in Services /\ Svc \in Managed
                          /\ \A x \in work.items : <<x.api, x.endpoint>> \in CertSlots(Svc)
                          /\ work.begun => /\ DOMAIN work.tls = CertSlots(Svc)
                                           /\ \A e \in CertSlots(Svc) : work.tls[e] \in OwnCerts(Svc)
  BY <1>1, SvcManaged DEF TurnOwns, FormInv, WorkForm, InPass
<1>2. CASE UNCHANGED work
  <2>1. InPass' = InPass
    BY <1>0, <1>2 DEF InPass
  <2>2. CASE InPass
    BY <1>0, <1>1, <1>2, <2>2, StepOwns
  <2> QED
    BY <2>1, <2>2 DEF TurnOwns
<1>3. CASE work' = Idle
  BY <1>3 DEF TurnOwns, InPass
<1>4. ASSUME work'.items = {}, ~work'.begun PROVE TurnOwns'
  BY <1>4 DEF TurnOwns
<1>5. CASE BeginPass
  BY <1>4, <1>5 DEF BeginPass
<1>6. ASSUME NEW w, DOMAIN w = WorkFields, work' = Done(w) PROVE TurnOwns'
  <2>1. work'.items = {} /\ ~work'.begun
    BY <1>6 DEF Done, WorkFields
  <2> QED
    BY <1>4, <2>1
<1>7. CASE Disable \/ CreateOrPatch
  BY <1>6, <1>7, TurnEnds
<1>8. CASE Begin
  <2>1. InPass
    BY <1>8 DEF Begin
  <2>2. work'.at = work.at /\ work'.items = work.items /\ work'.tls = TemplateTLS(Svc, cr[Svc])
    BY <1>1, <1>8, <2>1 DEF Begin, WorkFields
  <2>3. ASSUME NEW e \in CertSlots(Svc) PROVE TemplateTLS(Svc, cr[Svc])[e] \in OwnCerts(Svc)
    <3>1. cr[Svc] # None => cr[Svc].spec.tls[e] \in OwnCerts(Svc)
      BY <1>1, <2>1, <2>3 DEF ResourcesOwn
    <3>2. \/ TemplateTLS(Svc, cr[Svc])[e] \in {None, Custom}
          \/ cr[Svc] # None /\ TemplateTLS(Svc, cr[Svc])[e] = cr[Svc].spec.tls[e]
      BY <2>3 DEF TemplateTLS
    <3> QED
      BY <3>1, <3>2 DEF OwnCerts
  <2> QED
    BY <1>0, <1>1, <2>1, <2>2, <2>3, StepOwns
<1>9. CASE EnsureServiceCert
  <2>1. InPass
    BY <1>9, ServiceCertForm
  <2>2. CASE work' = [work EXCEPT !.steps = Tail(@)]
    <3>1. work'.at = work.at /\ work'.begun = work.begun /\ work'.items = work.items /\ work'.tls = work.tls
      BY <1>1, <2>1, <2>2 DEF WorkFields
    <3> QED
      BY <1>0, <1>1, <2>1, <3>1, StepOwns
  <2> QED
    BY <1>1, <1>3, <1>6, <1>9, <2>1, <2>2, ServiceCertForm
<1>10. CASE EnsureApplicationCredential
  <2>1. InPass
    BY <1>10, CredentialStepForm
  <2>2. ASSUME NEW c, NEW v, work' = [work EXCEPT !.steps = Tail(@), !.auth[c] = v] PROVE TurnOwns'
    <3>1. work'.at = work.at /\ work'.begun = work.begun /\ work'.items = work.items /\ work'.tls = work.tls
      BY <1>1, <2>1, <2>2 DEF WorkFields
    <3> QED
      BY <1>0, <1>1, <2>1, <3>1, StepOwns
  <2> QED
    BY <1>3, <1>10, <2>2, CredentialStepForm
<1>11. CASE ListServices
  <2> DEFINE api == Head(work.steps).of
             found == {svc \in svcs : svc.api \in api.among}
             last == {[api |-> api.name, endpoint |-> e, lb |-> FALSE] : e \in api.also}
  <2>1. InPass /\ api \in Apis(Svc)
    BY <1>11, ApiStep DEF ListServices
  <2>2. /\ work'.at = work.at /\ work'.begun = work.begun /\ work'.items \subseteq found \cup last
        /\ DOMAIN work'.tls = DOMAIN work.tls
        /\ \A e \in DOMAIN work.tls : work'.tls[e] \in {None, work.tls[e]}
    BY <1>1, <1>11, <2>1 DEF ListServices, WorkFields
  <2>3. ASSUME NEW x \in found PROVE <<x.api, x.endpoint>> \in CertSlots(Svc)
    BY <1>1, <2>1, <2>3, FoundOwned DEF ServiceNames
  <2>4. ASSUME NEW x \in last PROVE <<x.api, x.endpoint>> \in CertSlots(Svc)
    <3>1. PICK e \in api.also : x = [api |-> api.name, endpoint |-> e, lb |-> FALSE]
      BY <2>4
    <3>2. <<x.api, x.endpoint>> \in {api.name} \X (api.endpoints \cup api.also)
      BY <3>1
    <3> QED
      BY <2>1, <3>2 DEF CertSlots
  <2> HIDE DEF found, last, api
  <2>5. work.begun => \A e \in CertSlots(Svc) : work'.tls[e] \in OwnCerts(Svc)
    BY <1>1, <2>1, <2>2 DEF OwnCerts
  <2> QED
    BY <1>0, <2>1, <2>2, <2>3, <2>4, <2>5, StepOwns
<1>12. CASE EnsureEndpoint
  <2>1. InPass
    BY <1>12 DEF EnsureEndpoint
  <2>2. PICK svc \in work.items : Ensured(svc)
    BY <1>12, EndpointEnsured
  <2>3. <<svc.api, svc.endpoint>> \in CertSlots(Svc)
    BY <1>1, <2>1, <2>2
  <2>4. CASE work' = [work EXCEPT !.status = StatusAfter(svc), !.items = {}, !.skip = TRUE]
    <3>1. work'.at = work.at /\ work'.begun = work.begun /\ work'.items = {} /\ work'.tls = work.tls
      BY <1>1, <2>1, <2>4 DEF WorkFields
    <3> QED
      BY <1>0, <1>1, <2>1, <3>1, StepOwns
  <2>5. ASSUME work' = [work EXCEPT
                    !.status = StatusAfter(svc), !.items = @ \ {svc},
                    !.tls = [e \in DOMAIN @ |-> IF e = Slot(svc) THEN Result(svc).secret ELSE @[e]],
                    !.url = [a \in DOMAIN @ |-> IF <<a, "public">> = Slot(svc) THEN Result(svc).url ELSE @[a]]]
        PROVE  TurnOwns'
    <3>1. /\ work'.at = work.at /\ work'.begun = work.begun /\ work'.items = work.items \ {svc}
          /\ work'.tls = [e \in DOMAIN work.tls |-> IF e = Slot(svc) THEN Result(svc).secret ELSE work.tls[e]]
      BY <1>1, <2>1, <2>5 DEF WorkFields
    <3>2. Result(svc).secret \in {None, <<svc.api, svc.endpoint>>, Given(svc)}
      BY EndpointSecret DEF Result
    <3>3. work.begun => Given(svc) \in OwnCerts(Svc)
      BY <1>1, <2>1 DEF Given, OwnCerts
    <3>4. work.begun => \A e \in CertSlots(Svc) : work'.tls[e] \in OwnCerts(Svc)
      BY <1>1, <2>1, <2>3, <3>1, <3>2, <3>3 DEF OwnCerts
    <3> QED
      BY <1>0, <1>1, <2>1, <3>1, <3>4, StepOwns
  <2> QED
    BY <1>3, <2>2, <2>4, <2>5 DEF Ensured
<1>13. CASE FinishPass \/ Fail \/ Crash
  BY <1>3, <1>13 DEF FinishPass, Fail, Crash, EndPass
<1> QED
  BY <1>2, <1>5, <1>7, <1>8, <1>9, <1>10, <1>11, <1>12, <1>13, Steppings, AroundKeepsWork DEF InsidePass, vars

\* All of it holds at first.
LEMMA InitTypes == Init => TypeInv
<1> SUFFICES ASSUME Init PROVE TypeInv
  OBVIOUS
<1>1. ResourcesOwn /\ TurnOwns /\ QueueTyped
  BY DEF Init, ResourcesOwn, TurnOwns, InPass, QueueTyped
<1>2. StatusTyped
  BY DEF Init, StatusTyped, Conditional, StatusFields, Conditions
<1>3. VersionsTyped
  BY DEF Init, VersionsTyped
<1>4. NetTyped(net)
  BY DEF Init, NetTyped
<1> QED
  BY <1>1, <1>2, <1>3, <1>4 DEF TypeInv

\* Conditions, versions and the queue have their types, no certificate is issued that was not asked for, and
\* whatever the order in which Services come, go and are listed, a resource names only the certificates of
\* its own endpoints, or the one its user has given it: EnsureEndpointConfig never hands a service
\* the certificate of another.
THEOREM ServicesTypeCorrect == Spec => []TypeOK
<1> DEFINE Inv == FormInv /\ RecordInv /\ ServiceNames /\ TypeInv
<1>1. Init => Inv
  <2>1. Init => ServiceNames
    BY DEF Init, ServiceNames
  <2> QED
    BY <2>1, InitForm, InitRecord, InitTypes
<1>2. Inv /\ [Next]_vars => Inv'
  <2> SUFFICES ASSUME Inv, [Next]_vars PROVE Inv'
    OBVIOUS
  <2>1. FormInv' /\ RecordInv' /\ ServiceNames'
    BY FormPreserved, RecordPreserved, NamesPreserved
  <2>2. TypeInv'
    BY ResourcesOwnPreserved, TurnOwnsPreserved, StatusPreserved, VersionsPreserved, NetPreserved,
       QueuePreserved DEF TypeInv, RecordInv
  <2> QED
    BY <2>1, <2>2
<1>3. Inv => TypeOK
  <2> SUFFICES ASSUME Inv PROVE TypeOK
    OBVIOUS
  <2>1. plan \in Plans /\ target \in 1 .. 2 /\ queued \in BOOLEAN /\ secret \in BOOLEAN
    BY DEF FormInv, TypeInv, VersionsTyped, QueueTyped
  <2>2. work # Idle => work.at \in 1 .. (Len(plan) + 1)
    <3>1. plan \in Seq(Services)
      BY ReconcilersAssumption DEF FormInv
    <3> QED
      BY <3>1 DEF FormInv, WorkForm, TypeInv, QueueTyped
  <2>3. /\ status.custom \in Conditions
        /\ \A s \in Managed : status.ready[s] \in Conditions /\ status.expose[s] \in Conditions
    BY DEF TypeInv, StatusTyped, Conditional
  <2>4. \A s \in Managed : deployed[s] \subseteq 1 .. 2
    BY DEF TypeInv, VersionsTyped
  <2>5. \A s \in Managed : cr[s] # None =>
           \A e \in CertSlots(s) : cr[s].spec.tls[e] \in {None, Custom} \cup CertSlots(s)
    BY DEF TypeInv, ResourcesOwn, OwnCerts
  <2>6. net.issued \subseteq net.certs
    BY DEF TypeInv, NetTyped
  <2> QED
    BY <2>1, <2>2, <2>3, <2>4, <2>5, <2>6 DEF TypeOK
<1> QED
  BY <1>1, <1>2, <1>3, PTL DEF Spec

=============================================================================
