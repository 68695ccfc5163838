------------------------ MODULE ControlPlaneServices ------------------------
(* The services of a control plane: the controller's passes, the operators around it and the user. *)
EXTENDS ServiceReconcilers

CONSTANTS
    TLSKeepers,  \* the services whose certificates are checked to be kept
    Comparers    \* the services whose ImageMatch is checked

Init ==
    /\ plan \in Plans
    /\ spec = [podTLS |-> TRUE, ingressTLS |-> TRUE, off |-> {"cloudkitty"},
               svc |-> [s \in Managed |-> [enabled |-> TRUE, lb |-> FALSE, custom |-> FALSE, ingressSecret |-> FALSE,
                                           section |-> [n \in Sections(s) |-> "nil"]]]]
    /\ target = 1
    /\ status = [ready |-> [s \in Managed |-> "none"], expose |-> [s \in Managed |-> "none"], custom |-> "none",
                 images |-> [s \in Managed |-> [k \in Catalog[s].images.written |-> None]]]
    /\ work = Idle /\ queued = TRUE
    /\ cr = [s \in Managed |-> None]
    /\ svcs = {}
    /\ net = [certs |-> {}, issued |-> {}, routes |-> [a \in AllApis |-> None]]
    /\ ac = [c \in AllCreds |-> None]
    /\ secret = FALSE
    /\ deployed = [s \in Managed |-> {}]
    /\ events = 0

PassStep == BeginPass \/ Disable \/ Begin \/ EnsureServiceCert \/ EnsureApplicationCredential \/ ListServices
            \/ EnsureEndpoint \/ CreateOrPatch \/ FinishPass

OperatorStep == \/ \E s \in Managed : Observe(s) \/ Rollout(s) \/ Finalize(s) \/ CollectServices(s) \/ RestoreServices(s)
                \/ \E c \in net.certs : Issue(c)
                \/ \E a \in AllApis : AdmitRoute(a)
                \/ \E c \in AllCreds : ReadyCredential(c)

FaultStep == \/ Fail \/ Crash
             \/ \E s \in Managed : LoseService(s)
             \/ \E a \in AllApis : RejectRoute(a)

UserStep == \/ \E s \in Managed : SetEnabled(s) \/ SetLoadBalancer(s) \/ SetSection(s) \/ SetCustom(s)
                                  \/ SetIngressSecret(s) \/ WithdrawIngressSecret(s)
            \/ SetTLS \/ SetComponents \/ UpdateVersion

Next == PassStep \/ OperatorStep \/ FaultStep \/ UserStep \/ CreateSecret \/ Resync

Spec == Init /\ [][Next]_vars

(* The work queue runs a request it holds and a pass runs to its end; the operators do their work; the *)
(* user creates a secret the spec refers to.                                                           *)
FairSpec == Spec /\ WF_vars(PassStep) /\ WF_vars(OperatorStep) /\ WF_vars(CreateSecret) /\ WF_vars(Resync)

----------------------------------------------------------------------------
Active(s) == spec.svc[s].enabled /\ \A n \in Catalog[s].needs : n \in Managed => spec.svc[n].enabled

(* Conditions and versions have their types, and a resource names certificates of its own endpoints only *)
(* (EnsureEndpointConfig and the copies that carry its result into the template).                         *)
TypeOK ==
    /\ plan \in Plans /\ target \in 1..2 /\ queued \in BOOLEAN /\ secret \in BOOLEAN
    /\ work # Idle => work.at \in 1..(Len(plan) + 1)
    /\ status.custom \in Conditions
    /\ \A s \in Managed :
         /\ status.ready[s] \in Conditions /\ status.expose[s] \in Conditions
         /\ deployed[s] \subseteq 1..2
         /\ cr[s] # None => \A e \in CertSlots(s) : cr[s].spec.tls[e] \in {None, Custom} \cup CertSlots(s)
    /\ net.issued \subseteq net.certs

(* No pass takes a certificate away from a service that runs with it: not while a Service is missing, not *)
(* after an error, only when the user turns TLS off.                                                      *)
TLSKept ==
    [][\A s \in TLSKeepers \cap Managed :
         (cr[s] # None /\ cr'[s] # None /\ ~cr[s].deleting /\ work # Idle /\ work.spec.podTLS)
           => \A e \in CertSlots(s) : cr[s].spec.tls[e] # None => cr'[s].spec.tls[e] # None]_vars

(* An image is recorded as deployed only if the service's operator has rolled it out. *)
RecordedWasDeployed ==
    \A s \in Managed : \A k \in DOMAIN status.images[s] : status.images[s][k] \in deployed[s] \cup {None}

(* A service whose images match the version's has every image of that version, whichever of them are new. *)
MatchMeansDeployed ==
    \A s \in Comparers \cap Managed :
      \A new \in {Catalog[s].images.written} \cup {{k} : k \in Catalog[s].images.written} :
        Active(s) /\ ImageMatch(s, new)
          => \A k \in Catalog[s].images.written : \E v \in deployed[s] : Image(k, v, new) = Image(k, target, new)

(* What the spec asks for. *)
Deployed(s) ==
    /\ cr[s] # None /\ ~cr[s].deleting /\ cr[s].observed /\ cr[s].ready
    /\ cr[s].spec.image = target /\ target \in deployed[s]
    /\ \A e \in CertSlots(s) : e[1] \notin spec.off => ((cr[s].spec.tls[e] # None) <=> spec.podTLS)
    /\ \A a \in PublicApis(s) \ spec.off :
         /\ cr[s].spec.url[a] = IF spec.svc[s].lb THEN "none" ELSE IF spec.ingressTLS THEN "https" ELSE "http"
         /\ IF spec.svc[s].lb THEN net.routes[a] = None
            ELSE net.routes[a] # None /\ net.routes[a].tls = spec.ingressTLS
    /\ \A c \in Creds(s) : cr[s].spec.auth[c] <=> spec.svc[s].section[c.section] = "on" /\ c.component \notin spec.off
    /\ \A k \in DOMAIN status.images[s] : status.images[s][k] = target

Removed(s) ==
    /\ cr[s] = None
    /\ status.ready[s] = "none" /\ \A k \in Catalog[s].images.cleared : status.images[s][k] = None
    /\ \A c \in Creds(s) : ac[c.name] = None
    /\ \A a \in PublicApis(s) : net.routes[a] = None

(* After the last edit every pass comes to rest, with every service deployed the way the spec asks for or *)
(* removed, whatever was lost, failed or was interrupted on the way.                                      *)
Converges == <>[](\A s \in Managed : IF ~spec.svc[s].enabled THEN Removed(s) ELSE Active(s) => Deployed(s))

(* After the last edit the control plane becomes Ready. *)
BecomesReady == <>[]((\A s \in Managed : Active(s)) => Ready)
=============================================================================
