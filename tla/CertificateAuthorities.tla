----------------------- MODULE CertificateAuthorities -----------------------
(***************************************************************************)
(* ReconcileCAs: the issuers of the control plane and the bundle of CA     *)
(* certificates that everything in it trusts (internal/openstack/ca.go).   *)
(*                                                                         *)
(* Every role (the ingress, the pods, libvirt, OVN) has an issuer: one the *)
(* controller creates, with a self-signed root CA, or one the user names.  *)
(* It is found by the label of its role, by the data plane among others    *)
(* (internal/dataplane/cert.go), which accepts exactly one issuer.  A pass *)
(* loads the bundle, goes through the roles, adds the CA certificate of    *)
(* each, and writes the bundle back at its end.  A CA certificate is a     *)
(* pair <<issuer, serial number>>.                                         *)
(***************************************************************************)
EXTENDS Naturals, Sequences, Functions, FiniteSets

CONSTANTS
    Roles,       \* the roles, in the order of the pass
    Issuers,     \* the issuers the user may create
    None,
    MaxSerial,   \* bound: certificates a CA has in its life
    MaxEvents    \* bound: edits, renewals, expiries and faults

(* What tells the roles apart: the issuer the controller creates, and whether a change of the user's *)
(* issuer wakes the controller.                                                                      *)
Ingress == [name |-> "ingress", default |-> "rootca-public", watched |-> TRUE]
Internal == [name |-> "internal", default |-> "rootca-internal", watched |-> TRUE]
Libvirt == [name |-> "libvirt", default |-> "rootca-libvirt", watched |-> FALSE]
Ovn == [name |-> "ovn", default |-> "rootca-ovn", watched |-> TRUE]

AllRoles == Range(Roles)
Defaults == {r.default : r \in AllRoles}

ASSUME AuthoritiesAssumption ==
    /\ Roles \in Seq({Ingress, Internal, Libvirt, Ovn}) /\ Cardinality(AllRoles) = Len(Roles)
    /\ Issuers \cap Defaults = {} /\ None \notin Issuers /\ \A R \in SUBSET AllRoles : R # None
    /\ MaxSerial \in Nat \ {0} /\ MaxEvents \in Nat

Names == Defaults \cup Issuers
CACerts == Names \X (1..MaxSerial)

(* Certificates that come with the operator's image, and in the user's secret. *)
System == <<"system", 1>>
User == <<"user", 1>>

VARIABLES
    spec,      \* the user's issuer of each role, and whether the spec names a secret with certificates
    issuer,    \* the roles every Issuer is labelled with, None if it does not exist
    serial,    \* the certificate in the secret of every CA, 0 without one
    expired,   \* the CA certificates that have expired
    secret,    \* the user's secret: missing, broken or good
    bundle,    \* the combined CA secret: all certificates, and those of the issuers
    status,    \* the CAReady condition and the list of CAs; history: did the pass end at the image's bundle?
    work,      \* the pass under way
    queued,    \* is a reconcile request queued?
    events

vars == <<spec, issuer, serial, expired, secret, bundle, status, work, queued, events>>

Idle == [at |-> 0]
Valid(certs) == certs \ expired

(* GetPublicIssuer, GetInternalIssuer, GetLibvirtIssuer, GetOvnIssuer *)
IssuerOf(s, r) == IF s.custom[r] = None THEN r.default ELSE s.custom[r]

Labelled(r) == {n \in Names : issuer[n] # None /\ r \in issuer[n]}

(* The watch of the Issuers: only the issuers that an indexed field of the spec names. *)
findObjectsForSrc(n) == \E r \in AllRoles : r.watched /\ spec.custom[r] = n

Init ==
    /\ spec = [custom |-> [r \in AllRoles |-> None], bundle |-> FALSE]
    /\ issuer = [n \in Names |-> None]
    /\ serial = [n \in Names |-> 0]
    /\ expired = {} /\ secret = "missing"
    /\ bundle = [full |-> {}, only |-> {}]
    /\ status = [ready |-> "none", list |-> {}, cut |-> FALSE]
    /\ work = Idle /\ queued = TRUE /\ events = 0

----------------------------------------------------------------------------
(* A pass. *)

\* Mutant: only the certificates of the issuers are loaded.
LoadIssuers == [full |-> Valid(bundle.only), only |-> Valid(bundle.only)]

(* The bundle so far, without what has expired (getCertsFromPEM). *)
LoadBundle == [full |-> Valid(bundle.full), only |-> Valid(bundle.only)]

\* Mutant: only the user's issuers lose the label.
OthersOfUser(s, r) == (Labelled(r) \cap Issuers) \ {IssuerOf(s, r)}

(* The issuers that have the label of a role and are not its issuer. *)
Others(s, r) == Labelled(r) \ {IssuerOf(s, r)}

BeginPass ==
    /\ work = Idle /\ queued
    /\ queued' = FALSE
    /\ work' = [at |-> 1, do |-> "list", spec |-> spec, bundle |-> LoadBundle, others |-> {},
                status |-> [ready |-> "Unknown", list |-> {}, cut |-> FALSE]]
    /\ UNCHANGED <<spec, issuer, serial, expired, secret, bundle, status, events>>

InRole(do) == work # Idle /\ work.at <= Len(Roles) /\ work.do = do
Role == Roles[work.at]
Custom == work.spec.custom[Role] # None
Name == IssuerOf(work.spec, Role)

(* The pass ends: the status is saved, and it comes back if it has not got through. *)
EndPass(st, again) ==
    /\ work' = Idle
    /\ status' = st
    /\ queued' = (queued \/ again \/ issuer' # issuer)

Do(step) == work' = [work EXCEPT !.do = step]

(* removeIssuerLabel: the issuers with the label are listed, then patched one by one. *)
ListIssuers ==
    /\ InRole("list")
    /\ work' = [work EXCEPT !.do = "unlabel", !.others = Others(work.spec, Role)]
    /\ UNCHANGED <<spec, issuer, serial, expired, secret, bundle, status, queued, events>>

removeIssuerLabel ==
    /\ InRole("unlabel")
    /\ \/ /\ work.others = {}
          /\ Do(IF Custom THEN "label" ELSE "cert")
          /\ UNCHANGED <<issuer, queued>>
       \/ \E n \in work.others :
            /\ issuer' = [issuer EXCEPT ![n] = @ \ {Role}]
            /\ work' = [work EXCEPT !.others = @ \ {n}]
            /\ queued' = TRUE
    /\ UNCHANGED <<spec, serial, expired, secret, bundle, status, events>>

(* addIssuerLabelAnnotation, its second half: an issuer that does not exist is waited for. *)
addIssuerLabelAnnotation ==
    /\ InRole("label")
    /\ IF issuer[Name] = None
         THEN /\ EndPass([work.status EXCEPT !.ready = "False"], TRUE)
              /\ UNCHANGED issuer
         ELSE /\ issuer' = [issuer EXCEPT ![Name] = @ \cup {Role}]
              /\ Do("secret")
              /\ queued' = (queued \/ issuer' # issuer)
              /\ UNCHANGED status
    /\ UNCHANGED <<spec, serial, expired, secret, bundle, events>>

\* Mutant: an issuer that exists is left as it is.
CreateIssuerOnce ==
    /\ InRole("cert")
    /\ issuer' = [issuer EXCEPT ![Name] = IF @ = None THEN {Role} ELSE @]
    /\ Do("secret")
    /\ queued' = (queued \/ issuer' # issuer)
    /\ UNCHANGED <<spec, serial, expired, secret, bundle, status, events>>

(* createRootCACertAndIssuer: the Certificate of the root CA is not a state of its own here; the issuer *)
(* gets the label when it is created, and again when it has lost it.                                    *)
createRootCACertAndIssuer ==
    /\ InRole("cert")
    /\ issuer' = [issuer EXCEPT ![Name] = IF @ = None THEN {Role} ELSE @ \cup {Role}]
    /\ Do("secret")
    /\ queued' = (queued \/ issuer' # issuer)
    /\ UNCHANGED <<spec, serial, expired, secret, bundle, status, events>>

(* ensureCaBundles: an expired certificate is an error. *)
ensureCaBundles(w, c) ==
    [w EXCEPT !.at = @ + 1, !.do = "list", !.bundle.full = @ \cup {c}, !.bundle.only = @ \cup {c},
              !.status.list = @ \cup {c}]

(* getCAFromSecret: the secret is waited for. *)
getCAFromSecret ==
    /\ InRole("secret")
    /\ LET c == <<Name, serial[Name]>>
       IN  IF serial[Name] > 0 /\ c \notin expired
             THEN work' = ensureCaBundles(work, c) /\ UNCHANGED <<status, queued>>
             ELSE EndPass([work.status EXCEPT !.ready = IF serial[Name] = 0 THEN "False" ELSE @], TRUE)
    /\ UNCHANGED <<spec, issuer, serial, expired, secret, bundle, events>>

InBundle == work # Idle /\ work.at = Len(Roles) + 1

(* The user's secret is waited for, and one that cannot be parsed is an error. *)
AddUserCerts ==
    /\ InBundle /\ work.do = "list"
    /\ IF ~work.spec.bundle THEN Do("publish") /\ UNCHANGED <<status, queued>>
       ELSE IF secret = "good"
         THEN /\ work' = [work EXCEPT !.do = "publish", !.bundle.full = @ \cup Valid({User})]
              /\ UNCHANGED <<status, queued>>
       ELSE EndPass([work.status EXCEPT !.ready = IF secret = "missing" THEN "False" ELSE @], TRUE)
    /\ UNCHANGED <<spec, issuer, serial, expired, secret, bundle, events>>

(* The condition becomes True here, before the certificates of the operator's image are added (a file of *)
(* the image, at one of two paths) and before the bundle is in the secret.                               *)
AddImageCerts ==
    /\ InBundle /\ work.do = "publish"
    /\ work' = [work EXCEPT !.do = "write", !.status.ready = "True", !.bundle.full = @ \cup {System}]
    /\ UNCHANGED <<spec, issuer, serial, expired, secret, bundle, status, queued, events>>

EnsureSecrets ==
    /\ InBundle /\ work.do = "write"
    /\ bundle' = work.bundle
    /\ Do("save")
    /\ UNCHANGED <<spec, issuer, serial, expired, secret, status, queued, events>>

(* The rest of the reconcile, that leaves the CAs alone, and the deferred patch of the status. *)
PatchInstance ==
    /\ InBundle /\ work.do = "save"
    /\ UNCHANGED issuer
    /\ EndPass(work.status, FALSE)
    /\ UNCHANGED <<spec, serial, expired, secret, bundle, events>>

Event == events < MaxEvents /\ events' = events + 1

\* Mutant: the condition stays True when the secret could not be written.
FailedReady == IF work.do \in {"write", "save"} THEN "True" ELSE work.status.ready

(* The condition after a failed call: the ones in removeIssuerLabel are not reported for a root CA, the *)
(* ones after ReconcileCAs have conditions of their own.                                                *)
Failed == IF work.do = "save" \/ (work.do \in {"list", "unlabel"} /\ (InBundle \/ ~Custom))
            THEN work.status.ready ELSE "False"

(* A call to the API fails. *)
Fail ==
    /\ work # Idle /\ Event
    /\ UNCHANGED issuer
    /\ EndPass([work.status EXCEPT !.ready = Failed], TRUE)
    /\ UNCHANGED <<spec, serial, expired, secret, bundle>>

(* The bundle of the image cannot be read or parsed, or the certificates cannot be put together: an error *)
(* after the condition became True, which nothing takes back.                                             *)
ImageBundleFails ==
    /\ InBundle /\ work.do = "publish" /\ Event
    /\ UNCHANGED issuer
    /\ EndPass([work.status EXCEPT !.ready = "True", !.cut = TRUE], TRUE)
    /\ UNCHANGED <<spec, serial, expired, secret, bundle>>

(* The process stops: the status of the pass is lost. *)
Crash ==
    /\ work # Idle /\ Event
    /\ work' = Idle /\ queued' = TRUE
    /\ UNCHANGED <<spec, issuer, serial, expired, secret, bundle, status>>

(* The informers replay every object they hold, every ten hours. *)
Resync ==
    /\ work = Idle /\ ~queued
    /\ queued' = TRUE
    /\ UNCHANGED <<spec, issuer, serial, expired, secret, bundle, status, work, events>>

----------------------------------------------------------------------------
(* cert-manager, outside this repository: it issues the root CAs, and renews them; the controller owns *)
(* their Certificates and is woken.                                                                    *)
Replace(n) ==
    /\ serial[n] < MaxSerial
    /\ serial' = [serial EXCEPT ![n] = @ + 1]
    /\ UNCHANGED <<spec, issuer, expired, secret, bundle, status, work>>

IssueRootCA(n) ==
    /\ n \in Defaults /\ issuer[n] # None
    /\ serial[n] = 0 \/ <<n, serial[n]>> \in expired
    /\ Replace(n)
    /\ queued' = TRUE /\ UNCHANGED events

RenewRootCA(n) ==
    /\ n \in Defaults /\ serial[n] > 0 /\ Event
    /\ Replace(n)
    /\ queued' = TRUE

(* A certificate expires: there is a later one, or there will be. *)
Expire(c) ==
    /\ c \notin expired /\ c[2] <= serial[c[1]] /\ c[2] < MaxSerial /\ Event
    /\ expired' = expired \cup {c}
    /\ UNCHANGED <<spec, issuer, serial, secret, bundle, status, work, queued>>

(* The user. *)

(* An issuer of the user with the secret of its CA; he replaces the certificate when it has expired, and *)
(* may replace it before.  Nothing wakes the controller then.                                            *)
CreateIssuer(n) ==
    /\ n \in Issuers /\ issuer[n] = None /\ \E r \in AllRoles : spec.custom[r] = n
    /\ issuer' = [issuer EXCEPT ![n] = {}]
    /\ serial' = [serial EXCEPT ![n] = 1]
    /\ queued' = (queued \/ findObjectsForSrc(n))
    /\ UNCHANGED <<spec, expired, secret, bundle, status, work, events>>

ReplaceExpired(n) ==
    /\ n \in Issuers /\ <<n, serial[n]>> \in expired
    /\ Replace(n)
    /\ UNCHANGED <<queued, events>>

Rotate(n) ==
    /\ n \in Issuers /\ serial[n] > 0 /\ Event
    /\ Replace(n)
    /\ UNCHANGED queued

SetIssuer(r, n) ==
    /\ spec.custom[r] # n /\ Event
    /\ spec' = [spec EXCEPT !.custom[r] = n]
    /\ queued' = TRUE
    /\ UNCHANGED <<issuer, serial, expired, secret, bundle, status, work>>

SetBundleSecret ==
    /\ Event
    /\ spec' = [spec EXCEPT !.bundle = ~@]
    /\ queued' = TRUE
    /\ UNCHANGED <<issuer, serial, expired, secret, bundle, status, work>>

(* The user creates the secret the spec names, perhaps with something in it that is no certificate, *)
(* and corrects it.                                                                                 *)
WriteSecret ==
    /\ spec.bundle /\ secret # "good"
    /\ secret' \in IF secret = "missing" THEN {"broken", "good"} ELSE {"good"}
    /\ queued' = TRUE
    /\ UNCHANGED <<spec, issuer, serial, expired, bundle, status, work, events>>

----------------------------------------------------------------------------
PassStep == BeginPass \/ ListIssuers \/ removeIssuerLabel \/ addIssuerLabelAnnotation \/ createRootCACertAndIssuer
            \/ getCAFromSecret \/ AddUserCerts \/ AddImageCerts \/ EnsureSecrets \/ PatchInstance

OthersStep == WriteSecret \/ \E n \in Names : IssueRootCA(n) \/ CreateIssuer(n) \/ ReplaceExpired(n)

Next == \/ PassStep \/ Resync \/ Fail \/ ImageBundleFails \/ Crash
        \/ OthersStep
        \/ \E n \in Names : RenewRootCA(n) \/ Rotate(n)
        \/ \E c \in CACerts : Expire(c)
        \/ \E r \in AllRoles, n \in Issuers \cup {None} : SetIssuer(r, n)
        \/ SetBundleSecret

Spec == Init /\ [][Next]_vars

(* A queued request is served, a pass ends, the resync comes; cert-manager issues what it is asked for; *)
(* the user creates what the spec names.                                                                *)
FairSpec == Spec /\ WF_vars(PassStep) /\ WF_vars(Resync) /\ WF_vars(OthersStep)

----------------------------------------------------------------------------
(* The types of the specification, of the bundle, of the status and of a pass. *)
Specs == [custom : [AllRoles -> Issuers \cup {None}], bundle : BOOLEAN]
Bundles == [full : SUBSET (CACerts \cup {System, User}), only : SUBSET CACerts]
Statuses == [ready : {"none", "Unknown", "False", "True"}, list : SUBSET CACerts, cut : BOOLEAN]
Passes == [at : 1..(Len(Roles) + 1),
           do : {"list", "unlabel", "label", "cert", "secret", "publish", "write", "save"},
           spec : Specs, bundle : Bundles, others : SUBSET Names, status : Statuses]

(* Conditions, serial numbers and the certificates in the bundle have their types (ReconcileCAs). *)
TypeOK ==
    /\ spec \in Specs
    /\ issuer \in [Names -> (SUBSET AllRoles) \cup {None}]
    /\ serial \in [Names -> 0..MaxSerial]
    /\ expired \subseteq CACerts /\ secret \in {"missing", "broken", "good"}
    /\ bundle \in Bundles /\ status \in Statuses
    /\ work = Idle \/ work \in Passes
    /\ queued \in BOOLEAN /\ events \in 0..MaxEvents

(* The data plane never finds two issuers for one role (removeIssuerLabel comes before the label is set, *)
(* through errors, restarts and edits in the middle of a pass).                                          *)
SingleIssuer == \A r \in AllRoles : Cardinality(Labelled(r)) <= 1

(* A CA certificate that is trusted stays trusted until it expires: services and nodes may still use *)
(* certificates it signed after its issuer was replaced or renewed (the bundle is loaded and merged). *)
TrustKept ==
    [][bundle.full \ bundle'.full \subseteq expired /\ bundle.only \ bundle'.only \subseteq expired]_vars

Reported == Valid(status.list) \subseteq bundle.full \cap bundle.only

(* CAs that are reported ready are in the bundle until they expire, also when the process stops between   *)
(* the bundle of a later pass and its status.  The exception is the pass that ended at the bundle of the  *)
(* image, after CAReady became True: it is not given up (MarkTrue, the errors after it, EnsureSecrets).   *)
ReadyMeansTrusted == status.ready = "True" => Reported \/ (status.cut /\ (queued \/ work # Idle))

(* What the comment on the condition says: True indicates that the CAs are configured and operational. *)
ReadyMeansOperational == status.ready = "True" => Reported

(* In the end every role has its issuer, found by its label, and the issuer's certificate is trusted. *)
Trusted ==
    <>[](\A r \in AllRoles : LET n == IssuerOf(spec, r)
                             IN  Labelled(r) = {n} /\ <<n, serial[n]>> \in bundle.full \cap bundle.only)
=============================================================================
