------------------------- MODULE AuthoritiesProofs -------------------------
(***************************************************************************)
(* Safety of the certificate authorities, for any roles, issuers and       *)
(* bounds: no role ever has two issuers, a CA that is trusted stays        *)
(* trusted until it expires, and CAs that are reported ready are trusted.  *)
(*                                                                         *)
(* None of it is inductive by itself, because a pass acts on what it has   *)
(* read before: the list of issuers to take the label from (ListedOthers)  *)
(* and the bundle it loaded (LoadedBundle, CollectedCAs).                  *)
(***************************************************************************)
EXTENDS CertificateAuthorities, TLAPS, FiniteSetTheorems

\* No two issuers have the label of one role.
OneLabel == \A r \in AllRoles : \A n, m \in Labelled(r) : n = m

\* While a pass takes the label of its role away, it knows every other issuer
\* that has it; when it is about to give it, there is none.
ListedOthers ==
    work # Idle /\ work.at <= Len(Roles) =>
        /\ work.do = "unlabel" => Others(work.spec, Role) \subseteq work.others
        /\ work.do \in {"label", "cert"} => Others(work.spec, Role) = {}

\* Until a pass has written the bundle, it holds what was in it and is valid.
LoadedBundle ==
    work # Idle /\ work.do # "save" =>
        /\ Valid(bundle.full) \subseteq work.bundle.full
        /\ Valid(bundle.only) \subseteq work.bundle.only

\* The CAs a pass is going to report are in its bundle, then in the secret; it
\* calls them ready before they are, and only from then on.
CollectedCAs ==
    work # Idle =>
        /\ work.status.list \subseteq work.bundle.full \cap work.bundle.only
        /\ work.do \notin {"write", "save"} => work.status.ready = "Unknown"
        /\ work.do = "save" => work.status.list \subseteq bundle.full \cap bundle.only

TrustInv == LoadedBundle /\ CollectedCAs /\ ReadyMeansTrusted

----------------------------------------------------------------------------
(* Types *)

LEMMA RolesFacts ==
    /\ Len(Roles) \in Nat
    /\ \A i \in 1..Len(Roles) : Roles[i] \in AllRoles
    /\ \A r \in AllRoles : r.default \in Names
<1>1. Roles \in Seq({Ingress, Internal, Libvirt, Ovn})
  BY AuthoritiesAssumption
<1>2. Len(Roles) \in Nat /\ DOMAIN Roles = 1..Len(Roles)
  BY <1>1
<1>3. \A i \in 1..Len(Roles) : Roles[i] \in AllRoles
  BY <1>2 DEF AllRoles, Range
<1> QED
  BY <1>2, <1>3 DEF Names, Defaults

\* A pass is not the idle value, and the issuer of a role has a name.
LEMMA PassFacts ==
    ASSUME TypeOK, work # Idle
    PROVE  /\ work \in Passes
           /\ work.at <= Len(Roles) => Role \in AllRoles /\ Name \in Names
<1>1. work \in Passes
  BY DEF TypeOK
<1>2. ASSUME work.at <= Len(Roles) PROVE Role \in AllRoles /\ Name \in Names
  <2>1. work.at \in 1..Len(Roles) /\ work.spec \in Specs
    BY <1>1, <1>2, RolesFacts DEF Passes
  <2>2. Role \in AllRoles
    BY <2>1, RolesFacts DEF Role
  <2>3. work.spec.custom[Role] \in Issuers \cup {None}
    BY <2>1, <2>2 DEF Specs
  <2> QED
    BY <2>2, <2>3, RolesFacts DEF Name, IssuerOf, Names
<1> QED
  BY <1>1, <1>2

\* The issuers that a pass has listed exist: without that, taking a label from
\* one would have no type.
ListedExist == work # Idle => \A n \in work.others : issuer[n] # None

TypeInv == TypeOK /\ ListedExist

LEMMA InitType == Init => TypeInv
<1> SUFFICES ASSUME Init PROVE TypeInv
  OBVIOUS
<1> USE AuthoritiesAssumption
<1>1. spec \in Specs
  BY DEF Init, Specs
<1>2. bundle \in Bundles /\ status \in Statuses
  BY DEF Init, Bundles, Statuses
<1> QED
  BY <1>1, <1>2 DEF Init, TypeInv, TypeOK, ListedExist

\* A new set of roles for an issuer that exists keeps types and existence.
LEMMA LabelType ==
    ASSUME TypeInv, NEW n \in Names, NEW S \in SUBSET AllRoles, issuer' = [issuer EXCEPT ![n] = S]
    PROVE  /\ issuer' \in [Names -> (SUBSET AllRoles) \cup {None}]
           /\ \A m \in Names : issuer[m] # None => issuer'[m] # None
<1>1. S # None
  BY AuthoritiesAssumption
<1> QED
  BY <1>1 DEF TypeInv, TypeOK

\* What is left to show when a pass goes on, or has ended.
LEMMA StepType ==
    ASSUME TypeInv,
           issuer' \in [Names -> (SUBSET AllRoles) \cup {None}],
           \A m \in Names : issuer[m] # None => issuer'[m] # None,
           spec' \in Specs, serial' \in [Names -> 0..MaxSerial],
           expired' \subseteq CACerts, secret' \in {"missing", "broken", "good"},
           bundle' \in Bundles, status' \in Statuses,
           queued' \in BOOLEAN, events' \in 0..MaxEvents,
           \/ work' = Idle
           \/ work' \in Passes /\ \A n \in work'.others : issuer[n] # None
    PROVE  TypeInv'
<1>1. TypeOK'
  BY DEF TypeOK
<1>2. ListedExist'
  <2>1. CASE work' = Idle
    BY <2>1 DEF ListedExist
  <2>2. CASE work' \in Passes /\ \A n \in work'.others : issuer[n] # None
    <3>1. work'.others \subseteq Names
      BY <2>2 DEF Passes
    <3> QED
      BY <2>2, <3>1 DEF ListedExist
  <2> QED
    BY <2>1, <2>2
<1> QED
  BY <1>1, <1>2 DEF TypeInv

\* The end of a pass saves a status.
LEMMA EndPassType ==
    ASSUME NEW st \in Statuses, NEW again \in BOOLEAN, queued \in BOOLEAN, EndPass(st, again)
    PROVE  work' = Idle /\ status' \in Statuses /\ queued' \in BOOLEAN
  BY DEF EndPass

LEMMA PassType == ASSUME TypeInv, PassStep PROVE TypeInv'
<1> USE AuthoritiesAssumption
<1>0. TypeOK /\ (work = Idle \/ work \in Passes)
  BY DEF TypeInv, TypeOK
<1>1. CASE BeginPass
  <2>1. LoadBundle \in Bundles
    BY <1>0 DEF TypeOK, LoadBundle, Valid, Bundles
  <2>2. [ready |-> "Unknown", list |-> {}, cut |-> FALSE] \in Statuses
    BY DEF Statuses
  <2>3. work' \in Passes /\ work'.others = {}
    BY <1>0, <1>1, <2>1, <2>2, RolesFacts DEF BeginPass, TypeOK, Passes
  <2> QED
    BY <1>0, <1>1, <2>3, StepType DEF BeginPass, TypeOK
<1>2. CASE ListIssuers
  <2>1. work \in Passes
    BY <1>0, <1>2 DEF ListIssuers, InRole
  <2>2. \A n \in Others(work.spec, Role) : n \in Names /\ issuer[n] # None
    BY DEF Others, Labelled
  <2>3. work' \in Passes /\ work'.others = Others(work.spec, Role)
    BY <1>2, <2>1, <2>2 DEF ListIssuers, Passes
  <2> QED
    BY <1>0, <1>2, <2>2, <2>3, StepType DEF ListIssuers, TypeOK
<1>3. CASE removeIssuerLabel
  <2>1. work # Idle /\ work \in Passes /\ Role \in AllRoles
    BY <1>0, <1>3, PassFacts DEF removeIssuerLabel, InRole
  <2>2. CASE work.others = {} /\ Do(IF Custom THEN "label" ELSE "cert") /\ UNCHANGED <<issuer, queued>>
    <3>1. work' \in Passes /\ work'.others = {}
      BY <2>1, <2>2 DEF Do, Passes
    <3> QED
      BY <1>0, <1>3, <2>2, <3>1, StepType DEF removeIssuerLabel, TypeOK
  <2>3. ASSUME NEW n \in work.others,
               issuer' = [issuer EXCEPT ![n] = @ \ {Role}],
               work' = [work EXCEPT !.others = @ \ {n}],
               queued' = TRUE
        PROVE  TypeInv'
    <3>1. work' \in Passes /\ work'.others \subseteq work.others
      BY <2>1, <2>3 DEF Passes
    <3>2. n \in Names /\ issuer[n] # None
      BY <2>1 DEF Passes, TypeInv, ListedExist
    <3>3. issuer[n] \ {Role} \in SUBSET AllRoles
      BY <1>0, <3>2 DEF TypeOK
    <3>4. /\ issuer' \in [Names -> (SUBSET AllRoles) \cup {None}]
          /\ \A m \in Names : issuer[m] # None => issuer'[m] # None
      BY <2>3, <3>2, <3>3, LabelType, ZenonT(40)
    <3>5. \A m \in work'.others : issuer[m] # None
      BY <2>1, <3>1 DEF TypeInv, ListedExist
    <3> QED
      BY <1>0, <1>3, <2>3, <3>1, <3>4, <3>5, StepType DEF removeIssuerLabel, TypeOK
  <2> QED
    BY <1>3, <2>2, <2>3 DEF removeIssuerLabel
<1>4. CASE addIssuerLabelAnnotation
  <2>1. work # Idle /\ work \in Passes /\ Role \in AllRoles /\ Name \in Names
    BY <1>0, <1>4, PassFacts DEF addIssuerLabelAnnotation, InRole
  <2>2. CASE issuer[Name] = None
    <3>1. [work.status EXCEPT !.ready = "False"] \in Statuses
      BY <2>1 DEF Passes, Statuses
    <3>2. work' = Idle /\ status' \in Statuses /\ queued' \in BOOLEAN
      BY <1>0, <1>4, <2>2, <3>1, EndPassType DEF addIssuerLabelAnnotation, TypeOK
    <3> QED
      BY <1>0, <1>4, <2>2, <3>2, StepType DEF addIssuerLabelAnnotation, TypeOK
  <2>3. CASE issuer[Name] # None
    <3>1. work' \in Passes /\ work'.others = work.others
      BY <1>4, <2>1, <2>3 DEF addIssuerLabelAnnotation, Do, Passes
    <3>2. issuer[Name] \cup {Role} \in SUBSET AllRoles
      BY <1>0, <2>1, <2>3 DEF TypeOK
    <3>3. /\ issuer' \in [Names -> (SUBSET AllRoles) \cup {None}]
          /\ \A m \in Names : issuer[m] # None => issuer'[m] # None
      BY <1>4, <2>1, <2>3, <3>2, LabelType DEF addIssuerLabelAnnotation
    <3>4. \A m \in work'.others : issuer[m] # None
      BY <2>1, <3>1 DEF TypeInv, ListedExist
    <3>5. queued' \in BOOLEAN
      BY <1>0, <1>4, <2>3 DEF addIssuerLabelAnnotation, TypeOK
    <3> QED
      BY <1>0, <1>4, <2>3, <3>1, <3>3, <3>4, <3>5, StepType DEF addIssuerLabelAnnotation, TypeOK
  <2> QED
    BY <2>2, <2>3
<1>5. CASE createRootCACertAndIssuer
  <2>1. work # Idle /\ work \in Passes /\ Role \in AllRoles /\ Name \in Names
    BY <1>0, <1>5, PassFacts DEF createRootCACertAndIssuer, InRole
  <2>2. work' \in Passes /\ work'.others = work.others
    BY <1>5, <2>1 DEF createRootCACertAndIssuer, Do, Passes
  <2>3. (IF issuer[Name] = None THEN {Role} ELSE issuer[Name] \cup {Role}) \in SUBSET AllRoles
    BY <1>0, <2>1 DEF TypeOK
  <2>4. /\ issuer' \in [Names -> (SUBSET AllRoles) \cup {None}]
        /\ \A m \in Names : issuer[m] # None => issuer'[m] # None
    BY <1>5, <2>1, <2>3, LabelType DEF createRootCACertAndIssuer
  <2>5. \A m \in work'.others : issuer[m] # None
    BY <2>1, <2>2 DEF TypeInv, ListedExist
  <2>6. queued' \in BOOLEAN
    BY <1>0, <1>5 DEF createRootCACertAndIssuer, TypeOK
  <2> QED
    BY <1>0, <1>5, <2>2, <2>4, <2>5, <2>6, StepType DEF createRootCACertAndIssuer, TypeOK
<1>6. CASE getCAFromSecret
  <2>1. work # Idle /\ work \in Passes /\ Role \in AllRoles /\ Name \in Names /\ work.at <= Len(Roles)
    BY <1>0, <1>6, PassFacts DEF getCAFromSecret, InRole
  <2> DEFINE c == <<Name, serial[Name]>>
  <2>2. CASE serial[Name] > 0 /\ c \notin expired
    <3>1. c \in CACerts
      BY <1>0, <2>1, <2>2 DEF TypeOK, CACerts
    <3>2. work' = ensureCaBundles(work, c) /\ UNCHANGED <<status, queued>>
      BY <1>6, <2>2 DEF getCAFromSecret
    <3>3. work' \in Passes /\ work'.others = work.others
      <4> HIDE DEF c
      <4>1. work.bundle \in Bundles /\ work.status \in Statuses
        BY <2>1 DEF Passes
      <4>2. [work.bundle EXCEPT !.full = @ \cup {c}, !.only = @ \cup {c}] \in Bundles
        BY <3>1, <4>1 DEF Bundles
      <4>3. [work.status EXCEPT !.list = @ \cup {c}] \in Statuses
        BY <3>1, <4>1 DEF Statuses
      <4>4. work.at + 1 \in 1..(Len(Roles) + 1)
        BY <2>1, RolesFacts DEF Passes
      <4> QED
        BY <2>1, <3>2, <4>1, <4>2, <4>3, <4>4 DEF ensureCaBundles, Passes, Bundles, Statuses
    <3>4. \A m \in work'.others : issuer[m] # None
      BY <2>1, <3>3 DEF TypeInv, ListedExist
    <3> QED
      BY <1>0, <1>6, <3>2, <3>3, <3>4, StepType DEF getCAFromSecret, TypeOK
  <2>3. CASE ~(serial[Name] > 0 /\ c \notin expired)
    <3>1. [work.status EXCEPT !.ready = IF serial[Name] = 0 THEN "False" ELSE @] \in Statuses
      BY <2>1 DEF Passes, Statuses
    <3>2. work' = Idle /\ status' \in Statuses /\ queued' \in BOOLEAN
      BY <1>0, <1>6, <2>3, <3>1, EndPassType DEF getCAFromSecret, TypeOK
    <3> QED
      BY <1>0, <1>6, <3>2, StepType DEF getCAFromSecret, TypeOK
  <2> QED
    BY <2>2, <2>3
<1>7. CASE AddUserCerts
  <2>1. work # Idle /\ work \in Passes
    BY <1>0, <1>7 DEF AddUserCerts, InBundle
  <2>2. CASE work' = Idle
    <3>1. [work.status EXCEPT !.ready = IF secret = "missing" THEN "False" ELSE @] \in Statuses
      BY <2>1 DEF Passes, Statuses
    <3>2. status' \in Statuses /\ queued' \in BOOLEAN
      BY <1>0, <1>7, <3>1, EndPassType DEF AddUserCerts, TypeOK
    <3> QED
      BY <1>0, <1>7, <2>2, <3>2, StepType DEF AddUserCerts, TypeOK
  <2>3. CASE Do("publish") /\ UNCHANGED <<status, queued>>
    <3>1. work' \in Passes /\ work'.others = work.others
      BY <2>1, <2>3 DEF Do, Passes
    <3>2. \A m \in work'.others : issuer[m] # None
      BY <2>1, <3>1 DEF TypeInv, ListedExist
    <3> QED
      BY <1>0, <1>7, <2>3, <3>1, <3>2, StepType DEF AddUserCerts, TypeOK
  <2>4. CASE /\ work' = [work EXCEPT !.do = "publish", !.bundle.full = @ \cup Valid({User})]
             /\ UNCHANGED <<status, queued>>
    <3>1. work' \in Passes /\ work'.others = work.others
      <4>1. [work.bundle EXCEPT !.full = @ \cup Valid({User})] \in Bundles
        BY <2>1 DEF Passes, Bundles, Valid
      <4> QED
        BY <2>1, <2>4, <4>1 DEF Passes
    <3>2. \A m \in work'.others : issuer[m] # None
      BY <2>1, <3>1 DEF TypeInv, ListedExist
    <3> QED
      BY <1>0, <1>7, <2>4, <3>1, <3>2, StepType DEF AddUserCerts, TypeOK
  <2> QED
    BY <1>7, <2>2, <2>3, <2>4 DEF AddUserCerts, EndPass
<1>8. CASE AddImageCerts
  <2>1. work # Idle /\ work \in Passes
    BY <1>0, <1>8 DEF AddImageCerts, InBundle
  <2>2. [work.bundle EXCEPT !.full = @ \cup {System}] \in Bundles
    BY <2>1 DEF Passes, Bundles
  <2>3. work' \in Passes /\ work'.others = work.others
    <3>1. [work.status EXCEPT !.ready = "True"] \in Statuses
      BY <2>1 DEF Passes, Statuses
    <3> QED
      BY <1>8, <2>1, <2>2, <3>1 DEF AddImageCerts, Passes
  <2>4. \A m \in work'.others : issuer[m] # None
    BY <2>1, <2>3 DEF TypeInv, ListedExist
  <2> QED
    BY <1>0, <1>8, <2>3, <2>4, StepType DEF AddImageCerts, TypeOK
<1>9. CASE EnsureSecrets
  <2>1. work # Idle /\ work \in Passes
    BY <1>0, <1>9 DEF EnsureSecrets, InBundle
  <2>2. work' \in Passes /\ work'.others = work.others /\ work.bundle \in Bundles
    BY <1>9, <2>1 DEF EnsureSecrets, Do, Passes
  <2>3. \A m \in work'.others : issuer[m] # None
    BY <2>1, <2>2 DEF TypeInv, ListedExist
  <2> QED
    BY <1>0, <1>9, <2>2, <2>3, StepType DEF EnsureSecrets, TypeOK
<1>10. CASE PatchInstance
  <2>1. work.status \in Statuses
    BY <1>0, <1>10 DEF PatchInstance, InBundle, Passes
  <2>2. work' = Idle /\ status' \in Statuses /\ queued' \in BOOLEAN
    BY <1>0, <1>10, <2>1, EndPassType DEF PatchInstance, TypeOK
  <2> QED
    BY <1>0, <1>10, <2>2, StepType DEF PatchInstance, TypeOK
<1> QED
  BY <1>1, <1>2, <1>3, <1>4, <1>5, <1>6, <1>7, <1>8, <1>9, <1>10 DEF PassStep

\* A pass under way, with the issuers it listed, stays what it is.
LEMMA PassKept ==
    ASSUME TypeInv, UNCHANGED work
    PROVE  \/ work' = Idle
           \/ work' \in Passes /\ \A n \in work'.others : issuer[n] # None
  BY DEF TypeInv, TypeOK, ListedExist

LEMMA FaultType == ASSUME TypeInv, Fail \/ ImageBundleFails \/ Crash \/ Resync PROVE TypeInv'
<1> USE AuthoritiesAssumption
<1>0. TypeOK /\ (work = Idle \/ work \in Passes)
  BY DEF TypeInv, TypeOK
<1>1. CASE Fail
  <2>1. work \in Passes /\ Failed \in {"none", "Unknown", "False", "True"}
    BY <1>0, <1>1 DEF Fail, Failed, Passes, Statuses
  <2>2. [work.status EXCEPT !.ready = Failed] \in Statuses
    BY <2>1 DEF Passes, Statuses
  <2>3. work' = Idle /\ status' \in Statuses /\ queued' \in BOOLEAN
    BY <1>0, <1>1, <2>2, EndPassType DEF Fail, TypeOK
  <2>4. events' \in 0..MaxEvents
    BY <1>0, <1>1 DEF Fail, Event, TypeOK
  <2> QED
    BY <1>0, <1>1, <2>3, <2>4, StepType DEF Fail, TypeOK
<1>2. CASE Crash
  <2>1. events' \in 0..MaxEvents
    BY <1>0, <1>2 DEF Crash, Event, TypeOK
  <2> QED
    BY <1>0, <1>2, <2>1, StepType DEF Crash, TypeOK
<1>3. CASE Resync
  BY <1>0, <1>3, PassKept, StepType DEF Resync, TypeOK
<1>4. CASE ImageBundleFails
  <2>1. [work.status EXCEPT !.ready = "True", !.cut = TRUE] \in Statuses
    BY <1>0, <1>4 DEF ImageBundleFails, InBundle, Passes, Statuses
  <2>2. work' = Idle /\ status' \in Statuses /\ queued' \in BOOLEAN
    BY <1>0, <1>4, <2>1, EndPassType DEF ImageBundleFails, TypeOK
  <2>3. events' \in 0..MaxEvents
    BY <1>0, <1>4 DEF ImageBundleFails, Event, TypeOK
  <2> QED
    BY <1>0, <1>4, <2>2, <2>3, StepType DEF ImageBundleFails, TypeOK
<1> QED
  BY <1>1, <1>2, <1>3, <1>4

\* A new certificate of a CA.
LEMMA ReplaceType ==
    ASSUME TypeInv, NEW n \in Names, Replace(n), queued' \in BOOLEAN, events' \in 0..MaxEvents
    PROVE  TypeInv'
<1>0. TypeOK
  BY DEF TypeInv
<1>1. serial' \in [Names -> 0..MaxSerial]
  BY <1>0, AuthoritiesAssumption DEF Replace, TypeOK
<1> QED
  BY <1>0, <1>1, PassKept, StepType DEF Replace, TypeOK

LEMMA EnvironmentType ==
    ASSUME TypeInv,
           \/ OthersStep
           \/ \E n \in Names : RenewRootCA(n) \/ Rotate(n)
           \/ \E c \in CACerts : Expire(c)
           \/ \E r \in AllRoles, n \in Issuers \cup {None} : SetIssuer(r, n)
           \/ SetBundleSecret
    PROVE  TypeInv'
<1> USE AuthoritiesAssumption
<1>0. TypeOK
  BY DEF TypeInv
<1>1. CASE WriteSecret
  BY <1>0, <1>1, PassKept, StepType DEF WriteSecret, TypeOK
<1>2. ASSUME NEW n \in Names, IssueRootCA(n) \/ ReplaceExpired(n) PROVE TypeInv'
  BY <1>0, <1>2, ReplaceType DEF IssueRootCA, ReplaceExpired, TypeOK
<1>3. ASSUME NEW n \in Names, RenewRootCA(n) \/ Rotate(n) PROVE TypeInv'
  <2>1. events' \in 0..MaxEvents
    BY <1>0, <1>3 DEF RenewRootCA, Rotate, Event, TypeOK
  <2> QED
    BY <1>0, <1>3, <2>1, ReplaceType DEF RenewRootCA, Rotate, TypeOK
<1>4. ASSUME NEW n \in Names, CreateIssuer(n) PROVE TypeInv'
  <2>1. /\ issuer' \in [Names -> (SUBSET AllRoles) \cup {None}]
        /\ \A m \in Names : issuer[m] # None => issuer'[m] # None
    BY <1>4, LabelType DEF CreateIssuer
  <2>2. serial' \in [Names -> 0..MaxSerial]
    BY <1>0, <1>4 DEF CreateIssuer, TypeOK
  <2>3. queued' \in BOOLEAN
    BY <1>0, <1>4 DEF CreateIssuer, findObjectsForSrc, TypeOK
  <2> QED
    BY <1>0, <1>4, <2>1, <2>2, <2>3, PassKept, StepType DEF CreateIssuer, TypeOK
<1>5. ASSUME NEW c \in CACerts, Expire(c) PROVE TypeInv'
  <2>1. events' \in 0..MaxEvents /\ expired' \subseteq CACerts
    BY <1>0, <1>5 DEF Expire, Event, TypeOK
  <2> QED
    BY <1>0, <1>5, <2>1, PassKept, StepType DEF Expire, TypeOK
<1>6. ASSUME NEW r \in AllRoles, NEW n \in Issuers \cup {None}, SetIssuer(r, n) PROVE TypeInv'
  <2>1. events' \in 0..MaxEvents
    BY <1>0, <1>6 DEF SetIssuer, Event, TypeOK
  <2>2. spec' \in Specs
    BY <1>0, <1>6 DEF SetIssuer, TypeOK, Specs
  <2> QED
    BY <1>0, <1>6, <2>1, <2>2, PassKept, StepType DEF SetIssuer, TypeOK
<1>7. CASE SetBundleSecret
  <2>1. events' \in 0..MaxEvents
    BY <1>0, <1>7 DEF SetBundleSecret, Event, TypeOK
  <2>2. spec' \in Specs
    BY <1>0, <1>7 DEF SetBundleSecret, TypeOK, Specs
  <2> QED
    BY <1>0, <1>7, <2>1, <2>2, PassKept, StepType DEF SetBundleSecret, TypeOK
<1> QED
  BY <1>1, <1>2, <1>3, <1>4, <1>5, <1>6, <1>7 DEF OthersStep

LEMMA NextType == TypeInv /\ [Next]_vars => TypeInv'
<1> SUFFICES ASSUME TypeInv, [Next]_vars PROVE TypeInv'
  OBVIOUS
<1>1. CASE UNCHANGED vars
  BY <1>1 DEF vars, TypeInv, TypeOK, ListedExist
<1> QED
  BY <1>1, PassType, FaultType, EnvironmentType DEF Next

\* The types of ReconcileCAs' data: the issuers' labels, the bundle, the status
\* and the copy a pass works on are what the code takes them for.
THEOREM AuthoritiesTypeCorrect == Spec => []TypeOK
<1>1. Spec => []TypeInv
  BY InitType, NextType, PTL DEF Spec
<1>2. TypeInv => TypeOK
  BY DEF TypeInv
<1> QED
  BY <1>1, <1>2, PTL

----------------------------------------------------------------------------
(* One issuer per role *)

LabelInv == OneLabel /\ ListedOthers

\* A step that gives no label, and after which the pass, if there is one, is
\* where it was or not about to take or give a label.
LEMMA LabelFrame ==
    ASSUME TypeInv, LabelInv,
           \A r \in AllRoles : Labelled(r)' \subseteq Labelled(r),
           \/ work' = work
           \/ work' = Idle
           \/ work'.do \notin {"unlabel", "label", "cert"}
    PROVE  LabelInv'
<1>1. OneLabel'
  BY DEF LabelInv, OneLabel
<1>2. CASE work' = work
  <2>1. SUFFICES ASSUME work # Idle, work.at <= Len(Roles)
                 PROVE  /\ work.do = "unlabel" => Others(work.spec, Role)' \subseteq work.others
                        /\ work.do \in {"label", "cert"} => Others(work.spec, Role)' = {}
    BY <1>1, <1>2 DEF LabelInv, ListedOthers
  <2>2. Role \in AllRoles
    BY <2>1, PassFacts DEF TypeInv
  <2>3. Others(work.spec, Role)' \subseteq Others(work.spec, Role)
    BY <1>2, <2>2 DEF Others, Role, IssuerOf
  <2> QED
    BY <2>1, <2>3 DEF LabelInv, ListedOthers
<1>3. CASE work' = Idle
  BY <1>1, <1>3 DEF LabelInv, ListedOthers
<1>4. CASE work'.do \notin {"unlabel", "label", "cert"}
  BY <1>1, <1>4 DEF LabelInv, ListedOthers
<1> QED
  BY <1>2, <1>3, <1>4

\* A role gets its label only when no other issuer has it.
LEMMA GiveLabel ==
    ASSUME TypeInv, LabelInv, work # Idle, work.at <= Len(Roles),
           work.do \in {"label", "cert"}, Do("secret"),
           NEW S \in SUBSET AllRoles, S \ {Role} \subseteq issuer[Name], issuer[Name] # None \/ S \subseteq {Role},
           issuer' = [issuer EXCEPT ![Name] = S]
    PROVE  LabelInv'
<1>1. work \in Passes /\ Role \in AllRoles /\ Name \in Names
  BY PassFacts DEF TypeInv
<1>2. issuer \in [Names -> (SUBSET AllRoles) \cup {None}]
  BY DEF TypeInv, TypeOK
<1>3. \A r \in AllRoles : r # Role => Labelled(r)' \subseteq Labelled(r)
  BY <1>1, <1>2 DEF Labelled
<1>4. Labelled(Role) \subseteq {Name}
  BY DEF LabelInv, ListedOthers, Others, Name
<1>5. \A n \in Names : issuer'[n] # None /\ Role \in issuer'[n] => n = Name
  BY <1>1, <1>2, <1>4 DEF Labelled
<1>6. \A r \in AllRoles : \A n, m \in Labelled(r)' : n = m
  <2> SUFFICES ASSUME NEW r \in AllRoles, NEW n \in Labelled(r)', NEW m \in Labelled(r)' PROVE n = m
    OBVIOUS
  <2>1. CASE r = Role
    BY <1>5, <2>1 DEF Labelled
  <2>2. CASE r # Role
    BY <1>3, <2>2 DEF LabelInv, OneLabel
  <2> QED
    BY <2>1, <2>2
<1>7. work'.do = "secret"
  BY <1>1 DEF Do, Passes
<1> QED
  BY <1>6, <1>7 DEF LabelInv, OneLabel, ListedOthers

LEMMA NextLabel == ASSUME TypeInv, LabelInv, [Next]_vars PROVE LabelInv'
<1>0. TypeOK /\ (work = Idle \/ work \in Passes)
  BY DEF TypeInv, TypeOK
<1>a. ASSUME UNCHANGED issuer PROVE \A r \in AllRoles : Labelled(r)' \subseteq Labelled(r)
  BY <1>a DEF Labelled
<1>1. CASE BeginPass
  <2>1. work'.do = "list"
    BY <1>1 DEF BeginPass
  <2> QED
    BY <1>1, <1>a, <2>1, LabelFrame DEF BeginPass
<1>2. CASE ListIssuers
  <2>1. work \in Passes /\ work # Idle /\ work.at <= Len(Roles)
    BY <1>0, <1>2 DEF ListIssuers, InRole
  <2>2. /\ work'.do = "unlabel" /\ work'.others = Others(work.spec, Role)
        /\ work'.spec = work.spec /\ work'.at = work.at
    BY <1>2, <2>1 DEF ListIssuers, Passes
  <2>3. Others(work.spec, Role)' = Others(work.spec, Role)
    BY <1>2, <2>2 DEF ListIssuers, Others, Labelled, Role, IssuerOf
  <2>4. OneLabel'
    BY <1>2, <1>a DEF ListIssuers, LabelInv, OneLabel
  <2> QED
    BY <2>2, <2>3, <2>4 DEF LabelInv, ListedOthers
<1>3. CASE removeIssuerLabel
  <2>1. /\ work \in Passes /\ work # Idle /\ work.at <= Len(Roles) /\ work.do = "unlabel"
        /\ Role \in AllRoles
    BY <1>0, <1>3, PassFacts DEF removeIssuerLabel, InRole
  <2>2. Others(work.spec, Role) \subseteq work.others
    BY <2>1 DEF LabelInv, ListedOthers
  <2>3. CASE work.others = {} /\ Do(IF Custom THEN "label" ELSE "cert") /\ UNCHANGED <<issuer, queued>>
    <3>1. work'.spec = work.spec /\ work'.at = work.at /\ work'.do \in {"label", "cert"}
      BY <2>1, <2>3 DEF Do, Passes
    <3>2. Others(work.spec, Role)' = {}
      BY <2>2, <2>3, <3>1 DEF Others, Labelled, Role, IssuerOf
    <3>3. OneLabel'
      BY <2>3, <1>a DEF LabelInv, OneLabel
    <3> QED
      BY <3>1, <3>2, <3>3 DEF LabelInv, ListedOthers
  <2>4. ASSUME NEW n \in work.others,
               issuer' = [issuer EXCEPT ![n] = @ \ {Role}],
               work' = [work EXCEPT !.others = @ \ {n}]
        PROVE  LabelInv'
    <3>1. /\ work'.spec = work.spec /\ work'.at = work.at /\ work'.do = "unlabel"
          /\ work'.others = work.others \ {n}
      BY <2>1, <2>4 DEF Passes
    <3>2. n \in Names /\ issuer[n] # None /\ issuer \in [Names -> (SUBSET AllRoles) \cup {None}]
      BY <1>0, <2>1 DEF Passes, TypeInv, ListedExist, TypeOK
    <3>3. \A r \in AllRoles : Labelled(r)' \subseteq Labelled(r)
      BY <2>4, <3>2 DEF Labelled
    <3>4. n \notin Labelled(Role)'
      BY <2>1, <2>4, <3>1, <3>2 DEF Labelled, Role
    <3>5. Others(work.spec, Role)' \subseteq Others(work.spec, Role) \ {n}
      BY <2>1, <3>1, <3>3, <3>4 DEF Others, Role, IssuerOf
    <3>6. OneLabel'
      BY <3>3 DEF LabelInv, OneLabel
    <3> QED
      BY <2>2, <3>1, <3>5, <3>6 DEF LabelInv, ListedOthers
  <2> QED
    BY <1>3, <2>3, <2>4 DEF removeIssuerLabel
<1>4. CASE addIssuerLabelAnnotation
  <2>1. /\ work \in Passes /\ work # Idle /\ work.at <= Len(Roles) /\ work.do = "label"
        /\ Role \in AllRoles /\ Name \in Names
    BY <1>0, <1>4, PassFacts DEF addIssuerLabelAnnotation, InRole
  <2>2. CASE issuer[Name] = None
    BY <1>4, <1>a, <2>2, LabelFrame DEF addIssuerLabelAnnotation, EndPass
  <2>3. CASE issuer[Name] # None
    <3>1. issuer[Name] \cup {Role} \in SUBSET AllRoles
      BY <1>0, <2>1, <2>3 DEF TypeOK
    <3>2. issuer' = [issuer EXCEPT ![Name] = issuer[Name] \cup {Role}] /\ Do("secret")
      BY <1>4, <2>3 DEF addIssuerLabelAnnotation
    <3> QED
      BY <2>1, <2>3, <3>1, <3>2, GiveLabel
  <2> QED
    BY <2>2, <2>3
<1>5. CASE createRootCACertAndIssuer
  <2>1. /\ work \in Passes /\ work # Idle /\ work.at <= Len(Roles) /\ work.do = "cert"
        /\ Role \in AllRoles /\ Name \in Names
    BY <1>0, <1>5, PassFacts DEF createRootCACertAndIssuer, InRole
  <2> DEFINE S == IF issuer[Name] = None THEN {Role} ELSE issuer[Name] \cup {Role}
  <2>2. S \in SUBSET AllRoles /\ S \ {Role} \subseteq issuer[Name] /\ (issuer[Name] # None \/ S \subseteq {Role})
    BY <1>0, <2>1 DEF TypeOK
  <2>3. issuer' = [issuer EXCEPT ![Name] = S] /\ Do("secret")
    BY <1>5 DEF createRootCACertAndIssuer
  <2> HIDE DEF S
  <2> QED
    BY <2>1, <2>2, <2>3, GiveLabel
<1>6. CASE getCAFromSecret
  <2>1. work' = Idle \/ work'.do = "list"
    BY <1>0, <1>6 DEF getCAFromSecret, InRole, EndPass, ensureCaBundles, Passes
  <2> QED
    BY <1>6, <1>a, <2>1, LabelFrame DEF getCAFromSecret
<1>7. CASE AddUserCerts \/ AddImageCerts \/ EnsureSecrets \/ PatchInstance
  <2>1. work' = Idle \/ work'.do \in {"publish", "write", "save"}
    BY <1>0, <1>7 DEF AddUserCerts, AddImageCerts, EnsureSecrets, PatchInstance, InBundle, EndPass, Do, Passes
  <2> QED
    BY <1>7, <1>a, <2>1, LabelFrame DEF AddUserCerts, AddImageCerts, EnsureSecrets, PatchInstance
<1>8. CASE Fail \/ ImageBundleFails \/ Crash \/ Resync
  BY <1>8, <1>a, LabelFrame DEF Fail, ImageBundleFails, Crash, Resync, EndPass
<1>9. ASSUME NEW n \in Names, CreateIssuer(n) PROVE LabelInv'
  <2>1. \A r \in AllRoles : Labelled(r)' \subseteq Labelled(r)
    BY <1>0, <1>9 DEF CreateIssuer, Labelled, TypeOK
  <2> QED
    BY <1>9, <2>1, LabelFrame DEF CreateIssuer
<1>10. ASSUME NEW n \in Names, IssueRootCA(n) \/ ReplaceExpired(n) \/ RenewRootCA(n) \/ Rotate(n)
       PROVE  LabelInv'
  <2>1. UNCHANGED <<issuer, work>>
    BY <1>10 DEF IssueRootCA, ReplaceExpired, RenewRootCA, Rotate, Replace
  <2> QED
    BY <1>a, <2>1, LabelFrame
<1>11. CASE \/ WriteSecret \/ SetBundleSecret
            \/ \E c \in CACerts : Expire(c)
            \/ \E r \in AllRoles, n \in Issuers \cup {None} : SetIssuer(r, n)
  <2>1. UNCHANGED <<issuer, work>>
    BY <1>11 DEF WriteSecret, SetBundleSecret, Expire, SetIssuer
  <2> QED
    BY <1>a, <2>1, LabelFrame
<1>12. CASE UNCHANGED vars
  BY <1>12, <1>a, LabelFrame DEF vars
<1> QED
  BY <1>1, <1>2, <1>3, <1>4, <1>5, <1>6, <1>7, <1>8, <1>9, <1>10, <1>11, <1>12
     DEF Next, PassStep, OthersStep

LEMMA InitLabel == Init => LabelInv
  BY DEF Init, LabelInv, OneLabel, ListedOthers, Labelled

\* A set without two different members has at most one.
LEMMA AtMostOne == ASSUME NEW S, \A x, y \in S : x = y PROVE Cardinality(S) <= 1
<1>1. CASE S = {}
  BY <1>1, FS_EmptySet
<1>2. CASE S # {}
  <2>1. PICK x \in S : S = {x}
    BY <1>2
  <2> QED
    BY <2>1, FS_Singleton
<1> QED
  BY <1>1, <1>2

\* removeIssuerLabel and the two calls that give a label never leave two issuers
\* with the label of one role, whatever fails, stops or is edited in between:
\* internal/dataplane/cert.go always finds one issuer or none.
THEOREM OneIssuerPerRole == Spec => []SingleIssuer
<1>1. Spec => [](TypeInv /\ LabelInv)
  BY InitType, NextType, InitLabel, NextLabel, PTL DEF Spec
<1>2. LabelInv => SingleIssuer
  BY AtMostOne DEF LabelInv, OneLabel, SingleIssuer
<1> QED
  BY <1>1, <1>2, PTL

----------------------------------------------------------------------------
(* Trust *)

\* A step that does not touch the bundle, the status and the pass: at most more
\* certificates have expired after it, and a pass that is to come still is.
LEMMA TrustFrame ==
    ASSUME TrustInv, UNCHANGED <<bundle, status>>, work' = work \/ work' = Idle, expired \subseteq expired',
           queued \/ work # Idle => queued' \/ work' # Idle
    PROVE  TrustInv'
<1>1. \A S : Valid(S)' \subseteq Valid(S)
  BY DEF Valid
<1>2. ReadyMeansTrusted'
  BY <1>1 DEF TrustInv, ReadyMeansTrusted, Reported
<1>3. LoadedBundle' /\ CollectedCAs'
  BY <1>1 DEF TrustInv, LoadedBundle, CollectedCAs
<1> QED
  BY <1>2, <1>3 DEF TrustInv

\* The end of a pass: the CAs it calls ready are in the bundle, or it comes back.
LEMMA EndTrust ==
    ASSUME TrustInv, NEW st, NEW again, EndPass(st, again), UNCHANGED <<bundle, expired>>,
           st.ready = "True" => st.list \subseteq bundle.full \cap bundle.only \/ (st.cut /\ again)
    PROVE  TrustInv'
<1>1. work' = Idle /\ status' = st /\ (again => queued')
  BY DEF EndPass
<1> QED
  BY <1>1 DEF TrustInv, LoadedBundle, CollectedCAs, ReadyMeansTrusted, Reported, Valid

\* A step of a pass that only adds to the bundle it works on.
LEMMA StepTrust ==
    ASSUME TrustInv, work # Idle, work' # Idle, UNCHANGED <<bundle, status, expired>>,
           work.do \notin {"write", "save"}, work'.do \notin {"write", "save"},
           work.bundle.full \subseteq work'.bundle.full, work.bundle.only \subseteq work'.bundle.only,
           work'.status.list \subseteq work.status.list \cup (work'.bundle.full \cap work'.bundle.only),
           work'.status.ready = work.status.ready
    PROVE  TrustInv'
  BY DEF TrustInv, LoadedBundle, CollectedCAs, ReadyMeansTrusted, Reported, Valid

LEMMA NextTrust == ASSUME TypeInv, TrustInv, [Next]_vars PROVE TrustInv'
<1>0. TypeOK /\ (work = Idle \/ work \in Passes)
  BY DEF TypeInv, TypeOK
<1>1. CASE BeginPass
  <2>1. /\ work'.bundle = LoadBundle /\ work'.do = "list"
        /\ work'.status.list = {} /\ work'.status.ready = "Unknown"
        /\ work' # Idle
    BY <1>1 DEF BeginPass, Idle
  <2> QED
    BY <1>1, <2>1
       DEF BeginPass, TrustInv, LoadedBundle, CollectedCAs, ReadyMeansTrusted, Reported, LoadBundle, Valid
<1>2. CASE ListIssuers
  <2>1. work \in Passes /\ work # Idle /\ work.do = "list"
    BY <1>0, <1>2 DEF ListIssuers, InRole
  <2>2. /\ work'.do = "unlabel" /\ work'.bundle = work.bundle /\ work'.status = work.status
        /\ work' # Idle
    BY <1>2, <2>1 DEF ListIssuers, Passes, Idle
  <2> QED
    BY <1>2, <2>1, <2>2, StepTrust DEF ListIssuers
<1>3. CASE removeIssuerLabel
  <2>1. work \in Passes /\ work # Idle /\ work.do = "unlabel"
    BY <1>0, <1>3 DEF removeIssuerLabel, InRole
  <2>2. /\ work'.do \notin {"write", "save"} /\ work'.bundle = work.bundle /\ work'.status = work.status
        /\ work' # Idle
    BY <1>3, <2>1 DEF removeIssuerLabel, Do, Passes, Idle
  <2> QED
    BY <1>3, <2>1, <2>2, StepTrust DEF removeIssuerLabel
<1>4. CASE addIssuerLabelAnnotation
  <2>1. work \in Passes /\ work # Idle /\ work.do = "label"
    BY <1>0, <1>4 DEF addIssuerLabelAnnotation, InRole
  <2>2. CASE issuer[Name] = None
    <3>1. [work.status EXCEPT !.ready = "False"].ready = "False"
      BY <2>1 DEF Passes, Statuses
    <3> QED
      BY <1>4, <2>2, <3>1, EndTrust DEF addIssuerLabelAnnotation
  <2>3. CASE issuer[Name] # None
    <3>1. /\ work'.do = "secret" /\ work'.bundle = work.bundle /\ work'.status = work.status
          /\ work' # Idle
      BY <1>4, <2>1, <2>3 DEF addIssuerLabelAnnotation, Do, Passes, Idle
    <3> QED
      BY <1>4, <2>1, <2>3, <3>1, StepTrust DEF addIssuerLabelAnnotation
  <2> QED
    BY <2>2, <2>3
<1>5. CASE createRootCACertAndIssuer
  <2>1. work \in Passes /\ work # Idle /\ work.do = "cert"
    BY <1>0, <1>5 DEF createRootCACertAndIssuer, InRole
  <2>2. /\ work'.do = "secret" /\ work'.bundle = work.bundle /\ work'.status = work.status
        /\ work' # Idle
    BY <1>5, <2>1 DEF createRootCACertAndIssuer, Do, Passes, Idle
  <2> QED
    BY <1>5, <2>1, <2>2, StepTrust DEF createRootCACertAndIssuer
<1>6. CASE getCAFromSecret
  <2>1. work \in Passes /\ work # Idle /\ work.do = "secret" /\ work.status.ready = "Unknown"
    BY <1>0, <1>6 DEF getCAFromSecret, InRole, TrustInv, CollectedCAs
  <2> DEFINE c == <<Name, serial[Name]>>
  <2>2. CASE serial[Name] > 0 /\ c \notin expired
    <3>1. work' = ensureCaBundles(work, c) /\ UNCHANGED <<status, bundle, expired>>
      BY <1>6, <2>2 DEF getCAFromSecret
    <3> HIDE DEF c
    <3>2. /\ work'.do = "list" /\ work' # Idle
          /\ work'.bundle.full = work.bundle.full \cup {c} /\ work'.bundle.only = work.bundle.only \cup {c}
          /\ work'.status.list = work.status.list \cup {c} /\ work'.status.ready = work.status.ready
      BY <2>1, <3>1 DEF ensureCaBundles, Passes, Bundles, Statuses, Idle
    <3> QED
      BY <2>1, <3>1, <3>2, StepTrust
  <2>3. CASE ~(serial[Name] > 0 /\ c \notin expired)
    <3>1. [work.status EXCEPT !.ready = IF serial[Name] = 0 THEN "False" ELSE @].ready # "True"
      BY <2>1 DEF Passes, Statuses
    <3> QED
      BY <1>6, <2>3, <3>1, EndTrust DEF getCAFromSecret
  <2> QED
    BY <2>2, <2>3
<1>7. CASE AddUserCerts
  <2>1. work \in Passes /\ work # Idle /\ work.do = "list" /\ work.status.ready = "Unknown"
    BY <1>0, <1>7 DEF AddUserCerts, InBundle, TrustInv, CollectedCAs
  <2>2. CASE work' = Idle
    <3>1. [work.status EXCEPT !.ready = IF secret = "missing" THEN "False" ELSE @].ready # "True"
      BY <2>1 DEF Passes, Statuses
    <3>2. work' # Idle \/ EndPass([work.status EXCEPT !.ready = IF secret = "missing" THEN "False" ELSE @], TRUE)
      BY <1>7, <2>1 DEF AddUserCerts, Do, Passes, Idle
    <3> QED
      BY <1>7, <2>2, <3>1, <3>2, EndTrust DEF AddUserCerts
  <2>3. CASE /\ \/ Do("publish")
                \/ work' = [work EXCEPT !.do = "publish", !.bundle.full = @ \cup Valid({User})]
             /\ UNCHANGED <<status, queued>>
    <3>1. /\ work'.do = "publish" /\ work' # Idle
          /\ work.bundle.full \subseteq work'.bundle.full /\ work'.bundle.only = work.bundle.only
          /\ work'.status = work.status
      <4>1. CASE Do("publish")
        BY <2>1, <4>1 DEF Do, Passes, Idle
      <4>2. CASE work' = [work EXCEPT !.do = "publish", !.bundle.full = @ \cup Valid({User})]
        BY <2>1, <4>2 DEF Passes, Bundles, Idle
      <4> QED
        BY <2>3, <4>1, <4>2
    <3> QED
      BY <1>7, <2>1, <2>3, <3>1, StepTrust DEF AddUserCerts
  <2> QED
    BY <1>7, <2>2, <2>3 DEF AddUserCerts, EndPass
<1>8. CASE EnsureSecrets
  <2>1. work \in Passes /\ work # Idle /\ work.do = "write"
    BY <1>0, <1>8 DEF EnsureSecrets, InBundle
  <2>2. bundle' = work.bundle /\ UNCHANGED <<status, expired>>
    BY <1>8 DEF EnsureSecrets
  <2>3. work'.do = "save" /\ work'.bundle = work.bundle /\ work'.status = work.status /\ work' # Idle
    BY <1>8, <2>1 DEF EnsureSecrets, Do, Passes, Idle
  <2> QED
    BY <2>1, <2>2, <2>3 DEF TrustInv, LoadedBundle, CollectedCAs, ReadyMeansTrusted, Reported, Valid
<1>8a. CASE AddImageCerts
  <2>1. work \in Passes /\ work # Idle /\ work.do = "publish"
    BY <1>0, <1>8a DEF AddImageCerts, InBundle
  <2>2. /\ work'.do = "write" /\ work' # Idle /\ work'.status.list = work.status.list
        /\ work'.bundle.full = work.bundle.full \cup {System} /\ work'.bundle.only = work.bundle.only
    BY <1>8a, <2>1 DEF AddImageCerts, Passes, Bundles, Statuses, Idle
  <2>3. UNCHANGED <<bundle, status, expired>>
    BY <1>8a DEF AddImageCerts
  <2> QED
    BY <2>1, <2>2, <2>3 DEF TrustInv, LoadedBundle, CollectedCAs, ReadyMeansTrusted, Reported, Valid
<1>8b. CASE ImageBundleFails
  <2> DEFINE st == [work.status EXCEPT !.ready = "True", !.cut = TRUE]
  <2>1. st.cut
    BY <1>0, <1>8b DEF ImageBundleFails, InBundle, Passes, Statuses
  <2>2. EndPass(st, TRUE) /\ UNCHANGED <<bundle, expired>>
    BY <1>8b DEF ImageBundleFails
  <2> HIDE DEF st
  <2> QED
    BY <2>1, <2>2, EndTrust
<1>9. CASE PatchInstance
  BY <1>9, EndTrust DEF PatchInstance, InBundle, TrustInv, CollectedCAs
<1>10. CASE Fail
  <2>1. work \in Passes /\ work # Idle
    BY <1>0, <1>10 DEF Fail
  <2> DEFINE st == [work.status EXCEPT !.ready = Failed]
  <2>2. st.ready = Failed /\ st.list = work.status.list
    BY <2>1 DEF Passes, Statuses
  <2>3. Failed = "True" => work.do = "save"
    BY <2>1 DEF Failed, TrustInv, CollectedCAs
  <2>4. EndPass(st, TRUE) /\ UNCHANGED <<bundle, expired>>
    BY <1>10 DEF Fail
  <2>5. st.ready = "True" => st.list \subseteq bundle.full \cap bundle.only
    BY <2>1, <2>2, <2>3 DEF TrustInv, CollectedCAs
  <2> HIDE DEF st
  <2> QED
    BY <2>4, <2>5, EndTrust
<1>11. CASE Crash \/ Resync \/ WriteSecret \/ SetBundleSecret
  BY <1>11, TrustFrame DEF Crash, Resync, WriteSecret, SetBundleSecret
<1>11a. ASSUME NEW n \in Names, IssueRootCA(n) \/ CreateIssuer(n) \/ ReplaceExpired(n) PROVE TrustInv'
  <2>1. UNCHANGED <<bundle, status, work, expired>>
    BY <1>11a DEF IssueRootCA, CreateIssuer, ReplaceExpired, Replace
  <2>2. ASSUME queued PROVE queued'
    <3>1. queued' = TRUE \/ queued' = queued \/ queued' = (queued \/ findObjectsForSrc(n))
      BY <1>11a DEF IssueRootCA, CreateIssuer, ReplaceExpired
    <3> QED
      BY <2>2, <3>1, Zenon
  <2> QED
    BY <2>1, <2>2, TrustFrame
<1>12. CASE \/ \E n \in Names : RenewRootCA(n) \/ Rotate(n)
            \/ \E c \in CACerts : Expire(c)
            \/ \E r \in AllRoles, n \in Issuers \cup {None} : SetIssuer(r, n)
  BY <1>12, TrustFrame DEF RenewRootCA, Rotate, Replace, Expire, SetIssuer
<1>13. CASE UNCHANGED vars
  BY <1>13, TrustFrame DEF vars
<1> QED
  BY <1>1, <1>2, <1>3, <1>4, <1>5, <1>6, <1>7, <1>8, <1>8a, <1>8b, <1>9, <1>10, <1>11, <1>11a, <1>12,
     <1>13 DEF Next, PassStep, OthersStep

LEMMA InitTrust == Init => TrustInv
  BY DEF Init, TrustInv, LoadedBundle, CollectedCAs, ReadyMeansTrusted, Reported

\* Spec keeps the types and what a pass knows of the bundle.
LEMMA TrustInvariant == Spec => [](TypeInv /\ TrustInv)
  BY InitType, NextType, InitTrust, NextTrust, PTL DEF Spec

\* CAReady is never True for a CA that is valid and not in the bundle, through
\* the gap between writing the combined secret and patching the status, and
\* through errors and restarts in it: but for a pass that ended at the bundle of
\* the operator's image, and that one comes back.
THEOREM ReadyCAsAreTrusted == Spec => []ReadyMeansTrusted
<1>1. TrustInv => ReadyMeansTrusted
  BY DEF TrustInv
<1> QED
  BY <1>1, TrustInvariant, PTL

\* The bundle is written by EnsureSecrets only, from what was in it when the
\* pass began, and nothing else has been added since.
LEMMA BundleStep ==
    ASSUME TypeInv, TrustInv, [Next]_vars
    PROVE  bundle.full \ bundle'.full \subseteq expired /\ bundle.only \ bundle'.only \subseteq expired
<1>1. CASE EnsureSecrets
  <2>1. work # Idle /\ work.do = "write"
    BY <1>1 DEF EnsureSecrets, InBundle
  <2>2. bundle' = work.bundle
    BY <1>1 DEF EnsureSecrets
  <2> QED
    BY <2>1, <2>2 DEF TrustInv, LoadedBundle, Valid
<1>2. CASE ~EnsureSecrets
  <2>1. UNCHANGED bundle
    BY <1>2 DEF Next, PassStep, OthersStep, vars, BeginPass, ListIssuers, removeIssuerLabel,
       addIssuerLabelAnnotation, createRootCACertAndIssuer, getCAFromSecret, AddUserCerts, AddImageCerts,
       PatchInstance, Fail, ImageBundleFails, Crash, Resync, WriteSecret, IssueRootCA, CreateIssuer,
       ReplaceExpired, Replace, RenewRootCA, Rotate, Expire, SetIssuer, SetBundleSecret
  <2> QED
    BY <2>1
<1> QED
  BY <1>1, <1>2

\* A CA certificate leaves the bundle only when it has expired, so what an
\* earlier CA has signed is accepted after its issuer was replaced or renewed.
THEOREM TrustIsKept == Spec => TrustKept
<1>1. TypeInv /\ TrustInv /\ [Next]_vars
        => [bundle.full \ bundle'.full \subseteq expired /\ bundle.only \ bundle'.only \subseteq expired]_vars
  BY BundleStep
<1> QED
  BY <1>1, TrustInvariant, PTL DEF Spec, TrustKept

============================================================================
