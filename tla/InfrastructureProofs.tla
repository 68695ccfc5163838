------------------------ MODULE InfrastructureProofs ------------------------
(***************************************************************************)
(* Safety of the infrastructure reconcilers, for any names, scenarios and  *)
(* number of edits and faults.  The inductive invariants:                  *)
(*   TypeInv      types, and what a pass has left to do at its kind        *)
(*   ResourceInv  what an instance that is ready and observed tells        *)
(*   RecordInv    the images saved and those a pass is about to save       *)
(*   UpdateInv    what a pass knows of RabbitMQ, template by template      *)
(* A step of a pass is first put in a form the invariants share (Turn,     *)
(* OvnGoesOn, Passes), then each invariant is shown to be kept by it.      *)
(***************************************************************************)
EXTENDS Infrastructure, TLAPS

TemplateKinds == {"galera", "rabbitmq", "memcached", "redis"}

\* What a pass w has to do at the kind it is at.
AtKind(w, k) ==
    /\ k \in TemplateKinds => w.todo \subseteq Names /\ (w.begun /\ k = "galera" => w.spec.kind[k].enabled)
    /\ k = "ovn" /\ w.begun => /\ w.part # None
                               /\ w.part = "ovndbcluster" => w.todo \subseteq Names
                               /\ w.part \in {"ovnnorthd", "ovncontroller"} => w.todo \subseteq {0}

InWork(w) ==
    /\ w.at > Len(plan) \/ ~w.begun => w.todo = {}
    /\ w.at <= Len(plan) => AtKind(w, plan[w.at])

TypeInv == TypeOK /\ (work # Idle => InWork(work))

----------------------------------------------------------------------------
(* Kinds, parts and resources *)

LEMMA TemplateFacts ==
    /\ DOMAIN Templates = TemplateKinds
    /\ Kinds = TemplateKinds \cup {"ovn", "infra"}
    /\ Range(OvnParts) = {"ovndbcluster", "ovnnorthd", "ovncontroller"}
<1>1. DOMAIN Templates = TemplateKinds
  BY DEF Templates, TemplateKinds
<1>2. Range(OvnParts) = {"ovndbcluster", "ovnnorthd", "ovncontroller"}
  <2>1. DOMAIN OvnParts = {1, 2, 3}
    BY DEF OvnParts
  <2> QED
    BY <2>1 DEF OvnParts, Range
<1> QED
  BY <1>1, <1>2 DEF Kinds

LEMMA PlanFacts ==
    ASSUME scenario \in Scenarios
    PROVE  /\ plan \in Seq(Kinds) /\ Len(plan) \in Nat
           /\ Managed \subseteq TemplateKinds \cup {"ovn"}
           /\ \A i \in 1..Len(plan) : plan[i] \in Kinds /\ (plan[i] # "infra" => plan[i] \in Managed)
<1>1. plan \in Seq(Kinds) /\ Len(plan) \in Nat
  BY InfrastructureAssumption DEF plan
<1>2. DOMAIN plan = 1..Len(plan) /\ \A i \in 1..Len(plan) : plan[i] \in Kinds
  BY <1>1
<1> QED
  BY <1>1, <1>2, TemplateFacts DEF Managed, Range

\* Where the templates of a kind and the parts of OVN have their resources.
LEMMA ResourceFacts ==
    ASSUME scenario \in Scenarios
    PROVE  /\ \A k \in Managed \ {"ovn"} : /\ k \in Parts
                                           /\ NamesOf(k) = Names \cup Foreign
                                           /\ \A n \in Names \cup Foreign : <<k, n>> \in Resources
           /\ "ovn" \in Managed =>
                /\ Range(OvnParts) \subseteq Parts
                /\ \A n \in Names : <<"ovndbcluster", n>> \in Resources
                /\ <<"ovnnorthd", 0>> \in Resources /\ <<"ovncontroller", 0>> \in Resources
<1>1. ASSUME NEW p \in Parts, NEW n \in NamesOf(p) PROVE <<p, n>> \in Resources
  BY <1>1 DEF Resources, Keys
<1>2. ASSUME NEW k \in Managed \ {"ovn"} PROVE k \in Parts /\ NamesOf(k) = Names \cup Foreign
  <2>1. k \in TemplateKinds
    BY PlanFacts
  <2>2. k \in Parts
    BY DEF Parts, PartsOf
  <2> QED
    BY <2>1, <2>2 DEF NamesOf, TemplateKinds
<1>3. ASSUME "ovn" \in Managed PROVE Range(OvnParts) \subseteq Parts
  BY <1>3 DEF Parts, PartsOf
<1>4. NamesOf("ovndbcluster") = Names /\ NamesOf("ovnnorthd") = {0} /\ NamesOf("ovncontroller") = {0}
  BY DEF NamesOf
<1> QED
  BY <1>1, <1>2, <1>3, <1>4, TemplateFacts

\* The types do not change with the steps.
LEMMA SameScenario ==
    ASSUME UNCHANGED scenario
    PROVE  /\ plan' = plan /\ Managed' = Managed /\ Parts' = Parts /\ Resources' = Resources /\ Certs' = Certs
           /\ Specs' = Specs /\ Statuses' = Statuses /\ Works' = Works
<1>1. plan' = plan
  BY DEF plan
<1>2. Managed' = Managed
  BY <1>1 DEF Managed
<1>3. Parts' = Parts
  BY <1>2 DEF Parts
<1>4. Resources' = Resources
  BY <1>3 DEF Resources
<1>5. Certs' = Certs
  BY <1>2, <1>4 DEF Certs
<1>6. Specs' = Specs
  BY <1>2 DEF Specs
<1>7. Statuses' = Statuses
  BY <1>2, <1>3, <1>6 DEF Statuses
<1>8. Works' = Works
  BY <1>1, <1>6, <1>7 DEF Works
<1> QED
  BY <1>1, <1>2, <1>3, <1>4, <1>5, <1>6, <1>7, <1>8

\* A pass under way is a record of its type.
LEMMA WorkFacts ==
    ASSUME TypeOK, work # Idle
    PROVE  /\ work \in Works /\ work.spec \in Specs /\ work.status \in Statuses /\ work.target \in 1..2
           /\ work.at \in 1..(Len(plan) + 1) /\ work.begun \in BOOLEAN /\ work.todo \subseteq Names \cup {0}
           /\ work.part \in Range(OvnParts) \cup {"end", None} /\ work.ok \in BOOLEAN /\ work.failed \in BOOLEAN
           /\ work.busy \in BOOLEAN /\ work.wait \in BOOLEAN /\ work.conds \in {"none", "true", "false"}
  BY DEF TypeOK, Works

LEMMA SetCond ==
    ASSUME NEW st \in Statuses, NEW k, NEW c \in Conditions
    PROVE  [st EXCEPT !.cond[k] = c] \in Statuses
  BY DEF Statuses

LEMMA SetImage ==
    ASSUME NEW st \in Statuses, NEW p, NEW i \in {None, 1, 2}
    PROVE  [st EXCEPT !.image[p] = i] \in Statuses
  BY DEF Statuses

LEMMA StatusFacts ==
    ASSUME NEW st \in Statuses
    PROVE  /\ st.cond \in [Managed -> Conditions] /\ st.image \in [Parts -> {None, 1, 2}]
           /\ st.infra \in Conditions /\ st.seen \in Specs \cup {None}
  BY DEF Statuses

----------------------------------------------------------------------------
(* Types *)

\* What the steps of a pass and of the operators have in common.
LEMMA StepType ==
    ASSUME TypeInv, UNCHANGED scenario, spec' \in Specs, target' \in 1..2, status' \in Statuses,
           work' = Idle \/ (work' \in Works /\ InWork(work')), queued' \in BOOLEAN, events' \in Nat,
           cr' \in [Resources -> CustomResources \cup {None}],
           cert' \in [Certs -> {"none", "requested", "issued"}],
           legacy' \subseteq Names, deployed' \in [Resources -> SUBSET (1..2)]
    PROVE  TypeInv'
<1>1. TypeOK'
  BY SameScenario DEF TypeInv, TypeOK
<1>2. work' # Idle => InWork(work)'
  BY SameScenario DEF InWork
<1> QED
  BY <1>1, <1>2 DEF TypeInv, Idle

\* A pass that has its new work keeps cr and cert, or changes them to their type.
LEMMA NextKindType ==
    ASSUME scenario \in Scenarios, NEW w \in Works, w.at <= Len(plan)
    PROVE  /\ NextKind(w) \in Works /\ InWork(NextKind(w)) /\ NextKind(w).status = w.status
           /\ NextKind(w).spec = w.spec /\ NextKind(w).target = w.target /\ NextKind(w).begun = FALSE
<1>1. w.at \in 1..Len(plan) /\ w.at + 1 \in 1..(Len(plan) + 1)
  BY PlanFacts DEF Works
<1>2. /\ NextKind(w) \in Works /\ NextKind(w).status = w.status
      /\ NextKind(w).spec = w.spec /\ NextKind(w).target = w.target /\ NextKind(w).begun = FALSE /\ NextKind(w).todo = {}
  BY <1>1 DEF NextKind, Works
<1> QED
  BY <1>2 DEF InWork, AtKind

LEMMA EnsureDeletedType ==
    ASSUME TypeOK, NEW keys
    PROVE  EnsureDeleted(keys) \in [Resources -> CustomResources \cup {None}]
  BY DEF TypeOK, EnsureDeleted, CustomResources

LEMMA WrittenType ==
    ASSUME TypeOK, work # Idle, NEW r \in Resources
    PROVE  /\ Written(r) \in CustomResources
           /\ Written(r).spec.image = work.target
           /\ Written(r).observed => cr[r] # None /\ cr[r].observed /\ cr[r].spec = Written(r).spec
           /\ cr[r] # None => Written(r).ready = cr[r].ready
           /\ cr[r] = None => ~Written(r).ready
<1>1. work.target \in 1..2
  BY WorkFacts
<1> DEFINE new == [image |-> work.target, tls |-> CertsOf(r) # <<>>]
<1>2. new \in [image : 1..2, tls : BOOLEAN] /\ new.image = work.target
  BY <1>1
<1> HIDE DEF new
<1>3. CASE cr[r] = None
  <2>1. Written(r) = [spec |-> new, owned |-> TRUE, deleting |-> FALSE, observed |-> FALSE,
                      conditions |-> FALSE, ready |-> FALSE]
    BY <1>3 DEF Written, new
  <2> QED
    BY <1>2, <1>3, <2>1 DEF CustomResources
<1>4. CASE cr[r] # None
  <2>1. cr[r] \in CustomResources
    BY <1>4 DEF TypeOK
  <2>2. Written(r) = [cr[r] EXCEPT !.spec = new, !.owned = TRUE, !.observed = @ /\ cr[r].spec = new]
    BY <1>4 DEF Written, new
  <2> QED
    BY <1>2, <1>4, <2>1, <2>2 DEF CustomResources
<1> QED
  BY <1>3, <1>4

\* A pass at a template kind, and one at OVN.
LEMMA TemplatesNow ==
    ASSUME TypeInv, InTemplates
    PROVE  /\ work # Idle /\ work \in Works /\ work.at \in 1..Len(plan)
           /\ Kind \in TemplateKinds /\ Kind \in Managed /\ Kind \in Parts
           /\ work.todo \subseteq Names /\ Defined \subseteq Names /\ On \in BOOLEAN
           /\ (work.begun /\ Kind = "galera" => On)
           /\ NamesOf(Kind) = Names \cup Foreign /\ \A n \in Names \cup Foreign : <<Kind, n>> \in Resources
<1>1. work # Idle /\ work \in Works /\ work.at \in 1..Len(plan) /\ scenario \in Scenarios
  BY WorkFacts, PlanFacts DEF TypeInv, TypeOK, InTemplates, InPass
<1>2. Kind \in TemplateKinds /\ Kind \in Managed
  BY <1>1, TemplateFacts, PlanFacts DEF InTemplates, Kind, TemplateKinds
<1>3. Kind \in Parts /\ NamesOf(Kind) = Names \cup Foreign /\ \A n \in Names \cup Foreign : <<Kind, n>> \in Resources
  BY <1>1, <1>2, ResourceFacts DEF TemplateKinds
<1>4. AtKind(work, Kind)
  BY <1>1, PlanFacts DEF TypeInv, InWork, Kind
<1>5. Defined \subseteq Names /\ On \in BOOLEAN
  BY <1>1, <1>2 DEF Defined, On, Works, Specs
<1> QED
  BY <1>1, <1>2, <1>3, <1>4, <1>5 DEF AtKind, On

LEMMA OvnNow ==
    ASSUME TypeInv, InOvn
    PROVE  /\ work # Idle /\ work \in Works /\ work.at \in 1..Len(plan)
           /\ Kind = "ovn" /\ "ovn" \in Managed /\ Range(OvnParts) \subseteq Parts
           /\ Defined \subseteq Names /\ On \in BOOLEAN
           /\ Ovn => /\ work.part \in Range(OvnParts)
                     /\ \A n \in work.todo : n \in Names \cup {0} /\ <<work.part, n>> \in Resources
                     /\ work.part = "ovndbcluster" => work.todo \subseteq Names
                     /\ work.part # "ovndbcluster" => work.todo \subseteq {0}
<1>1. work # Idle /\ work \in Works /\ work.at \in 1..Len(plan) /\ scenario \in Scenarios
  BY WorkFacts, PlanFacts DEF TypeInv, TypeOK, InOvn, InPass
<1>2. Kind = "ovn" /\ "ovn" \in Managed
  BY <1>1, PlanFacts DEF InOvn, Kind
<1>3. Range(OvnParts) \subseteq Parts
  BY <1>1, <1>2, ResourceFacts
<1>4. AtKind(work, "ovn")
  BY <1>1, <1>2, PlanFacts DEF TypeInv, InWork, Kind
<1>5. Defined \subseteq Names /\ On \in BOOLEAN
  BY <1>1, <1>2 DEF Defined, On, Works, Specs
<1>6. ASSUME Ovn
      PROVE  /\ work.part \in {"ovndbcluster", "ovnnorthd", "ovncontroller"}
             /\ \A n \in work.todo : n \in Names \cup {0} /\ <<work.part, n>> \in Resources
             /\ work.part = "ovndbcluster" => work.todo \subseteq Names
             /\ work.part # "ovndbcluster" => work.todo \subseteq {0}
  <2>1. work.part \in {"ovndbcluster", "ovnnorthd", "ovncontroller"} /\ work.begun
    BY <1>1, <1>4, <1>6, TemplateFacts, WorkFacts DEF Ovn, AtKind, TypeInv
  <2>2. /\ work.part = "ovndbcluster" => work.todo \subseteq Names
        /\ work.part # "ovndbcluster" => work.todo \subseteq {0}
    BY <1>4, <2>1 DEF AtKind
  <2> QED
    BY <1>1, <1>2, <2>1, <2>2, ResourceFacts
<1> QED
  BY <1>1, <1>2, <1>3, <1>5, <1>6, TemplateFacts

LEMMA QueueType ==
    /\ Wake => queued' \in BOOLEAN
    /\ \A st, again : EndPass(st, again) => queued' \in BOOLEAN
  BY Zenon DEF Wake, EndPass

LEMMA RequestType ==
    ASSUME TypeOK, NEW r, Request(r)
    PROVE  cert' \in [Certs -> {"none", "requested", "issued"}]
  BY DEF TypeOK, Request

LEMMA BeginWork ==
    ASSUME TypeInv, BeginPass
    PROVE  /\ work' \in Works /\ work'.spec = spec /\ work'.target = target /\ work'.begun = FALSE /\ InWork(work')
           /\ work'.status.image = status.image /\ work'.status.seen = spec
           /\ \A k \in Managed : work'.status.cond[k] = IF spec.kind[k].enabled THEN "Unknown" ELSE status.cond[k]
<1>0. TypeOK /\ status \in Statuses /\ spec \in Specs /\ target \in 1..2
  BY DEF TypeInv, TypeOK
<1>1. /\ InitConditions(status) \in Statuses /\ InitConditions(status).image = status.image
      /\ InitConditions(status).seen = spec
      /\ \A k \in Managed : InitConditions(status).cond[k] = IF spec.kind[k].enabled THEN "Unknown" ELSE status.cond[k]
  BY <1>0 DEF InitConditions, Statuses, Conditions
<1>2. 1 \in 1..(Len(plan) + 1)
  BY <1>0, PlanFacts DEF TypeOK
<1>3. work' = [at |-> 1, spec |-> spec, target |-> target, status |-> InitConditions(status), begun |-> FALSE,
               todo |-> {}, part |-> None, ok |-> TRUE, failed |-> FALSE, busy |-> FALSE, wait |-> FALSE,
               conds |-> "none"]
  BY DEF BeginPass
<1>4. work' \in Works /\ work'.begun = FALSE /\ work'.todo = {} /\ work'.status = InitConditions(status)
  BY <1>0, <1>1, <1>2, <1>3 DEF Works
<1>5. InWork(work')
  BY <1>4 DEF InWork, AtKind
<1> QED
  BY <1>1, <1>3, <1>4, <1>5

----------------------------------------------------------------------------
(* What the steps of a pass do to it *)

\* The pass goes on at the same kind.
SamePass(w) == w \in Works /\ w.at = work.at /\ w.spec = work.spec /\ w.target = work.target

\* Nothing is removed but what the control plane owns and no template defines.
Removes(keys) == keys \subseteq Undefined(Kind) /\ cr' = EnsureDeleted(keys)

LEMMA RemovesNothing == ASSUME TypeOK, UNCHANGED cr PROVE Removes({})
  BY DEF TypeOK, Removes, EnsureDeleted

LEMMA DeleteFacts ==
    ASSUME TypeOK, NEW bad, NEW bare, DeleteUndefined(Kind, bad, bare)
    PROVE  /\ \E keys : Removes(keys)
           /\ cert' \in [Certs -> {"none", "requested", "issued"}]
<1>1. Removes(Undefined(Kind) \ bad)
  BY DEF DeleteUndefined, Removes
<1>2. cert' \in [Certs -> {"none", "requested", "issued"}]
  BY DEF DeleteUndefined, TypeOK
<1> QED
  BY <1>1, <1>2

LEMMA FailingType == ASSUME TypeOK, NEW bad, Failing(bad) PROVE events' \in Nat
  BY DEF TypeOK, Failing, Event

LEMMA StartFacts ==
    ASSUME TypeInv, StartTemplates
    PROVE  /\ \/ work' = NextKind(work) /\ ~On
              \/ SamePass(work') /\ work'.begun /\ work'.todo = Defined /\ work'.status = work.status
           /\ work' \in Works /\ InWork(work')
           /\ (\E keys : Removes(keys)) /\ cert' \in [Certs -> {"none", "requested", "issued"}] /\ events' \in Nat
<1>0. TypeOK /\ InTemplates /\ scenario \in Scenarios
  BY DEF TypeInv, TypeOK, StartTemplates
<1>1. /\ work \in Works /\ work.at \in 1..Len(plan) /\ Kind \in TemplateKinds /\ Kind \in Managed
      /\ Defined \subseteq Names /\ Len(plan) \in Nat /\ Kind = plan[work.at]
  BY <1>0, TemplatesNow, PlanFacts DEF Kind
<1>2. PICK bad \in SUBSET Undefined(Kind) : \E bare \in SUBSET bad :
         IF ~On /\ Templates[Kind].all.whenOff = "return"
           THEN bad = {} /\ work' = NextKind(work) /\ UNCHANGED <<cr, cert, events>>
           ELSE /\ work' = [work EXCEPT !.begun = TRUE, !.failed = bad # {}, !.todo = Defined]
                /\ IF Templates[Kind].undefined.first
                     THEN Failing(bad) /\ DeleteUndefined(Kind, bad, bare)
                     ELSE bad = {} /\ UNCHANGED <<cr, cert, events>>
  BY DEF StartTemplates
<1>3. (\E keys : Removes(keys)) /\ cert' \in [Certs -> {"none", "requested", "issued"}] /\ events' \in Nat
  <2>1. CASE UNCHANGED <<cr, cert, events>>
    BY <1>0, <2>1, RemovesNothing DEF TypeOK
  <2>2. CASE Failing(bad) /\ \E bare : DeleteUndefined(Kind, bad, bare)
    BY <1>0, <2>2, DeleteFacts, FailingType
  <2> QED
    BY <1>2, <2>1, <2>2
<1>4. CASE ~On /\ Templates[Kind].all.whenOff = "return"
  <2>1. work' = NextKind(work)
    BY <1>2, <1>4
  <2>2. work.at <= Len(plan)
    BY <1>1
  <2>3. NextKind(work) \in Works /\ InWork(NextKind(work))
    BY <1>0, <1>1, <2>2, NextKindType
  <2> QED
    BY <1>3, <1>4, <2>1, <2>3
<1>5. CASE ~(~On /\ Templates[Kind].all.whenOff = "return")
  <2>1. work' = [work EXCEPT !.begun = TRUE, !.failed = bad # {}, !.todo = Defined]
    BY <1>2, <1>5
  <2>2. SamePass(work') /\ work'.begun /\ work'.todo = Defined /\ work'.status = work.status
    BY <1>1, <2>1 DEF SamePass, Works
  <2>3. Kind = "galera" => On
    BY <1>1, <1>5 DEF Templates, ReconcileGaleras
  <2>4. InWork(work')
    BY <1>1, <2>2, <2>3, InfrastructureAssumption DEF InWork, AtKind, SamePass, On, TemplateKinds
  <2> QED
    BY <1>3, <2>2, <2>4 DEF SamePass
<1> QED
  BY <1>4, <1>5

\* A template's turn is over: one the spec has switched off, one that waits for
\* its certificate, and one whose resource has been written.
LEMMA TurnFacts ==
    ASSUME TypeInv, InTemplates, work.begun, NEW n \in work.todo, NEW w \in Works, SamePass(w),
           w.begun, w.todo = work.todo \ {n}
    PROVE  InWork(w)
<1>1. /\ work \in Works /\ work.at \in 1..Len(plan) /\ Kind \in TemplateKinds /\ work.todo \subseteq Names
      /\ Len(plan) \in Nat /\ Kind = plan[work.at] /\ (Kind = "galera" => On)
  BY TemplatesNow, PlanFacts DEF Kind, TypeInv, TypeOK
<1> QED
  BY <1>1 DEF InWork, AtKind, SamePass, On, TemplateKinds

\* The turn of the template n is over; what is known of other kinds is kept.
Turn(n) ==
    /\ SamePass(work') /\ work'.begun /\ work'.todo = work.todo \ {n}
    /\ work'.status.seen = work.status.seen
    /\ \A k \in Managed \ {Kind} : work'.status.cond[k] = work.status.cond[k]
    /\ \A p \in Parts \ {Kind} : work'.status.image[p] = work.status.image[p]

TurnOff(n) ==
    /\ ~On /\ Turn(n)
    /\ work'.status.image[Kind] \in {None, work.status.image[Kind]}
    /\ cr' = EnsureDeleted({<<Kind, n>>})
    /\ UNCHANGED <<status, cert, legacy>>

TurnWaits(n) ==
    /\ On /\ UNCHANGED <<cr, legacy>>
    /\ cert' \in [Certs -> {"none", "requested", "issued"}]
    /\ \/ Kind = "galera" /\ EndPass(work.status, TRUE)
       \/ Turn(n) /\ work'.busy /\ work'.status = work.status /\ UNCHANGED status

TurnWrites(n) ==
    /\ On /\ Turn(n)
    /\ cr' = [cr EXCEPT ![<<Kind, n>>] = Written(<<Kind, n>>)]
    /\ HandOver(<<Kind, n>>)
    /\ work'.status.cond = work.status.cond
    /\ work'.status.image[Kind] = IF IsReady(<<Kind, n>>) THEN work.target ELSE work.status.image[Kind]
    /\ work'.failed = work.failed /\ (work'.busy <=> work.busy \/ ~IsReady(<<Kind, n>>))
    /\ UNCHANGED <<status, cert>>

LEMMA PendingEnds ==
    ASSUME Kind \in TemplateKinds, Templates[Kind].all.pending = "end" PROVE Kind = "galera"
  BY DEF Templates, ReconcileRabbitMQs, ReconcileMemcacheds, ReconcileRedis, TemplateKinds

LEMMA TurnsFacts ==
    ASSUME TypeInv, ReconcileTemplate
    PROVE  \E n \in work.todo : TurnOff(n) \/ TurnWaits(n) \/ TurnWrites(n)
<1>0. TypeOK /\ InTemplates /\ work.begun
  BY DEF TypeInv, ReconcileTemplate
<1>1. /\ work \in Works /\ Kind \in TemplateKinds /\ Kind \in Managed /\ Kind \in Parts /\ work.todo \subseteq Names
      /\ work.status \in Statuses /\ work.target \in 1..2
  BY <1>0, TemplatesNow, WorkFacts
<1> DEFINE w(n) == [work EXCEPT !.todo = @ \ {n}, !.wait = FALSE]
           clears == Templates[Kind].one.clears
<1>2. PICK n \in work.todo :
        \/ /\ ~On
           /\ cr' = EnsureDeleted({<<Kind, n>>})
           /\ work' = [w(n) EXCEPT !.status.cond[Kind] = IF clears THEN "none" ELSE @,
                                   !.status.image[Kind] = IF clears THEN None ELSE @]
           /\ UNCHANGED <<status, cert, legacy>>
        \/ /\ On /\ Request(<<Kind, n>>) /\ UNCHANGED <<cr, legacy>>
           /\ IF Templates[Kind].all.pending = "end" THEN EndPass(work.status, TRUE)
              ELSE work' = [w(n) EXCEPT !.busy = TRUE, !.wait = TRUE] /\ UNCHANGED status
        \/ /\ On /\ HandOver(<<Kind, n>>)
           /\ cr' = [cr EXCEPT ![<<Kind, n>>] = Written(<<Kind, n>>)]
           /\ work' = [w(n) EXCEPT !.conds = Collect(@, cr'[<<Kind, n>>]), !.busy = @ \/ ~IsReady(<<Kind, n>>),
                                   !.status.image[Kind] = IF IsReady(<<Kind, n>>) THEN work.target ELSE @]
           /\ UNCHANGED <<status, cert>>
  BY DEF ReconcileTemplate
<1>3. /\ w(n) \in Works /\ w(n).at = work.at /\ w(n).spec = work.spec /\ w(n).target = work.target /\ w(n).begun
      /\ w(n).todo = work.todo \ {n} /\ w(n).status = work.status /\ w(n).failed = work.failed
      /\ w(n).busy = work.busy /\ w(n).conds = work.conds
  BY <1>0, <1>1 DEF Works
<1> HIDE DEF w
<1>4. CASE /\ ~On
           /\ cr' = EnsureDeleted({<<Kind, n>>})
           /\ work' = [w(n) EXCEPT !.status.cond[Kind] = IF clears THEN "none" ELSE @,
                                   !.status.image[Kind] = IF clears THEN None ELSE @]
           /\ UNCHANGED <<status, cert, legacy>>
  <2> DEFINE st == [work.status EXCEPT !.cond[Kind] = IF clears THEN "none" ELSE @,
                                       !.image[Kind] = IF clears THEN None ELSE @]
  <2>1. /\ st \in Statuses /\ st.seen = work.status.seen /\ st.image[Kind] \in {None, work.status.image[Kind]}
        /\ \A k \in Managed \ {Kind} : st.cond[k] = work.status.cond[k]
        /\ \A p \in Parts \ {Kind} : st.image[p] = work.status.image[p]
    BY <1>1 DEF Statuses, Conditions
  <2> DEFINE v == [w(n) EXCEPT !.status.cond[Kind] = IF clears THEN "none" ELSE @]
  <2>2. /\ v \in Works /\ v.at = work.at /\ v.spec = work.spec /\ v.target = work.target /\ v.begun
        /\ v.todo = work.todo \ {n} /\ v.status = [work.status EXCEPT !.cond[Kind] = IF clears THEN "none" ELSE @]
    <3>1. [work.status EXCEPT !.cond[Kind] = IF clears THEN "none" ELSE @] \in Statuses
      BY <1>1 DEF Statuses, Conditions
    <3> QED
      BY <1>3, <3>1 DEF Works
  <2>a. work' = [v EXCEPT !.status.image[Kind] = IF clears THEN None ELSE @]
    BY <1>4
  <2> HIDE DEF v
  <2>3. SamePass(work') /\ work'.begun /\ work'.todo = work.todo \ {n} /\ work'.status = st
    <3>1. [v.status EXCEPT !.image[Kind] = IF clears THEN None ELSE @] = st
      BY <1>1, <2>2 DEF Statuses
    <3>2. work' = [v EXCEPT !.status = st]
      BY <2>a, <2>2, <3>1 DEF Works
    <3> QED
      BY <2>1, <2>2, <3>2 DEF SamePass, Works
  <2> HIDE DEF st
  <2> QED
    BY <1>4, <2>1, <2>3 DEF TurnOff, Turn
<1>5. CASE /\ On /\ Request(<<Kind, n>>) /\ UNCHANGED <<cr, legacy>>
           /\ IF Templates[Kind].all.pending = "end" THEN EndPass(work.status, TRUE)
              ELSE work' = [w(n) EXCEPT !.busy = TRUE, !.wait = TRUE] /\ UNCHANGED status
  <2>1. cert' \in [Certs -> {"none", "requested", "issued"}]
    BY <1>0, <1>5, RequestType
  <2>2. Templates[Kind].all.pending = "end" => Kind = "galera"
    BY <1>1, PendingEnds
  <2>3. CASE Templates[Kind].all.pending # "end"
    <3>1. SamePass(work') /\ work'.begun /\ work'.todo = work.todo \ {n} /\ work'.status = work.status /\ work'.busy
      BY <1>3, <1>5, <2>3, ZenonT(40) DEF SamePass, Works
    <3> QED
      BY <1>5, <2>1, <2>3, <3>1 DEF TurnWaits, Turn
  <2> QED
    BY <1>5, <2>1, <2>2, <2>3 DEF TurnWaits
<1>6. CASE /\ On /\ HandOver(<<Kind, n>>)
           /\ cr' = [cr EXCEPT ![<<Kind, n>>] = Written(<<Kind, n>>)]
           /\ work' = [w(n) EXCEPT !.conds = Collect(@, cr'[<<Kind, n>>]), !.busy = @ \/ ~IsReady(<<Kind, n>>),
                                   !.status.image[Kind] = IF IsReady(<<Kind, n>>) THEN work.target ELSE @]
           /\ UNCHANGED <<status, cert>>
  <2> DEFINE st == [work.status EXCEPT !.image[Kind] = IF IsReady(<<Kind, n>>) THEN work.target ELSE @]
  <2>1. /\ st \in Statuses /\ st.seen = work.status.seen /\ st.cond = work.status.cond
        /\ st.image[Kind] = IF IsReady(<<Kind, n>>) THEN work.target ELSE work.status.image[Kind]
        /\ \A p \in Parts \ {Kind} : st.image[p] = work.status.image[p]
    BY <1>1 DEF Statuses
  <2>2. Collect(work.conds, cr'[<<Kind, n>>]) \in {"none", "true", "false"}
    BY <1>1 DEF Collect, Works
  <2>3. work' = [w(n) EXCEPT !.conds = Collect(work.conds, cr'[<<Kind, n>>]),
                             !.busy = work.busy \/ ~IsReady(<<Kind, n>>), !.status = st]
    BY <1>3, <1>6 DEF Works
  <2> HIDE DEF st
  <2>4. /\ SamePass(work') /\ work'.begun /\ work'.todo = work.todo \ {n} /\ work'.status = st
        /\ work'.failed = work.failed /\ (work'.busy <=> work.busy \/ ~IsReady(<<Kind, n>>))
    BY <1>3, <2>1, <2>2, <2>3 DEF SamePass, Works
  <2> QED
    BY <1>6, <2>1, <2>4 DEF TurnWrites, Turn
<1> QED
  BY <1>2, <1>4, <1>5, <1>6

LEMMA FailFacts ==
    ASSUME TypeInv, FailTemplate
    PROVE  /\ \E n \in work.todo :
                \/ Turn(n) /\ work'.failed /\ work'.status = work.status /\ UNCHANGED <<status, queued>>
                \/ Kind = "galera" /\ EndPass(work.status, TRUE)
           /\ UNCHANGED <<cr, cert>> /\ legacy' \subseteq legacy /\ events' \in Nat
<1>0. TypeOK /\ InTemplates /\ work.begun
  BY DEF TypeInv, FailTemplate
<1>1. work \in Works /\ Kind \in TemplateKinds /\ work.todo \subseteq Names
  BY <1>0, TemplatesNow
<1>2. UNCHANGED <<cr, cert>> /\ events' \in Nat
  BY <1>0 DEF FailTemplate, Event, TypeOK
<1>3. legacy' \subseteq legacy
  BY DEF FailTemplate, HandOver
<1>4. PICK n \in work.todo :
        \/ work' = [work EXCEPT !.todo = @ \ {n}, !.wait = FALSE, !.failed = TRUE] /\ UNCHANGED <<status, queued>>
        \/ Templates[Kind].all.pending = "end" /\ EndPass(work.status, TRUE)
  BY DEF FailTemplate
<1>5. CASE work' = [work EXCEPT !.todo = @ \ {n}, !.wait = FALSE, !.failed = TRUE] /\ UNCHANGED <<status, queued>>
  <2>1. SamePass(work') /\ work'.begun /\ work'.todo = work.todo \ {n} /\ work'.status = work.status /\ work'.failed
    BY <1>0, <1>1, <1>5 DEF SamePass, Works
  <2> QED
    BY <1>2, <1>3, <1>5, <2>1 DEF Turn
<1>6. CASE Templates[Kind].all.pending = "end" /\ EndPass(work.status, TRUE)
  BY <1>1, <1>2, <1>3, <1>6, PendingEnds
<1> QED
  BY <1>4, <1>5, <1>6

\* The condition a kind ends with; of RabbitMQ it is True only when every
\* template of this pass was ready.
LEMMA ConditionFacts ==
    ASSUME TypeInv, InTemplates, work.begun
    PROVE  /\ KindCondition \in Conditions
           /\ Kind = "rabbitmq" /\ On /\ KindCondition = "True" => ~work.failed /\ ~work.busy
<1>1. Kind \in TemplateKinds /\ (Kind = "galera" => On)
  BY TemplatesNow
<1>2. ~On => Templates[Kind].all.whenOff \in Conditions
  BY <1>1 DEF Templates, TemplateKinds, ReconcileRabbitMQs, ReconcileMemcacheds, ReconcileRedis, Conditions
<1>3. KindCondition \in Conditions
  BY <1>2 DEF KindCondition, Conditions, Mirror
<1>4. Kind = "rabbitmq" => ~Templates[Kind].all.mirrors
  BY DEF Templates, ReconcileRabbitMQs
<1> QED
  BY <1>3, <1>4 DEF KindCondition

\* The pass has a new status and ends, or goes on with the next kind.
Passes(st, again) ==
    \/ EndPass(st, again)
    \/ work' = NextKind([work EXCEPT !.status = st]) /\ UNCHANGED status /\ queued' \in BOOLEAN

LEMMA FinishFacts ==
    ASSUME TypeInv, FinishTemplates
    PROVE  /\ \E c \in Conditions : /\ Passes([work.status EXCEPT !.cond[Kind] = c], TRUE)
                                    /\ Kind = "rabbitmq" /\ On /\ c = "True" => ~work.failed /\ ~work.busy
           /\ (\E keys : Removes(keys)) /\ cert' \in [Certs -> {"none", "requested", "issued"}] /\ events' \in Nat
<1>0. TypeOK /\ InTemplates /\ work.begun
  BY DEF TypeInv, FinishTemplates
<1>1. PICK bad \in SUBSET Undefined(Kind) : \E bare \in SUBSET bad :
         LET delete == ~work.failed /\ ~Templates[Kind].undefined.first
             st == [work.status EXCEPT !.cond[Kind] = IF bad # {} THEN "False" ELSE KindCondition]
         IN  /\ IF delete THEN Failing(bad) /\ DeleteUndefined(Kind, bad, bare)
                ELSE bad = {} /\ UNCHANGED <<cr, cert, events>>
             /\ IF work.failed \/ bad # {} \/ work.wait THEN EndPass(st, TRUE)
                ELSE work' = NextKind([work EXCEPT !.status = st]) /\ Wake /\ UNCHANGED status
  BY DEF FinishTemplates
<1>2. (\E keys : Removes(keys)) /\ cert' \in [Certs -> {"none", "requested", "issued"}] /\ events' \in Nat
  <2>1. CASE UNCHANGED <<cr, cert, events>>
    BY <1>0, <2>1, RemovesNothing DEF TypeOK
  <2>2. CASE Failing(bad) /\ \E bare : DeleteUndefined(Kind, bad, bare)
    BY <1>0, <2>2, DeleteFacts, FailingType
  <2> QED
    BY <1>1, <2>1, <2>2
<1> DEFINE c == IF bad # {} THEN "False" ELSE KindCondition
<1>3. c \in Conditions /\ (Kind = "rabbitmq" /\ On /\ c = "True" => ~work.failed /\ ~work.busy)
  BY <1>0, ConditionFacts DEF Conditions
<1>4. Passes([work.status EXCEPT !.cond[Kind] = c], TRUE)
  BY <1>1, QueueType DEF Passes
<1> HIDE DEF c
<1> QED
  BY <1>2, <1>3, <1>4

\* A pass over the parts of OVN: what it knows of the other kinds is kept.
OvnGoesOn(w) ==
    /\ SamePass(w) /\ InWork(w)
    /\ w.status.seen = work.status.seen /\ w.status.cond = work.status.cond
    /\ \A p \in Parts \ Range(OvnParts) : w.status.image[p] = work.status.image[p]

LEMMA PartDoneFacts ==
    ASSUME TypeInv, Ovn, NEW w \in Works, w.at = work.at, w.spec = work.spec, w.target = work.target, w.begun,
           w.part = work.part, w.todo \subseteq work.todo,
           w.status.seen = work.status.seen, w.status.cond = work.status.cond,
           \A p \in Parts \ Range(OvnParts) : w.status.image[p] = work.status.image[p]
    PROVE  /\ OvnGoesOn(PartDone(w))
           /\ PartDone(w).status.image["ovnnorthd"] = w.status.image["ovnnorthd"]
<1>0. InOvn /\ Kind = plan[work.at]
  BY DEF Ovn, Kind
<1>1. /\ work.at \in 1..Len(plan) /\ Len(plan) \in Nat /\ plan[work.at] = "ovn" /\ work.part \in Range(OvnParts)
      /\ work.part = "ovndbcluster" => work.todo \subseteq Names
      /\ work.part # "ovndbcluster" => work.todo \subseteq {0}
      /\ Range(OvnParts) \subseteq Parts
  BY <1>0, OvnNow, PlanFacts DEF TypeInv, TypeOK
<1>a. \A p \in {"ovndbcluster", "ovnnorthd", "ovncontroller", "end"} : p # None
  BY InfrastructureAssumption, TemplateFacts
<1>2. CASE w.todo # {}
  <2>1. PartDone(w) = w
    BY <1>2 DEF PartDone
  <2>2. InWork(w)
    <3>1. AtKind(w, "ovn")
      BY <1>1, <1>a, TemplateFacts DEF AtKind, TemplateKinds
    <3> QED
      BY <1>1, <3>1 DEF InWork
  <2> QED
    BY <2>1, <2>2 DEF OvnGoesOn, SamePass
<1>3. CASE w.todo = {}
  <2> DEFINE st == [w.status EXCEPT !.image["ovndbcluster"] =
                     IF w.part = "ovndbcluster" /\ w.ok THEN w.target ELSE @]
             next == Following(w.part)
  <2>0. w.status \in Statuses /\ w.target \in 1..2
    BY DEF Works
  <2>1. /\ st \in Statuses /\ st.seen = work.status.seen /\ st.cond = work.status.cond
        /\ \A p \in Parts \ Range(OvnParts) : st.image[p] = work.status.image[p]
        /\ st.image["ovnnorthd"] = w.status.image["ovnnorthd"]
    BY <2>0, <1>1, TemplateFacts DEF Statuses
  <2>2. next \in {"ovnnorthd", "ovncontroller", "end"}
    BY DEF Following
  <2>3. PartDone(w) = [w EXCEPT !.status = st, !.part = next, !.todo = {0}]
    <3>1. [w EXCEPT !.status.image["ovndbcluster"] =
                     IF w.part = "ovndbcluster" /\ w.ok THEN w.target ELSE @] = [w EXCEPT !.status = st]
      BY DEF Works
    <3> QED
      BY <1>3, <3>1 DEF PartDone, ToPart, Works
  <2> HIDE DEF st, next
  <2>4. /\ SamePass(PartDone(w)) /\ PartDone(w).status = st /\ PartDone(w).part = next /\ PartDone(w).todo = {0}
        /\ PartDone(w).begun
    BY <2>1, <2>2, <2>3, TemplateFacts, ZenonT(40) DEF SamePass, Works
  <2>5. InWork(PartDone(w))
    <3>1. AtKind(PartDone(w), "ovn")
      BY <1>a, <2>2, <2>4 DEF AtKind, TemplateKinds
    <3> QED
      BY <1>1, <2>4, <3>1 DEF InWork, SamePass
  <2> QED
    BY <2>1, <2>4, <2>5 DEF OvnGoesOn
<1> QED
  BY <1>2, <1>3

LEMMA OvnStartFacts ==
    ASSUME TypeInv, EnsureOVNMetricsCert
    PROVE  /\ \/ EndPass([work.status EXCEPT !.cond["ovn"] = "False"], TRUE)
              \/ OvnGoesOn(work') /\ work'.status = work.status /\ UNCHANGED <<status, queued>>
           /\ UNCHANGED cr /\ cert' \in [Certs -> {"none", "requested", "issued"}]
<1>0. TypeOK /\ InOvn /\ ~work.begun
  BY DEF TypeInv, EnsureOVNMetricsCert
<1>1. /\ work \in Works /\ work.at \in 1..Len(plan) /\ Len(plan) \in Nat /\ plan[work.at] = "ovn" /\ Defined \subseteq Names
  BY <1>0, OvnNow, PlanFacts DEF TypeOK, Kind
<1>2. UNCHANGED cr
  BY DEF EnsureOVNMetricsCert
<1>3. cert' \in [Certs -> {"none", "requested", "issued"}]
  BY <1>0 DEF EnsureOVNMetricsCert, TypeOK
<1> DEFINE start == [work EXCEPT !.begun = TRUE, !.ok = Defined # {}]
<1>4. CASE EndPass([work.status EXCEPT !.cond["ovn"] = "False"], TRUE)
  BY <1>2, <1>3, <1>4
<1>5. CASE /\ work' = IF Defined = {} THEN ToPart(start, "ovnnorthd", {0}) ELSE ToPart(start, "ovndbcluster", Defined)
           /\ UNCHANGED <<status, queued>>
  <2>1. /\ start \in Works /\ start.begun /\ start.at = work.at /\ start.spec = work.spec /\ start.target = work.target
        /\ start.status = work.status
    BY <1>1 DEF Works
  <2> HIDE DEF start
  <2>2. /\ SamePass(work') /\ work'.begun /\ work'.status = work.status
        /\ \/ work'.part = "ovnnorthd" /\ work'.todo = {0}
           \/ work'.part = "ovndbcluster" /\ work'.todo = Defined
    BY <1>1, <1>5, <2>1, TemplateFacts DEF ToPart, SamePass, Works
  <2>3. \A p \in {"ovndbcluster", "ovnnorthd"} : p # None
    BY InfrastructureAssumption, TemplateFacts
  <2>4. AtKind(work', "ovn")
    BY <1>1, <2>2, <2>3 DEF AtKind, TemplateKinds
  <2>5. InWork(work')
    BY <1>1, <2>2, <2>4 DEF InWork, SamePass
  <2> QED
    BY <1>2, <1>3, <1>5, <2>2, <2>5 DEF OvnGoesOn
<1> QED
  BY <1>4, <1>5 DEF EnsureOVNMetricsCert

\* A part is removed or cannot go on, its certificate is asked for, or its
\* resource is written.
OvnRemoves(r) ==
    /\ cr' = EnsureDeleted({r}) /\ UNCHANGED cert
    /\ work'.status.image["ovnnorthd"] \in {None, work.status.image["ovnnorthd"]}

OvnWaits ==
    /\ UNCHANGED cr /\ cert' \in [Certs -> {"none", "requested", "issued"}]
    /\ work'.status.image["ovnnorthd"] = work.status.image["ovnnorthd"]

OvnWrites(r) ==
    /\ cr' = [cr EXCEPT ![r] = Written(r)] /\ UNCHANGED cert
    /\ \/ work'.status.image["ovnnorthd"] = work.status.image["ovnnorthd"]
       \/ work.part = "ovnnorthd" /\ IsReady(r) /\ work'.status.image["ovnnorthd"] = work.target

LEMMA OvnSame ==
    ASSUME TypeInv, Ovn, NEW todo \in SUBSET work.todo, NEW ok \in BOOLEAN, NEW conds \in {"none", "true", "false"},
           work' = PartDone([work EXCEPT !.todo = todo, !.conds = conds, !.ok = ok])
    PROVE  OvnGoesOn(work') /\ work'.status.image["ovnnorthd"] = work.status.image["ovnnorthd"]
<1>1. work \in Works /\ work.begun /\ work.todo \subseteq Names \cup {0}
  BY OvnNow, WorkFacts DEF Ovn, TypeInv
<1> DEFINE w == [work EXCEPT !.todo = todo, !.conds = conds, !.ok = ok]
<1>2. /\ w \in Works /\ w.at = work.at /\ w.spec = work.spec /\ w.target = work.target /\ w.begun
      /\ w.part = work.part /\ w.todo = todo /\ w.status = work.status
  BY <1>1 DEF Works
<1>3. work' = PartDone(w)
  OBVIOUS
<1> HIDE DEF w
<1> QED
  BY <1>2, <1>3, PartDoneFacts

\* The pass w follows from the one under way by the work it has done for a part.
OvnFollows(w) ==
    /\ w \in Works /\ w.at = work.at /\ w.spec = work.spec /\ w.target = work.target /\ w.begun
    /\ w.part = work.part /\ w.todo \subseteq work.todo

LEMMA OvnRecords ==
    ASSUME TypeInv, Ovn, NEW w, OvnFollows(w), NEW p \in Range(OvnParts), NEW i,
           w.status = [work.status EXCEPT !.image[p] = i], work' = PartDone(w)
    PROVE  /\ OvnGoesOn(work')
           /\ work'.status.image["ovnnorthd"] = IF p = "ovnnorthd" THEN i ELSE work.status.image["ovnnorthd"]
<1>1. work.status \in Statuses /\ Range(OvnParts) \subseteq Parts
  BY OvnNow, WorkFacts DEF Ovn, TypeInv
<1>2. /\ w.status.seen = work.status.seen /\ w.status.cond = work.status.cond
      /\ \A q \in Parts \ Range(OvnParts) : w.status.image[q] = work.status.image[q]
      /\ w.status.image["ovnnorthd"] = IF p = "ovnnorthd" THEN i ELSE work.status.image["ovnnorthd"]
  BY <1>1, TemplateFacts DEF Statuses
<1> QED
  BY <1>2, PartDoneFacts DEF OvnFollows

LEMMA OvnPartFacts ==
    ASSUME TypeInv, ReconcileOvnPart
    PROVE  /\ OvnGoesOn(work')
           /\ \E n \in work.todo : OvnRemoves(<<work.part, n>>) \/ OvnWaits \/ OvnWrites(<<work.part, n>>)
<1>0. TypeOK /\ Ovn /\ InOvn
  BY DEF TypeInv, ReconcileOvnPart, Ovn
<1>1. /\ work \in Works /\ work.part \in Range(OvnParts) /\ Range(OvnParts) \subseteq Parts
      /\ work.status \in Statuses /\ work.target \in {1, 2} /\ work.conds \in {"none", "true", "false"}
      /\ work.ok \in BOOLEAN /\ work.begun /\ work.status.image \in [Parts -> {None, 1, 2}]
      /\ work.todo \subseteq Names \cup {0}
  BY <1>0, OvnNow, WorkFacts, StatusFacts DEF Ovn
<1>2. \A c : Collect(work.conds, c) \in {"none", "true", "false"}
  BY <1>1 DEF Collect
<1>3. PICK n \in work.todo :
       LET r == <<work.part, n>>
       IN  \/ /\ ~On
              /\ cr' = EnsureDeleted({r})
              /\ work' = PartDone([work EXCEPT !.todo = @ \ {n}, !.ok = @ /\ work.part = "ovndbcluster",
                                               !.status.image[work.part] = None])
              /\ UNCHANGED cert
           \/ /\ NoController
              /\ cr' = EnsureDeleted({r})
              /\ work' = PartDone([work EXCEPT !.todo = {}, !.status.image["ovncontroller"] = work.target])
              /\ UNCHANGED cert
           \/ /\ Request(r)
              /\ work' = PartDone([work EXCEPT !.todo = {}, !.conds = Collect(@, cr[r]), !.ok = FALSE])
              /\ UNCHANGED cr
           \/ /\ CASE work.part = "ovndbcluster" -> ReconcileOVNDbCluster(r)
                   [] work.part = "ovnnorthd" -> ReconcileOVNNorthd(r)
                   [] work.part = "ovncontroller" -> ReconcileOVNController(r)
              /\ UNCHANGED cert
  BY DEF ReconcileOvnPart
<1> DEFINE r == <<work.part, n>>
<1>4. CASE /\ cr' = EnsureDeleted({r})
           /\ work' = PartDone([work EXCEPT !.todo = @ \ {n}, !.ok = @ /\ work.part = "ovndbcluster",
                                            !.status.image[work.part] = None])
           /\ UNCHANGED cert
  <2> DEFINE w == [work EXCEPT !.todo = @ \ {n}, !.ok = @ /\ work.part = "ovndbcluster",
                               !.status.image[work.part] = None]
  <2>1. OvnFollows(w) /\ w.status = [work.status EXCEPT !.image[work.part] = None]
    <3> DEFINE st == [work.status EXCEPT !.image[work.part] = None]
               ok == work.ok /\ work.part = "ovndbcluster"
    <3>1. st \in Statuses /\ ok \in BOOLEAN
      BY <1>1, SetImage
    <3>2. w = [work EXCEPT !.todo = work.todo \ {n}, !.ok = ok, !.status = st]
      BY <1>1 DEF Works
    <3> HIDE DEF st, ok, w
    <3>3. OvnFollows(w) /\ w.status = st
      BY <1>0, <1>1, <3>1, <3>2 DEF OvnFollows, Works
    <3> QED
      BY <3>3 DEF st
  <2>2. work' = PartDone(w) /\ work.part \in Range(OvnParts)
    BY <1>1, <1>4
  <2> HIDE DEF w
  <2>3. /\ OvnGoesOn(work')
        /\ work'.status.image["ovnnorthd"] = IF work.part = "ovnnorthd" THEN None ELSE work.status.image["ovnnorthd"]
    BY <1>0, <2>1, <2>2, OvnRecords, ZenonT(30)
  <2> QED
    BY <1>4, <2>3 DEF OvnRemoves
<1>5. CASE /\ cr' = EnsureDeleted({r})
           /\ work' = PartDone([work EXCEPT !.todo = {}, !.status.image["ovncontroller"] = work.target])
           /\ UNCHANGED cert
  <2> DEFINE w == [work EXCEPT !.todo = {}, !.status.image["ovncontroller"] = work.target]
  <2>1. OvnFollows(w) /\ w.status = [work.status EXCEPT !.image["ovncontroller"] = work.target]
    <3> DEFINE st == [work.status EXCEPT !.image["ovncontroller"] = work.target]
    <3>1. st \in Statuses
      BY <1>1, SetImage
    <3>2. w = [work EXCEPT !.todo = {}, !.status = st]
      BY <1>1 DEF Works
    <3> HIDE DEF st, w
    <3>3. OvnFollows(w) /\ w.status = st
      BY <1>0, <1>1, <3>1, <3>2 DEF OvnFollows, Works
    <3> QED
      BY <3>3 DEF st
  <2>2. work' = PartDone(w) /\ "ovncontroller" \in Range(OvnParts)
    BY <1>5, TemplateFacts
  <2> HIDE DEF w
  <2>3. /\ OvnGoesOn(work') /\ work'.status.image["ovnnorthd"] = work.status.image["ovnnorthd"]
    BY <1>0, <2>1, <2>2, OvnRecords
  <2> QED
    BY <1>5, <2>3 DEF OvnRemoves
<1>6. CASE /\ Request(r)
           /\ work' = PartDone([work EXCEPT !.todo = {}, !.conds = Collect(@, cr[r]), !.ok = FALSE])
           /\ UNCHANGED cr
  <2>1. /\ OvnGoesOn(work') /\ work'.status.image["ovnnorthd"] = work.status.image["ovnnorthd"]
    BY <1>0, <1>2, <1>6, OvnSame
  <2>2. cert' \in [Certs -> {"none", "requested", "issued"}]
    BY <1>0, <1>6, RequestType
  <2> QED
    BY <1>6, <2>1, <2>2 DEF OvnWaits
<1>7. CASE ReconcileOVNDbCluster(r) /\ UNCHANGED cert
  <2>1. (work.ok /\ IsReady(r)) \in BOOLEAN /\ work.todo \ {r[2]} \in SUBSET work.todo
    OBVIOUS
  <2>2. /\ OvnGoesOn(work') /\ work'.status.image["ovnnorthd"] = work.status.image["ovnnorthd"]
    BY <1>0, <1>2, <1>7, <2>1, OvnSame DEF ReconcileOVNDbCluster
  <2> QED
    BY <1>7, <2>2 DEF OvnWrites, ReconcileOVNDbCluster
<1>8. CASE work.part = "ovnnorthd" /\ ReconcileOVNNorthd(r) /\ UNCHANGED cert
  <2> DEFINE i == IF IsReady(r) THEN work.target ELSE work.status.image["ovnnorthd"]
             w == [work EXCEPT !.todo = @ \ {r[2]}, !.conds = Collect(@, cr[r]), !.ok = @ /\ IsReady(r),
                               !.status.image["ovnnorthd"] = IF IsReady(r) THEN work.target ELSE @]
  <2>1. OvnFollows(w) /\ w.status = [work.status EXCEPT !.image["ovnnorthd"] = i]
    <3>1. "ovnnorthd" \in Parts /\ i \in {None, 1, 2}
      BY <1>1, TemplateFacts
    <3> DEFINE st == [work.status EXCEPT !.image["ovnnorthd"] = i]
               ok == work.ok /\ IsReady(r)
               conds == Collect(work.conds, cr[r])
    <3>2. st \in Statuses /\ ok \in BOOLEAN /\ conds \in {"none", "true", "false"}
      BY <1>1, <1>2, <3>1, SetImage
    <3>3. w = [work EXCEPT !.todo = work.todo \ {r[2]}, !.conds = conds, !.ok = ok, !.status = st]
      BY <1>1 DEF Works
    <3> HIDE DEF st, ok, conds, w
    <3>4. OvnFollows(w) /\ w.status = st
      BY <1>0, <1>1, <3>2, <3>3 DEF OvnFollows, Works
    <3> QED
      BY <3>4 DEF st
  <2>2. work' = PartDone(w) /\ "ovnnorthd" \in Range(OvnParts) /\ cr' = [cr EXCEPT ![r] = Written(r)]
    BY <1>8, TemplateFacts DEF ReconcileOVNNorthd
  <2>3. (i = work.target /\ IsReady(r)) \/ i = work.status.image["ovnnorthd"]
    OBVIOUS
  <2> HIDE DEF w, i
  <2>4. OvnGoesOn(work') /\ work'.status.image["ovnnorthd"] = i
    BY <1>0, <2>1, <2>2, OvnRecords
  <2> QED
    BY <1>8, <2>2, <2>3, <2>4 DEF OvnWrites
<1>9. CASE ReconcileOVNController(r) /\ UNCHANGED cert
  <2> DEFINE i == IF IsReady(r) THEN work.target ELSE work.status.image["ovncontroller"]
             w == [work EXCEPT !.todo = @ \ {r[2]}, !.conds = Collect(@, cr[r]), !.ok = @ /\ IsReady(r),
                               !.status.image["ovncontroller"] = IF IsReady(r) THEN work.target ELSE @]
  <2>1. OvnFollows(w) /\ w.status = [work.status EXCEPT !.image["ovncontroller"] = i]
    <3>1. "ovncontroller" \in Parts /\ i \in {None, 1, 2}
      BY <1>1, TemplateFacts
    <3> DEFINE st == [work.status EXCEPT !.image["ovncontroller"] = i]
               ok == work.ok /\ IsReady(r)
               conds == Collect(work.conds, cr[r])
    <3>2. st \in Statuses /\ ok \in BOOLEAN /\ conds \in {"none", "true", "false"}
      BY <1>1, <1>2, <3>1, SetImage
    <3>3. w = [work EXCEPT !.todo = work.todo \ {r[2]}, !.conds = conds, !.ok = ok, !.status = st]
      BY <1>1 DEF Works
    <3> HIDE DEF st, ok, conds, w
    <3>4. OvnFollows(w) /\ w.status = st
      BY <1>0, <1>1, <3>2, <3>3 DEF OvnFollows, Works
    <3> QED
      BY <3>4 DEF st
  <2>2. work' = PartDone(w) /\ "ovncontroller" \in Range(OvnParts) /\ cr' = [cr EXCEPT ![r] = Written(r)]
    BY <1>9, TemplateFacts DEF ReconcileOVNController
  <2>3. (i = work.target /\ IsReady(r)) \/ i = work.status.image["ovncontroller"]
    OBVIOUS
  <2> HIDE DEF w, i
  <2>4. OvnGoesOn(work') /\ work'.status.image["ovnnorthd"] = work.status.image["ovnnorthd"]
    BY <1>0, <2>1, <2>2, OvnRecords
  <2> QED
    BY <1>9, <2>2, <2>4 DEF OvnWrites
<1> QED
  BY <1>1, <1>3, <1>4, <1>5, <1>6, <1>7, <1>8, <1>9, TemplateFacts

LEMMA FailOvnFacts ==
    ASSUME TypeInv, FailOvn
    PROVE  OvnGoesOn(work') /\ work'.status.image["ovnnorthd"] \in {None, work.status.image["ovnnorthd"]}
<1>0. TypeOK /\ Ovn /\ InOvn
  BY DEF TypeInv, FailOvn, Ovn
<1>1. /\ work \in Works /\ work.part \in Range(OvnParts) /\ Range(OvnParts) \subseteq Parts /\ work.begun
      /\ work.status \in Statuses /\ work.status.image \in [Parts -> {None, 1, 2}] /\ work.conds \in {"none", "true", "false"}
      /\ work.todo \subseteq Names \cup {0}
  BY <1>0, OvnNow, WorkFacts, StatusFacts DEF Ovn
<1>2. PICK conds : /\ conds = work.conds \/ \E c : conds = Collect(work.conds, c)
                   /\ work' = PartDone([work EXCEPT !.todo = {}, !.ok = FALSE, !.conds = conds,
                                                    !.status.image[work.part] = IF On THEN @ ELSE None])
  BY DEF FailOvn
<1>3. conds \in {"none", "true", "false"}
  BY <1>1, <1>2 DEF Collect
<1> DEFINE i == IF On THEN work.status.image[work.part] ELSE None
           st == [work.status EXCEPT !.image[work.part] = i]
           w == [work EXCEPT !.todo = {}, !.ok = FALSE, !.conds = conds,
                             !.status.image[work.part] = IF On THEN @ ELSE None]
<1>4. i \in {None, 1, 2} /\ i \in {None, work.status.image[work.part]}
  BY <1>1
<1>5. st \in Statuses
  BY <1>1, <1>4, SetImage
<1>6. w = [work EXCEPT !.todo = {}, !.ok = FALSE, !.conds = conds, !.status = st] /\ work' = PartDone(w)
  BY <1>1, <1>2 DEF Works
<1> HIDE DEF w, st
<1>7. OvnFollows(w) /\ w.status = st
  BY <1>1, <1>3, <1>5, <1>6 DEF OvnFollows, Works
<1>8. w.status = [work.status EXCEPT !.image[work.part] = i] /\ work.part \in Range(OvnParts)
  BY <1>1, <1>7 DEF st
<1> HIDE DEF i
<1>9. /\ OvnGoesOn(work')
      /\ work'.status.image["ovnnorthd"] = IF work.part = "ovnnorthd" THEN i ELSE work.status.image["ovnnorthd"]
  BY <1>0, <1>6, <1>7, <1>8, OvnRecords, ZenonT(30)
<1> QED
  BY <1>4, <1>9

\* The kinds of the control plane itself: OVN as a whole, and the infrastructure.
LEMMA WholeFacts ==
    ASSUME TypeInv, FinishOvn \/ CheckInfrastructure
    PROVE  /\ \E st \in Statuses :
                /\ Passes(st, FALSE) /\ st.image = work.status.image /\ st.seen = work.status.seen
                /\ \A k \in Managed \ {"ovn"} : st.cond[k] = work.status.cond[k]
           /\ work # Idle /\ work.at <= Len(plan)
<1>0. TypeOK /\ queued \in BOOLEAN /\ work # Idle /\ work.at <= Len(plan)
  BY DEF TypeInv, TypeOK, FinishOvn, CheckInfrastructure, InOvn, InPass
<1>1. work \in Works /\ work.status \in Statuses
  BY <1>0, WorkFacts
<1>2. CASE FinishOvn
  <2>1. PICK c \in Conditions : work' = NextKind([work EXCEPT !.status.cond["ovn"] = c])
    BY <1>2 DEF FinishOvn, Conditions, Mirror
  <2> DEFINE st == [work.status EXCEPT !.cond["ovn"] = c]
  <2>2. /\ st \in Statuses /\ st.image = work.status.image /\ st.seen = work.status.seen
        /\ \A k \in Managed \ {"ovn"} : st.cond[k] = work.status.cond[k]
    BY <1>1 DEF Statuses
  <2>3. Passes(st, FALSE)
    BY <1>0, <1>1, <1>2, <2>1 DEF Passes, FinishOvn, Works
  <2> HIDE DEF st
  <2> QED
    BY <1>0, <2>2, <2>3
<1>3. CASE CheckInfrastructure
  <2>1. PICK c \in Conditions : work' = NextKind([work EXCEPT !.status.infra = c])
    BY <1>3 DEF CheckInfrastructure, Conditions
  <2> DEFINE st == [work.status EXCEPT !.infra = c]
  <2>2. st \in Statuses /\ st.image = work.status.image /\ st.seen = work.status.seen /\ st.cond = work.status.cond
    BY <1>1 DEF Statuses
  <2>3. Passes(st, FALSE)
    BY <1>0, <1>1, <1>3, <2>1 DEF Passes, CheckInfrastructure, Works
  <2> HIDE DEF st
  <2> QED
    BY <1>0, <2>2, <2>3
<1> QED
  BY <1>2, <1>3

LEMMA PassesFacts ==
    ASSUME TypeInv, work # Idle, work.at <= Len(plan), NEW st \in Statuses, NEW again, Passes(st, again)
    PROVE  /\ \/ work' = Idle /\ status' = st
              \/ /\ work' \in Works /\ InWork(work') /\ work'.begun = FALSE /\ UNCHANGED status
                 /\ work'.status = st /\ work'.spec = work.spec /\ work'.target = work.target
           /\ queued' \in BOOLEAN
<1>1. CASE EndPass(st, again)
  BY <1>1, QueueType DEF EndPass
<1>2. CASE work' = NextKind([work EXCEPT !.status = st]) /\ UNCHANGED status /\ queued' \in BOOLEAN
  <2> DEFINE w == [work EXCEPT !.status = st]
  <2>1. w \in Works /\ w.at = work.at /\ w.spec = work.spec /\ w.target = work.target /\ w.status = st
    BY WorkFacts DEF TypeInv, Works
  <2>2. work' = NextKind(w)
    BY <1>2
  <2> HIDE DEF w
  <2>3. /\ NextKind(w) \in Works /\ InWork(NextKind(w)) /\ NextKind(w).status = w.status
        /\ NextKind(w).spec = w.spec /\ NextKind(w).target = w.target /\ NextKind(w).begun = FALSE
    BY <2>1, NextKindType DEF TypeInv, TypeOK
  <2> QED
    BY <1>2, <2>1, <2>2, <2>3
<1> QED
  BY <1>1, <1>2 DEF Passes

----------------------------------------------------------------------------
(* Type correctness *)

LEMMA PassType == ASSUME TypeInv, PassStep \/ FailTemplate \/ FailOvn PROVE TypeInv'
<1>0. /\ TypeOK /\ scenario \in Scenarios /\ spec \in Specs /\ target \in 1..2 /\ status \in Statuses
      /\ queued \in BOOLEAN /\ events \in Nat /\ cr \in [Resources -> CustomResources \cup {None}]
      /\ cert \in [Certs -> {"none", "requested", "issued"}]
      /\ legacy \subseteq Names /\ deployed \in [Resources -> SUBSET (1..2)]
  BY DEF TypeInv, TypeOK
<1>a. work # Idle => work.status \in Statuses
  BY <1>0, WorkFacts
<1>1. CASE BeginPass
  BY <1>0, <1>1, BeginWork, StepType DEF BeginPass
<1>2. CASE StartTemplates
  <2>1. /\ work' \in Works /\ InWork(work') /\ cert' \in [Certs -> {"none", "requested", "issued"}] /\ events' \in Nat
        /\ cr' \in [Resources -> CustomResources \cup {None}]
    BY <1>0, <1>2, StartFacts, EnsureDeletedType DEF Removes
  <2>2. UNCHANGED <<scenario, spec, target, status, legacy, deployed>> /\ queued' \in BOOLEAN
    BY <1>2, QueueType DEF StartTemplates
  <2> QED
    BY <1>0, <2>1, <2>2, StepType
<1>3. CASE ReconcileTemplate
  <2>0. /\ InTemplates /\ work.begun /\ work # Idle /\ work.todo \subseteq Names
        /\ \A n \in Names : <<Kind, n>> \in Resources
    BY <1>3, TemplatesNow DEF ReconcileTemplate
  <2>1. UNCHANGED <<scenario, spec, target, deployed, events>> /\ queued' \in BOOLEAN
    BY <1>3, QueueType DEF ReconcileTemplate
  <2>2. PICK n \in work.todo : TurnOff(n) \/ TurnWaits(n) \/ TurnWrites(n)
    BY <1>3, TurnsFacts
  <2>3. Turn(n) => work' \in Works /\ InWork(work')
    BY <2>0, TurnFacts DEF Turn, SamePass
  <2>4. CASE TurnOff(n)
    BY <1>0, <2>1, <2>3, <2>4, EnsureDeletedType, StepType DEF TurnOff
  <2>5. CASE TurnWaits(n)
    <3>1. status' \in Statuses /\ (work' = Idle \/ (work' \in Works /\ InWork(work')))
      BY <1>0, <1>a, <2>0, <2>3, <2>5 DEF TurnWaits, EndPass
    <3> QED
      BY <1>0, <2>1, <2>5, <3>1, StepType DEF TurnWaits
  <2>6. CASE TurnWrites(n)
    <3>1. cr' \in [Resources -> CustomResources \cup {None}]
      BY <1>0, <2>0, <2>6, WrittenType DEF TurnWrites
    <3>2. legacy' \subseteq Names
      BY <1>0, <2>6 DEF TurnWrites, HandOver
    <3> QED
      BY <1>0, <2>1, <2>3, <2>6, <3>1, <3>2, StepType DEF TurnWrites
  <2> QED
    BY <2>2, <2>4, <2>5, <2>6
<1>4. CASE FailTemplate
  <2>0. InTemplates /\ work.begun /\ work # Idle
    BY <1>4, TemplatesNow DEF FailTemplate
  <2>1. UNCHANGED <<scenario, spec, target, deployed, cr, cert>> /\ legacy' \subseteq Names /\ events' \in Nat
    BY <1>0, <1>4, FailFacts DEF FailTemplate
  <2>2. PICK n \in work.todo :
                \/ Turn(n) /\ UNCHANGED <<status, queued>>
                \/ EndPass(work.status, TRUE)
    BY <1>4, FailFacts
  <2>3. /\ status' \in Statuses /\ queued' \in BOOLEAN
        /\ work' = Idle \/ (work' \in Works /\ InWork(work'))
    BY <1>0, <1>a, <2>0, <2>2, TurnFacts, QueueType DEF Turn, SamePass, EndPass
  <2> QED
    BY <1>0, <2>1, <2>3, StepType
<1>5. CASE FinishTemplates
  <2>0. work # Idle /\ work.at <= Len(plan)
    BY <1>5 DEF FinishTemplates, InTemplates, InPass
  <2>1. /\ cert' \in [Certs -> {"none", "requested", "issued"}] /\ events' \in Nat
        /\ cr' \in [Resources -> CustomResources \cup {None}]
    BY <1>0, <1>5, FinishFacts, EnsureDeletedType DEF Removes
  <2>2. PICK c \in Conditions : Passes([work.status EXCEPT !.cond[Kind] = c], TRUE)
    BY <1>5, FinishFacts
  <2>3. [work.status EXCEPT !.cond[Kind] = c] \in Statuses
    BY <1>a, <2>0, SetCond
  <2>4. /\ status' \in Statuses /\ queued' \in BOOLEAN
        /\ work' = Idle \/ (work' \in Works /\ InWork(work'))
    BY <1>0, <2>0, <2>2, <2>3, PassesFacts
  <2> QED
    BY <1>0, <1>5, <2>1, <2>4, StepType DEF FinishTemplates
<1>6. CASE EnsureOVNMetricsCert
  <2>0. work # Idle
    BY <1>6 DEF EnsureOVNMetricsCert, InOvn, InPass
  <2>1. UNCHANGED <<scenario, spec, target, deployed, legacy, events, cr>> /\ cert' \in [Certs -> {"none", "requested", "issued"}]
    BY <1>6, OvnStartFacts DEF EnsureOVNMetricsCert
  <2>2. [work.status EXCEPT !.cond["ovn"] = "False"] \in Statuses
    BY <1>a, <2>0, SetCond DEF Conditions
  <2>3. /\ status' \in Statuses /\ queued' \in BOOLEAN
        /\ work' = Idle \/ (work' \in Works /\ InWork(work'))
    BY <1>0, <1>6, <2>2, OvnStartFacts, QueueType DEF OvnGoesOn, SamePass, EndPass
  <2> QED
    BY <1>0, <2>1, <2>3, StepType
<1>7. CASE ReconcileOvnPart
  <2>0. /\ work # Idle /\ \A n \in work.todo : <<work.part, n>> \in Resources
    BY <1>7, OvnNow DEF ReconcileOvnPart, Ovn
  <2>1. UNCHANGED <<scenario, spec, target, status, deployed, legacy, events>> /\ queued' \in BOOLEAN
    BY <1>7, QueueType DEF ReconcileOvnPart
  <2>2. work' \in Works /\ InWork(work')
    BY <1>7, OvnPartFacts DEF OvnGoesOn, SamePass
  <2>3. PICK n \in work.todo : OvnRemoves(<<work.part, n>>) \/ OvnWaits \/ OvnWrites(<<work.part, n>>)
    BY <1>7, OvnPartFacts
  <2>4. Written(<<work.part, n>>) \in CustomResources
    BY <1>0, <2>0, WrittenType
  <2>5. /\ cr' \in [Resources -> CustomResources \cup {None}]
        /\ cert' \in [Certs -> {"none", "requested", "issued"}]
    BY <1>0, <2>3, <2>4, EnsureDeletedType DEF OvnRemoves, OvnWaits, OvnWrites
  <2> QED
    BY <1>0, <2>1, <2>2, <2>5, StepType
<1>8. CASE FailOvn
  <2>1. work' \in Works /\ InWork(work')
    BY <1>8, FailOvnFacts DEF OvnGoesOn, SamePass
  <2>2. events' \in Nat
    <3>1. Event("fail")
      BY <1>8 DEF FailOvn
    <3> QED
      BY <1>0, <3>1 DEF Event
  <2> QED
    BY <1>0, <1>8, <2>1, <2>2, StepType DEF FailOvn
<1>9. CASE FinishOvn \/ CheckInfrastructure
  <2>1. UNCHANGED <<scenario, spec, target, status, queued, cr, cert, legacy, deployed, events>>
    BY <1>9 DEF FinishOvn, CheckInfrastructure
  <2>2. PICK st \in Statuses : Passes(st, FALSE)
    BY <1>9, WholeFacts
  <2>3. work # Idle /\ work.at <= Len(plan)
    BY <1>9, WholeFacts
  <2>4. work' = Idle \/ (work' \in Works /\ InWork(work'))
    BY <2>2, <2>3, PassesFacts
  <2> QED
    BY <1>0, <2>1, <2>4, StepType
<1>10. CASE FinishPass
  <2>1. work' = Idle /\ status' \in Statuses /\ queued' \in BOOLEAN
    BY <1>a, <1>10, QueueType DEF FinishPass, EndPass
  <2> QED
    BY <1>0, <1>10, <2>1, StepType DEF FinishPass
<1> QED
  BY <1>1, <1>2, <1>3, <1>4, <1>5, <1>6, <1>7, <1>8, <1>9, <1>10 DEF PassStep

LEMMA OthersType == ASSUME TypeInv, OperatorStep \/ Crash \/ Resync \/ UserStep PROVE TypeInv'
<1>0. /\ TypeOK /\ scenario \in Scenarios /\ spec \in Specs /\ target \in 1..2 /\ status \in Statuses
      /\ queued \in BOOLEAN /\ events \in Nat /\ cr \in [Resources -> CustomResources \cup {None}]
      /\ cert \in [Certs -> {"none", "requested", "issued"}]
      /\ legacy \subseteq Names /\ deployed \in [Resources -> SUBSET (1..2)]
      /\ work = Idle \/ (work \in Works /\ InWork(work))
  BY DEF TypeInv, TypeOK
<1>1. ASSUME NEW r \in Resources, Observe(r) \/ Rollout(r) \/ Finalize(r) PROVE TypeInv'
  <2>1. cr[r] \in CustomResources /\ cr[r].spec.image \in 1..2
    BY <1>0, <1>1 DEF Observe, Rollout, Finalize, CustomResources
  <2>2. cr' \in [Resources -> CustomResources \cup {None}]
    <3>1. CASE Observe(r)
      <4>1. [cr[r] EXCEPT !.observed = TRUE, !.conditions = TRUE, !.ready = FALSE] \in CustomResources
        BY <2>1 DEF CustomResources
      <4>2. cr' = [cr EXCEPT ![r] = [cr[r] EXCEPT !.observed = TRUE, !.conditions = TRUE, !.ready = FALSE]]
        BY <1>0, <2>1, <3>1 DEF Observe, CustomResources
      <4> QED
        BY <1>0, <4>1, <4>2
    <3>2. CASE Rollout(r)
      <4>1. [cr[r] EXCEPT !.ready = TRUE] \in CustomResources
        BY <2>1 DEF CustomResources
      <4> QED
        BY <1>0, <3>2, <4>1 DEF Rollout
    <3>3. CASE Finalize(r)
      BY <1>0, <3>3 DEF Finalize
    <3> QED
      BY <1>1, <3>1, <3>2, <3>3
  <2>3. deployed' \in [Resources -> SUBSET (1..2)]
    BY <1>0, <1>1, <2>1 DEF Observe, Rollout, Finalize
  <2>4. UNCHANGED <<scenario, spec, target, status, work, cert, legacy, events>> /\ queued' = TRUE
    BY <1>1 DEF Observe, Rollout, Finalize
  <2> QED
    BY <1>0, <2>2, <2>3, <2>4, StepType
<1>2. ASSUME NEW c \in Certs, Issue(c) PROVE TypeInv'
  BY <1>0, <1>2, StepType DEF Issue
<1>3. CASE Crash
  <2>1. events' \in Nat
    BY <1>0, <1>3 DEF Crash, Event
  <2> QED
    BY <1>0, <1>3, <2>1, StepType DEF Crash
<1>4. CASE Resync
  BY <1>0, <1>4, StepType DEF Resync
<1>5. CASE UpdateVersion
  <2>1. events' \in Nat /\ target' \in 1..2
    BY <1>0, <1>5 DEF UpdateVersion, Event
  <2> QED
    BY <1>0, <1>5, <2>1, StepType DEF UpdateVersion
<1>6. ASSUME NEW new \in Specs, NEW e, Event(e), EditSpec(new) PROVE TypeInv'
  <2>1. events' \in Nat
    BY <1>0, <1>6 DEF Event
  <2> QED
    BY <1>0, <1>6, <2>1, StepType DEF EditSpec
<1>7. ASSUME NEW k \in Managed, NEW v \in [enabled : BOOLEAN, templates : SUBSET Names]
      PROVE  [spec EXCEPT !.kind[k] = v] \in Specs
  BY <1>0 DEF Specs
<1>8. ASSUME NEW k \in Managed, SetEnabled(k) PROVE TypeInv'
  <2>1. [spec.kind[k] EXCEPT !.enabled = ~@] \in [enabled : BOOLEAN, templates : SUBSET Names]
    BY <1>0 DEF Specs
  <2>2. [spec EXCEPT !.kind[k].enabled = ~@] = [spec EXCEPT !.kind[k] = [spec.kind[k] EXCEPT !.enabled = ~@]]
    BY <1>0 DEF Specs
  <2> QED
    BY <1>6, <1>7, <1>8, <2>1, <2>2 DEF SetEnabled
<1>9. ASSUME NEW k \in Managed, NEW n \in Names, AddTemplate(k, n) PROVE TypeInv'
  <2>1. [spec.kind[k] EXCEPT !.templates = @ \cup {n}] \in [enabled : BOOLEAN, templates : SUBSET Names]
    BY <1>0 DEF Specs
  <2>2. [spec EXCEPT !.kind[k].templates = @ \cup {n}] = [spec EXCEPT !.kind[k] = [spec.kind[k] EXCEPT !.templates = @ \cup {n}]]
    BY <1>0 DEF Specs
  <2> QED
    BY <1>6, <1>7, <1>9, <2>1, <2>2 DEF AddTemplate
<1>10. ASSUME NEW k \in Managed, NEW n \in Names, RemoveTemplate(k, n) PROVE TypeInv'
  <2>1. [spec.kind[k] EXCEPT !.templates = @ \ {n}] \in [enabled : BOOLEAN, templates : SUBSET Names]
    BY <1>0 DEF Specs
  <2>2. [spec EXCEPT !.kind[k].templates = @ \ {n}] = [spec EXCEPT !.kind[k] = [spec.kind[k] EXCEPT !.templates = @ \ {n}]]
    BY <1>0 DEF Specs
  <2> QED
    BY <1>6, <1>7, <1>10, <2>1, <2>2 DEF RemoveTemplate
<1>11. CASE SetTLS \/ SetNicMappings
  <2>1. [spec EXCEPT !.podTLS = ~@] \in Specs /\ [spec EXCEPT !.nics = ~@] \in Specs
    BY <1>0 DEF Specs
  <2> QED
    BY <1>6, <1>11, <2>1 DEF SetTLS, SetNicMappings
<1> QED
  BY <1>1, <1>2, <1>3, <1>4, <1>5, <1>8, <1>9, <1>10, <1>11 DEF OperatorStep, UserStep

LEMMA InitType == Init => TypeInv
<1> SUFFICES ASSUME Init PROVE TypeInv
  OBVIOUS
<1>0. scenario \in Scenarios
  BY DEF Init
<1>1. spec \in Specs
  BY <1>0, InfrastructureAssumption DEF Init, Specs
<1>2. status \in Statuses
  BY <1>0 DEF Init, Statuses, Conditions
<1>3. Existing \in CustomResources
  BY DEF Existing, CustomResources
<1>4. /\ cr \in [Resources -> CustomResources \cup {None}] /\ cert \in [Certs -> {"none", "requested", "issued"}]
      /\ legacy \subseteq Names /\ deployed \in [Resources -> SUBSET (1..2)]
  BY <1>3 DEF Init
<1> QED
  BY <1>0, <1>1, <1>2, <1>4 DEF Init, TypeInv, TypeOK

LEMMA NextType == TypeInv /\ [Next]_vars => TypeInv'
<1> SUFFICES ASSUME TypeInv, [Next]_vars PROVE TypeInv'
  OBVIOUS
<1>1. CASE UNCHANGED vars
  <2>1. UNCHANGED <<scenario, spec, target, status, work, queued, cr, cert, legacy, deployed, events>>
    BY <1>1 DEF vars
  <2> QED
    BY <2>1, StepType DEF TypeInv, TypeOK
<1> QED
  BY <1>1, PassType, OthersType DEF Next

\* The resources, certificates, conditions and images keep their types, for any
\* templates, edits and faults: a pass reconciles the templates of its own copy of
\* the spec and nothing else.
THEOREM InfrastructureTypeCorrect == Spec => []TypeOK
<1>1. TypeInv => TypeOK
  BY DEF TypeInv
<1> QED
  BY <1>1, InitType, NextType, PTL DEF Spec

----------------------------------------------------------------------------
(* The resources *)

\* An operator reports the generation it has seen as ready only after it has
\* rolled its image out.
RolledOut ==
    \A r \in Resources : cr[r] # None /\ cr[r].observed /\ cr[r].ready => cr[r].spec.image \in deployed[r]

ResourceInv == ForeignKept /\ HandedOver /\ RolledOut

\* What the steps of a pass do to the resources: some of the control plane's own
\* are deleted, or one is written, a RabbitMQ after its cluster is handed over.
Deletes == \E keys : cr' = EnsureDeleted(keys) /\ legacy' \subseteq legacy /\ \A r \in keys \cap Resources : r[2] \notin Foreign

Writes ==
    \E r \in Resources :
      /\ work # Idle /\ r[2] \notin Foreign /\ cr' = [cr EXCEPT ![r] = Written(r)]
      /\ legacy' \subseteq legacy /\ (r[1] = "rabbitmq" => r[2] \notin legacy')

LEMMA NotForeign == \A n \in Names \cup {0} : n \notin Foreign
  BY InfrastructureAssumption

LEMMA RemovesDeletes ==
    ASSUME TypeInv, ForeignKept, InTemplates, NEW keys, Removes(keys), UNCHANGED legacy
    PROVE  Deletes
<1>1. ASSUME NEW r \in keys \cap Resources PROVE r[2] \notin Foreign
  BY <1>1 DEF Removes, Undefined, ForeignKept, Existing
<1> QED
  BY <1>1 DEF Deletes, Removes

LEMMA PassResources ==
    ASSUME TypeInv, ForeignKept, PassStep \/ FailTemplate \/ FailOvn \/ Crash \/ Resync \/ UserStep
    PROVE  UNCHANGED deployed /\ (Deletes \/ Writes)
<1>0. TypeOK /\ cr = EnsureDeleted({})
  BY DEF TypeInv, TypeOK, EnsureDeleted
<1>a. ASSUME UNCHANGED cr, legacy' \subseteq legacy PROVE Deletes
  BY <1>0, <1>a DEF Deletes
<1>b. UNCHANGED deployed
  BY DEF PassStep, BeginPass, StartTemplates, ReconcileTemplate, FinishTemplates, EnsureOVNMetricsCert,
         ReconcileOvnPart, FinishOvn, CheckInfrastructure, FinishPass, FailTemplate, FailOvn, Crash, Resync,
         UserStep, SetEnabled, AddTemplate, RemoveTemplate, SetTLS, SetNicMappings, EditSpec, UpdateVersion
<1>1. CASE BeginPass \/ FinishOvn \/ CheckInfrastructure \/ FinishPass \/ FailOvn \/ Crash \/ Resync \/ UserStep
  <2>1. UNCHANGED <<cr, legacy>>
    BY <1>1 DEF BeginPass, FinishOvn, CheckInfrastructure, FinishPass, FailOvn, Crash, Resync,
         UserStep, SetEnabled, AddTemplate, RemoveTemplate, SetTLS, SetNicMappings, EditSpec, UpdateVersion
  <2> QED
    BY <1>a, <1>b, <2>1
<1>2. CASE StartTemplates
  BY <1>b, <1>2, StartFacts, RemovesDeletes DEF StartTemplates
<1>3. CASE FinishTemplates
  BY <1>b, <1>3, FinishFacts, RemovesDeletes DEF FinishTemplates
<1>4. CASE FailTemplate
  BY <1>a, <1>b, <1>4, FailFacts
<1>5. CASE EnsureOVNMetricsCert
  <2>1. UNCHANGED <<cr, legacy>>
    BY <1>5 DEF EnsureOVNMetricsCert
  <2> QED
    BY <1>a, <1>b, <2>1
<1>6. CASE ReconcileTemplate
  <2>0. work # Idle /\ work.todo \subseteq Names /\ \A n \in Names : <<Kind, n>> \in Resources
    BY <1>6, TemplatesNow DEF ReconcileTemplate
  <2>1. PICK n \in work.todo : TurnOff(n) \/ TurnWaits(n) \/ TurnWrites(n)
    BY <1>6, TurnsFacts
  <2>2. n \notin Foreign /\ <<Kind, n>> \in Resources
    BY <2>0, NotForeign
  <2>3. CASE TurnOff(n)
    BY <1>b, <2>2, <2>3 DEF TurnOff, Deletes
  <2>4. CASE TurnWaits(n)
    BY <1>a, <1>b, <2>4 DEF TurnWaits
  <2>5. CASE TurnWrites(n)
    <3>1. legacy' \subseteq legacy /\ (Kind = "rabbitmq" => n \notin legacy')
      BY <2>5 DEF TurnWrites, HandOver
    <3> QED
      BY <1>b, <2>0, <2>2, <2>5, <3>1 DEF TurnWrites, Writes
  <2> QED
    BY <2>1, <2>3, <2>4, <2>5
<1>7. CASE ReconcileOvnPart
  <2>0. /\ work # Idle /\ work.part \in {"ovndbcluster", "ovnnorthd", "ovncontroller"}
        /\ \A n \in work.todo : n \in Names \cup {0} /\ <<work.part, n>> \in Resources
    BY <1>7, OvnNow, TemplateFacts DEF ReconcileOvnPart, Ovn
  <2>1. PICK n \in work.todo : OvnRemoves(<<work.part, n>>) \/ OvnWaits \/ OvnWrites(<<work.part, n>>)
    BY <1>7, OvnPartFacts
  <2>2. n \notin Foreign /\ <<work.part, n>> \in Resources /\ work.part # "rabbitmq"
    BY <2>0, NotForeign
  <2>3. UNCHANGED legacy
    BY <1>7 DEF ReconcileOvnPart
  <2>4. CASE OvnRemoves(<<work.part, n>>)
    BY <1>b, <2>2, <2>3, <2>4 DEF OvnRemoves, Deletes
  <2>5. CASE OvnWaits
    BY <1>a, <1>b, <2>3, <2>5 DEF OvnWaits
  <2>6. CASE OvnWrites(<<work.part, n>>)
    BY <1>b, <2>0, <2>2, <2>3, <2>6 DEF OvnWrites, Writes
  <2> QED
    BY <2>1, <2>4, <2>5, <2>6
<1> QED
  BY <1>1, <1>2, <1>3, <1>4, <1>5, <1>6, <1>7 DEF PassStep

LEMMA InitResources == Init => ResourceInv
<1> SUFFICES ASSUME Init PROVE ResourceInv
  OBVIOUS
<1>1. \A r \in Resources : cr[r] = IF r[2] \in Foreign THEN Existing ELSE None
  BY DEF Init
<1>2. ForeignKept
  BY <1>1 DEF ForeignKept
<1>3. HandedOver
  <2> SUFFICES ASSUME "rabbitmq" \in Managed, NEW n \in Names PROVE cr[<<"rabbitmq", n>>] = None
    BY DEF HandedOver
  <2>1. <<"rabbitmq", n>> \in Resources
    BY ResourceFacts DEF Init
  <2> QED
    BY <1>1, <2>1, NotForeign
<1>4. RolledOut
  BY <1>1 DEF Init, RolledOut, Existing
<1> QED
  BY <1>2, <1>3, <1>4 DEF ResourceInv

LEMMA NextResources == TypeInv /\ TypeInv' /\ ResourceInv /\ [Next]_vars => ResourceInv'
<1> SUFFICES ASSUME TypeInv, TypeInv', ResourceInv, [Next]_vars PROVE ResourceInv'
  OBVIOUS
<1>0. /\ cr \in [Resources -> CustomResources \cup {None}] /\ deployed \in [Resources -> SUBSET (1..2)]
      /\ scenario \in Scenarios /\ TypeOK
  BY DEF TypeInv, TypeOK
<1>a. "rabbitmq" \in Managed => \A n \in Names : <<"rabbitmq", n>> \in Resources
  BY <1>0, ResourceFacts
\* It is enough to look at one resource.
<1>b. ASSUME UNCHANGED scenario, legacy' \subseteq legacy,
             NEW R, \A r \in Resources \ R : cr'[r] = cr[r] /\ deployed'[r] = deployed[r],
             \A r \in R \cap Resources :
               /\ r[2] \in Foreign => cr'[r] = cr[r]
               /\ cr'[r] # None /\ r[1] = "rabbitmq" => cr[r] # None \/ r[2] \notin legacy'
               /\ cr'[r] # None /\ cr'[r].observed /\ cr'[r].ready => cr'[r].spec.image \in deployed'[r]
      PROVE  ResourceInv'
  <2>0. Resources' = Resources /\ Managed' = Managed
    BY <1>b, SameScenario
  <2>1. ForeignKept'
    BY <1>b, <2>0 DEF ResourceInv, ForeignKept, Existing
  <2>2. HandedOver'
    <3> SUFFICES ASSUME "rabbitmq" \in Managed, NEW n \in Names, cr'[<<"rabbitmq", n>>] # None PROVE n \notin legacy'
      BY <2>0 DEF HandedOver
    <3>1. cr[<<"rabbitmq", n>>] # None => n \notin legacy
      BY DEF ResourceInv, HandedOver
    <3> QED
      BY <1>a, <1>b, <3>1
  <2>3. RolledOut'
    BY <1>b, <2>0 DEF ResourceInv, RolledOut
  <2> QED
    BY <2>1, <2>2, <2>3 DEF ResourceInv
<1>c. UNCHANGED scenario
  BY DEF Next, PassStep, BeginPass, StartTemplates, ReconcileTemplate, FinishTemplates, EnsureOVNMetricsCert,
         ReconcileOvnPart, FinishOvn, CheckInfrastructure, FinishPass, FailTemplate, FailOvn, Crash, Resync,
         UserStep, SetEnabled, AddTemplate, RemoveTemplate, SetTLS, SetNicMappings, EditSpec, UpdateVersion,
         OperatorStep, Observe, Rollout, Finalize, Issue, vars
<1>1. CASE UNCHANGED <<cr, deployed, legacy>>
  <2>1. \A r \in Resources \ {} : cr'[r] = cr[r] /\ deployed'[r] = deployed[r]
    BY <1>1
  <2>2. \A q \in {} \cap Resources :
          /\ q[2] \in Foreign => cr'[q] = cr[q]
          /\ cr'[q] # None /\ q[1] = "rabbitmq" => cr[q] # None \/ q[2] \notin legacy'
          /\ cr'[q] # None /\ cr'[q].observed /\ cr'[q].ready => cr'[q].spec.image \in deployed'[q]
    OBVIOUS
  <2> QED
    BY <1>b, <1>c, <1>1, <2>1, <2>2
<1>2. CASE Deletes /\ UNCHANGED deployed
  <2>1. PICK keys : cr' = EnsureDeleted(keys) /\ legacy' \subseteq legacy /\ \A r \in keys \cap Resources : r[2] \notin Foreign
    BY <1>2 DEF Deletes
  <2>2. ASSUME NEW r \in Resources
        PROVE  cr'[r] = IF r \in keys /\ cr[r] # None THEN [cr[r] EXCEPT !.deleting = TRUE] ELSE cr[r]
    BY <1>0, <2>1 DEF EnsureDeleted
  <2>3. ASSUME NEW r \in keys \cap Resources, cr'[r] # None, cr'[r].observed, cr'[r].ready
        PROVE  cr'[r].spec.image \in deployed'[r]
    <3>1. cr[r] # None /\ cr[r] \in CustomResources /\ cr'[r] = [cr[r] EXCEPT !.deleting = TRUE]
      BY <1>0, <2>2, <2>3
    <3>2. cr[r].observed /\ cr[r].ready /\ cr'[r].spec = cr[r].spec
      BY <2>3, <3>1 DEF CustomResources
    <3> QED
      BY <1>2, <3>1, <3>2 DEF ResourceInv, RolledOut
  <2>4. ASSUME NEW r \in keys \cap Resources, cr'[r] # None PROVE cr[r] # None
    BY <2>2, <2>4
  <2>5. \A r \in Resources \ keys : cr'[r] = cr[r]
    BY <2>2
  <2> QED
    BY <1>b, <1>c, <1>2, <2>1, <2>3, <2>4, <2>5
<1>3. CASE Writes /\ UNCHANGED deployed
  <2>1. PICK r \in Resources :
          /\ work # Idle /\ r[2] \notin Foreign /\ cr' = [cr EXCEPT ![r] = Written(r)]
          /\ legacy' \subseteq legacy /\ (r[1] = "rabbitmq" => r[2] \notin legacy')
    BY <1>3 DEF Writes
  <2>2. cr'[r] = Written(r) /\ \A q \in Resources \ {r} : cr'[q] = cr[q]
    BY <1>0, <2>1
  <2>3. ASSUME cr'[r].observed, cr'[r].ready PROVE cr'[r].spec.image \in deployed'[r]
    <3>1. cr[r] # None /\ cr[r].observed /\ cr[r].ready /\ cr'[r].spec = cr[r].spec
      BY <1>0, <2>1, <2>2, <2>3, WrittenType
    <3> QED
      BY <1>3, <3>1 DEF ResourceInv, RolledOut
  <2>4. \A q \in {r} \cap Resources :
          /\ q[2] \in Foreign => cr'[q] = cr[q]
          /\ cr'[q] # None /\ q[1] = "rabbitmq" => cr[q] # None \/ q[2] \notin legacy'
          /\ cr'[q] # None /\ cr'[q].observed /\ cr'[q].ready => cr'[q].spec.image \in deployed'[q]
    BY <2>1, <2>3
  <2> QED
    BY <1>b, <1>c, <1>3, <2>1, <2>2, <2>4
<1>4. ASSUME NEW r \in Resources, Observe(r) \/ Rollout(r) \/ Finalize(r) PROVE ResourceInv'
  <2>0. cr[r] # None /\ cr[r] \in CustomResources
    BY <1>0, <1>4 DEF Observe, Rollout, Finalize
  <2>1. UNCHANGED legacy /\ \A q \in Resources \ {r} : cr'[q] = cr[q] /\ deployed'[q] = deployed[q]
    BY <1>0, <1>4 DEF Observe, Rollout, Finalize
  <2>2. ASSUME cr'[r] # None, cr'[r].observed, cr'[r].ready PROVE cr'[r].spec.image \in deployed'[r]
    <3>1. CASE Observe(r)
      BY <1>0, <2>0, <2>2, <3>1 DEF Observe, CustomResources
    <3>2. CASE Finalize(r)
      BY <1>0, <2>2, <3>2 DEF Finalize
    <3>3. CASE Rollout(r)
      BY <1>0, <2>0, <3>3 DEF Rollout, CustomResources
    <3> QED
      BY <1>4, <3>1, <3>2, <3>3
  <2>3. r[2] \notin Foreign
    BY <1>4 DEF ResourceInv, ForeignKept, Existing, Observe, Rollout, Finalize
  <2>4. \A q \in {r} \cap Resources :
          /\ q[2] \in Foreign => cr'[q] = cr[q]
          /\ cr'[q] # None /\ q[1] = "rabbitmq" => cr[q] # None \/ q[2] \notin legacy'
          /\ cr'[q] # None /\ cr'[q].observed /\ cr'[q].ready => cr'[q].spec.image \in deployed'[q]
    BY <2>0, <2>2, <2>3
  <2> QED
    BY <1>b, <1>c, <2>1, <2>4
<1> QED
  <2>1. CASE UNCHANGED vars \/ \E c \in Certs : Issue(c)
    BY <1>1, <2>1 DEF vars, Issue
  <2>2. CASE PassStep \/ FailTemplate \/ FailOvn \/ Crash \/ Resync \/ UserStep
    BY <1>2, <1>3, <2>2, PassResources DEF ResourceInv
  <2> QED
    BY <1>4, <2>1, <2>2 DEF Next, OperatorStep

LEMMA ResourceInvariant == Spec => [](TypeInv /\ ResourceInv)
  BY InitType, NextType, InitResources, NextResources, PTL DEF Spec

\* Instances somebody else created in the namespace are never touched
\* (ForeignKept): deleteUndefinedGaleras, deleteUndefinedRabbitMQs and their likes
\* go by the owner, and a pass writes or deletes only instances of its templates,
\* whatever is edited, fails or is interrupted.
THEOREM ForeignInstancesAreKept == Spec => []ForeignKept
<1>1. ResourceInv => ForeignKept
  BY DEF ResourceInv
<1> QED
  BY <1>1, ResourceInvariant, PTL

\* No RabbitmqCluster of an earlier release has two controllers (HandedOver):
\* reconcileRabbitMQ gives it up before it asks the infra operator for the
\* instance, also when a call fails or the process stops in between.
THEOREM ClustersAreHandedOver == Spec => []HandedOver
<1>1. ResourceInv => HandedOver
  BY DEF ResourceInv
<1> QED
  BY <1>1, ResourceInvariant, PTL

----------------------------------------------------------------------------
(* The recorded images *)

Counted == Parts \cap {"galera", "rabbitmq", "memcached", "ovnnorthd"}

\* Some instance of p has been rolled out with the image i, by the roll-outs d.
WasDeployed(d, p, i) == \E r \in Resources : r[1] = p /\ r[2] \notin Foreign /\ i \in d[r]

Recorded(d, image) == \A p \in Counted : image[p] # None => WasDeployed(d, p, image[p])

\* The images in the status and those of the pass under way.
RecordInv == Recorded(deployed, status.image) /\ (work # Idle => Recorded(deployed, work.status.image))

\* An instance a pass finds ready has been rolled out with the image of the pass.
LEMMA ReadyIsDeployed ==
    ASSUME TypeInv, TypeInv', ResourceInv', UNCHANGED <<scenario, deployed>>, work # Idle,
           NEW p, p \in {"galera", "rabbitmq", "memcached", "ovnnorthd"}, NEW n \in Names \cup {0}, <<p, n>> \in Resources,
           cr' = [cr EXCEPT ![<<p, n>>] = Written(<<p, n>>)], IsReady(<<p, n>>)
    PROVE  work.target \in deployed[<<p, n>>] /\ WasDeployed(deployed, p, work.target)
<1> DEFINE r == <<p, n>>
<1>1. cr'[r] = Written(r) /\ Written(r) \in CustomResources /\ Written(r).spec.image = work.target
  BY WrittenType DEF TypeInv, TypeOK
<1>2. r[1] = p /\ r[2] = n /\ r \in Resources
  OBVIOUS
<1>3. ~(p \in DOMAIN Templates /\ ~Templates[p].one.generation)
  <2>1. p \in {"galera", "rabbitmq", "memcached"} => Templates[p].one.generation
    BY DEF Templates, reconcileGalera, reconcileRabbitMQ, reconcileMemcached
  <2>2. "ovnnorthd" \notin DOMAIN Templates
    BY TemplateFacts DEF TemplateKinds
  <2> QED
    BY <2>1, <2>2
<1> HIDE DEF r
<1>4. cr'[r].ready /\ cr'[r].observed
  BY <1>2, <1>3 DEF IsReady, r
<1>5. cr'[r] # None
  BY <1>1, InfrastructureAssumption
<1>6. Resources' = Resources
  BY SameScenario
<1>7. work.target \in deployed[r]
  BY <1>1, <1>2, <1>4, <1>5, <1>6 DEF ResourceInv, RolledOut
<1> QED
  BY <1>2, <1>7, NotForeign DEF WasDeployed, r

LEMMA PassKeeps == ASSUME PassStep \/ FailTemplate \/ FailOvn PROVE UNCHANGED <<scenario, deployed>>
  BY DEF PassStep, BeginPass, StartTemplates, ReconcileTemplate, FinishTemplates, EnsureOVNMetricsCert,
         ReconcileOvnPart, FinishOvn, CheckInfrastructure, FinishPass, FailTemplate, FailOvn

LEMMA OthersKeep ==
    ASSUME OperatorStep \/ Crash \/ Resync \/ UserStep \/ UNCHANGED vars
    PROVE  UNCHANGED status /\ (UNCHANGED work \/ work' = Idle)
  BY DEF OperatorStep, Observe, Rollout, Finalize, Issue, Crash, Resync, UserStep, SetEnabled, AddTemplate,
         RemoveTemplate, SetTLS, SetNicMappings, UpdateVersion, EditSpec, vars

\* Where the images in the status and in a pass come from.
LEMMA ImageSteps ==
    ASSUME TypeInv, TypeInv', ResourceInv, ResourceInv', PassStep \/ FailTemplate \/ FailOvn
    PROVE  /\ status' = status \/ (work # Idle /\ status'.image = work.status.image)
           /\ work' # Idle => \A p \in Counted :
                \/ work'.status.image[p] = None
                \/ work'.status.image[p] = IF work = Idle THEN status.image[p] ELSE work.status.image[p]
                \/ WasDeployed(deployed, p, work'.status.image[p])
<1>0. /\ TypeOK /\ UNCHANGED deployed /\ Counted \subseteq Parts
      /\ work # Idle => work \in Works /\ work.status \in Statuses /\ work.at \in Nat /\ Len(plan) \in Nat
  BY WorkFacts, PlanFacts, PassResources DEF TypeInv, TypeOK, ResourceInv, Counted
<1>a. UNCHANGED scenario
  BY PassKeeps
<1>b. \A k, c : work # Idle => [work.status EXCEPT !.cond[k] = c].image = work.status.image
  BY <1>0 DEF Statuses
<1>1. CASE BeginPass
  BY <1>1, BeginWork DEF BeginPass
<1>2. CASE StartTemplates
  <2>1. UNCHANGED status /\ work # Idle /\ work.at <= Len(plan)
    BY <1>2 DEF StartTemplates, InTemplates, InPass
  <2>2. work'.status = work.status
    BY <1>0, <1>2, <2>1, StartFacts, NextKindType DEF TypeOK
  <2> QED
    BY <2>1, <2>2
<1>3. CASE ReconcileTemplate
  <2>0. /\ work # Idle /\ work.todo \subseteq Names /\ Kind \in Parts /\ \A n \in Names : <<Kind, n>> \in Resources
    BY <1>3, TemplatesNow DEF ReconcileTemplate
  <2>1. PICK n \in work.todo : TurnOff(n) \/ TurnWaits(n) \/ TurnWrites(n)
    BY <1>3, TurnsFacts
  <2>2. CASE TurnOff(n)
    BY <1>0, <2>0, <2>2 DEF TurnOff, Turn
  <2>3. CASE TurnWaits(n)
    BY <2>0, <2>3 DEF TurnWaits, EndPass
  <2>4. CASE TurnWrites(n)
    <3>1. Kind \in Counted /\ IsReady(<<Kind, n>>) => WasDeployed(deployed, Kind, work.target)
      BY <1>0, <1>a, <2>0, <2>4, ReadyIsDeployed DEF TurnWrites, Counted
    <3> QED
      BY <1>0, <2>0, <2>4, <3>1 DEF TurnWrites, Turn
  <2> QED
    BY <2>1, <2>2, <2>3, <2>4
<1>4. CASE FailTemplate
  <2>1. work # Idle
    BY <1>4 DEF FailTemplate, InTemplates, InPass
  <2> QED
    BY <1>4, <2>1, FailFacts DEF EndPass
<1>5. CASE FinishTemplates
  <2>0. work # Idle /\ work.at <= Len(plan)
    BY <1>5 DEF FinishTemplates, InTemplates, InPass
  <2>1. PICK c \in Conditions : Passes([work.status EXCEPT !.cond[Kind] = c], TRUE)
    BY <1>5, FinishFacts
  <2> DEFINE st == [work.status EXCEPT !.cond[Kind] = c]
  <2>2. st \in Statuses /\ st.image = work.status.image
    BY <1>0, <2>0, <1>b, SetCond
  <2> HIDE DEF st
  <2>3. (work' = Idle /\ status' = st) \/ (work'.status = st /\ UNCHANGED status)
    BY <2>0, <2>1, <2>2, PassesFacts DEF st
  <2> QED
    BY <2>0, <2>2, <2>3
<1>6. CASE EnsureOVNMetricsCert
  <2>0. work # Idle
    BY <1>6 DEF EnsureOVNMetricsCert, InOvn, InPass
  <2>1. CASE EndPass([work.status EXCEPT !.cond["ovn"] = "False"], TRUE)
    <3>1. status'.image = work.status.image /\ work' = Idle
      BY <1>b, <2>0, <2>1 DEF EndPass
    <3> QED
      BY <2>0, <3>1
  <2>2. CASE work'.status = work.status /\ UNCHANGED status
    BY <2>0, <2>2
  <2> QED
    BY <1>6, <2>1, <2>2, OvnStartFacts
<1>7. CASE ReconcileOvnPart
  <2>0. /\ work # Idle /\ UNCHANGED status
        /\ \A n \in work.todo : n \in Names \cup {0} /\ <<work.part, n>> \in Resources
    BY <1>7, OvnNow DEF ReconcileOvnPart, Ovn
  <2>1. PICK n \in work.todo : OvnRemoves(<<work.part, n>>) \/ OvnWaits \/ OvnWrites(<<work.part, n>>)
    BY <1>7, OvnPartFacts
  <2>2. \A p \in Counted \ {"ovnnorthd"} : work'.status.image[p] = work.status.image[p]
    BY <1>7, OvnPartFacts, TemplateFacts DEF OvnGoesOn, Counted
  <2>3. CASE OvnRemoves(<<work.part, n>>) \/ OvnWaits
    BY <2>0, <2>2, <2>3 DEF OvnRemoves, OvnWaits
  <2>4. CASE OvnWrites(<<work.part, n>>)
    <3>1. work.part = "ovnnorthd" /\ IsReady(<<work.part, n>>) => WasDeployed(deployed, "ovnnorthd", work.target)
      BY <1>0, <1>a, <2>0, <2>4, ReadyIsDeployed DEF OvnWrites
    <3> QED
      BY <2>0, <2>2, <2>4, <3>1 DEF OvnWrites
  <2> QED
    BY <2>1, <2>3, <2>4
<1>8. CASE FailOvn
  <2>1. work # Idle /\ UNCHANGED status
    BY <1>8 DEF FailOvn, Ovn, InOvn, InPass
  <2>2. \A p \in Counted \ {"ovnnorthd"} : work'.status.image[p] = work.status.image[p]
    BY <1>8, FailOvnFacts, TemplateFacts DEF OvnGoesOn, Counted
  <2> QED
    BY <1>8, <2>1, <2>2, FailOvnFacts
<1>9. CASE FinishOvn \/ CheckInfrastructure
  <2>0. work # Idle /\ work.at <= Len(plan)
    BY <1>9, WholeFacts
  <2>1. PICK st \in Statuses : Passes(st, FALSE) /\ st.image = work.status.image
    BY <1>9, WholeFacts
  <2>2. (work' = Idle /\ status' = st) \/ (work'.status = st /\ UNCHANGED status)
    BY <2>0, <2>1, PassesFacts
  <2> QED
    BY <2>0, <2>1, <2>2
<1>10. CASE FinishPass
  BY <1>10 DEF FinishPass, EndPass
<1> QED
  BY <1>1, <1>2, <1>3, <1>4, <1>5, <1>6, <1>7, <1>8, <1>9, <1>10 DEF PassStep

LEMMA InitRecorded == Init => RecordInv
<1> SUFFICES ASSUME Init PROVE RecordInv
  OBVIOUS
<1> QED
  BY DEF Init, RecordInv, Recorded, Counted

\* What has been rolled out stays rolled out.
LEMMA DeployedGrows ==
    ASSUME TypeInv, [Next]_vars
    PROVE  UNCHANGED scenario /\ \A r \in Resources : deployed[r] \subseteq deployed'[r]
<1>0. deployed \in [Resources -> SUBSET (1..2)]
  BY DEF TypeInv, TypeOK
<1>1. CASE UNCHANGED vars
  BY <1>1 DEF vars
<1>2. CASE PassStep \/ FailTemplate \/ FailOvn
  BY <1>2, PassKeeps
<1>3. CASE OperatorStep
  <2>1. CASE \E r \in Resources : Observe(r) \/ Finalize(r)
    BY <2>1 DEF Observe, Finalize
  <2>2. CASE \E r \in Resources : Rollout(r)
    BY <1>0, <2>2 DEF Rollout
  <2>3. CASE \E c \in Certs : Issue(c)
    BY <2>3 DEF Issue
  <2> QED
    BY <1>3, <2>1, <2>2, <2>3 DEF OperatorStep
<1>4. CASE Crash \/ Resync \/ UserStep
  BY <1>4 DEF Crash, Resync, UserStep, SetEnabled, AddTemplate, RemoveTemplate, SetTLS, SetNicMappings, UpdateVersion, EditSpec
<1> QED
  BY <1>1, <1>2, <1>3, <1>4 DEF Next

LEMMA NextRecorded == TypeInv /\ TypeInv' /\ ResourceInv /\ ResourceInv' /\ RecordInv /\ [Next]_vars => RecordInv'
<1> SUFFICES ASSUME TypeInv, TypeInv', ResourceInv, ResourceInv', RecordInv, [Next]_vars PROVE RecordInv'
  OBVIOUS
<1>1. UNCHANGED <<Resources, Counted>>
  BY DeployedGrows, SameScenario DEF Counted
<1>2. \A p, i : WasDeployed(deployed, p, i) => WasDeployed(deployed', p, i)
  BY <1>1, DeployedGrows DEF WasDeployed
<1>3. \A image : Recorded(deployed, image) => Recorded(deployed', image)
  BY <1>2 DEF Recorded
<1>4. CASE UNCHANGED status /\ (UNCHANGED work \/ work' = Idle)
  BY <1>1, <1>3, <1>4 DEF RecordInv, Recorded, WasDeployed
<1>5. CASE PassStep \/ FailTemplate \/ FailOvn
  <2>1. Recorded(deployed', status'.image)
    BY <1>3, <1>5, ImageSteps DEF RecordInv
  <2>2. work' # Idle => Recorded(deployed', work'.status.image)
    BY <1>2, <1>5, ImageSteps DEF RecordInv, Recorded
  <2> QED
    BY <1>1, <2>1, <2>2 DEF RecordInv, Recorded, WasDeployed
<1>6. CASE OperatorStep \/ Crash \/ Resync \/ UserStep \/ UNCHANGED vars
  <2>1. UNCHANGED status /\ (UNCHANGED work \/ work' = Idle)
    BY <1>6, OthersKeep
  <2> QED
    BY <1>4, <2>1
<1> QED
  BY <1>5, <1>6 DEF Next

\* An image is recorded as the deployed one of RabbitMQ, Galera, Memcached or
\* northd only if an instance of the control plane has been rolled out with it
\* (RecordedWasDeployed): the reconcilers record the image of a pass only when
\* the operator of the instance has seen the spec they wrote and is ready.
THEOREM RecordedImagesWereDeployed == Spec => []RecordedWasDeployed
<1>1. RecordInv => RecordedWasDeployed
  BY DEF RecordInv, Recorded, Counted, WasDeployed, RecordedWasDeployed
<1> QED
  BY <1>1, ResourceInvariant, InitRecorded, NextRecorded, PTL DEF Spec

----------------------------------------------------------------------------
(* The test for an updated RabbitMQ *)

\* The instances of RabbitMQ for the templates T run the image i, by the roll-outs d.
Up(d, T, i) == \A n \in T : i \in d[<<"rabbitmq", n>>]

\* The templates D of a pass w are up, and its status st records the image.
KnowsUp(d, w, st, D) == Up(d, D, w.target) /\ (D # {} => st.image["rabbitmq"] = w.target)

StatusUp(d, w, st) ==
    /\ st.seen = w.spec
    /\ w.spec.kind["rabbitmq"].enabled /\ st.cond["rabbitmq"] = "True"
         => KnowsUp(d, w, st, w.spec.kind["rabbitmq"].templates)

TurnUp(d, w) ==
    /\ w.begun /\ w.spec.kind["rabbitmq"].enabled /\ ~w.failed /\ ~w.busy
    => KnowsUp(d, w, w.status, w.spec.kind["rabbitmq"].templates \ w.todo)

\* A pass that has come past RabbitMQ with its condition at True, and one that
\* is at it and has had no failure and no instance that was not ready.
WorkUp(d, w) ==
    /\ StatusUp(d, w, w.status)
    /\ w.at <= Len(plan) /\ plan[w.at] = "rabbitmq" => TurnUp(d, w)

\* The status that a pass has saved, of the spec it has seen.
SavedUp(d, st) ==
    st.seen.kind["rabbitmq"].enabled /\ st.cond["rabbitmq"] = "True"
      => /\ st.seen.kind["rabbitmq"].templates \subseteq Names
         /\ Up(d, st.seen.kind["rabbitmq"].templates, st.image["rabbitmq"])

UpdateInv == "rabbitmq" \in Managed => SavedUp(deployed, status) /\ (work # Idle => WorkUp(deployed, work))

LEMMA SavingUp ==
    ASSUME TypeInv, work # Idle, "rabbitmq" \in Managed, NEW d, NEW st, StatusUp(d, work, st)
    PROVE  SavedUp(d, st)
<1>1. work.spec.kind["rabbitmq"].templates \subseteq Names
  BY WorkFacts DEF TypeInv, Specs
<1> QED
  BY <1>1 DEF StatusUp, KnowsUp, SavedUp, Up

\* What a pass knows does not depend on the other kinds.
LEMMA SameUp ==
    ASSUME NEW d, NEW w, NEW v, NEW st, NEW su, StatusUp(d, w, st), v.spec = w.spec, v.target = w.target,
           su.seen = st.seen, su.cond["rabbitmq"] = st.cond["rabbitmq"], su.image["rabbitmq"] = st.image["rabbitmq"]
    PROVE  StatusUp(d, v, su)
  BY DEF StatusUp, KnowsUp

\* A pass that goes on with the next kind.
LEMMA PassesUp ==
    ASSUME TypeInv, work # Idle, work.at <= Len(plan), NEW st \in Statuses, NEW again, Passes(st, again),
           "rabbitmq" \in Managed, StatusUp(deployed, work, st), SavedUp(deployed, status)
    PROVE  SavedUp(deployed, status') /\ (work' # Idle => WorkUp(deployed, work'))
<1>1. CASE work' = Idle /\ status' = st
  BY <1>1, SavingUp
<1>2. CASE /\ work'.begun = FALSE /\ UNCHANGED status
           /\ work'.status = st /\ work'.spec = work.spec /\ work'.target = work.target
  <2>1. StatusUp(deployed, work', work'.status)
    BY <1>2, SameUp
  <2> QED
    BY <1>2, <2>1 DEF WorkUp, TurnUp
<1> QED
  BY <1>1, <1>2, PassesFacts

LEMMA PassUp ==
    ASSUME TypeInv, TypeInv', ResourceInv', "rabbitmq" \in Managed, PassStep \/ FailTemplate \/ FailOvn,
           UNCHANGED <<scenario, deployed>>, SavedUp(deployed, status), work # Idle => WorkUp(deployed, work)
    PROVE  SavedUp(deployed, status') /\ (work' # Idle => WorkUp(deployed, work'))
<1>0. /\ TypeOK /\ scenario \in Scenarios /\ Len(plan) \in Nat /\ "rabbitmq" \in Parts /\ "rabbitmq" \notin Range(OvnParts)
      /\ work # Idle => work \in Works /\ work.status \in Statuses /\ work.at \in Nat
  BY WorkFacts, PlanFacts, ResourceFacts, TemplateFacts DEF TypeInv, TypeOK, Works
<1>a. work # Idle => StatusUp(deployed, work, work.status)
  BY DEF WorkUp
<1>1. CASE BeginPass
  <2>1. /\ work'.status.seen = work'.spec /\ UNCHANGED status /\ work'.begun = FALSE
        /\ work'.spec.kind["rabbitmq"].enabled => work'.status.cond["rabbitmq"] = "Unknown"
    BY <1>1, BeginWork DEF BeginPass
  <2> QED
    BY <2>1 DEF WorkUp, StatusUp, TurnUp
<1>2. CASE StartTemplates
  <2>0. UNCHANGED status /\ work # Idle /\ work.at <= Len(plan)
    BY <1>2 DEF StartTemplates, InTemplates, InPass
  <2>1. CASE work' = NextKind(work)
    <3>1. /\ work'.status = work.status /\ work'.spec = work.spec /\ work'.target = work.target /\ work'.begun = FALSE
      BY <1>0, <2>0, <2>1, NextKindType
    <3>2. StatusUp(deployed, work', work'.status)
      BY <1>a, <2>0, <3>1, SameUp
    <3> QED
      BY <2>0, <3>1, <3>2 DEF WorkUp, TurnUp
  <2>2. CASE SamePass(work') /\ work'.todo = Defined /\ work'.status = work.status
    <3>1. work'.spec = work.spec /\ work'.target = work.target /\ work'.at = work.at
      BY <2>2 DEF SamePass
    <3>2. StatusUp(deployed, work', work'.status)
      BY <1>a, <2>0, <2>2, <3>1, SameUp
    <3>3. plan[work'.at] = "rabbitmq" => work'.spec.kind["rabbitmq"].templates \ work'.todo = {}
      BY <2>2, <3>1 DEF Defined, Kind
    <3> QED
      BY <2>0, <3>2, <3>3 DEF WorkUp, TurnUp, KnowsUp, Up
  <2> QED
    BY <1>2, <2>1, <2>2, StartFacts
<1>3. CASE ReconcileTemplate
  <2>0. /\ work # Idle /\ work.todo \subseteq Names /\ Kind \in Parts /\ \A n \in Names : <<Kind, n>> \in Resources
        /\ Kind = plan[work.at] /\ work.at <= Len(plan) /\ work.begun /\ work.failed \in BOOLEAN /\ work.busy \in BOOLEAN
    BY <1>0, <1>3, TemplatesNow, WorkFacts DEF ReconcileTemplate, Kind
  <2>1. PICK n \in work.todo : TurnOff(n) \/ TurnWaits(n) \/ TurnWrites(n)
    BY <1>3, TurnsFacts
  <2>2. CASE Turn(n) /\ Kind # "rabbitmq" /\ UNCHANGED status
    <3>1. /\ work'.spec = work.spec /\ work'.target = work.target /\ work'.at = work.at
          /\ work'.status.seen = work.status.seen
          /\ work'.status.cond["rabbitmq"] = work.status.cond["rabbitmq"]
          /\ work'.status.image["rabbitmq"] = work.status.image["rabbitmq"]
      BY <1>0, <2>2 DEF Turn, SamePass
    <3>2. StatusUp(deployed, work', work'.status)
      BY <1>a, <2>0, <3>1, SameUp
    <3> QED
      BY <2>0, <2>2, <3>1, <3>2 DEF WorkUp
  <2>3. CASE TurnOff(n) /\ Kind = "rabbitmq"
    <3>1. work'.spec = work.spec /\ work'.status.seen = work.status.seen /\ ~work.spec.kind["rabbitmq"].enabled /\ UNCHANGED status
      BY <2>3 DEF TurnOff, Turn, SamePass, On
    <3> QED
      BY <1>a, <2>0, <3>1 DEF WorkUp, StatusUp, TurnUp
  <2>4. CASE TurnWaits(n) /\ Kind = "galera" /\ EndPass(work.status, TRUE)
    BY <1>a, <2>0, <2>4, SavingUp DEF EndPass
  <2>5. CASE Turn(n) /\ work'.busy /\ work'.status = work.status /\ UNCHANGED status /\ Kind = "rabbitmq"
    <3>1. work'.spec = work.spec /\ work'.target = work.target
      BY <2>5 DEF Turn, SamePass
    <3>2. StatusUp(deployed, work', work'.status)
      BY <1>a, <2>0, <2>5, <3>1, SameUp
    <3> QED
      BY <2>5, <3>2 DEF WorkUp, TurnUp
  <2>6. CASE TurnWrites(n) /\ Kind = "rabbitmq"
    <3> DEFINE T == work.spec.kind["rabbitmq"].templates
    <3>1. /\ work'.spec = work.spec /\ work'.target = work.target /\ work'.at = work.at /\ work'.todo = work.todo \ {n}
          /\ work'.status.seen = work.status.seen /\ work'.status.cond = work.status.cond
          /\ work'.status.image["rabbitmq"] \in {work.target, work.status.image["rabbitmq"]}
          /\ UNCHANGED status
      BY <2>6 DEF TurnWrites, Turn, SamePass
    <3>2. ~work'.failed /\ ~work'.busy =>
            /\ ~work.failed /\ ~work.busy /\ IsReady(<<"rabbitmq", n>>)
            /\ work'.status.image["rabbitmq"] = work.target
      BY <2>0, <2>6 DEF TurnWrites
    <3>3. IsReady(<<"rabbitmq", n>>) => work.target \in deployed[<<"rabbitmq", n>>]
      BY <2>0, <2>6, ReadyIsDeployed DEF TurnWrites
    <3>4. StatusUp(deployed, work', work'.status)
      BY <1>a, <2>0, <3>1 DEF StatusUp, KnowsUp
    <3>5. TurnUp(deployed, work')
      <4> SUFFICES ASSUME work.spec.kind["rabbitmq"].enabled, ~work'.failed, ~work'.busy
                   PROVE  KnowsUp(deployed, work', work'.status, T \ work'.todo)
        BY <3>1 DEF TurnUp
      <4>1. Up(deployed, T \ work.todo, work.target)
        BY <2>0, <2>6, <3>2 DEF WorkUp, TurnUp, KnowsUp
      <4>2. Up(deployed, T \ work'.todo, work.target)
        BY <3>1, <3>2, <3>3, <4>1 DEF Up
      <4> QED
        BY <3>1, <3>2, <4>2 DEF KnowsUp
    <3> QED
      BY <3>1, <3>4, <3>5 DEF WorkUp
  <2> QED
    BY <2>1, <2>2, <2>3, <2>4, <2>5, <2>6 DEF TurnOff, TurnWaits, TurnWrites
<1>4. CASE FailTemplate
  <2>0. work # Idle /\ work.at <= Len(plan)
    BY <1>4 DEF FailTemplate, InTemplates, InPass
  <2>1. CASE \E n : Turn(n) /\ work'.failed /\ work'.status = work.status /\ UNCHANGED status
    <3>1. /\ work'.spec = work.spec /\ work'.target = work.target /\ work'.failed /\ work'.status = work.status
          /\ UNCHANGED status
      BY <2>1 DEF Turn, SamePass
    <3>2. StatusUp(deployed, work', work'.status)
      BY <1>a, <2>0, <3>1, SameUp
    <3> QED
      BY <3>1, <3>2 DEF WorkUp, TurnUp
  <2>2. CASE EndPass(work.status, TRUE)
    BY <1>a, <2>0, <2>2, SavingUp DEF EndPass
  <2> QED
    BY <1>4, <2>1, <2>2, FailFacts
<1>5. CASE FinishTemplates
  <2>0. work # Idle /\ work.at <= Len(plan) /\ work.begun /\ work.todo = {} /\ Kind = plan[work.at] /\ Kind \in Managed
    BY <1>5, TemplatesNow DEF FinishTemplates, InTemplates, InPass, Kind
  <2>1. PICK c \in Conditions : /\ Passes([work.status EXCEPT !.cond[Kind] = c], TRUE)
                                /\ Kind = "rabbitmq" /\ On /\ c = "True" => ~work.failed /\ ~work.busy
    BY <1>5, FinishFacts
  <2> DEFINE st == [work.status EXCEPT !.cond[Kind] = c]
  <2>2. /\ st \in Statuses /\ st.image = work.status.image /\ st.seen = work.status.seen
        /\ st.cond["rabbitmq"] = IF Kind = "rabbitmq" THEN c ELSE work.status.cond["rabbitmq"]
    BY <1>0, <2>0, SetCond DEF Statuses
  <2>3. Passes(st, TRUE)
    BY <2>1
  <2> HIDE DEF st
  <2>4. StatusUp(deployed, work, st)
    <3>1. CASE Kind # "rabbitmq"
      BY <1>a, <2>0, <2>2, <3>1, SameUp
    <3>2. CASE Kind = "rabbitmq"
      <4>1. c = "True" /\ work.spec.kind["rabbitmq"].enabled
              => KnowsUp(deployed, work, work.status, work.spec.kind["rabbitmq"].templates \ work.todo)
        BY <2>0, <2>1, <3>2 DEF WorkUp, TurnUp, On
      <4>2. work.spec.kind["rabbitmq"].templates \ work.todo = work.spec.kind["rabbitmq"].templates
        BY <2>0
      <4> QED
        BY <1>a, <2>0, <2>2, <3>2, <4>1, <4>2 DEF StatusUp, KnowsUp
    <3> QED
      BY <3>1, <3>2
  <2> QED
    BY <2>0, <2>2, <2>3, <2>4, PassesUp
<1>6. CASE EnsureOVNMetricsCert
  <2>0. work # Idle /\ plan[work.at] = "ovn"
    BY <1>6 DEF EnsureOVNMetricsCert, InOvn, InPass, Kind
  <2>1. CASE EndPass([work.status EXCEPT !.cond["ovn"] = "False"], TRUE)
    <3> DEFINE st == [work.status EXCEPT !.cond["ovn"] = "False"]
    <3>1. /\ st.image = work.status.image /\ st.seen = work.status.seen
          /\ st.cond["rabbitmq"] = work.status.cond["rabbitmq"] /\ status' = st /\ work' = Idle
      BY <1>0, <2>0, <2>1 DEF Statuses, EndPass
    <3> HIDE DEF st
    <3>2. StatusUp(deployed, work, st)
      BY <1>a, <2>0, <3>1, SameUp
    <3> QED
      BY <2>0, <3>1, <3>2, SavingUp
  <2>2. CASE OvnGoesOn(work') /\ work'.status = work.status /\ UNCHANGED status
    <3>1. work'.spec = work.spec /\ work'.target = work.target /\ work'.at = work.at
      BY <2>2 DEF OvnGoesOn, SamePass
    <3>2. StatusUp(deployed, work', work'.status)
      BY <1>a, <2>0, <2>2, <3>1, SameUp
    <3> QED
      BY <2>0, <2>2, <3>1, <3>2 DEF WorkUp
  <2> QED
    BY <1>6, <2>1, <2>2, OvnStartFacts
<1>7. CASE ReconcileOvnPart \/ FailOvn
  <2>0. work # Idle /\ plan[work.at] = "ovn" /\ UNCHANGED status
    BY <1>7 DEF ReconcileOvnPart, FailOvn, Ovn, InOvn, InPass, Kind
  <2>1. OvnGoesOn(work')
    BY <1>7, OvnPartFacts, FailOvnFacts
  <2>2. /\ work'.spec = work.spec /\ work'.target = work.target /\ work'.at = work.at
        /\ work'.status.seen = work.status.seen /\ work'.status.cond = work.status.cond
        /\ work'.status.image["rabbitmq"] = work.status.image["rabbitmq"]
    BY <1>0, <2>1 DEF OvnGoesOn, SamePass
  <2>3. StatusUp(deployed, work', work'.status)
    BY <1>a, <2>0, <2>2, SameUp
  <2> QED
    BY <2>0, <2>2, <2>3 DEF WorkUp
<1>8. CASE FinishOvn \/ CheckInfrastructure
  <2>0. work # Idle /\ work.at <= Len(plan)
    BY <1>8, WholeFacts
  <2>1. PICK st \in Statuses : /\ Passes(st, FALSE) /\ st.image = work.status.image /\ st.seen = work.status.seen
                               /\ \A k \in Managed \ {"ovn"} : st.cond[k] = work.status.cond[k]
    BY <1>8, WholeFacts
  <2>2. StatusUp(deployed, work, st)
    BY <1>a, <2>0, <2>1, SameUp
  <2> QED
    BY <2>0, <2>1, <2>2, PassesUp
<1>9. CASE FinishPass
  <2>1. work # Idle /\ work' = Idle /\ status' = work.status
    BY <1>9 DEF FinishPass, EndPass
  <2> QED
    BY <1>a, <2>1, SavingUp
<1> QED
  BY <1>1, <1>2, <1>3, <1>4, <1>5, <1>6, <1>7, <1>8, <1>9 DEF PassStep

\* Roll-outs do not take back what is known.
LEMMA GrowingUp ==
    ASSUME TypeInv, [Next]_vars, "rabbitmq" \in Managed
    PROVE  \A T \in SUBSET Names : \A i : Up(deployed, T, i) => Up(deployed', T, i)
<1>1. \A n \in Names : <<"rabbitmq", n>> \in Resources
  BY ResourceFacts DEF TypeInv, TypeOK
<1> QED
  BY <1>1, DeployedGrows DEF Up

LEMMA InitUpdated == Init => UpdateInv
  BY DEF Init, UpdateInv, SavedUp

LEMMA NextUpdated == TypeInv /\ TypeInv' /\ ResourceInv /\ ResourceInv' /\ UpdateInv /\ [Next]_vars => UpdateInv'
<1> SUFFICES ASSUME TypeInv, TypeInv', ResourceInv, ResourceInv', UpdateInv, [Next]_vars, "rabbitmq" \in Managed
             PROVE  SavedUp(deployed', status') /\ (work' # Idle => WorkUp(deployed', work'))
  BY DeployedGrows, SameScenario DEF UpdateInv, WorkUp, Idle
<1>1. SavedUp(deployed, status) /\ (work # Idle => WorkUp(deployed, work))
  BY DEF UpdateInv
<1>2. CASE PassStep \/ FailTemplate \/ FailOvn
  <2>1. UNCHANGED <<scenario, deployed>>
    BY <1>2, PassKeeps
  <2> QED
    BY <1>1, <1>2, <2>1, PassUp
<1>3. CASE OperatorStep \/ Crash \/ Resync \/ UserStep \/ UNCHANGED vars
  <2>1. UNCHANGED status /\ (UNCHANGED work \/ work' = Idle)
    BY <1>3, OthersKeep
  <2>3. SavedUp(deployed', status)
    BY <1>1, GrowingUp DEF SavedUp
  <2>2. work # Idle => WorkUp(deployed', work)
    <3> SUFFICES ASSUME work # Idle PROVE WorkUp(deployed', work)
      OBVIOUS
    <3>1. work.spec.kind["rabbitmq"].templates \in SUBSET Names
      BY WorkFacts DEF TypeInv, Specs
    <3>2. work.spec.kind["rabbitmq"].templates \ work.todo \in SUBSET Names
      BY <3>1
    <3>3. StatusUp(deployed', work, work.status)
      BY <1>1, <3>1, GrowingUp DEF WorkUp, StatusUp, KnowsUp
    <3>4. TurnUp(deployed, work) => TurnUp(deployed', work)
      BY <3>2, GrowingUp DEF TurnUp, KnowsUp
    <3> QED
      BY <1>1, <3>3, <3>4 DEF WorkUp
  <2> QED
    BY <2>1, <2>2, <2>3
<1> QED
  BY <1>2, <1>3 DEF Next

\* When the test of the OpenStackVersion controller for RabbitMQ is passed (its
\* image is the version's and its condition True, of a spec the control plane
\* has seen), every instance of its templates has been rolled out with the
\* version's image (UpdatedMeansAll).  ReconcileRabbitMQs sets the condition
\* from the results of all templates; the kinds that mirror the conditions of
\* their instances, and Redis, do not have the property.
THEOREM UpdatedRabbitMQIsAll == ASSUME Checked \subseteq {"rabbitmq"} PROVE Spec => []UpdatedMeansAll
<1>1. UpdateInv => UpdatedMeansAll
  BY DEF UpdateInv, SavedUp, Up, UpdatedMeansAll, Updated
<1> QED
  BY <1>1, ResourceInvariant, InitUpdated, NextUpdated, PTL DEF Spec

=============================================================================
