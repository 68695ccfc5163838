-------------------------- MODULE SelectionProofs --------------------------
(***************************************************************************)
(* What a deployment makes of the services its node sets list, for any     *)
(* lists and any catalog. The folds of ServiceSelection are taken apart    *)
(* into the states of the two loops they stand for (DedupeLoop,            *)
(* DedupeServicesLoop); an induction over those gives what is selected     *)
(* (DedupeServicesSelects), and the invariant DoneInv of the controllers   *)
(* that what is selected is what runs.                                     *)
(***************************************************************************)
EXTENDS DataPlaneServices, DataPlaneProofs

----------------------------------------------------------------------------
(* The loop over the services of a list *)

\* Induction, for a property given as the set of numbers that have it.
LEMMA CountsUp ==
    ASSUME NEW S, 0 \in S, \A k \in Nat : k \in S => k + 1 \in S
    PROVE  Nat \subseteq S
<1> SUFFICES ASSUME Nat \ S # {} PROVE FALSE
  OBVIOUS
<1>1. PICK x \in Nat \ S : \A y \in Nat \ S : <<y, x>> \notin OpToRel(<, Nat)
  BY WFMin, NatLessThanWellFounded
<1>2. x # 0 /\ x - 1 \in Nat
  OBVIOUS
<1>3. <<x - 1, x>> \in OpToRel(<, Nat)
  BY <1>2 DEF OpToRel
<1>4. x - 1 \in S
  BY <1>1, <1>2, <1>3
<1> QED
  BY <1>2, <1>4

\* The last position of a set of positions.
LEMMA MaxLast ==
    ASSUME NEW n \in Nat, NEW s \in SUBSET (1 .. n), s # {}
    PROVE  Max(s) \in s /\ \A j \in s : j <= Max(s)
<1>1. PICK m \in s : \A j \in s : j <= m
  BY LastExists
<1>2. \E x \in s : \A y \in s : x >= y
  BY <1>1
<1> QED
  BY <1>2 DEF Max

\* The recursion equation of the fold in dedupe.
Folds(it, q, n, globals) ==
    it = [s \in SUBSET (1 .. n) |->
            IF s = {} THEN NothingSelected(globals)
            ELSE Consider(it[s \ {Max(s)}], q[Max(s)], globals)]

\* It has a solution.
LEMMA FoldExists ==
    ASSUME NEW q, NEW globals PROVE \A n \in Nat : \E it : Folds(it, q, n, globals)
<1> DEFINE S == {n \in Nat : \E it : Folds(it, q, n, globals)}
<1>1. 0 \in S
  <2>1. \A s \in SUBSET (1 .. 0) : s = {}
    OBVIOUS
  <2>2. Folds([s \in SUBSET (1 .. 0) |-> NothingSelected(globals)], q, 0, globals)
    BY <2>1 DEF Folds
  <2> QED
    BY <2>2
<1>2. ASSUME NEW n \in Nat, n \in S PROVE n + 1 \in S
  <2>1. PICK it : Folds(it, q, n, globals)
    BY <1>2
  <2> DEFINE new == [s \in SUBSET (1 .. n + 1) |->
                       IF n + 1 \in s THEN Consider(it[s \ {n + 1}], q[n + 1], globals) ELSE it[s]]
             next(s) == IF s = {} THEN NothingSelected(globals)
                        ELSE Consider(new[s \ {Max(s)}], q[Max(s)], globals)
  <2>2. ASSUME NEW s \in SUBSET (1 .. n + 1) PROVE new[s] = next(s)
    <3>1. CASE n + 1 \in s
      <4>1. Max(s) \in s /\ n + 1 <= Max(s)
        <5>1. n + 1 \in Nat /\ s # {}
          BY <3>1
        <5>2. Max(s) \in s /\ \A j \in s : j <= Max(s)
          BY <5>1, MaxLast, Zenon
        <5> QED
          BY <3>1, <5>2
      <4>2. Max(s) = n + 1
        <5>1. Max(s) \in 1 .. n + 1
          BY <4>1
        <5> QED
          BY <4>1, <5>1
      <4>3. s \ {n + 1} \in SUBSET (1 .. n + 1) /\ n + 1 \notin s \ {n + 1}
        OBVIOUS
      <4>4. new[s \ {n + 1}] = it[s \ {n + 1}]
        BY <4>3
      <4>5. new[s] = Consider(it[s \ {n + 1}], q[n + 1], globals)
        BY <3>1
      <4> HIDE DEF new
      <4> QED
        BY <3>1, <4>2, <4>4, <4>5
    <3>2. CASE n + 1 \notin s
      <4>1. s \in SUBSET (1 .. n)
        BY <3>2
      <4>2. new[s] = it[s]
        BY <3>2
      <4>3. it[s] = IF s = {} THEN NothingSelected(globals)
                    ELSE Consider(it[s \ {Max(s)}], q[Max(s)], globals)
        BY <2>1, <4>1 DEF Folds
      <4>4. CASE s # {}
        <5>1. s \ {Max(s)} \in SUBSET (1 .. n + 1) /\ n + 1 \notin s \ {Max(s)}
          BY <3>2
        <5>2. new[s \ {Max(s)}] = it[s \ {Max(s)}]
          BY <5>1
        <5> HIDE DEF new
        <5> QED
          BY <4>2, <4>3, <4>4, <5>2
      <4> QED
        BY <4>2, <4>3, <4>4
    <3> QED
      BY <3>1, <3>2
  <2>3. new = [s \in SUBSET (1 .. n + 1) |-> next(s)]
    BY <2>2
  <2>4. Folds(new, q, n + 1, globals)
    BY <2>3 DEF Folds
  <2> QED
    BY <2>4
<1> HIDE DEF S
<1>3. Nat \subseteq S
  BY <1>1, <1>2, CountsUp
<1> QED
  BY <1>3 DEF S

\* The states of the loop over a list, one after every service.
LEMMA DedupeLoop ==
    ASSUME NEW q, NEW n \in Nat, DOMAIN q = 1 .. n, NEW globals
    PROVE  \E F : /\ F[0] = NothingSelected(globals)
                  /\ \A k \in 1 .. n : F[k] = Consider(F[k - 1], q[k], globals)
                  /\ dedupe(q, globals) = F[n]
<1> DEFINE it == CHOOSE f : Folds(f, q, n, globals)
           F == [k \in 0 .. n |-> it[1 .. k]]
<1>1. dedupe(q, globals) = it[1 .. n]
  BY DEF dedupe, FoldLeft, MapThenFoldSet, Folds
<1>2. Folds(it, q, n, globals)
  BY FoldExists
<1> HIDE DEF it
<1>3. it[1 .. 0] = NothingSelected(globals)
  BY <1>2 DEF Folds
<1>4. ASSUME NEW k \in 1 .. n PROVE it[1 .. k] = Consider(it[1 .. k - 1], q[k], globals)
  <2>1. 1 .. k \in SUBSET (1 .. n) /\ 1 .. k # {} /\ k \in 1 .. k
    <3>1. \A i \in 1 .. k : i \in 1 .. n
      OBVIOUS
    <3>2. k \in 1 .. k
      OBVIOUS
    <3> QED
      BY <3>1, <3>2
  <2>2. Max(1 .. k) \in 1 .. k /\ k <= Max(1 .. k)
    BY <2>1, MaxLast
  <2>3. Max(1 .. k) = k
    BY <2>2
  <2>4. (1 .. k) \ {k} = 1 .. k - 1
    OBVIOUS
  <2> QED
    BY <1>2, <2>1, <2>3, <2>4 DEF Folds
<1> QED
  <2>1. F[0] = NothingSelected(globals) /\ F[n] = dedupe(q, globals)
    BY <1>1, <1>3
  <2>2. \A k \in 1 .. n : F[k] = Consider(F[k - 1], q[k], globals)
    BY <1>4
  <2> QED
    BY <2>1, <2>2

----------------------------------------------------------------------------
(* What one list yields *)

\* A list of services that exist.
ExistingServices == Seq(DOMAIN Catalog)

\* At most one of the services is deployed on all node sets at once.
OneGlobal(q) == \A i, j \in DOMAIN q : Catalog[q[i]].global /\ Catalog[q[j]].global => q[i] = q[j]

Types == {Catalog[s].type : s \in DOMAIN Catalog}

\* A selection that has not failed.
SelectionRec == [services : ExistingServices, types : SUBSET Types, globals : ExistingServices,
                 err : {FALSE}]

\* What has been selected from the first k services of a list.
SelectedFrom(acc, q, k, globals) ==
    /\ acc \in SelectionRec
    /\ \A t : t \in acc.types <=> \E i \in DOMAIN acc.services : Catalog[acc.services[i]].type = t
    /\ \A i, j \in DOMAIN acc.services :
         Catalog[acc.services[i]].type = Catalog[acc.services[j]].type => i = j
    /\ \A i \in 1 .. k : \/ Catalog[q[i]].type \in acc.types
                         \/ Catalog[q[i]].global /\ Contains(globals, q[i])
    /\ \A i \in DOMAIN acc.services :
         /\ \E j \in 1 .. k : acc.services[i] = q[j]
         /\ Catalog[acc.services[i]].global =>
              /\ ~Contains(globals, acc.services[i])
              /\ OneGlobal(q) => Contains(acc.globals, acc.services[i])
    /\ \A s : Contains(globals, s) => Contains(acc.globals, s)
    /\ \A s : Contains(acc.globals, s) => Contains(globals, s) \/ Contains(acc.services, s)

\* A longer list.
LEMMA Appended ==
    ASSUME NEW S, NEW q \in Seq(S), NEW e \in S
    PROVE  /\ Append(q, e) \in Seq(S) /\ DOMAIN q = 1 .. Len(q) /\ Len(q) \in Nat
           /\ DOMAIN Append(q, e) = 1 .. Len(q) + 1
           /\ \A i \in DOMAIN q : Append(q, e)[i] = q[i]
           /\ Append(q, e)[Len(q) + 1] = e
           /\ \A x : Contains(Append(q, e), x) <=> Contains(q, x) \/ x = e
<1>1. /\ Append(q, e) \in Seq(S) /\ DOMAIN q = 1 .. Len(q) /\ Len(q) \in Nat
      /\ Len(Append(q, e)) = Len(q) + 1 /\ DOMAIN Append(q, e) = 1 .. Len(q) + 1
      /\ \A i \in DOMAIN q : Append(q, e)[i] = q[i]
      /\ Append(q, e)[Len(q) + 1] = e
  OBVIOUS
<1>2. ASSUME NEW x PROVE Contains(Append(q, e), x) <=> Contains(q, x) \/ x = e
  <2>1. ASSUME NEW i \in 1 .. Len(q) + 1, Append(q, e)[i] = x PROVE Contains(q, x) \/ x = e
    <3>1. i \in 1 .. Len(q) \/ i = Len(q) + 1
      BY <1>1
    <3> QED
      BY <1>1, <2>1, <3>1 DEF Contains
  <2>2. ASSUME NEW i \in 1 .. Len(q), q[i] = x PROVE Contains(Append(q, e), x)
    <3>1. i \in 1 .. Len(q) + 1
      BY <1>1
    <3> QED
      BY <1>1, <2>2, <3>1 DEF Contains
  <2>3. Len(q) + 1 \in 1 .. Len(q) + 1
    BY <1>1
  <2> QED
    BY <1>1, <2>1, <2>2, <2>3 DEF Contains
<1> QED
  BY <1>1, <1>2

\* What selecting a service changes.
LEMMA Selects ==
    ASSUME NEW acc \in SelectionRec, NEW svc \in DOMAIN Catalog, NEW H \in ExistingServices,
           NEW new \in {Select(acc, svc), SelectGlobal(acc, svc, H)}
    PROVE  /\ new \in SelectionRec
           /\ new.services = Append(acc.services, svc)
           /\ new.types = acc.types \cup {Catalog[svc].type}
           /\ new = Select(acc, svc) => new.globals = acc.globals
           /\ new = SelectGlobal(acc, svc, H) => new.globals = Append(H, svc)
<1> DEFINE one == Select(acc, svc)
           more == Append(acc.services, svc)
           kinds == acc.types \cup {Catalog[svc].type}
<1>1. one = [acc EXCEPT !.services = more, !.types = kinds]
  BY DEF Select
<1>0. more \in ExistingServices /\ kinds \in SUBSET Types /\ Append(H, svc) \in ExistingServices
  BY Appended DEF SelectionRec, ExistingServices, Types
<1> HIDE DEF one, more, kinds
<1>2. /\ one \in SelectionRec
      /\ one.services = more /\ one.types = kinds /\ one.globals = acc.globals
  BY <1>0, <1>1 DEF SelectionRec
<1> DEFINE two == SelectGlobal(acc, svc, H)
           g == Append(H, svc)
<1>3. two = [one EXCEPT !.globals = g]
  BY DEF SelectGlobal, one
<1> HIDE DEF two, g
<1>4. /\ two \in SelectionRec
      /\ two.services = more /\ two.types = kinds /\ two.globals = g
  BY <1>0, <1>2, <1>3 DEF g, SelectionRec
<1>5. CASE new = one
  <2>1. new = two => new.globals = g
    BY <1>4, Zenon
  <2> QED
    BY <1>2, <1>5, <2>1, Zenon DEF one, two, more, kinds, g
<1>6. CASE new = two
  <2>1. new = one => new.globals = acc.globals
    BY <1>2, Zenon
  <2> QED
    BY <1>4, <1>6, <2>1, Zenon DEF one, two, more, kinds, g
<1>7. new = one \/ new = two
  BY DEF one, two
<1> QED
  BY <1>5, <1>6, <1>7

\* One more service is considered.
LEMMA ConsiderStep ==
    ASSUME NEW q \in ExistingServices, NEW k \in DOMAIN q, NEW globals \in ExistingServices,
           NEW acc, SelectedFrom(acc, q, k - 1, globals)
    PROVE  SelectedFrom(Consider(acc, q[k], globals), q, k, globals)
<1> DEFINE svc == q[k]
           new == Consider(acc, svc, globals)
<1>0. /\ k \in Nat /\ k \in 1 .. k /\ k \in 1 .. Len(q) /\ svc \in DOMAIN Catalog
      /\ \A i \in 1 .. k : i \in 1 .. k - 1 \/ i = k
      /\ \A i \in 1 .. k - 1 : i \in 1 .. k
  BY DEF ExistingServices
<1>1. /\ acc.services \in ExistingServices /\ acc.globals \in ExistingServices /\ ~acc.err
      /\ acc.types \in SUBSET Types
  BY DEF SelectedFrom, SelectionRec
<1>2. CASE PassedOver(acc, svc, globals)
  <2>1. new = acc
    BY <1>0, <1>1, <1>2 DEF Consider
  <2>2. ASSUME Contains(acc.services, svc) PROVE Catalog[svc].type \in acc.types
    <3>1. PICK i \in 1 .. Len(acc.services) : acc.services[i] = svc
      BY <2>2 DEF Contains
    <3>2. i \in DOMAIN acc.services
      BY <1>1, <3>1 DEF ExistingServices
    <3> QED
      BY <3>1, <3>2 DEF SelectedFrom
  <2>3. \/ Catalog[svc].type \in acc.types
        \/ Catalog[svc].global /\ Contains(globals, svc)
    <3>1. \/ Catalog[svc].type \in acc.types
          \/ Contains(acc.services, svc)
          \/ Catalog[svc].global /\ Contains(globals, svc)
      BY <1>2 DEF PassedOver
    <3> HIDE DEF svc
    <3> QED
      BY <2>2, <3>1, Zenon
  <2>4. \A i \in 1 .. k : \/ Catalog[q[i]].type \in acc.types
                          \/ Catalog[q[i]].global /\ Contains(globals, q[i])
    BY <1>0, <2>3 DEF SelectedFrom
  <2>5. \A i \in DOMAIN acc.services : \E j \in 1 .. k : acc.services[i] = q[j]
    BY <1>0 DEF SelectedFrom
  <2>6. \A i \in DOMAIN acc.services :
          Catalog[acc.services[i]].global =>
              /\ ~Contains(globals, acc.services[i])
              /\ OneGlobal(q) => Contains(acc.globals, acc.services[i])
    BY Zenon DEF SelectedFrom
  <2>7. SelectedFrom(acc, q, k, globals)
    BY <2>4, <2>5, <2>6, Zenon DEF SelectedFrom
  <2> QED
    BY <2>1, <2>7
<1>3. CASE ~PassedOver(acc, svc, globals)
  <2> DEFINE g == IF Catalog[svc].global THEN Append(globals, svc) ELSE acc.globals
             services == Append(acc.services, svc)
             types == acc.types \cup {Catalog[svc].type}
  <2>2. /\ services \in ExistingServices /\ DOMAIN acc.services = 1 .. Len(acc.services)
        /\ Len(acc.services) \in Nat
        /\ DOMAIN services = 1 .. Len(acc.services) + 1
        /\ \A i \in DOMAIN acc.services : services[i] = acc.services[i]
        /\ services[Len(acc.services) + 1] = svc
        /\ \A x : Contains(services, x) <=> Contains(acc.services, x) \/ x = svc
    BY <1>0, <1>1, Appended DEF ExistingServices
  <2>3. /\ g \in ExistingServices
        /\ \A x : Contains(g, x) <=> IF Catalog[svc].global THEN Contains(globals, x) \/ x = svc
                                     ELSE Contains(acc.globals, x)
    <3>1. /\ Append(globals, svc) \in ExistingServices
          /\ \A x : Contains(Append(globals, svc), x) <=> Contains(globals, x) \/ x = svc
      BY <1>0, Appended DEF ExistingServices
    <3> QED
      BY <1>1, <3>1, Zenon
  <2>1. new \in SelectionRec /\ new.services = services /\ new.types = types /\ new.globals = g
    <3>1. acc \in SelectionRec
      BY DEF SelectedFrom
    <3>2. new = IF Catalog[svc].global THEN SelectGlobal(acc, svc, globals) ELSE Select(acc, svc)
      <4>1. new = IF PassedOver(acc, svc, globals) THEN acc
                  ELSE IF Catalog[svc].global THEN SelectGlobal(acc, svc, globals)
                  ELSE Select(acc, svc)
        BY <1>0, <1>1 DEF Consider
      <4> HIDE DEF new
      <4> QED
        BY <1>3, <4>1
    <3>3. new \in {Select(acc, svc), SelectGlobal(acc, svc, globals)}
      <4> HIDE DEF new
      <4> QED BY <3>2
    <3> HIDE DEF new, svc
    <3>4. /\ new \in SelectionRec /\ new.services = services /\ new.types = types
          /\ new = Select(acc, svc) => new.globals = acc.globals
          /\ new = SelectGlobal(acc, svc, globals) => new.globals = Append(globals, svc)
      <4> HIDE DEF services, types
      <4>3. /\ new \in SelectionRec
            /\ new.services = Append(acc.services, svc)
            /\ new.types = acc.types \cup {Catalog[svc].type}
            /\ new = Select(acc, svc) => new.globals = acc.globals
            /\ new = SelectGlobal(acc, svc, globals) => new.globals = Append(globals, svc)
        BY <1>0, <3>1, <3>3, Selects, SMTT(30)
      <4> QED
        BY <4>3 DEF services, types
    <3>5. CASE Catalog[svc].global
      BY <3>2, <3>4, <3>5
    <3>6. CASE ~Catalog[svc].global
      BY <3>2, <3>4, <3>6
    <3> QED
      BY <3>5, <3>6
  <2>5. \A i \in DOMAIN services : i \in DOMAIN acc.services \/ i = Len(acc.services) + 1
    BY <2>2
  <2>6. \A i \in DOMAIN acc.services : i \in DOMAIN services
    BY <2>2
  <2>a. Len(acc.services) + 1 \in DOMAIN services
    BY <2>2
  <2> HIDE DEF services, g
  <2>7. \A t : t \in types <=> \E i \in DOMAIN services : Catalog[services[i]].type = t
    BY <2>2, <2>5, <2>6, <2>a DEF SelectedFrom
  <2>8. \A i, j \in DOMAIN services : Catalog[services[i]].type = Catalog[services[j]].type => i = j
    <3>1. \A i \in DOMAIN acc.services : Catalog[acc.services[i]].type # Catalog[svc].type
      BY <1>3 DEF PassedOver, SelectedFrom
    <3> QED
      BY <2>2, <2>5, <3>1 DEF SelectedFrom
  <2>9. \A i \in 1 .. k : \/ Catalog[q[i]].type \in types
                          \/ Catalog[q[i]].global /\ Contains(globals, q[i])
    BY <1>0 DEF SelectedFrom
  <2>10. \A i \in DOMAIN services : \E j \in 1 .. k : services[i] = q[j]
    BY <1>0, <2>2, <2>5 DEF SelectedFrom
  <2>11. ASSUME NEW i \in DOMAIN services, Catalog[services[i]].global
         PROVE  /\ ~Contains(globals, services[i])
                /\ OneGlobal(q) => Contains(g, services[i])
    <3>1. CASE i = Len(acc.services) + 1
      BY <1>3, <2>2, <2>3, <2>11, <3>1 DEF PassedOver
    <3>2. CASE i \in DOMAIN acc.services
      <4>1. /\ ~Contains(globals, services[i])
            /\ OneGlobal(q) => Contains(acc.globals, services[i])
        BY <2>2, <2>11, <3>2 DEF SelectedFrom
      <4>2. CASE Catalog[svc].global /\ OneGlobal(q)
        <5>1. PICK j \in DOMAIN q : services[i] = q[j]
          BY <1>0, <2>10 DEF ExistingServices
        <5>2. services[i] = svc
          BY <2>11, <4>2, <5>1 DEF OneGlobal
        <5> QED
          BY <2>3, <4>1, <4>2, <5>2
      <4> QED
        BY <2>3, <4>1, <4>2
    <3> QED
      BY <2>5, <3>1, <3>2
  <2>12. \A s : Contains(globals, s) => Contains(g, s)
    BY <2>3 DEF SelectedFrom
  <2>13. \A s : Contains(g, s) => Contains(globals, s) \/ Contains(services, s)
    BY <2>2, <2>3 DEF SelectedFrom
  <2> HIDE DEF new, types
  <2>16. \A i \in DOMAIN new.services :
           /\ \E j \in 1 .. k : new.services[i] = q[j]
           /\ Catalog[new.services[i]].global =>
                /\ ~Contains(globals, new.services[i])
                /\ OneGlobal(q) => Contains(new.globals, new.services[i])
    BY <2>10, <2>11, <2>1, Zenon
  <2>17. /\ \A t : t \in new.types <=> \E i \in DOMAIN new.services : Catalog[new.services[i]].type = t
         /\ \A i, j \in DOMAIN new.services :
              Catalog[new.services[i]].type = Catalog[new.services[j]].type => i = j
    BY <2>7, <2>8, <2>1, Zenon
  <2>18. \A i \in 1 .. k : \/ Catalog[q[i]].type \in new.types
                           \/ Catalog[q[i]].global /\ Contains(globals, q[i])
    BY <2>9, <2>1, Zenon
  <2>19. /\ \A s : Contains(globals, s) => Contains(new.globals, s)
         /\ \A s : Contains(new.globals, s) => Contains(globals, s) \/ Contains(new.services, s)
    BY <2>12, <2>13, <2>1, Zenon
  <2>20. SelectedFrom(new, q, k, globals)
    BY <2>1, <2>16, <2>17, <2>18, <2>19, Zenon DEF SelectedFrom
  <2> QED
    BY <2>20 DEF new
<1> QED
  BY <1>2, <1>3

\* What dedupe selects from a list.
LEMMA DedupeSelects ==
    ASSUME NEW q \in ExistingServices, NEW globals \in ExistingServices
    PROVE  SelectedFrom(dedupe(q, globals), q, Len(q), globals)
<1>0. Len(q) \in Nat /\ DOMAIN q = 1 .. Len(q)
  BY DEF ExistingServices
<1>1. PICK F : /\ F[0] = NothingSelected(globals)
               /\ \A k \in 1 .. Len(q) : F[k] = Consider(F[k - 1], q[k], globals)
               /\ dedupe(q, globals) = F[Len(q)]
  BY <1>0, DedupeLoop
<1> DEFINE S == {k \in Nat : k <= Len(q) => SelectedFrom(F[k], q, k, globals)}
<1>2. 0 \in S
  <2>1. <<>> \in ExistingServices /\ \A s : ~Contains(<<>>, s)
    BY DEF ExistingServices, Contains
  <2>2. SelectedFrom(NothingSelected(globals), q, 0, globals)
    BY <2>1 DEF SelectedFrom, NothingSelected, SelectionRec
  <2> QED
    BY <1>1, <2>2
<1>3. ASSUME NEW k \in Nat, k \in S PROVE k + 1 \in S
  <2> SUFFICES ASSUME k + 1 <= Len(q) PROVE SelectedFrom(F[k + 1], q, k + 1, globals)
    OBVIOUS
  <2>1. SelectedFrom(F[k], q, k, globals)
    BY <1>0, <1>3
  <2>2. k + 1 \in DOMAIN q /\ (k + 1) - 1 = k
    BY <1>0
  <2>3. F[k + 1] = Consider(F[k], q[k + 1], globals)
    BY <1>0, <1>1, <2>2
  <2> QED
    BY <2>1, <2>2, <2>3, ConsiderStep
<1> HIDE DEF S
<1>4. Len(q) \in S
  BY <1>0, <1>2, <1>3, CountsUp
<1> QED
  BY <1>0, <1>1, <1>4 DEF S
----------------------------------------------------------------------------
(* What the lists of a deployment yield *)

NothingSelectedFor == [map |-> <<>>, globals |-> <<>>, err |-> FALSE]

\* The recursion equation of the fold in DedupeServices.
FoldsFor(it, lists, n) ==
    it = [s \in SUBSET (1 .. n) |->
            IF s = {} THEN NothingSelectedFor
            ELSE SelectFor(it[s \ {Max(s)}], lists[Max(s)])]

\* It has a solution.
LEMMA FoldForExists ==
    ASSUME NEW lists PROVE \A n \in Nat : \E it : FoldsFor(it, lists, n)
<1> DEFINE S == {n \in Nat : \E it : FoldsFor(it, lists, n)}
<1>1. 0 \in S
  <2>1. \A s \in SUBSET (1 .. 0) : s = {}
    OBVIOUS
  <2>2. FoldsFor([s \in SUBSET (1 .. 0) |-> NothingSelectedFor], lists, 0)
    BY <2>1 DEF FoldsFor
  <2> QED
    BY <2>2
<1>2. ASSUME NEW n \in Nat, n \in S PROVE n + 1 \in S
  <2>1. PICK it : FoldsFor(it, lists, n)
    BY <1>2
  <2> DEFINE new == [s \in SUBSET (1 .. n + 1) |->
                       IF n + 1 \in s THEN SelectFor(it[s \ {n + 1}], lists[n + 1]) ELSE it[s]]
             next(s) == IF s = {} THEN NothingSelectedFor
                        ELSE SelectFor(new[s \ {Max(s)}], lists[Max(s)])
  <2>2. ASSUME NEW s \in SUBSET (1 .. n + 1) PROVE new[s] = next(s)
    <3>1. CASE n + 1 \in s
      <4>1. Max(s) \in s /\ n + 1 <= Max(s)
        <5>1. n + 1 \in Nat /\ s # {}
          BY <3>1
        <5>2. Max(s) \in s /\ \A j \in s : j <= Max(s)
          BY <5>1, MaxLast, Zenon
        <5> QED
          BY <3>1, <5>2
      <4>2. Max(s) = n + 1
        <5>1. Max(s) \in 1 .. n + 1
          BY <4>1
        <5> QED
          BY <4>1, <5>1
      <4>3. s \ {n + 1} \in SUBSET (1 .. n + 1) /\ n + 1 \notin s \ {n + 1}
        OBVIOUS
      <4>4. new[s \ {n + 1}] = it[s \ {n + 1}]
        BY <4>3
      <4>5. new[s] = SelectFor(it[s \ {n + 1}], lists[n + 1])
        BY <3>1
      <4> HIDE DEF new
      <4> QED
        BY <3>1, <4>2, <4>4, <4>5
    <3>2. CASE n + 1 \notin s
      <4>1. s \in SUBSET (1 .. n)
        BY <3>2
      <4>2. new[s] = it[s]
        BY <3>2
      <4>3. it[s] = IF s = {} THEN NothingSelectedFor
                    ELSE SelectFor(it[s \ {Max(s)}], lists[Max(s)])
        BY <2>1, <4>1 DEF FoldsFor
      <4>4. CASE s # {}
        <5>1. s \ {Max(s)} \in SUBSET (1 .. n + 1) /\ n + 1 \notin s \ {Max(s)}
          BY <3>2
        <5>2. new[s \ {Max(s)}] = it[s \ {Max(s)}]
          BY <5>1
        <5> HIDE DEF new
        <5> QED
          BY <4>2, <4>3, <4>4, <5>2
      <4> QED
        BY <4>2, <4>3, <4>4
    <3> QED
      BY <3>1, <3>2
  <2>3. new = [s \in SUBSET (1 .. n + 1) |-> next(s)]
    BY <2>2
  <2>4. FoldsFor(new, lists, n + 1)
    BY <2>3 DEF FoldsFor
  <2> QED
    BY <2>4
<1> HIDE DEF S
<1>3. Nat \subseteq S
  BY <1>1, <1>2, CountsUp
<1> QED
  BY <1>3 DEF S

\* The states of the loop over the node sets, one after each.
LEMMA DedupeServicesLoop ==
    ASSUME NEW lists, NEW n \in Nat, DOMAIN lists = 1 .. n
    PROVE  \E F : /\ F[0] = NothingSelectedFor
                  /\ \A k \in 1 .. n : F[k] = SelectFor(F[k - 1], lists[k])
                  /\ DedupeServices(lists) = F[n]
<1> DEFINE it == CHOOSE f : FoldsFor(f, lists, n)
           F == [k \in 0 .. n |-> it[1 .. k]]
<1>1. DedupeServices(lists) = it[1 .. n]
  BY DEF DedupeServices, FoldLeft, MapThenFoldSet, FoldsFor, NothingSelectedFor
<1>2. FoldsFor(it, lists, n)
  BY FoldForExists
<1> HIDE DEF it
<1>3. it[1 .. 0] = NothingSelectedFor
  BY <1>2 DEF FoldsFor
<1>4. ASSUME NEW k \in 1 .. n PROVE it[1 .. k] = SelectFor(it[1 .. k - 1], lists[k])
  <2>1. 1 .. k \in SUBSET (1 .. n) /\ 1 .. k # {} /\ k \in 1 .. k
    <3>1. \A i \in 1 .. k : i \in 1 .. n
      OBVIOUS
    <3>2. k \in 1 .. k
      OBVIOUS
    <3> QED
      BY <3>1, <3>2
  <2>2. Max(1 .. k) \in 1 .. k /\ k <= Max(1 .. k)
    BY <2>1, MaxLast
  <2>3. Max(1 .. k) = k
    BY <2>2
  <2>4. (1 .. k) \ {k} = 1 .. k - 1
    OBVIOUS
  <2> QED
    BY <1>2, <2>1, <2>3, <2>4 DEF FoldsFor
<1> QED
  <2>1. F[0] = NothingSelectedFor /\ F[n] = DedupeServices(lists)
    BY <1>1, <1>3
  <2>2. \A k \in 1 .. n : F[k] = SelectFor(F[k - 1], lists[k])
    BY <1>4
  <2> QED
    BY <2>1, <2>2

\* What has been selected for one node set.
OnePerType(q) == \A i, j \in DOMAIN q : Catalog[q[i]].type = Catalog[q[j]].type => i = j

HasType(q, t) == \E i \in DOMAIN q : Catalog[q[i]].type = t

\* Every service of a list has one of its type in the selection for the node
\* set, or is a global one in the selection for some node set up to k.
Covers(map, list, j, k) ==
    \A i \in DOMAIN list :
       \/ HasType(map[j], Catalog[list[i]].type)
       \/ Catalog[list[i]].global /\ \E l \in 1 .. k : Contains(map[l], list[i])

\* A global service is selected for one node set up to k, and noted.
OnceUpTo(acc, k) ==
    \A l \in 1 .. k : \A s :
       Contains(acc.map[l], s) /\ Catalog[s].global =>
          /\ Contains(acc.globals, s)
          /\ \A m \in 1 .. k : Contains(acc.map[m], s) => m = l

\* What has been selected for the first k node sets.
SelectedUpTo(acc, lists, k) ==
    /\ acc.map \in Seq(ExistingServices) /\ Len(acc.map) = k
    /\ acc.globals \in ExistingServices
    /\ ~acc.err
    /\ \A j \in 1 .. k : OnePerType(acc.map[j]) /\ Covers(acc.map, lists[j], j, k)
    /\ \A s : Contains(acc.globals, s) => \E l \in 1 .. k : Contains(acc.map[l], s)
    /\ (\A j \in DOMAIN lists : OneGlobal(lists[j])) => OnceUpTo(acc, k)

LEMMA SelectForStep ==
    ASSUME NEW lists \in Seq(ExistingServices), NEW k \in DOMAIN lists, NEW acc,
           SelectedUpTo(acc, lists, k - 1)
    PROVE  SelectedUpTo(SelectFor(acc, lists[k]), lists, k)
<1> DEFINE new == SelectFor(acc, lists[k])
           one == dedupe(lists[k], acc.globals)
<1>0. /\ k \in Nat /\ k - 1 \in Nat /\ k \in 1 .. k /\ lists[k] \in ExistingServices
      /\ \A i \in 1 .. k : i \in 1 .. k - 1 \/ i = k
      /\ \A i \in 1 .. k - 1 : i \in 1 .. k /\ i # k
      /\ DOMAIN lists[k] = 1 .. Len(lists[k])
  BY DEF ExistingServices
<1>1. /\ acc.map \in Seq(ExistingServices) /\ Len(acc.map) = k - 1
      /\ acc.globals \in ExistingServices /\ ~acc.err
  BY DEF SelectedUpTo
<1>2. SelectedFrom(one, lists[k], Len(lists[k]), acc.globals)
  BY <1>0, <1>1, DedupeSelects
<1> HIDE DEF one
<1>3. one.services \in ExistingServices /\ one.globals \in ExistingServices /\ ~one.err
  BY <1>2 DEF SelectedFrom, SelectionRec
<1>4. /\ new.map = Append(acc.map, one.services) /\ new.globals = one.globals
      /\ ~new.err
  BY <1>1, <1>3 DEF SelectFor, one
<1> HIDE DEF new
<1>5. /\ new.map \in Seq(ExistingServices) /\ Len(new.map) = k
      /\ \A j \in 1 .. k - 1 : new.map[j] = acc.map[j]
      /\ new.map[k] = one.services
  BY <1>0, <1>1, <1>3, <1>4
<1>6. \A s : Contains(one.globals, s) => Contains(acc.globals, s) \/ Contains(one.services, s)
  BY <1>2, Zenon DEF SelectedFrom
<1>7. \A s : Contains(acc.globals, s) => Contains(one.globals, s)
  BY <1>2, Zenon DEF SelectedFrom
<1>8. \A s : Contains(acc.globals, s) => \E l \in 1 .. k - 1 : Contains(acc.map[l], s)
  BY Zenon DEF SelectedUpTo
<1>9. ASSUME NEW s, Contains(acc.globals, s) PROVE \E l \in 1 .. k : Contains(new.map[l], s)
  <2>1. PICK l \in 1 .. k - 1 : Contains(acc.map[l], s)
    BY <1>8, <1>9
  <2> QED
    BY <1>0, <1>5, <2>1
<1>10. ASSUME NEW s, Contains(new.globals, s) PROVE \E l \in 1 .. k : Contains(new.map[l], s)
  <2>1. CASE Contains(acc.globals, s)
    BY <1>9, <2>1
  <2>2. CASE Contains(one.services, s)
    BY <1>0, <1>5, <2>2
  <2> QED
    BY <1>4, <1>6, <1>10, <2>1, <2>2
<1>11. ASSUME NEW j \in 1 .. k - 1
       PROVE  OnePerType(new.map[j]) /\ Covers(new.map, lists[j], j, k)
  <2>1. OnePerType(acc.map[j]) /\ Covers(acc.map, lists[j], j, k - 1)
    BY DEF SelectedUpTo
  <2>2. ASSUME NEW i \in DOMAIN lists[j]
        PROVE  \/ HasType(new.map[j], Catalog[lists[j][i]].type)
               \/ Catalog[lists[j][i]].global /\ \E l \in 1 .. k : Contains(new.map[l], lists[j][i])
    <3>1. CASE HasType(acc.map[j], Catalog[lists[j][i]].type)
      BY <1>5, <3>1
    <3>2. CASE Catalog[lists[j][i]].global /\ \E l \in 1 .. k - 1 : Contains(acc.map[l], lists[j][i])
      <4>1. PICK l \in 1 .. k - 1 : Contains(acc.map[l], lists[j][i])
        BY <3>2
      <4>2. l \in 1 .. k /\ Contains(new.map[l], lists[j][i])
        BY <1>0, <1>5, <4>1
      <4> QED
        BY <3>2, <4>2, Zenon
    <3> QED
      BY <2>1, <3>1, <3>2, Zenon DEF Covers
  <2> QED
    BY <1>5, <2>1, <2>2, Zenon DEF Covers
<1>12. OnePerType(new.map[k]) /\ Covers(new.map, lists[k], k, k)
  <2>1. OnePerType(one.services)
    BY <1>2, Zenon DEF OnePerType, SelectedFrom
  <2>2. ASSUME NEW i \in DOMAIN lists[k]
        PROVE  \/ HasType(new.map[k], Catalog[lists[k][i]].type)
               \/ Catalog[lists[k][i]].global /\ \E l \in 1 .. k : Contains(new.map[l], lists[k][i])
    <3>0. i \in 1 .. Len(lists[k])
      BY <1>0
    <3>1. CASE Catalog[lists[k][i]].type \in one.types
      <4>1. HasType(one.services, Catalog[lists[k][i]].type)
        BY <1>2, <3>1, Zenon DEF SelectedFrom, HasType
      <4> QED
        BY <1>5, <4>1
    <3>2. CASE Catalog[lists[k][i]].global /\ Contains(acc.globals, lists[k][i])
      BY <1>9, <3>2, Zenon
    <3> QED
      BY <1>2, <3>0, <3>1, <3>2, Zenon DEF SelectedFrom
  <2> QED
    BY <1>5, <2>1, <2>2, Zenon DEF Covers
<1>13. ASSUME \A j \in DOMAIN lists : OneGlobal(lists[j]) PROVE OnceUpTo(new, k)
  <2>0. OnceUpTo(acc, k - 1)
    BY <1>13 DEF SelectedUpTo
  <2>1. ASSUME NEW s, Contains(one.services, s), Catalog[s].global
        PROVE  ~Contains(acc.globals, s) /\ Contains(one.globals, s)
    <3>1. PICK i \in DOMAIN one.services : one.services[i] = s
      BY <1>3, <2>1 DEF Contains, ExistingServices
    <3> QED
      BY <1>2, <1>13, <2>1, <3>1 DEF SelectedFrom
  <2>2. ASSUME NEW l \in 1 .. k - 1, NEW s, Contains(acc.map[l], s), Catalog[s].global
        PROVE  /\ Contains(acc.globals, s) /\ ~Contains(one.services, s)
               /\ \A m \in 1 .. k - 1 : Contains(acc.map[m], s) => m = l
    <3>1. /\ Contains(acc.globals, s)
          /\ \A m \in 1 .. k - 1 : Contains(acc.map[m], s) => m = l
      BY <2>0, <2>2, Zenon DEF OnceUpTo
    <3> QED
      BY <2>1, <2>2, <3>1, Zenon
  <2> SUFFICES ASSUME NEW l \in 1 .. k, NEW s, Contains(new.map[l], s), Catalog[s].global
               PROVE  /\ Contains(new.globals, s)
                      /\ \A m \in 1 .. k : Contains(new.map[m], s) => m = l
    BY Zenon DEF OnceUpTo
  <2>3. CASE l = k
    <3>1. Contains(one.services, s)
      BY <1>5, <2>3
    <3>2. Contains(new.globals, s) /\ ~Contains(acc.globals, s)
      BY <1>4, <2>1, <3>1
    <3>3. ASSUME NEW m \in 1 .. k - 1, Contains(acc.map[m], s) PROVE FALSE
      BY <2>2, <3>2, <3>3, Zenon
    <3> QED
      BY <1>0, <1>5, <2>3, <3>2, <3>3
  <2>4. CASE l \in 1 .. k - 1
    <3>1. Contains(acc.map[l], s)
      BY <1>5, <2>4
    <3>2. /\ Contains(acc.globals, s) /\ ~Contains(one.services, s)
          /\ \A m \in 1 .. k - 1 : Contains(acc.map[m], s) => m = l
      BY <2>2, <2>4, <3>1, Zenon
    <3> QED
      BY <1>0, <1>4, <1>5, <1>7, <3>2
  <2> QED
    BY <1>0, <2>3, <2>4
<1>14. SelectedUpTo(new, lists, k)
  <2>1. \A j \in 1 .. k : OnePerType(new.map[j]) /\ Covers(new.map, lists[j], j, k)
    BY <1>0, <1>11, <1>12
  <2>2. new.globals \in ExistingServices
    BY <1>3, <1>4
  <2> QED
    BY <1>4, <1>5, <1>10, <1>13, <2>1, <2>2, Zenon DEF SelectedUpTo
<1> QED
  BY <1>14 DEF new

\* What DedupeServices returns for lists of services that exist.
LEMMA DedupeServicesSelects ==
    ASSUME NEW lists \in Seq(ExistingServices)
    PROVE  SelectedUpTo(DedupeServices(lists), lists, Len(lists))
<1>0. Len(lists) \in Nat /\ DOMAIN lists = 1 .. Len(lists)
  OBVIOUS
<1>1. PICK F : /\ F[0] = NothingSelectedFor
               /\ \A k \in 1 .. Len(lists) : F[k] = SelectFor(F[k - 1], lists[k])
               /\ DedupeServices(lists) = F[Len(lists)]
  BY <1>0, DedupeServicesLoop
<1> DEFINE S == {k \in Nat : k <= Len(lists) => SelectedUpTo(F[k], lists, k)}
<1>2. 0 \in S
  <2>1. <<>> \in ExistingServices /\ \A s : ~Contains(<<>>, s)
    BY DEF ExistingServices, Contains
  <2>2. SelectedUpTo(NothingSelectedFor, lists, 0)
    BY <2>1 DEF SelectedUpTo, NothingSelectedFor, OnceUpTo
  <2> QED
    BY <1>1, <2>2
<1>3. ASSUME NEW k \in Nat, k \in S PROVE k + 1 \in S
  <2> SUFFICES ASSUME k + 1 <= Len(lists) PROVE SelectedUpTo(F[k + 1], lists, k + 1)
    OBVIOUS
  <2>1. SelectedUpTo(F[k], lists, k)
    BY <1>0, <1>3
  <2>2. k + 1 \in DOMAIN lists /\ (k + 1) - 1 = k
    BY <1>0
  <2>3. F[k + 1] = SelectFor(F[k], lists[k + 1])
    BY <1>0, <1>1, <2>2
  <2> QED
    BY <2>1, <2>2, <2>3, SelectForStep
<1> HIDE DEF S
<1>4. Len(lists) \in S
  BY <1>0, <1>2, <1>3, CountsUp
<1> QED
  BY <1>0, <1>1, <1>4 DEF S
----------------------------------------------------------------------------
(* The plan of a deployment *)

Lists(d) == [i \in DOMAIN TargetsOf[d] |-> ListOf(d, TargetsOf[d][i])]

\* Every node set of a deployment has the selection of one of its mentions.
LEMMA PlanSelected ==
    ASSUME ServicesExist, NEW d \in Deployments
    PROVE  /\ Lists(d) \in Seq(ExistingServices)
           /\ DOMAIN Lists(d) = DOMAIN TargetsOf[d]
           /\ \A i \in DOMAIN TargetsOf[d] : Lists(d)[i] = ListOf(d, TargetsOf[d][i])
           /\ SelectedUpTo(Selected(d), Lists(d), Len(Lists(d)))
           /\ DOMAIN Lists(d) = 1 .. Len(Lists(d))
           /\ \A n \in Targets(d) : \E i \in DOMAIN TargetsOf[d] :
                TargetsOf[d][i] = n /\ Plan[d][n] = Selected(d).map[i]
           /\ \A n \in NodeSets \ Targets(d) : Plan[d][n] = <<>>
<1>1. TargetsOf[d] \in Seq(NodeSets) /\ Len(TargetsOf[d]) \in Nat
      /\ DOMAIN TargetsOf[d] = 1 .. Len(TargetsOf[d])
  BY DeploymentsAssumption
<1>2. \A i \in DOMAIN TargetsOf[d] : ListOf(d, TargetsOf[d][i]) \in ExistingServices
  BY DEF ServicesExist, Targets, ExistingServices
<1>3. Lists(d) \in Seq(ExistingServices) /\ DOMAIN Lists(d) = DOMAIN TargetsOf[d]
  BY <1>1, <1>2 DEF Lists
<1>4. \A i \in DOMAIN TargetsOf[d] : Lists(d)[i] = ListOf(d, TargetsOf[d][i])
  BY DEF Lists
<1>5. SelectedUpTo(Selected(d), Lists(d), Len(Lists(d)))
  BY <1>3, DedupeServicesSelects DEF Selected, Lists
<1>6. DOMAIN Lists(d) = 1 .. Len(Lists(d))
  BY <1>3
<1>7. ASSUME NEW n \in NodeSets
      PROVE  LET at == {i \in DOMAIN TargetsOf[d] : TargetsOf[d][i] = n}
             IN Plan[d][n] = IF at = {} THEN <<>>
                             ELSE Selected(d).map[CHOOSE i \in at : \A j \in at : j <= i]
  BY CatalogAssumption DEF SelectedPlan
<1>8. ASSUME NEW n \in Targets(d)
      PROVE  \E i \in DOMAIN TargetsOf[d] : TargetsOf[d][i] = n /\ Plan[d][n] = Selected(d).map[i]
  <2> DEFINE at == {i \in DOMAIN TargetsOf[d] : TargetsOf[d][i] = n}
             last == CHOOSE i \in at : \A j \in at : j <= i
  <2>1. n \in NodeSets /\ at # {} /\ at \in SUBSET (1 .. Len(TargetsOf[d]))
    BY <1>1 DEF Targets
  <2>2. \E m \in at : \A j \in at : j <= m
    <3> HIDE DEF at
    <3> QED BY <1>1, <2>1, LastExists
  <2>3. last \in at
    <3> HIDE DEF at
    <3> QED BY <2>2
  <2>4. Plan[d][n] = Selected(d).map[last]
    BY <1>7, <2>1
  <2> HIDE DEF last
  <2> QED
    BY <2>3, <2>4
<1>9. ASSUME NEW n \in NodeSets \ Targets(d) PROVE Plan[d][n] = <<>>
  <2>1. {i \in DOMAIN TargetsOf[d] : TargetsOf[d][i] = n} = {}
    BY DEF Targets
  <2> QED
    BY <1>7, <2>1
<1> QED
  BY <1>3, <1>4, <1>5, <1>6, <1>8, <1>9

\* The plan has one service of every type, so no service twice.
LEMMA PlanOnePerType ==
    ASSUME ServicesExist, NEW d \in Deployments, NEW n \in NodeSets
    PROVE  Plan[d][n] \in ExistingServices /\ OnePerType(Plan[d][n])
<1>1. CASE n \in Targets(d)
  <2>1. PICK i \in DOMAIN TargetsOf[d] : Plan[d][n] = Selected(d).map[i]
    BY <1>1, PlanSelected
  <2>2. i \in 1 .. Len(Lists(d))
    BY PlanSelected
  <2>3. /\ Selected(d).map \in Seq(ExistingServices) /\ Len(Selected(d).map) = Len(Lists(d))
        /\ OnePerType(Selected(d).map[i])
    BY <2>2, PlanSelected DEF SelectedUpTo
  <2>4. Selected(d).map[i] \in ExistingServices
    BY <2>2, <2>3
  <2> QED
    BY <2>1, <2>3, <2>4
<1>2. CASE n \notin Targets(d)
  <2>1. Plan[d][n] = <<>>
    BY <1>2, PlanSelected
  <2> QED
    BY <2>1 DEF ExistingServices, OnePerType
<1> QED
  BY <1>1, <1>2

LEMMA SelectedWithoutDuplicates ==
    ASSUME ServicesExist PROVE PlanWithoutDuplicates
BY PlanOnePerType DEF PlanWithoutDuplicates, OnePerType

\* The selected services are rolled out as ServiceRollout says, whatever the
\* user lists: a list with a service twice is deduplicated first.
THEOREM SelectedServicesRollOut ==
    ASSUME ServicesExist PROVE Spec => RollsOut
BY SelectedWithoutDuplicates, DeploymentsRollOut

----------------------------------------------------------------------------
(* What a deployment that is done has run *)

\* Jobs exist for planned services only.
JobsPlanned ==
    \A d \in Deployments, n \in NodeSets, s \in Services :
       job[d][n][s].state # "none" => n \in Targets(d) /\ \E i \in DOMAIN Plan[d][n] : Plan[d][n][i] = s

LEMMA PlannedPreserved ==
    ASSUME TypeOK, JobsPlanned, [Next]_vars PROVE JobsPlanned'
<1> SUFFICES ASSUME NEW d \in Deployments, NEW n \in NodeSets, NEW s \in Services,
                    job'[d][n][s].state # "none"
             PROVE  n \in Targets(d) /\ \E i \in DOMAIN Plan[d][n] : Plan[d][n][i] = s
  BY DEF JobsPlanned, Targets
<1>1. CASE Created(d, n, s)
  BY <1>1 DEF Created, Creates
<1>2. CASE job[d][n][s].state # "none"
  BY <1>2 DEF JobsPlanned
<1> QED
  BY <1>1, <1>2, JobChanges DEF Moved

LEMMA StartPlanned ==
    (Init => JobsPlanned) /\ (SetUpInit => JobsPlanned)
<1>1. ASSUME NEW status, NEW inv, NEW queue, Start(status, inv, queue)
      PROVE  JobsPlanned
  BY <1>1 DEF Start, NoJob, JobsPlanned
<1> QED
  BY <1>1 DEF Init, SetUpInit

\* The place of a service of the plan, and its job.
LEMMA PlannedRan ==
    ASSUME TypeOK, ServicesExist, DoneInv, NEW d \in Deployments, dep[d].ready = "True",
           NEW n \in Targets(d), NEW i \in DOMAIN Plan[d][n]
    PROVE  Ran(d, n, Plan[d][n][i])
BY DEF DoneInv, DeployedOn, Succeeded, JobOf, Ran

LEMMA DoneRan ==
    ASSUME TypeOK, ServicesExist, TargetsOnce, JobsPlanned, DoneInv
    PROVE  ListedServicesRan
<1> SUFFICES ASSUME NEW d \in Deployments, NEW n \in Targets(d), dep[d].ready = "True",
                    NEW i \in DOMAIN ListOf(d, n)
             PROVE  LET svc == ListOf(d, n)[i]
                        same == {s \in DOMAIN Catalog : Catalog[s].type = Catalog[svc].type}
                    IN \/ Cardinality({s \in same : Ran(d, n, s)}) = 1
                       \/ Catalog[svc].global /\ \E m \in Targets(d) : Ran(d, m, svc)
  BY DEF ListedServicesRan
<1> DEFINE svc == ListOf(d, n)[i]
           same == {s \in DOMAIN Catalog : Catalog[s].type = Catalog[svc].type}
           ran == {s \in same : Ran(d, n, s)}
           map == Selected(d).map
           K == Len(Lists(d))
<1>1. PICK k \in DOMAIN TargetsOf[d] : TargetsOf[d][k] = n /\ Plan[d][n] = map[k]
  BY PlanSelected
<1>2. k \in 1 .. K /\ Lists(d)[k] = ListOf(d, n) /\ n \in NodeSets
  BY <1>1, PlanSelected, TargetsAreNodeSets
<1>3. Covers(map, ListOf(d, n), k, K)
  BY <1>2, PlanSelected DEF SelectedUpTo
<1>4. \/ HasType(Plan[d][n], Catalog[svc].type)
      \/ Catalog[svc].global /\ \E l \in 1 .. K : Contains(map[l], svc)
  BY <1>1, <1>3, Zenon DEF Covers
<1>5. CASE HasType(Plan[d][n], Catalog[svc].type)
  <2>1. PICK y \in DOMAIN Plan[d][n] : Catalog[Plan[d][n][y]].type = Catalog[svc].type
    BY <1>5 DEF HasType
  <2> DEFINE it == Plan[d][n][y]
  <2>2. it \in DOMAIN Catalog /\ OnePerType(Plan[d][n])
    BY <1>2, PlanOnePerType DEF ExistingServices
  <2>3. Ran(d, n, it)
    BY PlannedRan
  <2>4. ASSUME NEW s \in ran PROVE s = it
    <3>1. s \in Services /\ job[d][n][s].state # "none"
      BY CatalogAssumption DEF Ran
    <3>2. PICK z \in DOMAIN Plan[d][n] : Plan[d][n][z] = s
      BY <1>2, <3>1 DEF JobsPlanned
    <3>3. Catalog[Plan[d][n][z]].type = Catalog[Plan[d][n][y]].type
      BY <2>1, <3>2
    <3> QED
      BY <2>2, <3>2, <3>3 DEF OnePerType
  <2>5. it \in ran
    BY <2>1, <2>2, <2>3
  <2> HIDE DEF it, ran
  <2>6. ran = {it}
    BY <2>4, <2>5
  <2>7. Cardinality(ran) = 1
    BY <2>6, FS_Singleton
  <2> QED
    BY <2>7 DEF ran
<1>6. CASE Catalog[svc].global /\ \E l \in 1 .. K : Contains(map[l], svc)
  <2>1. PICK l \in 1 .. K : Contains(map[l], svc)
    BY <1>6
  <2> DEFINE m == TargetsOf[d][l]
  <2>2. l \in DOMAIN TargetsOf[d] /\ m \in Targets(d)
    BY PlanSelected DEF Targets
  <2>3. PICK j \in DOMAIN TargetsOf[d] : TargetsOf[d][j] = m /\ Plan[d][m] = map[j]
    BY <2>2, PlanSelected
  <2>4. j = l
    BY <2>2, <2>3 DEF TargetsOnce
  <2>5. PICK x \in DOMAIN Plan[d][m] : Plan[d][m][x] = svc
    <3>1. m \in NodeSets
      BY <2>2, TargetsAreNodeSets
    <3>2. Plan[d][m] \in Seq(DOMAIN Catalog)
      BY <3>1, PlanOnePerType DEF ExistingServices
    <3>3. Contains(Plan[d][m], svc)
      BY <2>1, <2>3, <2>4
    <3> HIDE DEF m, svc
    <3> QED
      BY <3>2, <3>3 DEF Contains
  <2>6. Ran(d, m, svc)
    BY <2>2, <2>5, PlannedRan
  <2> QED
    BY <1>6, <2>2, <2>6, Zenon
<1> QED
  BY <1>4, <1>5, <1>6

\* A deployment that is done has run, on every node set that lists a service,
\* exactly one service of its type, unless it is a global one that ran for
\* another node set: for every catalog, every list of services that exist and
\* every set of node sets named once, although every pass selects the services
\* again and learns how far it was from the jobs alone.
THEOREM ListedServicesHaveRun ==
    ASSUME ServicesExist, TargetsOnce
    PROVE  Spec => []ListedServicesRan
<1>1. Init => JobsPlanned /\ DoneInv
  BY StartPlanned, InitDone
<1>2. TypeOK /\ JobsPlanned /\ DoneInv /\ [Next]_vars => JobsPlanned' /\ DoneInv'
  BY PlannedPreserved, DonePreserved
<1>3. TypeOK /\ JobsPlanned /\ DoneInv => ListedServicesRan
  BY DoneRan
<1> QED
  BY <1>1, <1>2, <1>3, DataPlaneTypeCorrect, PTL DEF Spec

----------------------------------------------------------------------------
(* Services that are deployed on all node sets at once *)

\* No list of a deployment has more than one global service.
OneGlobalEach == \A d \in Deployments : \A n \in Targets(d) : OneGlobal(ListOf(d, n))

LEMMA PlannedOnce ==
    ASSUME ServicesExist, OneGlobalEach, NEW d \in Deployments, NEW s \in DOMAIN Catalog,
           Catalog[s].global, NEW n \in Targets(d), NEW m \in Targets(d),
           NEW i \in DOMAIN Plan[d][n], Plan[d][n][i] = s,
           NEW j \in DOMAIN Plan[d][m], Plan[d][m][j] = s
    PROVE  n = m
<1> DEFINE map == Selected(d).map
           K == Len(Lists(d))
<1>1. PICK k \in DOMAIN TargetsOf[d] : TargetsOf[d][k] = n /\ Plan[d][n] = map[k]
  BY PlanSelected
<1>2. PICK l \in DOMAIN TargetsOf[d] : TargetsOf[d][l] = m /\ Plan[d][m] = map[l]
  BY PlanSelected
<1>3. \A x \in DOMAIN Lists(d) : OneGlobal(Lists(d)[x])
  BY PlanSelected DEF OneGlobalEach, Targets
<1>4. OnceUpTo(Selected(d), K)
  BY <1>3, PlanSelected DEF SelectedUpTo
<1>5. Contains(map[k], s) /\ Contains(map[l], s)
  <2>1. Plan[d][n] \in Seq(DOMAIN Catalog) /\ Plan[d][m] \in Seq(DOMAIN Catalog)
    BY TargetsAreNodeSets, PlanOnePerType DEF ExistingServices
  <2>2. i \in 1 .. Len(Plan[d][n]) /\ j \in 1 .. Len(Plan[d][m])
    BY <2>1
  <2> QED
    BY <1>1, <1>2, <2>2 DEF Contains
<1>6. k \in 1 .. K /\ l \in 1 .. K
  BY PlanSelected
<1>7. k = l
  BY <1>4, <1>5, <1>6, Zenon DEF OnceUpTo
<1> QED
  BY <1>1, <1>2, <1>7

LEMMA JobsOnce ==
    ASSUME ServicesExist, OneGlobalEach, JobsPlanned PROVE GlobalOnce
<1> SUFFICES ASSUME NEW d \in Deployments, NEW s \in DOMAIN Catalog, Catalog[s].global
             PROVE  Cardinality({n \in NodeSets : job[d][n][s].state # "none"}) <= 1
  BY DEF GlobalOnce
<1> DEFINE on == {n \in NodeSets : job[d][n][s].state # "none"}
<1>1. ASSUME NEW n \in on, NEW m \in on PROVE n = m
  <2>1. s \in Services
    BY CatalogAssumption
  <2>2. /\ n \in Targets(d) /\ \E i \in DOMAIN Plan[d][n] : Plan[d][n][i] = s
        /\ m \in Targets(d) /\ \E i \in DOMAIN Plan[d][m] : Plan[d][m][i] = s
    BY <2>1 DEF JobsPlanned
  <2> QED
    BY <2>2, PlannedOnce
<1> HIDE DEF on
<1>2. CASE on = {}
  <2>1. Cardinality(on) = 0
    BY <1>2, FS_EmptySet
  <2> QED
    BY <2>1 DEF on
<1>3. CASE on # {}
  <2>1. PICK n \in on : TRUE
    BY <1>3
  <2>2. on = {n}
    BY <1>1, <2>1
  <2>3. Cardinality(on) = 1
    BY <2>2, FS_Singleton
  <2> QED
    BY <2>3 DEF on
<1> QED
  BY <1>2, <1>3

\* A service that is deployed on all node sets at once is run for one node set
\* of a deployment only, if no list of services has two of them: with two, the
\* second overwrites the note of the first (see the run dp_global_once).
THEOREM GlobalRunsOnce ==
    ASSUME ServicesExist, OneGlobalEach
    PROVE  (Spec => []GlobalOnce) /\ (SetUpSpec => []GlobalOnce)
<1>1. (Init => JobsPlanned) /\ (SetUpInit => JobsPlanned)
  BY StartPlanned
<1>2. TypeOK /\ JobsPlanned /\ [Next]_vars => JobsPlanned'
  BY PlannedPreserved
<1>3. JobsPlanned => GlobalOnce
  BY JobsOnce
<1>4. Spec => []GlobalOnce
  BY <1>1, <1>2, <1>3, DataPlaneTypeCorrect, PTL DEF Spec
<1>5. SetUpSpec => []GlobalOnce
  BY <1>1, <1>2, <1>3, SetUpTypeCorrect, PTL DEF SetUpSpec
<1> QED
  BY <1>4, <1>5
=============================================================================
