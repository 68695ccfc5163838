---------------------------- MODULE MCDataPlane ----------------------------
(* Small instances of DataPlane for TLC. *)
EXTENDS DataPlaneServices

CONSTANTS n1, n2, d1, d2, s1, s1x, s2

OneTarget == [d \in Deployments |-> <<n1>>]
BothTargets == [d \in Deployments |-> <<n1, n2>>]

AlwaysNew == [g \in 0 .. MaxGeneration |-> g]

NoOverride == [d \in Deployments |-> <<>>]

Plain(type) == [type |-> type, global |-> FALSE]
Global(type) == [type |-> type, global |-> TRUE]

\* One service.
OneListed == [n \in NodeSets |-> <<s1>>]
OneService == [s \in {s1} |-> Plain("one")]

\* Two services, and a third of the type of the first.
SameTypeListed == [n \in NodeSets |-> <<s1, s1x, s2>>]
SameType == [s \in {s1, s1x, s2} |-> IF s = s2 THEN Plain("two") ELSE Plain("one")]

\* Two services that are deployed on all node sets at once.
GlobalsListed == [n \in NodeSets |-> <<s1, s2>>]
Globals == [s \in {s1, s2} |-> IF s = s1 THEN Global("one") ELSE Global("two")]

\* What the theorems about the selection assume.
ASSUME ServicesExist /\ TargetsOnce

\* The selected plan, as a value TLC computes once.
Tabulated(S, f) == FoldSet(LAMBDA x, table : (x :> f[x]) @@ table, <<>>, S)
TabulatedPlan == Tabulated(Deployments, [d \in Deployments |-> Tabulated(NodeSets, SelectedPlan[d])])
MCPlan == TabulatedPlan
=============================================================================
