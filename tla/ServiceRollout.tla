--------------------------- MODULE ServiceRollout ---------------------------
(***************************************************************************)
(* What a deployment promises its user: on each of its node sets it starts *)
(* the services of the plan one by one, each after those before it are     *)
(* done, none of them a second time, and it reports success, for good,     *)
(* when all services are done on all its node sets.                        *)
(***************************************************************************)
EXTENDS Naturals

CONSTANTS Deployments, NodeSets, TargetsOf, Plan

VARIABLES
    stage,      \* how far each service of each plan is
    reported    \* the deployments that have reported success

Init ==
    /\ stage = [d \in Deployments |-> [n \in NodeSets |->
                  [i \in DOMAIN Plan[d][n] |-> "waiting"]]]
    /\ reported = {}

\* The service is the next one to start on the node set.
IsNext(d, n, i) ==
    /\ stage[d][n][i] = "waiting"
    /\ \A j \in 1 .. i - 1 : stage[d][n][j] = "done"

\* The next services start on some of the node sets.
Start(d) ==
    /\ \E on \in SUBSET {TargetsOf[d][k] : k \in DOMAIN TargetsOf[d]} :
         stage' = [stage EXCEPT ![d] = [n \in NodeSets |-> [i \in DOMAIN Plan[d][n] |->
                     IF n \in on /\ IsNext(d, n, i) THEN "started" ELSE stage[d][n][i]]]]
    /\ UNCHANGED reported

Complete(d, n, i) ==
    /\ stage[d][n][i] = "started"
    /\ stage' = [stage EXCEPT ![d][n][i] = "done"]
    /\ UNCHANGED reported

Report(d) ==
    /\ \A k \in DOMAIN TargetsOf[d] : \A i \in DOMAIN Plan[d][TargetsOf[d][k]] :
         stage[d][TargetsOf[d][k]][i] = "done"
    /\ reported' = reported \cup {d}
    /\ UNCHANGED stage

Next ==
    \E d \in Deployments :
       \/ Start(d)
       \/ Report(d)
       \/ \E n \in NodeSets : \E i \in DOMAIN Plan[d][n] : Complete(d, n, i)

Spec == Init /\ [][Next]_<<stage, reported>>
=============================================================================
