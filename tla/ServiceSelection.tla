-------------------------- MODULE ServiceSelection --------------------------
(***************************************************************************)
(* Which services a deployment runs on which of its node sets: the list of *)
(* every node set, or the deployment's own list, with every service type   *)
(* once per node set and with a service that is deployed on all node sets  *)
(* at once (a global one) left out where an earlier node set has it.       *)
(***************************************************************************)
EXTENDS Sequences, SequencesExt

CONSTANT Catalog    \* the services that exist: name -> [type, global]

\* How far the selection is: the services and types of the node set at hand,
\* the global services so far, and whether it failed.
NothingSelected(globals) ==
    [services |-> <<>>, types |-> {}, globals |-> globals, err |-> FALSE]

\* Mutant: the type of a selected service is not kept.
SelectUntyped(acc, svc) == [acc EXCEPT !.services = Append(@, svc)]

Select(acc, svc) ==
    [acc EXCEPT !.services = Append(@, svc), !.types = @ \cup {Catalog[svc].type}]

\* A global service is added to the list as it was before this node set.
SelectGlobal(acc, svc, globals) ==
    [Select(acc, svc) EXCEPT !.globals = Append(globals, svc)]

\* A name nothing exists for is kept, and fails when it is deployed; a second
\* mention of it is an error.
SelectMissing(acc, svc) ==
    IF Contains(acc.services, svc) THEN [acc EXCEPT !.err = TRUE]
    ELSE [acc EXCEPT !.services = Append(@, svc)]

\* A service is passed over when one of its type has been selected, or, if it
\* is a global one, for an earlier node set.
PassedOver(acc, svc, globals) ==
    \/ Catalog[svc].type \in acc.types
    \/ Contains(acc.services, svc)
    \/ Catalog[svc].global /\ Contains(globals, svc)

Consider(acc, svc, globals) ==
    CASE acc.err -> acc
      [] ~acc.err /\ svc \notin DOMAIN Catalog -> SelectMissing(acc, svc)
      [] ~acc.err /\ svc \in DOMAIN Catalog ->
            IF PassedOver(acc, svc, globals) THEN acc
            ELSE IF Catalog[svc].global THEN SelectGlobal(acc, svc, globals)
            ELSE Select(acc, svc)

dedupe(services, globals) ==
    FoldLeft(LAMBDA acc, svc : Consider(acc, svc, globals),
             NothingSelected(globals), services)

\* The selection for the next node set, after that for the ones before.
SelectFor(acc, list) ==
    LET one == dedupe(list, acc.globals)
    IN [map |-> Append(acc.map, one.services), globals |-> one.globals,
        err |-> acc.err \/ one.err]

\* lists: the services of the node sets of a deployment, in their order.
DedupeServices(lists) ==
    FoldLeft(SelectFor, [map |-> <<>>, globals |-> <<>>, err |-> FALSE], lists)
=============================================================================
