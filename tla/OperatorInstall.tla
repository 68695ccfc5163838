--------------------------- MODULE OperatorInstall ---------------------------
(***************************************************************************)
(* What the initialization resource promises its readers: a build it       *)
(* reports as installed is one whose manifests were all in the cluster     *)
(* when the report was made.                                               *)
(***************************************************************************)
CONSTANTS Builds, None

VARIABLES
    manifests,  \* the build whose manifests are in the cluster, or None
    reported    \* the builds some resource reports as installed

Init ==
    /\ manifests \in Builds \cup {None}
    /\ reported \subseteq {manifests} \cap Builds

(* Manifests are applied, removed or replaced. *)
Change ==
    /\ manifests' \in Builds \cup {None}
    /\ UNCHANGED reported

(* Reports are withdrawn, or made of what is there. *)
Report ==
    /\ reported' \subseteq reported \cup ({manifests} \cap Builds)
    /\ UNCHANGED manifests

Next == Change \/ Report

Spec == Init /\ [][Next]_<<manifests, reported>>
=============================================================================
