--------------------------- MODULE MCMinorUpdate ---------------------------
(***************************************************************************)
(* Small instances of MinorUpdate. An instance names the services of the   *)
(* control plane that it tells apart; the others are part of "rest".       *)
(***************************************************************************)
EXTENDS MinorUpdate

\* The control plane as the code orders it.
MCStagedOrder == <<"rabbitmq", "mariadb", "memcached", "keystone">>
MCNormalOrder == <<"rabbitmq", "mariadb", "memcached", "ovn", "keystone", "rest">>

\* One or no staged service, and what comes after.
MCStagedOne == <<"rabbitmq">>
MCNormalOne == <<"rabbitmq", "ovn", "rest">>
MCNormalTwo == <<"rabbitmq", "ovn">>

MCStagedKeystone == <<"keystone">>
MCNormalKeystone == <<"ovn", "keystone", "rest">>

\* Every version has images of its own: the image is the version.
MCDistinctImages == [s \in Services |-> [v \in Versions |-> v]]

\* The OVN image of every version is that of version 1.
MCSameOvnImage == [s \in Services |-> [v \in Versions |-> IF s = "ovn" THEN 1 ELSE v]]
=============================================================================
