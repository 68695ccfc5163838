----------------------------- MODULE MCServices -----------------------------
(* Every service of the catalog by itself, and the client with keystone.  Services of one shape share *)
(* the kinds of events between them; two events happen where that stays small.                        *)
EXTENDS ControlPlaneServices

Singly == {<<s>> : s \in Services \ {"openstackclient"}} \cup {<<"keystone", "openstackclient">>}
OneOff == {{"aodh"}, {"cloudkitty"}}
Keepers == Services \ {"designate", "octavia", "nova", "telemetry"}
Compared == Services \ {"designate", "telemetry"}

Edits == {"enabled", "lb", "section", "custom", "ingressSecret", "tls", "version"}
Faults == {"fail", "crash", "lose", "reject"}
Few == [p \in Plans |->
          CASE p[1] \in {"dnsmasq", "test", "instanceha"} -> Edits \cup Faults
            [] p[1] = "placement" -> {"section", "custom", "ingressSecret", "fail", "lose", "reject"}
            [] p[1] = "horizon" -> {"lb", "tls", "crash"}
            [] p[1] = "neutron" -> {"tls", "crash"}
            [] p[1] = "watcher" -> {"ingressSecret", "withdraw"}
            [] p[1] = "nova" -> {"lb"}
            [] p[1] \in {"heat", "ironic"} -> {"enabled"}
            [] p[1] = "glance" -> {"crash"}
            [] p[1] = "telemetry" -> {"components"}
            [] p[1] = "keystone" -> {IF Len(p) = 1 THEN "version" ELSE "enabled"}
            [] OTHER -> {"enabled", "version"}]
Bounds == [p \in Plans |-> IF p[1] \in {"horizon", "watcher", "dnsmasq", "test", "instanceha"} THEN 2 ELSE 1]

(* The dashboard with a reference to a certificate secret that the user withdraws. *)
Dashboard == {<<"horizon">>}
GiveUp == [p \in Plans |-> {"ingressSecret", "giveUp"}]
Two == [p \in Plans |-> 2]
=============================================================================
