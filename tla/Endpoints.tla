----------------------------- MODULE Endpoints -----------------------------
(***************************************************************************)
(* How one endpoint of a service gets its certificate and its route        *)
(* (internal/openstack/common.go).                                         *)
(*                                                                         *)
(* `net' is the part of the cluster these functions change:                *)
(*   certs   the Certificates requested, named <<API, endpoint>>           *)
(*   issued  those of them whose secret exists                             *)
(*   routes  the Route of each public endpoint, None without one           *)
(* `want' is what the pass asks for: pod level TLS, TLS at the ingress,    *)
(* and the name of a secret with a certificate for the route (given), that *)
(* may exist or not.  Every function returns how it ended (done, wait or   *)
(* error) with what it changed.                                            *)
(***************************************************************************)
EXTENDS Naturals

CONSTANTS
    None,    \* nil
    Custom   \* the certificate secret of the user's template

Route(tls, admitted) == [tls |-> tls, admitted |-> admitted]

(* certmanager.EnsureCert: asks for the certificate, and waits until its secret exists. *)
EnsureCert(net, c) ==
    [net |-> [net EXCEPT !.certs = @ \cup {c}], end |-> IF c \in net.issued THEN "done" ELSE "wait"]

DeleteCertificate(net, c) == [net EXCEPT !.certs = @ \ {c}, !.issued = @ \ {c}]

(* The certificate of a public endpoint's pods.  Without a route the secret of the template is taken, *)
(* if there is one, and the certificate of the route is not needed.                                  *)
PublicCert(net, svc, want, template) ==
    LET own == <<svc.api, "public">>
        cert == EnsureCert(net, own)
    IN  IF ~want.podTLS
          THEN [net |-> net, end |-> "done", secret |-> None]
        ELSE IF svc.lb /\ template # None
          THEN IF template = Custom \/ template \in net.issued
                 THEN [net |-> DeleteCertificate(net, <<svc.api, "route">>), end |-> "done", secret |-> template]
                 ELSE [net |-> net, end |-> "wait", secret |-> None]
        ELSE [net |-> cert.net, end |-> cert.end, secret |-> own]

(* The route is created without TLS first, for its host name; then come the certificate and TLS. *)
CreateRoute(net, svc, want) ==
    LET old == net.routes[svc.api]
        admitted == IF old = None THEN TRUE ELSE old.admitted
        plain == IF want.ingressTLS /\ old # None THEN net
                 ELSE [net EXCEPT !.routes[svc.api] = Route(FALSE, admitted)]
        cert == EnsureCert(plain, <<svc.api, "route">>)
        secured(n) == [n EXCEPT !.routes[svc.api] = Route(TRUE, admitted)]
    IN  CASE ~want.ingressTLS -> [net |-> plain, end |-> "done", url |-> "http"]
          [] want.ingressTLS /\ want.given ->
               [net |-> DeleteCertificate(secured(plain), <<svc.api, "route">>), end |-> "done", url |-> "https"]
          [] want.ingressTLS /\ ~want.given ->
               IF cert.end = "done" THEN [net |-> secured(cert.net), end |-> "done", url |-> "https"]
                                    ELSE [net |-> cert.net, end |-> "wait", url |-> "none"]

\* Mutant: the condition of an endpoint that is exposed is not set.
EnsureRouteStarted(net, svc, want, expose) ==
    LET route == CreateRoute(net, svc, want)
        started == IF expose = "none" THEN "Unknown" ELSE expose
    IN  IF svc.lb
          THEN [net |-> [net EXCEPT !.routes[svc.api] = None], end |-> "done", url |-> "none", expose |-> "none"]
        ELSE IF route.end = "wait"
          THEN [net |-> route.net, end |-> "wait", url |-> "none", expose |-> started]
        ELSE IF ~route.net.routes[svc.api].admitted
          THEN [net |-> route.net, end |-> "error", url |-> "none", expose |-> "False"]
        ELSE [net |-> route.net, end |-> "done", url |-> route.url, expose |-> started]

(* A Service that asks for no route loses the one it has. *)
ensureRoute(net, svc, want, expose) ==
    LET route == CreateRoute(net, svc, want)
        started == IF expose = "none" THEN "Unknown" ELSE expose
        gone == [net EXCEPT !.routes[svc.api] = None]
    IN  IF svc.lb
          THEN [net |-> IF net.routes[svc.api] # None /\ want.podTLS
                          THEN DeleteCertificate(gone, <<svc.api, "route">>) ELSE gone,
                end |-> "done", url |-> "none", expose |-> "none"]
        ELSE IF route.end = "wait"
          THEN [net |-> route.net, end |-> "wait", url |-> "none", expose |-> started]
        ELSE IF ~route.net.routes[svc.api].admitted
          THEN [net |-> route.net, end |-> "error", url |-> "none", expose |-> "False"]
        ELSE [net |-> route.net, end |-> "done", url |-> route.url, expose |-> "True"]

(* One Service of the list; conds holds the Expose condition and the one for custom certificates. *)
EnsureEndpointConfig(net, svc, want, template, conds) ==
    LET internal == EnsureCert(net, <<svc.api, svc.endpoint>>)
        checked == [conds EXCEPT !.custom = IF ~(want.ingressTLS /\ want.given) THEN @
                                            ELSE IF want.exists THEN "True" ELSE "False"]
        public == PublicCert(net, svc, want, template)
        route == ensureRoute(public.net, svc, want, checked.expose)
    IN  CASE svc.endpoint # "public" /\ ~want.podTLS ->
               [net |-> net, end |-> "done", secret |-> None, url |-> "none", conds |-> conds]
          [] svc.endpoint # "public" /\ want.podTLS ->
               [net |-> internal.net, end |-> internal.end, secret |-> <<svc.api, svc.endpoint>>,
                url |-> "none", conds |-> conds]
          [] svc.endpoint = "public" /\ want.ingressTLS /\ want.given /\ ~want.exists ->
               [net |-> net, end |-> "wait", secret |-> None, url |-> "none", conds |-> checked]
          [] svc.endpoint = "public" /\ ~(want.ingressTLS /\ want.given /\ ~want.exists) /\ public.end # "done" ->
               [net |-> public.net, end |-> public.end, secret |-> None, url |-> "none", conds |-> checked]
          [] OTHER ->
               [net |-> route.net, end |-> route.end, secret |-> public.secret, url |-> route.url,
                conds |-> [checked EXCEPT !.expose = route.expose]]

(* Routes whose Service is gone, with the certificates named after them. *)
DeleteCertsAndRoutes(net, svcs) ==
    LET dead == {a \in DOMAIN net.routes :
                   net.routes[a] # None /\ ~\E svc \in svcs : svc.api = a /\ svc.endpoint = "public"}
        named == dead \X {"public", "route", "vencrypt"}
    IN  [certs |-> net.certs \ named, issued |-> net.issued \ named,
         routes |-> [a \in DOMAIN net.routes |-> IF a \in dead THEN None ELSE net.routes[a]]]
=============================================================================
