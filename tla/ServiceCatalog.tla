--------------------------- MODULE ServiceCatalog ---------------------------
(***************************************************************************)
(* What tells the service reconcilers of internal/openstack apart.         *)
(*                                                                         *)
(* They all follow one scheme (ServiceReconcilers models it); each of them *)
(* has its own endpoints, certificates, application credentials, container *)
(* images and clean-up, and departs from the scheme in places.  There are  *)
(* up to three definitions per service: its endpoints (the part of the     *)
(* reconciler up to the call that writes the custom resource), its images  *)
(* (that call, the evaluation of the result and the ImageMatch function)   *)
(* and the record of the service itself (its beginning, with the branch    *)
(* that disables it).  What is only copied from the control plane's spec   *)
(* to the resource (node selectors, topologies, message buses, mounts) is  *)
(* left out.                                                               *)
(***************************************************************************)
EXTENDS Naturals, Sequences

Pair == {"public", "internal"}

(* An API and its endpoints.  Its Services are those of the APIs in `among', that carry the label it *)
(* asks for.  It is configured once there are as many of them as it has endpoints (counted) or, once  *)
(* the resource was ready (afterReady), with whatever Services there are.  `also': certificates that  *)
(* are asked for last.  `custom': the certificate of the template is handed to EnsureEndpointConfig.  *)
Api(name, endpoints) ==
    [name |-> name, endpoints |-> endpoints, among |-> {name}, also |-> {},
     counted |-> TRUE, afterReady |-> FALSE, custom |-> TRUE]

(* The application credential of a service user, the section of the spec it is configured by, and the *)
(* component it belongs to.                                                                           *)
Credential(name) == [name |-> name, section |-> name, component |-> name]

(* Images a reconciler writes to the resource, of which it clears some when disabled and compares some. *)
Images(keys) == [written |-> keys, cleared |-> keys, compared |-> keys]

(* A service without peculiarities:                                                                *)
(*   needs     the services that have to be enabled for anything to be done                        *)
(*   certs     certificates asked for first with pod level TLS; onWait: is a pending one an error? *)
(*   keepsTLS  the resource is read before its TLS settings are taken over into the template       *)
(*   remember  a pending endpoint does not end the pass, the reconciler only skips its resource    *)
(*   expose    the condition for the endpoints is removed when the service is disabled             *)
(*   config    it is a config map, that no operator reconciles and nothing disables                *)
Plain(apis, credentials, images) ==
    [apis |-> apis, credentials |-> credentials, images |-> images, needs |-> {}, certs |-> <<>>,
     onWait |-> "skip", keepsTLS |-> TRUE, remember |-> FALSE, expose |-> TRUE, config |-> FALSE]

----------------------------------------------------------------------------
DNSMasqImages == Images({"InfraDnsmasq"})
DNSMasq == [Plain(<<>>, <<>>, DNSMasqImages) EXCEPT !.expose = FALSE]

KeystoneEndpoints == <<Api("keystone", Pair)>>
KeystoneImages == Images({"KeystoneAPI"})
Keystone == Plain(KeystoneEndpoints, <<>>, KeystoneImages)

(* The recorded image outlives the service. *)
PlacementEndpoints == <<Api("placement", Pair)>>
PlacementImages == [Images({"PlacementAPI"}) EXCEPT !.cleared = {}]
Placement == Plain(PlacementEndpoints, <<Credential("placement")>>, PlacementImages)

(* Any number of APIs: here a split one and an edge one, that has no public endpoint. *)
GlanceEndpoints == <<Api("glance-default", Pair), Api("glance-edge", {"internal"})>>
GlanceImages == Images({"GlanceAPI"})
Glance == [Plain(GlanceEndpoints, <<Credential("glance")>>, GlanceImages) EXCEPT !.remember = TRUE]

CinderEndpoints == <<Api("cinder", Pair)>>
CinderImages == Images({"CinderAPI", "CinderScheduler", "CinderBackup", "CinderVolume"})
Cinder == Plain(CinderEndpoints, <<Credential("cinder")>>, CinderImages)

NeutronEndpoints == <<Api("neutron", Pair)>>
NeutronImages == Images({"NeutronAPI"})
Neutron == [Plain(NeutronEndpoints, <<Credential("neutron")>>, NeutronImages) EXCEPT !.certs = <<"neutron-ovndbs">>]

(* The metadata service has a certificate and no endpoint of its own: a Service that is missing leaves *)
(* it without one.  The console proxy of a cell has a public endpoint, and a certificate of its own for *)
(* the vencrypt channel.                                                                               *)
NovaEndpoints == <<Api("nova-api", Pair),
                   [Api("nova-metadata", {"internal"}) EXCEPT !.counted = FALSE],
                   [Api("nova-novncproxy", {"public"}) EXCEPT !.also = {"vencrypt"}]>>
NovaImages == Images({"NovaAPI", "NovaCompute", "NovaConductor", "NovaNovnc", "NovaScheduler"})
Nova == Plain(NovaEndpoints, <<Credential("nova")>>, NovaImages)

HeatEndpoints == <<Api("heat-api", Pair), Api("heat-cfn", Pair)>>
HeatImages == Images({"HeatAPI", "HeatCfnapi", "HeatEngine"})
Heat == Plain(HeatEndpoints, <<Credential("heat")>>, HeatImages)

(* Two service users share one section of the spec. *)
IronicCredentials == <<Credential("ironic"), [Credential("ironic-inspector") EXCEPT !.section = "ironic"]>>
IronicEndpoints == <<Api("ironic-api", Pair), Api("ironic-inspector", Pair)>>
IronicImages == Images({"IronicAPI", "IronicConductor", "IronicInspector", "IronicNeutronAgent",
                        "IronicPxe", "IronicPythonAgent"})
Ironic == Plain(IronicEndpoints, IronicCredentials, IronicImages)

(* Nothing happens to the client without keystone, and nothing disables it. *)
ClientImages == [Images({"OpenstackClient"}) EXCEPT !.cleared = {}]
OpenStackClient == [Plain(<<>>, <<>>, ClientImages) EXCEPT !.needs = {"keystone"}, !.expose = FALSE]

ManilaEndpoints == <<Api("manila", Pair)>>
ManilaImages == Images({"ManilaAPI", "ManilaScheduler", "ManilaShare"})
Manila == Plain(ManilaEndpoints, <<Credential("manila")>>, ManilaImages)

HorizonEndpoints == <<Api("horizon", {"public"})>>
HorizonImages == Images({"Horizon"})
Horizon == Plain(HorizonEndpoints, <<>>, HorizonImages)

(* Three service users, each with a section of its own.  The Services of CloudKitty carry the label *)
(* that the ones of Aodh are looked up by.                                                          *)
TelemetryCredentials == <<Credential("aodh"), Credential("ceilometer"), Credential("cloudkitty")>>
TelemetryEndpoints == <<Api("cloudkitty", Pair),
                        [Api("aodh", Pair) EXCEPT !.among = {"aodh", "cloudkitty"}]>>
TelemetryExporters == [n \in {"prometheus", "ceilometer", "ksm"} |->
                         [Api(n, {"internal"}) EXCEPT !.counted = FALSE, !.afterReady = TRUE]]
TelemetryImages ==
    LET keys == {"AodhAPI", "AodhEvaluator", "AodhListener", "AodhNotifier", "CeilometerCentral",
                 "CeilometerCompute", "CeilometerIpmi", "CeilometerMysqldExporter", "CeilometerNotification",
                 "CeilometerProxy", "CeilometerSgcore", "CloudKittyAPI", "CloudKittyProc"}
    IN [written |-> keys \cup {"Ksm"}, cleared |-> keys, compared |-> keys]
Telemetry == [Plain(TelemetryEndpoints \o <<TelemetryExporters["prometheus"], TelemetryExporters["ceilometer"],
                                            TelemetryExporters["ksm"]>>,
                    TelemetryCredentials, TelemetryImages) EXCEPT !.expose = FALSE]

BarbicanEndpoints == <<Api("barbican", Pair)>>
BarbicanImages == Images({"BarbicanAPI", "BarbicanWorker", "BarbicanKeystoneListener"})
Barbican == Plain(BarbicanEndpoints, <<Credential("barbican")>>, BarbicanImages)

(* The TLS settings are taken over from a resource that is read only afterwards. *)
OctaviaEndpoints == <<[Api("octavia", Pair) EXCEPT !.custom = FALSE]>>
OctaviaImages == Images({"OctaviaAPI", "OctaviaApache", "OctaviaHealthmanager", "OctaviaHousekeeping",
                         "OctaviaRsyslog", "OctaviaWorker"})
Octavia == [Plain(OctaviaEndpoints, <<Credential("octavia")>>, OctaviaImages)
              EXCEPT !.certs = <<"octavia-ovndbs">>, !.keepsTLS = FALSE]

(* The same here; and one image is not compared. *)
DesignateEndpoints == <<Api("designate", Pair)>>
DesignateImages ==
    LET keys == {"DesignateAPI", "DesignateBackendbind9", "DesignateCentral", "DesignateMdns",
                 "DesignateProducer", "DesignateUnbound", "DesignateWorker"}
    IN [Images(keys \cup {"NetUtils"}) EXCEPT !.compared = keys]
Designate == [Plain(DesignateEndpoints, <<Credential("designate")>>, DesignateImages) EXCEPT !.keepsTLS = FALSE]

SwiftEndpoints == <<Api("swift", Pair)>>
\* Mutant: the proxy's image is not compared.
SwiftImagesButProxy == [Images({"SwiftAccount", "SwiftContainer", "SwiftObject", "SwiftProxy"})
                          EXCEPT !.compared = @ \ {"SwiftProxy"}]
SwiftImages == Images({"SwiftAccount", "SwiftContainer", "SwiftObject", "SwiftProxy"})

Swift == Plain(SwiftEndpoints, <<Credential("swift")>>, SwiftImages)

WatcherEndpoints == <<Api("watcher", Pair)>>
WatcherImages == Images({"WatcherAPI", "WatcherApplier", "WatcherDecisionEngine"})
Watcher == Plain(WatcherEndpoints, <<Credential("watcher")>>, WatcherImages)

(* Config maps with image names for the test operator and for instance HA. *)
Test == [Plain(<<>>, <<>>, Images({"TestTempest", "TestTobiko", "TestHorizontest", "TestAnsibletest"}))
           EXCEPT !.config = TRUE]
InstanceHa == [Plain(<<>>, <<>>, Images({"OpenstackClient"}))
                 EXCEPT !.config = TRUE, !.certs = <<"instanceha-metrics">>, !.onWait = "error"]

----------------------------------------------------------------------------
(* The reconcilers in the order in which reconcileNormal calls them. *)
Order == <<"dnsmasq", "keystone", "placement", "glance", "cinder", "neutron", "nova", "heat", "ironic",
           "openstackclient", "manila", "horizon", "telemetry", "barbican", "octavia", "designate", "swift",
           "test", "instanceha", "watcher">>

Catalog ==
    [dnsmasq |-> DNSMasq, keystone |-> Keystone, placement |-> Placement, glance |-> Glance, cinder |-> Cinder,
     neutron |-> Neutron, nova |-> Nova, heat |-> Heat, ironic |-> Ironic, openstackclient |-> OpenStackClient,
     manila |-> Manila, horizon |-> Horizon, telemetry |-> Telemetry, barbican |-> Barbican, octavia |-> Octavia,
     designate |-> Designate, swift |-> Swift, test |-> Test, instanceha |-> InstanceHa, watcher |-> Watcher]

Services == DOMAIN Catalog
=============================================================================
