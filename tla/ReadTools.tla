------------------------------ MODULE ReadTools ------------------------------
(***************************************************************************)
(* The server from its configuration files to the requests of its read     *)
(* tools (runtime.py) and of the two doctors (doctor.py of peplink_core    *)
(* and of peplink_ic2).  A call names a device; the tool chooses the       *)
(* device to ask, the transport and the credential (registry.py,           *)
(* context.py, management.py), and the request logs in when its client has *)
(* no session.  Meanwhile credentials are withdrawn and sessions end on    *)
(* the devices.  What a request goes through is in DeviceClient, how a     *)
(* discovered address is found in HostDiscovery, what an access point      *)
(* answers in ApTables.                                                    *)
(*                                                                         *)
(* An operator defined just before another with the same parameters is a   *)
(* fault of the code that the properties are tested against; the           *)
(* specification does not use it.                                          *)
(***************************************************************************)
EXTENDS FleetConfig, FiniteSets

CONSTANTS
    Setups,      \* contents of the files and the variables of the environment
    Unknown,     \* a device id the files do not have
    MaxRevoked   \* bound: credentials withdrawn

ASSUME UnknownAssumption == Unknown \notin DeviceIds \cup {None}
ASSUME SetupsAssumption == \A s \in Setups : IsSetup(s)
ASSUME RevokedAssumption == MaxRevoked \in Nat

VARIABLES
    setup,      \* the files; they do not change
    server,     \* "starting", "refused" or "serving"
    fleet,      \* ctx.fleet, discovered hosts filled in
    valid,      \* credentials the devices and the cloud accept
    sessions,   \* clients of the registry that are logged in: device and tier
    stage,      \* "idle", "request", "probing" or "over"
    call,       \* the running call: tool and device_id
    client,     \* where its last request went: see Client
    todo,       \* tiers or checks a doctor has still to probe
    report,     \* verdicts so far, by tier or check
    accepted,   \* history: credentials a login of this call proved
    outcome     \* how the call ended

files == <<setup, server, fleet>>
remote == <<valid, sessions>>
vars == <<files, remote, stage, call, client, todo, report, accepted, outcome>>

\* The read tools, by how they choose their client.
HttpTools == {"status", "config", "mesh", "port status", "port config", "peers"}
ApTools == {"any status", "ssid", "ap status"}
Tools == HttpTools \cup ApTools
CloudTools == {"ic2 organisation", "ic2 device"}

\* "doctor" is a tool and a command, "ic2-doctor" a command; a command loads the
\* fleet as the server does.
Doctors == {"doctor", "ic2-doctor"}

Checks == {"token_grant", "list_orgs", "list_groups", "admin_token_grant"}

\* How a call ends: an exception before or after the request, an answer, a report.
Outcomes ==
    {"unknown device", "no credentials", "no host", "wrong kind", "no snmp", "unsupported",
     "no gateway", "no organisation", "no mapping", "failed", "answered", "report"}

ASSUME OutcomesAssumption == None \notin Outcomes

NoVerdicts == [t \in {} |-> FALSE]

Init ==
    /\ setup \in Setups
    /\ server = "starting"
    /\ fleet = None
    /\ valid = Credentials
    /\ sessions = {}
    /\ stage = "idle"
    /\ call = None
    /\ client = None
    /\ todo = <<>>
    /\ report = NoVerdicts
    /\ accepted = {}
    /\ outcome = None

-----------------------------------------------------------------------------
(* create_server().                                                        *)

Pending(loaded) ==
    { d \in DOMAIN loaded.devices :
        loaded.devices[d].discover # None /\ loaded.devices[d].host = None }

\* discovery_gateway_id() and build_read_only_client() do not raise; a gateway
\* that is itself discovered must come before (HostDiscovery has the order).
Findable(loaded, d) ==
    LET via == loaded.devices[d].via
        gateway == IF via # None THEN via ELSE loaded.gateway_id
    IN  /\ gateway \in DOMAIN loaded.devices
        /\ loaded.devices[gateway].auth # None
        /\ loaded.devices[gateway].host # None \/ gateway \in Pending(loaded) \ {d}

WithHosts(loaded) ==
    LET found(d) == [loaded.devices[d] EXCEPT !.host = loaded.devices[d].discover] IN
    [loaded EXCEPT !.devices =
        [d \in DOMAIN loaded.devices |->
            IF d \in Pending(loaded) THEN found(d) ELSE loaded.devices[d]]]

Start ==
    /\ server = "starting"
    /\ LET loaded == LoadRuntimeFleet(setup) IN
       \/ /\ loaded # None
          /\ \A d \in Pending(loaded) : Findable(loaded, d)
          /\ server' = "serving"
          /\ fleet' = WithHosts(loaded)
       \/ /\ loaded # None => Pending(loaded) # {}
          /\ server' = "refused"
          /\ fleet' = None
    /\ UNCHANGED <<setup, remote, stage, call, client, todo, report, accepted, outcome>>

-----------------------------------------------------------------------------
(* Choosing the client.                                                    *)

Device(d) == fleet.devices[d]

\* get_device(): the id given, or the default.
Named(device) == IF device # None THEN device ELSE fleet.device_id

\* DeviceRegistry.get() and resolve_ap_snmp(): why they raise, or None.
HttpError(d) ==
    CASE d \notin DOMAIN fleet.devices -> "unknown device"
      [] d \in DOMAIN fleet.devices /\ Device(d).auth = None -> "no credentials"
      [] d \in DOMAIN fleet.devices /\ Device(d).auth # None ->
            IF Device(d).host = None THEN "no host" ELSE None

SnmpError(d) ==
    CASE d \notin DOMAIN fleet.devices -> "unknown device"
      [] d \in DOMAIN fleet.devices /\ Device(d).kind # "ap" -> "wrong kind"
      [] d \in DOMAIN fleet.devices /\ Device(d).kind = "ap" ->
            IF Device(d).snmp = None THEN "no snmp"
            ELSE IF Device(d).host = None THEN "no host" ELSE None

IsAp(d) == d \in DOMAIN fleet.devices /\ Device(d).kind = "ap"

\* A PeplinkDeviceClient, and an SnmpSession with one of its two communities.
HttpClient(d, tier) ==
    [device |-> d, host |-> Device(d).host, transport |-> "http", tier |-> tier,
     credential |-> Device(d).auth[tier]]

SnmpClient(d, tier) ==
    [device |-> d, host |-> Device(d).host, transport |-> "snmp", tier |-> tier,
     credential |-> IF tier = "config_read"
                    THEN FirstNonEmpty(Device(d).snmp.config_community, Device(d).snmp.community)
                    ELSE Device(d).snmp.community]

CloudClient(tier, credential) ==
    [device |-> None, host |-> None, transport |-> "cloud", tier |-> tier,
     credential |-> credential]

\* read_client_for_path(), for /api/config. and /api/cmd.
ConfigTier(d) == IF Device(d).auth["config_read"] # None THEN "config_read" ELSE "read_only"

\* management_gateway_id(), None where it raises.
GatewayOf(d) ==
    LET gateway == FirstNonEmpty(Device(d).via, fleet.gateway_id)
    IN  IF gateway \in DOMAIN fleet.devices THEN gateway ELSE None

\* resolve_config_port_read_handle(), when the device itself has a client: the
\* device whose client reads the ports.
PortReader(d) ==
    IF Device(d).management = "direct" \/ GatewayOf(d) = d THEN d
    ELSE IF Device(d).kind = "switch" /\ GatewayOf(d) # None THEN d
    ELSE GatewayOf(d)

\* Tools that read an access point over SNMP and any other device over HTTP.
OverSnmp(tool, d) == tool = "ap status" \/ (tool \in {"any status", "ssid"} /\ IsAp(d))

\* The device a tool asks; a peer listing goes to a gateway.
Asked(tool, device) ==
    IF tool = "peers" THEN Named(FirstNonEmpty(device, fleet.gateway_id))
    ELSE Named(device)

\* Why a tool raises before its request, or None.
ReadError(tool, d) ==
    CASE OverSnmp(tool, d) -> SnmpError(d)
      [] ~OverSnmp(tool, d) /\ HttpError(d) # None -> HttpError(d)
      [] ~OverSnmp(tool, d) /\ HttpError(d) = None ->
            CASE tool = "mesh" ->
                    IF Device(d).kind = "fusionhub" THEN "unsupported" ELSE None
              [] tool = "port status" ->
                    IF Device(d).kind \in {"switch", "ap"} THEN "unsupported" ELSE None
              [] tool = "port config" ->
                    IF PortReader(d) = None THEN "no gateway" ELSE HttpError(PortReader(d))
              [] OTHER -> None

ReadClient(tool, d) ==
    CASE OverSnmp(tool, d) ->
            SnmpClient(d, IF tool = "ssid" THEN "config_read" ELSE "read_only")
      [] ~OverSnmp(tool, d) /\ tool \in {"config", "mesh", "ssid"} -> HttpClient(d, ConfigTier(d))
      [] tool = "port config" -> HttpClient(PortReader(d), ConfigTier(PortReader(d)))
      [] OTHER -> HttpClient(d, "read_only")

\* A call ends before any request, or its next step is `next`.
Begin(tool, device, error, next) ==
    /\ server = "serving"
    /\ stage = "idle"
    /\ call' = [tool |-> tool, device |-> device]
    /\ stage' = IF error # None THEN "over" ELSE next
    /\ outcome' = error
    /\ report' = NoVerdicts
    /\ accepted' = {}
    /\ UNCHANGED <<files, remote>>

BeginRead(tool, device) ==
    LET d == Asked(tool, device)
        error == ReadError(tool, d)
    IN  /\ Begin(tool, device, error, "request")
        /\ client' = IF error = None THEN ReadClient(tool, d) ELSE None
        /\ todo' = <<>>

\* The tools of ic2_tools.py, which exist when InControl 2 is enabled and share
\* one client; the files and the call may both lack an organisation.
BeginCloudRead(tool, device) ==
    /\ server = "serving"
    /\ fleet.ic2_enabled
    /\ LET d == Named(device)
           errors == CASE tool = "ic2 organisation" -> {None, "no organisation"}
                       [] tool = "ic2 device" ->
                            IF d \notin DOMAIN fleet.devices THEN {"unknown device"}
                            ELSE IF Device(d).ic2 THEN {None} ELSE {"no mapping"}
       IN  \E error \in errors :
            /\ Begin(tool, device, error, "request")
            /\ client' = IF error = None
                         THEN CloudClient("read_only", CloudRead(fleet.incontrol2)) ELSE None
    /\ todo' = <<>>

-----------------------------------------------------------------------------
(* The request of a read tool.                                             *)

SessionOf(c) == <<c.device, c.tier>>
KeepsSession(c) == c.transport # "snmp"
HasSession(c) == KeepsSession(c) /\ SessionOf(c) \in sessions

\* The client uses its session, or logs in; an SNMP request carries its
\* community.  A tool that adds the gateway to its answer may raise after all.
Answered ==
    /\ stage = "request"
    /\ \/ /\ HasSession(client)
          /\ UNCHANGED <<accepted, sessions>>
       \/ /\ client.credential \in valid
          /\ accepted' = accepted \cup {client.credential}
          /\ sessions' = IF KeepsSession(client)
                         THEN sessions \cup {SessionOf(client)} ELSE sessions
    /\ stage' = "over"
    /\ outcome' = IF /\ call.tool = "port config"
                     /\ Device(client.device).management = "gateway"
                     /\ Device(client.device).kind # "router"
                     /\ GatewayOf(client.device) = None
                  THEN "no gateway" ELSE "answered"
    /\ UNCHANGED <<files, valid, call, client, todo, report>>

\* The device does not answer, refuses, or has gone on without the session;
\* a login may have succeeded before.
RequestFails ==
    /\ stage = "request"
    /\ \/ UNCHANGED sessions
       \/ sessions' = IF KeepsSession(client) THEN sessions \ {SessionOf(client)} ELSE sessions
       \/ /\ KeepsSession(client) /\ client.credential \in valid
          /\ sessions' = sessions \cup {SessionOf(client)}
    /\ stage' = "over"
    /\ outcome' = "failed"
    /\ UNCHANGED <<files, valid, call, client, todo, report, accepted>>

-----------------------------------------------------------------------------
(* run_doctor() and run_ic2_doctor().                                      *)

\* The tiers a device has credentials for; an access point has two communities.
DoctorTiers(d) ==
    IF IsAp(d) THEN <<"read_only", "config_read">>
    ELSE <<"read_only">>
         \o (IF Device(d).auth["config_read"] # None THEN <<"config_read">> ELSE <<>>)
         \o (IF Device(d).auth["admin"] # None THEN <<"admin">> ELSE <<>>)

BeginDoctor(device) ==
    LET d == Named(device)
        error == IF IsAp(d) THEN SnmpError(d) ELSE HttpError(d)
    IN  /\ Begin("doctor", device, error, "probing")
        /\ client' = None
        /\ todo' = IF error = None THEN DoctorTiers(d) ELSE <<>>

\* The groups are asked for if the files have a default organisation; the write
\* credential is checked if its entry is not the one the reads use.
BeginCloudDoctor ==
    \E groups \in BOOLEAN :
        /\ Begin("ic2-doctor", None,
                 IF fleet.ic2_enabled THEN None ELSE "no credentials", "probing")
        /\ client' = None
        /\ todo' = IF ~fleet.ic2_enabled THEN <<>>
                   ELSE <<"token_grant", "list_orgs">>
                        \o (IF groups THEN <<"list_groups">> ELSE <<>>)
                        \o (IF WritesApart(fleet.incontrol2)
                            THEN <<"admin_token_grant">> ELSE <<>>)

\* The client of a probe is the doctor's own, and not logged in.
ProbeClient(tier) ==
    CASE call.tool = "ic2-doctor" ->
            IF tier = "admin_token_grant"
            THEN CloudClient("admin", CloudWrite(fleet.incontrol2))
            ELSE CloudClient("read_only", CloudRead(fleet.incontrol2))
      [] call.tool = "doctor" ->
            IF IsAp(Named(call.device)) THEN SnmpClient(Named(call.device), tier)
            ELSE HttpClient(Named(call.device), tier)

\* The requests that use the token of the first check.
UsesToken(tier) == tier \in {"list_orgs", "list_groups"}

\* Whether the client of a probe has a session: it is new, and not the client
\* the registry keeps.
RegistryClient(tier) ==
    UsesToken(tier) \/ HasSession(ProbeClient(tier))
LoggedIn(tier) == UsesToken(tier)

\* What is left to probe: a cloud without a token or organisations is not asked
\* further, every other failure leaves the rest.
StopsAtFailure(tier, ok) == IF ok THEN Tail(todo) ELSE <<>>
Rest(tier, ok) ==
    IF ~ok /\ tier \in {"token_grant", "list_orgs"} THEN <<>> ELSE Tail(todo)

\* ensure_authenticated() and then a request; the request may fail after a login.
Probe ==
    /\ stage = "probing"
    /\ LET tier == Head(todo) IN
       \E ok \in BOOLEAN :
        /\ client' = ProbeClient(tier)
        /\ \/ /\ ok => LoggedIn(tier)
              /\ UNCHANGED accepted
           \/ /\ client'.credential \in valid
              /\ accepted' = accepted \cup {client'.credential}
        /\ report' = [t \in DOMAIN report \cup {tier} |-> IF t = tier THEN ok ELSE report[t]]
        /\ todo' = Rest(tier, ok)
        /\ stage' = IF todo' = <<>> THEN "over" ELSE "probing"
        /\ outcome' = IF todo' = <<>> THEN "report" ELSE None
    /\ UNCHANGED <<files, remote, call>>

\* Only the probes of an access point catch every exception: those of a device
\* and of the cloud catch the errors of their clients, and any other exception
\* ends the doctor with the verdicts it had.
ProbeRaises ==
    /\ stage = "probing"
    /\ call.tool = "doctor" => ~IsAp(Named(call.device))
    /\ client' = ProbeClient(Head(todo))
    /\ report' = NoVerdicts
    /\ todo' = <<>>
    /\ stage' = "over"
    /\ outcome' = "failed"
    /\ UNCHANGED <<files, remote, call, accepted>>

-----------------------------------------------------------------------------
(* The rest of the system.                                                 *)

Return ==
    /\ stage = "over"
    /\ stage' = "idle"
    /\ call' = None
    /\ client' = None
    /\ report' = NoVerdicts
    /\ accepted' = {}
    /\ outcome' = None
    /\ UNCHANGED <<files, remote, todo>>

\* A credential is withdrawn on the device or in the cloud; the sessions it
\* opened live on until they end there.
Revoke(credential) ==
    /\ server = "serving"
    /\ credential \in valid
    /\ Cardinality(Credentials \ valid) < MaxRevoked
    /\ valid' = valid \ {credential}
    /\ UNCHANGED <<files, sessions, stage, call, client, todo, report, accepted, outcome>>

EndSession(s) ==
    /\ s \in sessions
    /\ sessions' = sessions \ {s}
    /\ UNCHANGED <<files, valid, stage, call, client, todo, report, accepted, outcome>>

Next ==
    \/ Start
    \/ \E tool \in Tools, device \in DeviceIds \cup {None, Unknown} : BeginRead(tool, device)
    \/ \E tool \in CloudTools, device \in DeviceIds \cup {None, Unknown} :
        BeginCloudRead(tool, device)
    \/ Answered
    \/ RequestFails
    \/ \E device \in DeviceIds \cup {None, Unknown} : BeginDoctor(device)
    \/ BeginCloudDoctor
    \/ Probe
    \/ ProbeRaises
    \/ Return
    \/ \E credential \in Credentials : Revoke(credential)
    \/ \E s \in sessions : EndSession(s)

Spec == Init /\ [][Next]_vars

-----------------------------------------------------------------------------
(* Properties.                                                             *)

Clients ==
    [device : Maybe(DeviceIds), host : Maybe(Hosts), transport : {"http", "snmp", "cloud"},
     tier : Tiers, credential : Maybe(Credentials)]

TypeOK ==
    /\ setup \in Setups
    /\ server \in {"starting", "refused", "serving"}
    /\ server = "serving" => IsFleet(fleet)
    /\ valid \subseteq Credentials
    /\ sessions \subseteq Maybe(DeviceIds) \X Tiers
    /\ stage \in {"idle", "request", "probing", "over"}
    /\ call \in Maybe([tool : Tools \cup CloudTools \cup Doctors,
                       device : DeviceIds \cup {None, Unknown}])
    /\ client \in Maybe(Clients)
    /\ todo \in Seq(Tiers \cup Checks)
    /\ IsPartialFunction(report, Tiers \cup Checks, BOOLEAN)
    /\ accepted \subseteq Credentials
    /\ outcome \in Maybe(Outcomes)

YamlInForce == setup.config # Unset /\ setup.secrets # Unset

\* What secrets.yaml says of a device; the profile it names.
SecretOf(d) ==
    IF setup.secrets # Missing /\ d \in DOMAIN setup.secrets.devices
    THEN setup.secrets.devices[d]
    ELSE [auth |-> None, auth_profile |-> None, snmp |-> None, ic2 |-> FALSE, host |-> None]

ProfileOf(d) ==
    IF SecretOf(d).auth_profile # None
    THEN setup.secrets.auth_profiles[SecretOf(d).auth_profile] ELSE None

\* The section of secrets.conf that names a device, and its block there.
ConfBlock(d) ==
    IF d = Hub /\ SectionsWith(setup.conf, "fusionhub") # {}
    THEN BlockOf(setup.conf, "fusionhub") ELSE BlockOf(setup.conf, "gateway")

\* The address the files write for a device.
WrittenHost(d) ==
    IF YamlInForce
    THEN FirstNonEmpty(SecretOf(d).host,
            FirstNonEmpty(EntryOf(setup.config, d).host, EntryOf(setup.config, d).discover))
    ELSE ConfBlock(d).host

\* The credentials the files write for it: those of its own secrets, else those of
\* its profile, else those of config.yaml, and none that these replace.
WrittenCredentials(d, transport) ==
    IF ~YamlInForce THEN { ConfBlock(d)[key] : key \in DOMAIN ConfBlock(d) \ {"host"} } \ {None}
    ELSE IF transport = "snmp"
         THEN LET snmp == FirstNonEmpty(SecretOf(d).snmp, EntryOf(setup.config, d).snmp)
              IN  {snmp.community, snmp.config_community} \ {None}
         ELSE LET auth == FirstNonEmpty(SecretOf(d).auth,
                            FirstNonEmpty(ProfileOf(d), EntryOf(setup.config, d).auth))
              IN  { auth[t] : t \in Tiers } \ {None}

\* The same for the cloud, where each credential is replaced on its own.
WrittenCloud ==
    IF YamlInForce
    THEN { IF setup.secrets # Missing /\ setup.secrets.incontrol2[key] # None
           THEN setup.secrets.incontrol2[key] ELSE setup.config.incontrol2[key] :
             key \in {"auth", "read_only", "admin"} }
    ELSE UNION { { setup.conf[i].incontrol2[key] : key \in {"auth", "read_only", "admin"} } :
                    i \in DOMAIN setup.conf }

\* A device without an address of its own, in the cloud only.
WrittenCloudOnly(d) ==
    /\ YamlInForce
    /\ WrittenHost(d) = None
    /\ SecretOf(d).ic2 \/ EntryOf(setup.config, d).ic2

\* The devices a call may reach: the one it names and the gateway that manages it.
Reachable ==
    LET d == Asked(call.tool, call.device)
    IN  {d} \cup (IF call.tool = "port config" /\ d \in DOMAIN fleet.devices
                 THEN {GatewayOf(d)} ELSE {})

\* Whatever files the fleet was put together from and whichever tool or doctor
\* runs, a credential goes only to the device it was written for: the address and
\* the credential of a request are those the files give the device asked, or its
\* gateway, a credential of the cloud goes to the cloud, and a credential that
\* secrets.yaml replaces is not used at all.  (A router found by synergy has the
\* address of its gateway; its entry in the files leaves it to that.)
CredentialStaysWithItsDevice ==
    client # None =>
        IF client.transport = "cloud"
        THEN client.credential \in WrittenCloud \ {None}
        ELSE /\ client.device \in Reachable
             /\ client.host = WrittenHost(client.device)
             /\ client.credential \in WrittenCredentials(client.device, client.transport)

\* What the checks at the start let through can be read: a tool of a running
\* server misses credentials, a community or an address only for a device that is
\* in the cloud only, or asks an access point over HTTP that has no HTTP login.
ServedMeansReadable ==
    outcome \in {"no credentials", "no snmp", "no host"} =>
        \/ call.tool = "ic2-doctor"
        \/ \E d \in Reachable \ {None} :
            \/ WrittenCloudOnly(d)
            \/ outcome = "no credentials" /\ IsAp(d)

\* The credentials a doctor answers for, and the verdicts it owes.
Examined ==
    IF call.tool = "ic2-doctor"
    THEN {CloudRead(fleet.incontrol2), CloudWrite(fleet.incontrol2)} \ {None}
    ELSE LET d == Named(call.device) IN
         IF IsAp(d) THEN {Device(d).snmp.community, Device(d).snmp.config_community} \ {None}
         ELSE { Device(d).auth[t] : t \in Tiers } \ {None}

Owed ==
    LET d == Named(call.device) IN
    IF IsAp(d) THEN {"read_only", "config_read"} ELSE { t \in Tiers : Device(d).auth[t] # None }

\* "overall: OK" of a doctor means that every credential it answers for was
\* accepted by a login made for this report, never by a session from before: a
\* credential withdrawn since the server logged in does not pass.
DoctorOkMeansAccepted ==
    outcome = "report" /\ (\A t \in DOMAIN report : report[t]) => Examined \subseteq accepted

\* One tier that fails hides no other: a report of the device doctor has a verdict
\* for each tier the device has a credential for, and for no other.  Where a probe
\* raises what its client does not, there is no report at all, not one that lacks a
\* tier.
EveryTierHasAVerdict ==
    outcome = "report" /\ call.tool = "doctor" => DOMAIN report = Owed
=============================================================================
