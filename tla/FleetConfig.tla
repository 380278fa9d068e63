----------------------------- MODULE FleetConfig -----------------------------
(***************************************************************************)
(* From the configuration files to the fleet a process works with:         *)
(* load_runtime_fleet() (bootstrap.py), load_fleet_config() for the pair   *)
(* of YAML files (config.py), and the reading of secrets.conf              *)
(* (secrets_ini.py).  The files are read once, when the process starts, so *)
(* everything here is an operator on the contents of the files; ReadTools  *)
(* makes the process of it.  A fleet that is refused is None.              *)
(*                                                                         *)
(* An operator defined just before another with the same parameters is a   *)
(* fault of the code that the properties are tested against; the           *)
(* specification does not use it.                                          *)
(***************************************************************************)
EXTENDS Integers, Sequences

CONSTANTS
    DeviceIds,   \* names of devices, Hub included
    Hub,         \* "fusionhub", the second device of a secrets.conf
    Hosts,
    Credentials, \* user and password, API client or SNMP community
    Profiles,    \* names of auth_profiles
    None,
    Unset,       \* for a file: its path is not given
    Missing      \* for a file: its path is given, but there is no file

ASSUME HubAssumption == Hub \in DeviceIds
ASSUME NoneAssumption == None \notin DeviceIds \cup Hosts \cup Credentials \cup Profiles

Kinds == {"router", "fusionhub", "switch", "ap"}
Tiers == {"read_only", "config_read", "admin"}

Maybe(S) == S \cup {None}

\* DeviceAuthPair, SnmpConfig and the credentials of IC2Config.
Auths == [Tiers -> Maybe(Credentials)]
Snmps == [community : Credentials, config_community : Maybe(Credentials)]
CloudAuths == [{"auth", "read_only", "admin"} -> Maybe(Credentials)]

NoAuth == [t \in Tiers |-> None]
NoCloudAuth == [k \in {"auth", "read_only", "admin"} |-> None]

IsPartialFunction(f, S, T) == DOMAIN f \subseteq S /\ f \in [DOMAIN f -> T]

\* DeviceConfig, and an entry of config.yaml.  discover holds the address the
\* gateway reports for the device, when it has a discover entry.
Devices ==
    [kind : Kinds, management : {"direct", "gateway"}, via : Maybe(DeviceIds),
     host : Maybe(Hosts), discover : Maybe(Hosts), ic2 : BOOLEAN,
     auth : Maybe(Auths), snmp : Maybe(Snmps)]

\* What a device has that only secrets.yaml names.
EmptyEntry ==
    [kind |-> "router", management |-> "direct", via |-> None, host |-> None,
     discover |-> None, ic2 |-> FALSE, auth |-> None, snmp |-> None]

\* An entry of secrets.yaml and the two files.
SecretEntries ==
    [auth : Maybe(Auths), auth_profile : Maybe(Profiles), snmp : Maybe(Snmps),
     ic2 : BOOLEAN, host : Maybe(Hosts)]

IsSecretsFile(file) ==
    /\ IsPartialFunction(file.devices, DeviceIds, SecretEntries)
    /\ IsPartialFunction(file.auth_profiles, Profiles, Auths)
    /\ file.incontrol2 \in CloudAuths

NoSecrets ==
    [devices |-> [d \in {} |-> None], auth_profiles |-> [p \in {} |-> None],
     incontrol2 |-> NoCloudAuth]

\* config.yaml, and with the secrets merged in a FleetConfig.
IsFleet(file) ==
    /\ IsPartialFunction(file.devices, DeviceIds, Devices)
    /\ file.device_id \in Maybe(DeviceIds)
    /\ file.gateway_id \in Maybe(DeviceIds)
    /\ file.ic2_enabled \in BOOLEAN
    /\ file.incontrol2 \in CloudAuths

ASSUME RecordsAssumption == None \notin Auths /\ None \notin Snmps

-----------------------------------------------------------------------------
(* load_fleet_config().                                                    *)

EntryOf(config, d) ==
    IF d \in DOMAIN config.devices THEN config.devices[d] ELSE EmptyEntry

\* The auth of secrets.yaml for a device, its own or that of the profile it
\* names, replaces that of config.yaml as a whole.
TierByTier(config, secrets, d) ==
    LET entry == secrets.devices[d]
        base  == IF EntryOf(config, d).auth = None THEN NoAuth ELSE EntryOf(config, d).auth
        over  == CASE entry.auth # None -> entry.auth
                   [] entry.auth = None /\ entry.auth_profile # None ->
                        secrets.auth_profiles[entry.auth_profile]
                   [] OTHER -> NoAuth
        both  == [t \in Tiers |-> IF over[t] # None THEN over[t] ELSE base[t]]
    IN  IF both = NoAuth THEN None ELSE both
MergedAuth(config, secrets, d) ==
    LET entry == secrets.devices[d] IN
    CASE entry.auth # None -> entry.auth
      [] entry.auth = None /\ entry.auth_profile # None ->
            secrets.auth_profiles[entry.auth_profile]
      [] OTHER -> EntryOf(config, d).auth

\* _merge_device_auth(), for one device.
Merged(config, secrets, d) ==
    LET entry == secrets.devices[d]
        base  == EntryOf(config, d)
    IN  IF d \notin DOMAIN secrets.devices THEN base
        ELSE [base EXCEPT !.auth = MergedAuth(config, secrets, d),
                          !.snmp = IF entry.snmp # None THEN entry.snmp ELSE @,
                          !.ic2  = @ \/ entry.ic2,
                          !.host = IF entry.host # None THEN entry.host ELSE @]

\* _merge_ic2(): here each credential replaces its own.
MergedCloud(config, secrets) ==
    [k \in DOMAIN NoCloudAuth |->
        IF secrets.incontrol2[k] # None THEN secrets.incontrol2[k] ELSE config.incontrol2[k]]

\* is_ic2_only: a device without a LAN address, here or to be found.
CloudOnly(device) == device.ic2 /\ device.host = None /\ device.discover = None

\* What the checks after the merge, and then DeviceConfig, ask of a device.
SnmpForgotten(device) ==
    /\ device.host # None \/ device.discover # None \/ device.ic2
    /\ device.auth # None => device.auth["read_only"] # None
    /\ CloudOnly(device) \/ device.kind = "ap" \/ device.auth # None
Complete(device) ==
    /\ device.host # None \/ device.discover # None \/ device.ic2
    /\ device.auth # None => device.auth["read_only"] # None
    /\ CloudOnly(device) \/
        IF device.kind = "ap" THEN device.snmp # None ELSE device.auth # None

ProfilesKnown(secrets) ==
    \A d \in DOMAIN secrets.devices :
        LET entry == secrets.devices[d] IN
        entry.auth = None /\ entry.auth_profile # None
            => entry.auth_profile \in DOMAIN secrets.auth_profiles

\* A secrets.yaml that is not there leaves config.yaml alone.
FleetFromYaml(config, given) ==
    LET secrets == IF given = Missing THEN NoSecrets ELSE given
        ids     == DOMAIN config.devices \cup DOMAIN secrets.devices
        devices == [d \in ids |-> Merged(config, secrets, d)]
        cloud   == MergedCloud(config, secrets)
    IN  IF /\ config # Missing
           /\ ProfilesKnown(secrets)
           /\ ids # {}
           /\ \A d \in ids : Complete(devices[d])
           /\ {config.device_id, config.gateway_id} \subseteq Maybe(ids)
           /\ config.ic2_enabled => cloud # NoCloudAuth
        THEN [devices |-> devices, device_id |-> config.device_id,
              gateway_id |-> config.gateway_id, ic2_enabled |-> config.ic2_enabled,
              incontrol2 |-> cloud]
        ELSE None

-----------------------------------------------------------------------------
(* secrets.conf: one or more sections, each with what the keys            *)
(* peplink.*, peplink.fusionhub.* and peplink.incontrol2.* of it say.      *)

Blocks ==
    [host : Maybe(Hosts), readonly_api : Maybe(Credentials), userpass : Maybe(Credentials),
     config_read_api : Maybe(Credentials), admin_api : Maybe(Credentials),
     admin_userpass : Maybe(Credentials)]

Sections == [gateway : Blocks, fusionhub : Blocks, incontrol2 : CloudAuths]

\* What a process starts from: the two YAML files, or secrets.conf and the id of
\* its device.
IsSetup(setup) ==
    /\ setup.config \notin {Unset, Missing} => IsFleet(setup.config)
    /\ setup.secrets \notin {Unset, Missing} => IsSecretsFile(setup.secrets)
    /\ setup.conf # Missing => setup.conf \in Seq(Sections)
    /\ setup.device_id \in DeviceIds

\* The first section that has a host counts, and the others are not looked at.
SectionsWith(conf, block) == { i \in DOMAIN conf : conf[i][block].host # None }

BlockOf(conf, block) ==
    conf[CHOOSE i \in SectionsWith(conf, block) :
            \A j \in SectionsWith(conf, block) : i <= j][block]

FirstNonEmpty(a, b) == IF a # None THEN a ELSE b

\* _load_peplink_secrets_from_section(); without read credentials it raises.
AuthOf(block) ==
    [NoAuth EXCEPT !["read_only"]   = FirstNonEmpty(block.readonly_api, block.userpass),
                   !["config_read"] = block.config_read_api,
                   !["admin"]       = FirstNonEmpty(block.admin_api, block.admin_userpass)]

\* A FusionHub without a client for config reads uses its admin credential.
HubAuthOf(block) ==
    LET auth == AuthOf(block) IN
    [auth EXCEPT !["config_read"] = FirstNonEmpty(@, auth["admin"])]

DirectDevice(kind, block, auth) ==
    [EmptyEntry EXCEPT !.kind = kind, !.host = block.host, !.auth = auth]

CloudOf(conf) ==
    LET with == { i \in DOMAIN conf : conf[i].incontrol2 # NoCloudAuth } IN
    IF with = {} THEN NoCloudAuth
    ELSE conf[CHOOSE i \in with : \A j \in with : i <= j].incontrol2

\* fleet_from_secrets_conf(); a device named like the FusionHub gives way to it.
FleetFromConf(conf, device_id) ==
    LET hub     == SectionsWith(conf, "fusionhub") # {}
        gateway == BlockOf(conf, "gateway")
        second  == BlockOf(conf, "fusionhub")
        ids     == {device_id} \cup (IF hub THEN {Hub} ELSE {})
    IN  IF /\ SectionsWith(conf, "gateway") # {}
           /\ AuthOf(gateway)["read_only"] # None
           /\ hub => AuthOf(second)["read_only"] # None
        THEN [devices |-> [d \in ids |->
                              IF hub /\ d = Hub
                              THEN DirectDevice("fusionhub", second, HubAuthOf(second))
                              ELSE DirectDevice("router", gateway, AuthOf(gateway))],
              device_id |-> device_id, gateway_id |-> None,
              ic2_enabled |-> CloudOf(conf) # NoCloudAuth, incontrol2 |-> CloudOf(conf)]
        ELSE None

-----------------------------------------------------------------------------
(* load_runtime_fleet(): both YAML paths, or secrets.conf.                 *)

LoadRuntimeFleet(setup) ==
    CASE setup.config # Unset /\ setup.secrets # Unset ->
            FleetFromYaml(setup.config, setup.secrets)
      [] setup.config # Unset /\ setup.secrets = Unset -> None
      [] OTHER ->
            IF setup.conf = Missing THEN None ELSE FleetFromConf(setup.conf, setup.device_id)

\* IC2Config.read_credentials() and write_credentials().
CloudRead(cloud) ==
    FirstNonEmpty(cloud["read_only"], FirstNonEmpty(cloud["auth"], cloud["admin"]))
CloudWrite(cloud) == FirstNonEmpty(cloud["admin"], cloud["auth"])

\* Whether the two are entries of their own, be they the same credential or not.
WritesApart(cloud) ==
    /\ CloudWrite(cloud) # None
    /\ cloud["read_only"] # None \/ (cloud["auth"] # None /\ cloud["admin"] # None)
=============================================================================
