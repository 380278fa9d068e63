---------------------------- MODULE ReadToolsProofs ----------------------------
(***************************************************************************)
(* Theorems about ReadTools, for all contents of the files, all devices    *)
(* and any number of withdrawals.  First, what is loaded is what the files *)
(* write: each merged device has the address, the credentials and the      *)
(* community the files give it, and what the checks at the start let       *)
(* through.  A client is then true to the files because it is made from    *)
(* one device of the fleet, and a doctor's report is true because its      *)
(* verdicts and what is left to probe make up what it owes.                *)
(***************************************************************************)
EXTENDS ReadTools, FiniteSetTheorems, TLAPS

CloudKeys == {"auth", "read_only", "admin"}

\* The fleet has of a device what the files write for it, and what a read needs
\* unless the device is in the cloud only.
DeviceTrue(v, d) ==
    /\ FirstNonEmpty(v.host, v.discover) = WrittenHost(d)
    /\ v.auth # None =>
        /\ v.auth["read_only"] # None
        /\ \A t \in Tiers : v.auth[t] # None => v.auth[t] \in WrittenCredentials(d, "http")
    /\ v.snmp # None =>
        /\ v.snmp.community \in WrittenCredentials(d, "snmp")
        /\ v.snmp.config_community # None =>
            v.snmp.config_community \in WrittenCredentials(d, "snmp")
    /\ v.host = None /\ v.discover = None => WrittenCloudOnly(d)
    /\ v.kind = "ap" /\ v.snmp = None => WrittenCloudOnly(d)
    /\ v.kind # "ap" /\ v.auth = None => WrittenCloudOnly(d)

CloudTrue(f) ==
    f.ic2_enabled =>
        /\ f.incontrol2 # NoCloudAuth
        /\ \A k \in CloudKeys : f.incontrol2[k] # None => f.incontrol2[k] \in WrittenCloud

FleetTrue(f) ==
    /\ IsFleet(f)
    /\ \A d \in DOMAIN f.devices : DeviceTrue(f.devices[d], d)
    /\ CloudTrue(f)

\* Every address that was to be discovered is filled in.
HostsKnown(f) == \A d \in DOMAIN f.devices : f.devices[d].discover # None => f.devices[d].host # None

FleetRecord(f) ==
    f = [devices |-> f.devices, device_id |-> f.device_id, gateway_id |-> f.gateway_id,
         ic2_enabled |-> f.ic2_enabled, incontrol2 |-> f.incontrol2]

-----------------------------------------------------------------------------
(* Sets of indices, and what the loaders pick from.                        *)

\* Of a set of indices one comes first: the indices before it are the fewest.
LEMMA FirstIndex ==
    ASSUME NEW n \in Nat, NEW T \in SUBSET (1 .. n), T # {}
    PROVE  (CHOOSE i \in T : \A j \in T : i <= j) \in T
  <1>. DEFINE before(i) == { j \in T : j < i }
              heads == { before(i) : i \in T }
  <1>1. IsFiniteSet(T) /\ T \subseteq Int
    <2>1. IsFiniteSet(1 .. n)
      BY FS_Interval
    <2>2. IsFiniteSet(T)
      BY <2>1, FS_Subset
    <2>. QED  BY <2>2
  <1>2. \A i \in T : IsFiniteSet(before(i)) /\ before(i) \in SUBSET T
    BY <1>1, FS_Subset
  <1>3. heads \subseteq FiniteSubsetsOf(T) /\ heads # {}
    BY <1>2 DEF FiniteSubsetsOf
  <1>4. PICK head \in heads : \A other \in heads : ~(<<other, head>> \in StrictSubsetOrdering(T))
    <2>1. IsWellFoundedOn(StrictSubsetOrdering(T), FiniteSubsetsOf(T))
      BY FS_StrictSubsetOrderingWellFounded
    <2>. HIDE DEF heads
    <2>. QED  BY <1>3, <2>1, WFMin
  <1>5. PICK i \in T : head = before(i)
    BY <1>4
  <1>6. ASSUME NEW j \in T, j < i
        PROVE  FALSE
    <2>1. j \in before(i) /\ j \notin before(j)
      BY <1>1, <1>6
    <2>2. \A k \in T : k < j => k < i
      BY <1>1, <1>6
    <2>3. before(j) \subseteq before(i)
      BY <2>2
    <2>4. <<before(j), before(i)>> \in StrictSubsetOrdering(T)
      BY <2>1, <2>3 DEF StrictSubsetOrdering
    <2>. QED  BY <1>4, <1>5, <2>4
  <1>7. \A j \in T : i <= j
    BY <1>1, <1>6
  <1>. QED  BY <1>7

LEMMA NoAuthFacts ==
    /\ NoAuth \in Auths /\ NoCloudAuth \in CloudAuths
    /\ \A t \in Tiers : NoAuth[t] = None
    /\ \A k \in CloudKeys : NoCloudAuth[k] = None
    /\ \A c \in CloudAuths : c # NoCloudAuth => \E k \in CloudKeys : c[k] # None
  BY DEF NoAuth, NoCloudAuth, Auths, CloudAuths, Maybe, CloudKeys

LEMMA EmptyEntryTyped == EmptyEntry \in Devices
  BY DEF EmptyEntry, Devices, Kinds, Maybe

-----------------------------------------------------------------------------
(* The YAML files.                                                         *)

\* secrets.yaml, or what stands for one that is not there.
SecretsInForce == IF setup.secrets = Missing THEN NoSecrets ELSE setup.secrets

LEMMA SecretsTyped ==
    ASSUME IsSetup(setup), setup.secrets # Unset
    PROVE  IsSecretsFile(SecretsInForce)
  <1>1. IsSecretsFile(NoSecrets)
    BY NoAuthFacts DEF IsSecretsFile, NoSecrets, IsPartialFunction
  <1>. QED  BY <1>1 DEF IsSetup, SecretsInForce

LEMMA SecretOfInForce ==
    ASSUME NEW d
    PROVE  d \in DOMAIN SecretsInForce.devices =>
               SecretOf(d) = SecretsInForce.devices[d] /\ SecretsInForce = setup.secrets
  BY DEF SecretOf, SecretsInForce, NoSecrets

LEMMA SecretOfOthers ==
    ASSUME NEW d, d \notin DOMAIN SecretsInForce.devices
    PROVE  /\ SecretOf(d).auth = None /\ SecretOf(d).snmp = None /\ SecretOf(d).host = None
           /\ SecretOf(d).ic2 = FALSE /\ ProfileOf(d) = None
  BY DEF SecretOf, SecretsInForce, ProfileOf

LEMMA EntryTyped ==
    ASSUME IsFleet(setup.config), NEW d
    PROVE  EntryOf(setup.config, d) \in Devices
  BY EmptyEntryTyped DEF IsFleet, IsPartialFunction, EntryOf

\* What a merged device has, field by field.
FieldsOf(v, d) ==
    LET e == EntryOf(setup.config, d) IN
    /\ v \in Devices
    /\ v.auth = FirstNonEmpty(SecretOf(d).auth, FirstNonEmpty(ProfileOf(d), e.auth))
    /\ v.snmp = FirstNonEmpty(SecretOf(d).snmp, e.snmp)
    /\ v.host = FirstNonEmpty(SecretOf(d).host, e.host)
    /\ v.ic2 = (e.ic2 \/ SecretOf(d).ic2)
    /\ v.discover = e.discover /\ v.kind = e.kind

LEMMA MergedFields ==
    ASSUME IsSetup(setup), IsFleet(setup.config), setup.secrets # Unset,
           ProfilesKnown(SecretsInForce), NEW d
    PROVE  FieldsOf(Merged(setup.config, SecretsInForce, d), d)
  <1>. DEFINE v == Merged(setup.config, SecretsInForce, d)
              e == EntryOf(setup.config, d)
              auth == MergedAuth(setup.config, SecretsInForce, d)
              snmp == IF SecretOf(d).snmp # None THEN SecretOf(d).snmp ELSE e.snmp
              ic2 == e.ic2 \/ SecretOf(d).ic2
              host == IF SecretOf(d).host # None THEN SecretOf(d).host ELSE e.host
  <1>. SUFFICES FieldsOf(v, d)
    OBVIOUS
  <1>1. e \in Devices
    BY EntryTyped
  <1>2. CASE d \notin DOMAIN SecretsInForce.devices
    <2>1. v = e
      BY <1>2 DEF Merged
    <2>2. e.ic2 \in BOOLEAN
      BY <1>1 DEF Devices
    <2>. HIDE DEF v
    <2>. QED  BY <1>1, <1>2, <2>1, <2>2, SecretOfOthers DEF FirstNonEmpty, FieldsOf, e
  <1>3. CASE d \in DOMAIN SecretsInForce.devices
    <2>1. SecretOf(d) = SecretsInForce.devices[d] /\ SecretsInForce = setup.secrets
      BY <1>3, SecretOfInForce
    <2>2. SecretOf(d) \in SecretEntries
      BY <1>3, <2>1, SecretsTyped DEF IsSecretsFile, IsPartialFunction
    <2>3. v = [e EXCEPT !.auth = auth, !.snmp = snmp, !.ic2 = ic2, !.host = host]
      BY <1>3, <2>1 DEF Merged
    <2>4. auth = FirstNonEmpty(SecretOf(d).auth, FirstNonEmpty(ProfileOf(d), e.auth))
          /\ auth \in Maybe(Auths)
      <3>1. CASE SecretOf(d).auth # None
        BY <2>1, <2>2, <3>1 DEF MergedAuth, FirstNonEmpty, SecretEntries, Maybe
      <3>2. CASE SecretOf(d).auth = None /\ SecretOf(d).auth_profile # None
        <4>1. SecretOf(d).auth_profile \in DOMAIN SecretsInForce.auth_profiles
          BY <1>3, <2>1, <3>2 DEF ProfilesKnown
        <4>2. ProfileOf(d) = SecretsInForce.auth_profiles[SecretOf(d).auth_profile]
          BY <2>1, <3>2 DEF ProfileOf
        <4>3. ProfileOf(d) \in Auths
          BY <4>1, <4>2, SecretsTyped DEF IsSecretsFile, IsPartialFunction
        <4>4. auth = ProfileOf(d)
          BY <2>1, <3>2, <4>2 DEF MergedAuth
        <4>. QED  BY <3>2, <4>3, <4>4, RecordsAssumption DEF FirstNonEmpty, Maybe
      <3>3. CASE SecretOf(d).auth = None /\ SecretOf(d).auth_profile = None
        <4>1. ProfileOf(d) = None
          BY <3>3 DEF ProfileOf
        <4>2. auth = e.auth
          BY <2>1, <3>3 DEF MergedAuth
        <4>. QED  BY <1>1, <3>3, <4>1, <4>2 DEF FirstNonEmpty, Devices
      <3>. QED  BY <3>1, <3>2, <3>3
    <2>5. snmp \in Maybe(Snmps) /\ ic2 \in BOOLEAN /\ host \in Maybe(Hosts)
      BY <1>1, <2>2 DEF Devices, SecretEntries
    <2>6. snmp = FirstNonEmpty(SecretOf(d).snmp, e.snmp)
          /\ host = FirstNonEmpty(SecretOf(d).host, e.host)
      BY DEF FirstNonEmpty
    <2>. HIDE DEF e, auth, snmp, ic2, host
    <2>7. v \in Devices /\ v.auth = auth /\ v.snmp = snmp /\ v.ic2 = ic2 /\ v.host = host
          /\ v.discover = e.discover /\ v.kind = e.kind
      BY <1>1, <2>3, <2>4, <2>5 DEF Devices
    <2>. QED  BY <2>4, <2>6, <2>7 DEF ic2, e, FieldsOf
  <1>. QED  BY <1>2, <1>3

LEMMA MergedTrue ==
    ASSUME YamlInForce, NEW d, NEW v, FieldsOf(v, d), Complete(v)
    PROVE  DeviceTrue(v, d)
  <1>. DEFINE e == EntryOf(setup.config, d)
  <1>1. FirstNonEmpty(v.host, v.discover) = WrittenHost(d)
    BY DEF FieldsOf, WrittenHost, FirstNonEmpty
  <1>2. CloudOnly(v) => WrittenCloudOnly(d)
    BY <1>1 DEF FieldsOf, WrittenCloudOnly, CloudOnly, FirstNonEmpty
  <1>3. ASSUME v.auth # None
        PROVE  /\ v.auth["read_only"] # None
               /\ \A t \in Tiers : v.auth[t] # None => v.auth[t] \in WrittenCredentials(d, "http")
    <2>1. WrittenCredentials(d, "http") = { v.auth[t] : t \in Tiers } \ {None}
      BY DEF FieldsOf, WrittenCredentials
    <2>. QED  BY <1>3, <2>1 DEF Complete
  <1>4. ASSUME v.snmp # None
        PROVE  /\ v.snmp.community \in WrittenCredentials(d, "snmp")
               /\ v.snmp.config_community # None =>
                    v.snmp.config_community \in WrittenCredentials(d, "snmp")
    <2>1. WrittenCredentials(d, "snmp") = {v.snmp.community, v.snmp.config_community} \ {None}
      BY DEF FieldsOf, WrittenCredentials
    <2>2. v.snmp.community \in Credentials
      BY <1>4 DEF FieldsOf, Devices, Maybe, Snmps
    <2>. QED  BY <2>1, <2>2, NoneAssumption
  <1>5. /\ v.host = None /\ v.discover = None => CloudOnly(v)
        /\ v.kind = "ap" /\ v.snmp = None => CloudOnly(v)
        /\ v.kind # "ap" /\ v.auth = None => CloudOnly(v)
    BY DEF Complete, CloudOnly
  <1>. QED  BY <1>1, <1>2, <1>3, <1>4, <1>5 DEF DeviceTrue

LEMMA MergedCloudTrue ==
    ASSUME IsSetup(setup), IsFleet(setup.config), setup.secrets # Unset, YamlInForce
    PROVE  LET cloud == MergedCloud(setup.config, SecretsInForce) IN
           /\ cloud \in CloudAuths
           /\ \A k \in CloudKeys : cloud[k] \in WrittenCloud
  <1>. DEFINE mine == SecretsInForce.incontrol2
              base == setup.config.incontrol2
              cloud == MergedCloud(setup.config, SecretsInForce)
  <1>1. mine \in CloudAuths /\ base \in CloudAuths
    BY SecretsTyped DEF IsSecretsFile, IsFleet
  <1>2. DOMAIN NoCloudAuth = CloudKeys
    BY DEF NoCloudAuth, CloudKeys
  <1>3. cloud = [k \in CloudKeys |-> IF mine[k] # None THEN mine[k] ELSE base[k]]
    BY <1>2 DEF MergedCloud
  <1>4. cloud \in CloudAuths
    BY <1>1, <1>3 DEF CloudAuths, CloudKeys
  <1>5. ASSUME NEW k \in CloudKeys
        PROVE  cloud[k] \in WrittenCloud
    <2>1. WrittenCloud = { IF setup.secrets # Missing /\ setup.secrets.incontrol2[key] # None
                           THEN setup.secrets.incontrol2[key] ELSE base[key] : key \in CloudKeys }
      BY DEF WrittenCloud, CloudKeys
    <2>2. cloud[k] = IF setup.secrets # Missing /\ setup.secrets.incontrol2[k] # None
                     THEN setup.secrets.incontrol2[k] ELSE base[k]
      <3>1. CASE setup.secrets = Missing
        <4>1. mine[k] = None
          BY <3>1, NoAuthFacts DEF SecretsInForce, NoSecrets
        <4>. QED  BY <1>3, <3>1, <4>1
      <3>2. CASE setup.secrets # Missing
        BY <1>3, <3>2 DEF SecretsInForce
      <3>. QED  BY <3>1, <3>2
    <2>. QED  BY <2>1, <2>2
  <1>. QED  BY <1>4, <1>5

LEMMA YamlTrue ==
    ASSUME IsSetup(setup), YamlInForce, LoadRuntimeFleet(setup) # None
    PROVE  FleetTrue(LoadRuntimeFleet(setup)) /\ FleetRecord(LoadRuntimeFleet(setup))
  <1>. DEFINE ids == DOMAIN setup.config.devices \cup DOMAIN SecretsInForce.devices
              devices == [d \in ids |-> Merged(setup.config, SecretsInForce, d)]
              cloud == MergedCloud(setup.config, SecretsInForce)
              f == LoadRuntimeFleet(setup)
  <1>1. f = FleetFromYaml(setup.config, setup.secrets)
    BY DEF LoadRuntimeFleet, YamlInForce
  <1>2. /\ setup.config # Missing
        /\ ProfilesKnown(SecretsInForce)
        /\ \A d \in ids : Complete(devices[d])
        /\ setup.config.ic2_enabled => cloud # NoCloudAuth
        /\ f = [devices |-> devices, device_id |-> setup.config.device_id,
                gateway_id |-> setup.config.gateway_id,
                ic2_enabled |-> setup.config.ic2_enabled, incontrol2 |-> cloud]
    BY <1>1 DEF FleetFromYaml, SecretsInForce
  <1>3. IsFleet(setup.config) /\ setup.secrets # Unset /\ IsSecretsFile(SecretsInForce)
    BY <1>2, SecretsTyped DEF IsSetup, YamlInForce
  <1>4. ids \subseteq DeviceIds
    BY <1>3 DEF IsFleet, IsSecretsFile, IsPartialFunction
  <1>5. \A d \in ids : FieldsOf(devices[d], d)
    BY <1>2, <1>3, MergedFields
  <1>6. \A d \in ids : DeviceTrue(devices[d], d) /\ devices[d] \in Devices
    <2>. HIDE DEF devices
    <2>. QED  BY <1>2, <1>5, MergedTrue DEF FieldsOf
  <1>7. cloud \in CloudAuths /\ \A k \in CloudKeys : cloud[k] \in WrittenCloud
    BY <1>3, MergedCloudTrue
  <1>8. devices \in [ids -> Devices] /\ DOMAIN devices = ids
    BY <1>6
  <1>. HIDE DEF devices, cloud, ids, f
  <1>9. IsFleet(f)
    BY <1>2, <1>3, <1>4, <1>7, <1>8 DEF IsFleet, IsPartialFunction
  <1>10. CloudTrue(f)
    BY <1>2, <1>7 DEF CloudTrue
  <1>11. \A d \in DOMAIN f.devices : DeviceTrue(f.devices[d], d)
    BY <1>2, <1>6, <1>8
  <1>12. FleetTrue(f) /\ FleetRecord(f)
    BY <1>2, <1>9, <1>10, <1>11 DEF FleetTrue, FleetRecord
  <1>. QED  BY <1>12 DEF f

-----------------------------------------------------------------------------
(* secrets.conf.                                                           *)

LEMMA BlockTyped ==
    ASSUME setup.conf \in Seq(Sections), NEW block \in {"gateway", "fusionhub"},
           SectionsWith(setup.conf, block) # {}
    PROVE  BlockOf(setup.conf, block) \in Blocks /\ BlockOf(setup.conf, block).host # None
  <1>. DEFINE T == SectionsWith(setup.conf, block)
              first == CHOOSE i \in T : \A j \in T : i <= j
  <1>1. DOMAIN setup.conf = 1 .. Len(setup.conf) /\ Len(setup.conf) \in Nat
    OBVIOUS
  <1>2. T \in SUBSET (1 .. Len(setup.conf)) /\ T # {}
    BY <1>1 DEF SectionsWith
  <1>3. first \in T
    <2>. HIDE DEF T
    <2>. QED  BY <1>1, <1>2, FirstIndex
  <1>4. \A i \in T : setup.conf[i][block].host # None /\ setup.conf[i] \in Sections
    BY <1>1 DEF SectionsWith
  <1>5. BlockOf(setup.conf, block) = setup.conf[first][block]
    BY DEF BlockOf
  <1>. HIDE DEF first
  <1>6. setup.conf[first][block] \in Blocks
    BY <1>3, <1>4 DEF Sections
  <1>. QED  BY <1>3, <1>4, <1>5, <1>6

BlockCredentials(b) == { b[key] : key \in DOMAIN b \ {"host"} } \ {None}

LEMMA BlockKeys ==
    ASSUME NEW b \in Blocks
    PROVE  /\ b.readonly_api # None => b.readonly_api \in BlockCredentials(b)
           /\ b.userpass # None => b.userpass \in BlockCredentials(b)
           /\ b.config_read_api # None => b.config_read_api \in BlockCredentials(b)
           /\ b.admin_api # None => b.admin_api \in BlockCredentials(b)
           /\ b.admin_userpass # None => b.admin_userpass \in BlockCredentials(b)
  <1>1. DOMAIN b = {"host", "readonly_api", "userpass", "config_read_api", "admin_api",
                    "admin_userpass"}
    BY DEF Blocks
  <1>. QED  BY <1>1 DEF BlockCredentials

\* Each tier of a section's auth has one of its credentials, or none.
AuthFrom(auth, b) ==
    auth \in Auths /\ \A t \in Tiers : auth[t] # None => auth[t] \in BlockCredentials(b)

LEMMA BlockAuths ==
    ASSUME NEW b \in Blocks
    PROVE  /\ AuthFrom(AuthOf(b), b) /\ AuthFrom(HubAuthOf(b), b)
           /\ HubAuthOf(b)["read_only"] = AuthOf(b)["read_only"]
  <1>. DEFINE read == FirstNonEmpty(b.readonly_api, b.userpass)
              conf == b.config_read_api
              admin == FirstNonEmpty(b.admin_api, b.admin_userpass)
              hub == FirstNonEmpty(conf, admin)
  <1>1. \A x \in {read, conf, admin, hub} :
            x \in Maybe(Credentials) /\ (x # None => x \in BlockCredentials(b))
    <2>1. /\ b.readonly_api \in Maybe(Credentials) /\ b.userpass \in Maybe(Credentials)
          /\ b.config_read_api \in Maybe(Credentials) /\ b.admin_api \in Maybe(Credentials)
          /\ b.admin_userpass \in Maybe(Credentials)
      BY DEF Blocks
    <2>. QED  BY <2>1, BlockKeys DEF FirstNonEmpty
  <1>2. /\ DOMAIN AuthOf(b) = Tiers /\ DOMAIN HubAuthOf(b) = Tiers
        /\ AuthOf(b) = [t \in Tiers |-> AuthOf(b)[t]]
        /\ HubAuthOf(b) = [t \in Tiers |-> HubAuthOf(b)[t]]
    BY DEF AuthOf, HubAuthOf, NoAuth, Tiers
  <1>3. /\ AuthOf(b)["read_only"] = read /\ AuthOf(b)["config_read"] = conf
        /\ AuthOf(b)["admin"] = admin
    BY DEF AuthOf, NoAuth, Tiers
  <1>4. /\ HubAuthOf(b)["read_only"] = read /\ HubAuthOf(b)["config_read"] = hub
        /\ HubAuthOf(b)["admin"] = admin
    BY <1>2, <1>3 DEF HubAuthOf, Tiers
  <1>. HIDE DEF read, conf, admin, hub
  <1>5. AuthFrom(AuthOf(b), b)
    BY <1>1, <1>2, <1>3 DEF AuthFrom, Auths, Tiers
  <1>6. AuthFrom(HubAuthOf(b), b)
    BY <1>1, <1>2, <1>4 DEF AuthFrom, Auths, Tiers
  <1>. QED  BY <1>3, <1>4, <1>5, <1>6

LEMMA DirectDeviceTrue ==
    ASSUME ~YamlInForce, NEW d, NEW kind \in {"router", "fusionhub"}, NEW auth,
           ConfBlock(d) \in Blocks, ConfBlock(d).host # None,
           AuthFrom(auth, ConfBlock(d)), auth["read_only"] # None
    PROVE  LET v == DirectDevice(kind, ConfBlock(d), auth) IN
           v \in Devices /\ DeviceTrue(v, d)
  <1>. DEFINE b == ConfBlock(d)
              v == DirectDevice(kind, b, auth)
  <1>1. b.host \in Maybe(Hosts) /\ b.host # None
    BY DEF Blocks
  <1>2. /\ EmptyEntry.via = None /\ EmptyEntry.discover = None /\ EmptyEntry.ic2 = FALSE
        /\ EmptyEntry.snmp = None
    BY DEF EmptyEntry
  <1>3. /\ v \in Devices
        /\ v.kind = kind /\ v.host = b.host /\ v.auth = auth /\ v.snmp = None /\ v.discover = None
    <2>1. kind \in Kinds /\ auth \in Maybe(Auths)
      BY DEF Kinds, Maybe, AuthFrom
    <2>. HIDE DEF b
    <2>. QED  BY <1>1, <1>2, <2>1, EmptyEntryTyped DEF DirectDevice, Devices
  <1>4. WrittenHost(d) = b.host
    BY DEF WrittenHost
  <1>5. WrittenCredentials(d, "http") = BlockCredentials(b)
    BY DEF WrittenCredentials, BlockCredentials
  <1>6. auth # None
    BY RecordsAssumption DEF AuthFrom
  <1>. HIDE DEF b
  <1>7. DeviceTrue(v, d)
    <2>. HIDE DEF v
    <2>1. v.kind # "ap" /\ v.host # None /\ v.host = b.host /\ v.auth = auth /\ v.snmp = None
      BY <1>1, <1>3
    <2>2. FirstNonEmpty(v.host, v.discover) = WrittenHost(d)
      BY <2>1, <1>4 DEF FirstNonEmpty
    <2>3. \A t \in Tiers : v.auth[t] # None => v.auth[t] \in WrittenCredentials(d, "http")
      BY <2>1, <1>5 DEF AuthFrom, b
    <2>. QED  BY <2>1, <2>2, <2>3, <1>6 DEF DeviceTrue
  <1>. QED  BY <1>3, <1>7 DEF b

LEMMA ConfCloud ==
    ASSUME ~YamlInForce, setup.conf \in Seq(Sections)
    PROVE  LET cloud == CloudOf(setup.conf) IN
           /\ cloud \in CloudAuths
           /\ cloud # NoCloudAuth => \A k \in CloudKeys : cloud[k] \in WrittenCloud
  <1>. DEFINE T == { i \in DOMAIN setup.conf : setup.conf[i].incontrol2 # NoCloudAuth }
              first == CHOOSE i \in T : \A j \in T : i <= j
  <1>1. CASE T = {}
    BY <1>1, NoAuthFacts DEF CloudOf
  <1>2. CASE T # {}
    <2>1. DOMAIN setup.conf = 1 .. Len(setup.conf) /\ Len(setup.conf) \in Nat
      OBVIOUS
    <2>2. T \in SUBSET (1 .. Len(setup.conf))
      BY <2>1
    <2>3. first \in T
      <3>. HIDE DEF T
      <3>. QED  BY <1>2, <2>1, <2>2, FirstIndex
    <2>4. \A i \in T : i \in DOMAIN setup.conf /\ setup.conf[i] \in Sections
      BY <2>1
    <2>5. CloudOf(setup.conf) = setup.conf[first].incontrol2
      BY <1>2 DEF CloudOf
    <2>6. WrittenCloud = UNION { { setup.conf[i].incontrol2[key] : key \in CloudKeys } :
                                    i \in DOMAIN setup.conf }
      BY DEF WrittenCloud, CloudKeys
    <2>. HIDE DEF first
    <2>. QED  BY <2>3, <2>4, <2>5, <2>6 DEF Sections
  <1>. QED  BY <1>1, <1>2

LEMMA ConfTrue ==
    ASSUME IsSetup(setup), ~YamlInForce, LoadRuntimeFleet(setup) # None
    PROVE  FleetTrue(LoadRuntimeFleet(setup)) /\ FleetRecord(LoadRuntimeFleet(setup))
  <1>. DEFINE conf == setup.conf
              f == LoadRuntimeFleet(setup)
              hub == SectionsWith(conf, "fusionhub") # {}
              gateway == BlockOf(conf, "gateway")
              second == BlockOf(conf, "fusionhub")
              ids == {setup.device_id} \cup (IF hub THEN {Hub} ELSE {})
              device(d) == IF hub /\ d = Hub
                           THEN DirectDevice("fusionhub", second, HubAuthOf(second))
                           ELSE DirectDevice("router", gateway, AuthOf(gateway))
              cloud == CloudOf(conf)
  <1>1. f = FleetFromConf(conf, setup.device_id) /\ conf \in Seq(Sections)
    BY DEF LoadRuntimeFleet, YamlInForce, IsSetup
  <1>2. /\ SectionsWith(conf, "gateway") # {}
        /\ AuthOf(gateway)["read_only"] # None
        /\ hub => AuthOf(second)["read_only"] # None
        /\ f = [devices |-> [d \in ids |-> device(d)], device_id |-> setup.device_id,
                gateway_id |-> None, ic2_enabled |-> cloud # NoCloudAuth, incontrol2 |-> cloud]
    BY <1>1 DEF FleetFromConf
  <1>3. gateway \in Blocks /\ gateway.host # None
    BY <1>1, <1>2, BlockTyped
  <1>4. hub => second \in Blocks /\ second.host # None
    BY <1>1, BlockTyped
  <1>5. ids \subseteq DeviceIds /\ setup.device_id \in DeviceIds
    BY HubAssumption DEF IsSetup
  <1>6. ASSUME NEW d \in ids
        PROVE  device(d) \in Devices /\ DeviceTrue(device(d), d)
    <2>1. CASE hub /\ d = Hub
      <3>1. ConfBlock(d) = second
        BY <2>1 DEF ConfBlock
      <3>2. AuthFrom(HubAuthOf(second), second) /\ HubAuthOf(second)["read_only"] # None
        BY <2>1, <1>2, <1>4, BlockAuths
      <3>3. device(d) = DirectDevice("fusionhub", second, HubAuthOf(second))
        BY <2>1
      <3>. HIDE DEF device, second, hub
      <3>. QED  BY <2>1, <3>1, <3>2, <3>3, <1>4, DirectDeviceTrue
    <2>2. CASE ~(hub /\ d = Hub)
      <3>1. ConfBlock(d) = gateway
        BY <2>2 DEF ConfBlock
      <3>2. AuthFrom(AuthOf(gateway), gateway) /\ AuthOf(gateway)["read_only"] # None
        BY <1>2, <1>3, BlockAuths
      <3>3. device(d) = DirectDevice("router", gateway, AuthOf(gateway))
        BY <2>2
      <3>. HIDE DEF device, gateway, hub
      <3>. QED  BY <3>1, <3>2, <3>3, <1>3, DirectDeviceTrue
    <2>. QED  BY <2>1, <2>2
  <1>7. cloud \in CloudAuths /\ (cloud # NoCloudAuth => \A k \in CloudKeys : cloud[k] \in WrittenCloud)
    BY <1>1, ConfCloud
  <1>. HIDE DEF f, hub, ids, device, cloud
  <1>8. IsFleet(f)
    BY <1>2, <1>5, <1>6, <1>7 DEF IsFleet, IsPartialFunction, Maybe
  <1>9. CloudTrue(f)
    BY <1>2, <1>7 DEF CloudTrue
  <1>10. FleetTrue(f) /\ FleetRecord(f)
    BY <1>2, <1>6, <1>8, <1>9 DEF FleetTrue, FleetRecord
  <1>. QED  BY <1>10 DEF f

-----------------------------------------------------------------------------
(* The fleet of a running server, its clients and why there is none.       *)

LEMMA ResolvedTrue ==
    ASSUME NEW f, FleetTrue(f), FleetRecord(f)
    PROVE  FleetTrue(WithHosts(f)) /\ HostsKnown(WithHosts(f))
  <1>. DEFINE new(d) == IF d \in Pending(f)
                        THEN [f.devices[d] EXCEPT !.host = f.devices[d].discover]
                        ELSE f.devices[d]
              devices == [d \in DOMAIN f.devices |-> new(d)]
              w == WithHosts(f)
  <1>1. /\ w.devices = devices /\ w.device_id = f.device_id /\ w.gateway_id = f.gateway_id
        /\ w.ic2_enabled = f.ic2_enabled /\ w.incontrol2 = f.incontrol2
    BY DEF WithHosts, FleetRecord
  <1>2. ASSUME NEW d \in DOMAIN f.devices
        PROVE  /\ new(d) \in Devices /\ DeviceTrue(new(d), d)
               /\ new(d).discover # None => new(d).host # None
    <2>. DEFINE v == f.devices[d]
    <2>1. v \in Devices /\ DeviceTrue(v, d)
      BY DEF FleetTrue, IsFleet, IsPartialFunction
    <2>2. CASE d \notin Pending(f)
      BY <2>1, <2>2 DEF Pending
    <2>3. CASE d \in Pending(f)
      <3>1. v.discover # None /\ v.host = None
        BY <2>3 DEF Pending
      <3>2. /\ new(d) \in Devices
            /\ new(d).host = v.discover /\ new(d).discover = v.discover
            /\ new(d).auth = v.auth /\ new(d).snmp = v.snmp /\ new(d).kind = v.kind
        BY <2>1, <2>3 DEF Devices, Maybe
      <3>. HIDE DEF new, v
      <3>3. DeviceTrue(new(d), d)
        BY <2>1, <3>1, <3>2 DEF DeviceTrue, FirstNonEmpty
      <3>. QED  BY <3>1, <3>2, <3>3
    <2>. QED  BY <2>2, <2>3
  <1>. HIDE DEF new
  <1>3. devices \in [DOMAIN f.devices -> Devices]
    BY <1>2
  <1>4. IsFleet(w)
    BY <1>1, <1>3 DEF IsFleet, IsPartialFunction, FleetTrue
  <1>5. CloudTrue(w)
    BY <1>1 DEF CloudTrue, FleetTrue
  <1>. HIDE DEF w
  <1>6. FleetTrue(w) /\ HostsKnown(w)
    BY <1>1, <1>2, <1>4, <1>5 DEF FleetTrue, HostsKnown
  <1>. QED  BY <1>6 DEF w

Served == FleetTrue(fleet) /\ HostsKnown(fleet)

LEMMA DeviceFacts ==
    ASSUME Served, NEW d \in DOMAIN fleet.devices
    PROVE  /\ d \in DeviceIds /\ d # None
           /\ Device(d) \in Devices /\ DeviceTrue(Device(d), d)
           /\ Device(d).host = None => Device(d).discover = None
  BY NoneAssumption DEF Served, FleetTrue, IsFleet, IsPartialFunction, HostsKnown, Device

\* The exceptions, which are no reports.
Errors == Outcomes \ {"answered", "report"}

\* A client is of one of these devices and has what the files write for it.
ClientTrue(c, devices) ==
    /\ c \in Clients
    /\ IF c.transport = "cloud"
       THEN c.credential \in WrittenCloud \ {None}
       ELSE /\ c.device \in devices
            /\ c.host = WrittenHost(c.device)
            /\ c.credential \in WrittenCredentials(c.device, c.transport)

LEMMA HttpErrorFacts ==
    ASSUME Served, NEW d
    PROVE  /\ HttpError(d) \in Maybe(Errors)
           /\ HttpError(d) = None =>
                d \in DOMAIN fleet.devices /\ Device(d).auth # None /\ Device(d).host # None
           /\ HttpError(d) \in {"no credentials", "no snmp", "no host"} =>
                /\ d \in DOMAIN fleet.devices
                /\ WrittenCloudOnly(d) \/ (HttpError(d) = "no credentials" /\ IsAp(d))
  <1>1. CASE d \notin DOMAIN fleet.devices
    BY <1>1, OutcomesAssumption DEF HttpError, Outcomes, Errors, Maybe
  <1>2. CASE d \in DOMAIN fleet.devices /\ Device(d).auth = None
    <2>1. HttpError(d) = "no credentials"
      BY <1>2 DEF HttpError
    <2>2. WrittenCloudOnly(d) \/ IsAp(d)
      BY <1>2, DeviceFacts DEF DeviceTrue, IsAp
    <2>. QED  BY <1>2, <2>1, <2>2, OutcomesAssumption DEF Outcomes, Errors, Maybe
  <1>3. CASE d \in DOMAIN fleet.devices /\ Device(d).auth # None /\ Device(d).host = None
    <2>1. HttpError(d) = "no host"
      BY <1>3 DEF HttpError
    <2>2. WrittenCloudOnly(d)
      BY <1>3, DeviceFacts DEF DeviceTrue
    <2>. QED  BY <1>3, <2>1, <2>2, OutcomesAssumption DEF Outcomes, Errors, Maybe
  <1>4. CASE d \in DOMAIN fleet.devices /\ Device(d).auth # None /\ Device(d).host # None
    <2>1. HttpError(d) = None
      BY <1>4 DEF HttpError
    <2>. QED  BY <1>4, <2>1, OutcomesAssumption DEF Outcomes, Errors, Maybe
  <1>. QED  BY <1>1, <1>2, <1>3, <1>4

LEMMA SnmpErrorFacts ==
    ASSUME Served, NEW d
    PROVE  /\ SnmpError(d) \in Maybe(Errors)
           /\ SnmpError(d) = None =>
                d \in DOMAIN fleet.devices /\ Device(d).snmp # None /\ Device(d).host # None
           /\ SnmpError(d) \in {"no credentials", "no snmp", "no host"} =>
                d \in DOMAIN fleet.devices /\ WrittenCloudOnly(d)
  <1>1. CASE d \notin DOMAIN fleet.devices
    BY <1>1, OutcomesAssumption DEF SnmpError, Outcomes, Errors, Maybe
  <1>2. CASE d \in DOMAIN fleet.devices /\ Device(d).kind # "ap"
    BY <1>2, OutcomesAssumption DEF SnmpError, Outcomes, Errors, Maybe
  <1>3. CASE d \in DOMAIN fleet.devices /\ Device(d).kind = "ap" /\ Device(d).snmp = None
    <2>1. SnmpError(d) = "no snmp"
      BY <1>3 DEF SnmpError
    <2>2. WrittenCloudOnly(d)
      BY <1>3, DeviceFacts DEF DeviceTrue
    <2>. QED  BY <1>3, <2>1, <2>2, OutcomesAssumption DEF Outcomes, Errors, Maybe
  <1>4. CASE /\ d \in DOMAIN fleet.devices /\ Device(d).kind = "ap"
             /\ Device(d).snmp # None /\ Device(d).host = None
    <2>1. SnmpError(d) = "no host"
      BY <1>4 DEF SnmpError
    <2>2. WrittenCloudOnly(d)
      BY <1>4, DeviceFacts DEF DeviceTrue
    <2>. QED  BY <1>4, <2>1, <2>2, OutcomesAssumption DEF Outcomes, Errors, Maybe
  <1>5. CASE /\ d \in DOMAIN fleet.devices /\ Device(d).kind = "ap"
             /\ Device(d).snmp # None /\ Device(d).host # None
    <2>1. SnmpError(d) = None
      BY <1>5 DEF SnmpError
    <2>. QED  BY <1>5, <2>1, OutcomesAssumption DEF Outcomes, Errors, Maybe
  <1>. QED  BY <1>1, <1>2, <1>3, <1>4, <1>5

LEMMA HttpClientTrue ==
    ASSUME Served, NEW d, HttpError(d) = None, NEW t \in Tiers, Device(d).auth[t] # None,
           NEW devices, d \in devices
    PROVE  ClientTrue(HttpClient(d, t), devices)
  <1>1. d \in DOMAIN fleet.devices /\ Device(d).auth # None /\ Device(d).host # None
    BY HttpErrorFacts
  <1>2. d \in DeviceIds /\ Device(d) \in Devices /\ DeviceTrue(Device(d), d)
    BY <1>1, DeviceFacts
  <1>3. Device(d).host = WrittenHost(d) /\ Device(d).auth[t] \in WrittenCredentials(d, "http")
    BY <1>1, <1>2 DEF DeviceTrue, FirstNonEmpty
  <1>4. Device(d).host \in Hosts /\ Device(d).auth[t] \in Maybe(Credentials)
    BY <1>1, <1>2 DEF Devices, Auths, Maybe
  <1>. QED  BY <1>2, <1>3, <1>4 DEF HttpClient, ClientTrue, Clients, Maybe

LEMMA SnmpClientTrue ==
    ASSUME Served, NEW d, SnmpError(d) = None, NEW t \in Tiers, NEW devices, d \in devices
    PROVE  /\ ClientTrue(SnmpClient(d, t), devices)
           /\ Device(d).snmp.config_community # None =>
                SnmpClient(d, "config_read").credential = Device(d).snmp.config_community
           /\ SnmpClient(d, "read_only").credential = Device(d).snmp.community
  <1>1. d \in DOMAIN fleet.devices /\ Device(d).snmp # None /\ Device(d).host # None
    BY SnmpErrorFacts
  <1>2. d \in DeviceIds /\ Device(d) \in Devices /\ DeviceTrue(Device(d), d)
    BY <1>1, DeviceFacts
  <1>. DEFINE snmp == Device(d).snmp
              c == SnmpClient(d, t).credential
  <1>3. snmp \in Snmps
    BY <1>1, <1>2 DEF Devices, Maybe
  <1>4. c \in {snmp.community, snmp.config_community} /\ (c # snmp.community => c # None)
    BY DEF SnmpClient, FirstNonEmpty
  <1>5. c \in Credentials /\ c \in WrittenCredentials(d, "snmp")
    <2>1. snmp.community \in Credentials /\ snmp.config_community \in Maybe(Credentials)
      BY <1>3 DEF Snmps
    <2>2. /\ snmp.community \in WrittenCredentials(d, "snmp")
          /\ snmp.config_community # None => snmp.config_community \in WrittenCredentials(d, "snmp")
      BY <1>1, <1>2 DEF DeviceTrue
    <2>. HIDE DEF snmp, c
    <2>. QED  BY <1>4, <2>1, <2>2, NoneAssumption DEF Maybe
  <1>6. Device(d).host = WrittenHost(d) /\ Device(d).host \in Hosts
    BY <1>1, <1>2 DEF DeviceTrue, FirstNonEmpty, Devices, Maybe
  <1>7. SnmpClient(d, t) = [device |-> d, host |-> Device(d).host, transport |-> "snmp",
                            tier |-> t, credential |-> c]
    BY DEF SnmpClient
  <1>8. ClientTrue(SnmpClient(d, t), devices)
    <2>. HIDE DEF c
    <2>. QED  BY <1>2, <1>5, <1>6, <1>7 DEF ClientTrue, Clients, Maybe
  <1>. QED  BY <1>8 DEF SnmpClient, FirstNonEmpty

LEMMA CloudClientTrue ==
    ASSUME Served, fleet.ic2_enabled, NEW devices
    PROVE  /\ CloudRead(fleet.incontrol2) # None
           /\ ClientTrue(CloudClient("read_only", CloudRead(fleet.incontrol2)), devices)
           /\ CloudWrite(fleet.incontrol2) # None =>
                ClientTrue(CloudClient("admin", CloudWrite(fleet.incontrol2)), devices)
  <1>. DEFINE cloud == fleet.incontrol2
  <1>1. /\ cloud \in CloudAuths /\ cloud # NoCloudAuth
        /\ \A k \in CloudKeys : cloud[k] # None => cloud[k] \in WrittenCloud
    BY DEF Served, FleetTrue, IsFleet, CloudTrue
  <1>2. \A k \in CloudKeys : cloud[k] \in Maybe(Credentials)
    BY <1>1 DEF CloudAuths, CloudKeys
  <1>3. \E k \in CloudKeys : cloud[k] # None
    BY <1>1, NoAuthFacts
  <1>. HIDE DEF cloud
  <1>4. /\ CloudRead(cloud) # None /\ CloudRead(cloud) \in WrittenCloud
        /\ CloudRead(cloud) \in Maybe(Credentials)
    BY <1>1, <1>2, <1>3 DEF CloudRead, FirstNonEmpty, CloudKeys
  <1>5. /\ CloudWrite(cloud) # None => CloudWrite(cloud) \in WrittenCloud
        /\ CloudWrite(cloud) \in Maybe(Credentials)
    BY <1>1, <1>2 DEF CloudWrite, FirstNonEmpty, CloudKeys
  <1>6. "read_only" \in Tiers /\ "admin" \in Tiers
    BY DEF Tiers
  <1>. HIDE DEF CloudTrue
  <1>. QED  BY <1>4, <1>5, <1>6 DEF CloudClient, ClientTrue, Clients, Maybe, cloud

\* The device a call names, and the gateway whose client may read its ports.
Reach(tool, d) ==
    {d} \cup (IF tool = "port config" /\ d \in DOMAIN fleet.devices THEN {GatewayOf(d)} ELSE {})

LEMMA ReaderInReach ==
    ASSUME Served, NEW d \in DOMAIN fleet.devices
    PROVE  PortReader(d) \in Reach("port config", d)
  BY DEF PortReader, Reach

\* A call that reaches none of these devices for want of something names one that
\* has nothing to be reached with, or asks an access point for its HTTP login.
Justified(error, devices) ==
    error \in {"no credentials", "no snmp", "no host"} =>
        \E d \in devices \ {None} :
            WrittenCloudOnly(d) \/ (error = "no credentials" /\ IsAp(d))

LEMMA ReadErrorFacts ==
    ASSUME Served, NEW tool \in Tools, NEW d
    PROVE  ReadError(tool, d) \in Maybe(Errors) /\ Justified(ReadError(tool, d), Reach(tool, d))
  <1>1. ASSUME NEW e \in Reach(tool, d)
        PROVE  Justified(HttpError(e), Reach(tool, d)) /\ Justified(SnmpError(e), Reach(tool, d))
    BY <1>1, HttpErrorFacts, SnmpErrorFacts, DeviceFacts DEF Justified
  <1>2. d \in Reach(tool, d)
    BY DEF Reach
  <1>3. CASE OverSnmp(tool, d)
    <2>1. ReadError(tool, d) = SnmpError(d)
      BY <1>3 DEF ReadError
    <2>. QED  BY <2>1, <1>1, <1>2, SnmpErrorFacts
  <1>4. CASE ~OverSnmp(tool, d) /\ HttpError(d) # None
    <2>1. ReadError(tool, d) = HttpError(d)
      BY <1>4 DEF ReadError
    <2>. QED  BY <2>1, <1>1, <1>2, HttpErrorFacts
  <1>5. CASE ~OverSnmp(tool, d) /\ HttpError(d) = None /\ tool = "port config"
    <2>1. ReadError(tool, d) = IF PortReader(d) = None THEN "no gateway" ELSE HttpError(PortReader(d))
      BY <1>5 DEF ReadError
    <2>2. PortReader(d) \in Reach(tool, d)
      BY <1>5, ReaderInReach, HttpErrorFacts
    <2>3. CASE PortReader(d) = None
      BY <2>1, <2>3 DEF Outcomes, Errors, Maybe, Justified
    <2>4. CASE PortReader(d) # None
      BY <2>1, <2>2, <2>4, <1>1, HttpErrorFacts
    <2>. QED  BY <2>3, <2>4
  <1>6. CASE ~OverSnmp(tool, d) /\ HttpError(d) = None /\ tool # "port config"
    <2>1. ReadError(tool, d) \in {"unsupported", None}
      BY <1>6 DEF ReadError
    <2>. QED  BY <2>1, OutcomesAssumption DEF Outcomes, Errors, Maybe, Justified
  <1>. QED  BY <1>3, <1>4, <1>5, <1>6

\* The tier a tool reads with is one the device has.
LEMMA TierHeld ==
    ASSUME Served, NEW d, HttpError(d) = None
    PROVE  /\ "read_only" \in Tiers /\ Device(d).auth["read_only"] # None
           /\ ConfigTier(d) \in Tiers /\ Device(d).auth[ConfigTier(d)] # None
  <1>1. d \in DOMAIN fleet.devices /\ Device(d).auth # None
    BY HttpErrorFacts
  <1>2. Device(d).auth["read_only"] # None
    BY <1>1, DeviceFacts DEF DeviceTrue
  <1>. QED  BY <1>2 DEF ConfigTier, Tiers

LEMMA ReadClientTrue ==
    ASSUME Served, NEW tool \in Tools, NEW d, ReadError(tool, d) = None
    PROVE  ClientTrue(ReadClient(tool, d), Reach(tool, d))
  <1>1. d \in Reach(tool, d)
    BY DEF Reach
  <1>2. CASE OverSnmp(tool, d)
    <2>1. SnmpError(d) = None
      BY <1>2 DEF ReadError
    <2>2. ReadClient(tool, d) = SnmpClient(d, IF tool = "ssid" THEN "config_read" ELSE "read_only")
      BY <1>2 DEF ReadClient, OverSnmp
    <2>3. (IF tool = "ssid" THEN "config_read" ELSE "read_only") \in Tiers
      BY DEF Tiers
    <2>. QED  BY <1>1, <2>1, <2>2, <2>3, SnmpClientTrue
  <1>3. CASE ~OverSnmp(tool, d)
    <2>1. HttpError(d) = None
      BY <1>3 DEF ReadError
    <2>2. CASE tool \in {"config", "mesh", "ssid"}
      <3>1. ReadClient(tool, d) = HttpClient(d, ConfigTier(d))
        BY <1>3, <2>2 DEF ReadClient
      <3>. QED  BY <1>1, <2>1, <3>1, TierHeld, HttpClientTrue
    <2>3. CASE tool = "port config"
      <3>1. HttpError(PortReader(d)) = None
        BY <1>3, <2>1, <2>3, OutcomesAssumption DEF ReadError, Outcomes
      <3>2. ReadClient(tool, d) = HttpClient(PortReader(d), ConfigTier(PortReader(d)))
        BY <1>3, <2>3 DEF ReadClient
      <3>3. PortReader(d) \in Reach(tool, d)
        BY <2>1, <2>3, ReaderInReach, HttpErrorFacts
      <3>. QED  BY <3>1, <3>2, <3>3, TierHeld, HttpClientTrue
    <2>4. CASE tool \notin {"config", "mesh", "ssid", "port config"}
      <3>1. ReadClient(tool, d) = HttpClient(d, "read_only")
        BY <1>3, <2>4 DEF ReadClient
      <3>. QED  BY <1>1, <2>1, <3>1, TierHeld, HttpClientTrue
    <2>. QED  BY <2>2, <2>3, <2>4
  <1>. QED  BY <1>2, <1>3

-----------------------------------------------------------------------------
(* What a doctor has to probe.                                             *)

Elements(s) == { s[i] : i \in DOMAIN s }

LEMMA ElementsOfConcat ==
    ASSUME NEW S, NEW s \in Seq(S), NEW t \in Seq(S)
    PROVE  s \o t \in Seq(S) /\ Elements(s \o t) = Elements(s) \cup Elements(t)
  <1>1. /\ s \o t \in Seq(S) /\ Len(s \o t) = Len(s) + Len(t)
        /\ \A i \in 1 .. Len(s) + Len(t) :
             (s \o t)[i] = IF i <= Len(s) THEN s[i] ELSE t[i - Len(s)]
    OBVIOUS
  <1>2. /\ DOMAIN (s \o t) = 1 .. Len(s) + Len(t)
        /\ DOMAIN s = 1 .. Len(s) /\ DOMAIN t = 1 .. Len(t)
        /\ Len(s) \in Nat /\ Len(t) \in Nat
    BY <1>1
  <1>3. Elements(s) \subseteq Elements(s \o t)
    BY <1>1, <1>2 DEF Elements
  <1>4. ASSUME NEW j \in 1 .. Len(t)
        PROVE  t[j] \in Elements(s \o t)
    <2>1. j + Len(s) \in 1 .. Len(s) + Len(t) /\ ~(j + Len(s) <= Len(s))
          /\ (j + Len(s)) - Len(s) = j
      BY <1>2
    <2>. QED  BY <1>1, <1>2, <2>1 DEF Elements
  <1>5. Elements(s \o t) \subseteq Elements(s) \cup Elements(t)
    BY <1>1, <1>2 DEF Elements
  <1>. QED  BY <1>1, <1>2, <1>3, <1>4, <1>5 DEF Elements

LEMMA ElementsOfShort ==
    /\ <<>> \in Seq(Tiers \cup Checks) /\ Elements(<<>>) = {}
    /\ \A x \in Tiers \cup Checks : <<x>> \in Seq(Tiers \cup Checks) /\ Elements(<<x>>) = {x}
    /\ \A x, y \in Tiers \cup Checks :
        <<x, y>> \in Seq(Tiers \cup Checks) /\ Elements(<<x, y>>) = {x, y}
  BY DEF Elements

LEMMA HeadAndTail ==
    ASSUME NEW S, NEW s \in Seq(S), s # <<>>
    PROVE  /\ Head(s) \in S /\ Tail(s) \in Seq(S)
           /\ Elements(s) = {Head(s)} \cup Elements(Tail(s))
  <1>1. Len(s) \in Nat \ {0} /\ DOMAIN s = 1 .. Len(s) /\ Head(s) = s[1] /\ Head(s) \in S
    OBVIOUS
  <1>2. /\ Tail(s) \in Seq(S) /\ DOMAIN Tail(s) = 1 .. Len(s) - 1
        /\ \A i \in 1 .. Len(s) - 1 : Tail(s)[i] = s[i + 1]
    BY <1>1
  <1>3. Elements(Tail(s)) \subseteq Elements(s)
    BY <1>1, <1>2 DEF Elements
  <1>4. ASSUME NEW i \in 1 .. Len(s), i # 1
        PROVE  s[i] \in Elements(Tail(s))
    <2>1. i - 1 \in 1 .. Len(s) - 1 /\ (i - 1) + 1 = i
      BY <1>1, <1>4
    <2>. QED  BY <1>2, <2>1 DEF Elements
  <1>. QED  BY <1>1, <1>2, <1>3, <1>4 DEF Elements

\* The verdicts the device doctor owes of a device, and those of the cloud doctor.
TiersOf(d) ==
    IF IsAp(d) THEN {"read_only", "config_read"} ELSE { t \in Tiers : Device(d).auth[t] # None }

LEMMA DoctorTiersAreAll ==
    ASSUME Served, NEW d, IF IsAp(d) THEN SnmpError(d) = None ELSE HttpError(d) = None
    PROVE  /\ DoctorTiers(d) \in Seq(Tiers \cup Checks) /\ DoctorTiers(d) # <<>>
           /\ Elements(DoctorTiers(d)) = TiersOf(d)
  <1>. DEFINE conf == IF Device(d).auth["config_read"] # None THEN <<"config_read">> ELSE <<>>
              admin == IF Device(d).auth["admin"] # None THEN <<"admin">> ELSE <<>>
              S == Tiers \cup Checks
  <1>1. {"read_only", "config_read", "admin"} = Tiers
    BY DEF Tiers
  <1>2. CASE IsAp(d)
    <2>1. DoctorTiers(d) = <<"read_only", "config_read">>
      BY <1>2 DEF DoctorTiers
    <2>. QED  BY <1>1, <1>2, <2>1, ElementsOfShort DEF TiersOf
  <1>3. CASE ~IsAp(d)
    <2>1. DoctorTiers(d) = (<<"read_only">> \o conf) \o admin
      BY <1>3 DEF DoctorTiers
    <2>2. /\ conf \in Seq(S)
          /\ Elements(conf) = IF Device(d).auth["config_read"] # None THEN {"config_read"} ELSE {}
          /\ admin \in Seq(S)
          /\ Elements(admin) = IF Device(d).auth["admin"] # None THEN {"admin"} ELSE {}
          /\ <<"read_only">> \in Seq(S) /\ Elements(<<"read_only">>) = {"read_only"}
      BY <1>1, ElementsOfShort
    <2>3. Device(d).auth["read_only"] # None
      BY <1>3, TierHeld
    <2>. HIDE DEF conf, admin, S
    <2>. DEFINE reads == <<"read_only">> \o conf
    <2>4. reads \in Seq(S) /\ Elements(reads) = {"read_only"} \cup Elements(conf)
      <3>. DEFINE one == <<"read_only">>
      <3>1. one \in Seq(S) /\ Elements(one) = {"read_only"}
        BY <2>2
      <3>. HIDE DEF one
      <3>2. one \o conf \in Seq(S) /\ Elements(one \o conf) = Elements(one) \cup Elements(conf)
        BY <2>2, <3>1, ElementsOfConcat
      <3>3. reads = one \o conf
        BY DEF one
      <3>. QED  BY <3>1, <3>2, <3>3
    <2>5. /\ DoctorTiers(d) \in Seq(S)
          /\ Elements(DoctorTiers(d)) = {"read_only"} \cup Elements(conf) \cup Elements(admin)
      <3>1. DoctorTiers(d) = reads \o admin
        BY <2>1
      <3>. HIDE DEF reads
      <3>2. reads \o admin \in Seq(S) /\ Elements(reads \o admin) = Elements(reads) \cup Elements(admin)
        BY <2>2, <2>4, ElementsOfConcat
      <3>. QED  BY <2>4, <3>1, <3>2
    <2>6. Elements(DoctorTiers(d)) = TiersOf(d)
      BY <1>1, <1>3, <2>2, <2>3, <2>5 DEF TiersOf
    <2>7. DoctorTiers(d) # <<>>
      BY <2>5, ElementsOfShort
    <2>. QED  BY <2>5, <2>6, <2>7 DEF S
  <1>. QED  BY <1>2, <1>3

CloudOwed ==
    {"token_grant"}
        \cup (IF WritesApart(fleet.incontrol2)
              THEN {"admin_token_grant"} ELSE {})

-----------------------------------------------------------------------------
(* The invariant.                                                          *)

Examinable ==
    IF call.tool = "doctor"
    THEN IF IsAp(Named(call.device)) THEN SnmpError(Named(call.device)) = None
         ELSE HttpError(Named(call.device)) = None
    ELSE call.tool = "ic2-doctor" /\ fleet.ic2_enabled

\* The verdicts and what is left to probe make up what the doctor owes.
OnTheList ==
    LET listed == Elements(todo) \cup DOMAIN report IN
    IF call.tool = "doctor" THEN listed = TiersOf(Named(call.device))
    ELSE CloudOwed \subseteq listed /\ listed \subseteq CloudOwed \cup {"list_orgs", "list_groups"}

VerdictsTrue ==
    \A t \in DOMAIN report :
        report[t] /\ ~UsesToken(t) => ProbeClient(t).credential \in accepted

DoctorAtWork == todo # <<>> /\ Examinable /\ OnTheList /\ VerdictsTrue

ClientOfCall == ClientTrue(client, Reach(call.tool, Asked(call.tool, call.device)))

Stages ==
    /\ server = "serving" => Served
    /\ stage # "idle" => server = "serving"
    /\ stage = "idle" => client = None
    /\ stage = "request" => ClientOfCall
    /\ stage # "over" => outcome = None
    /\ stage = "probing" => DoctorAtWork
    /\ client # None => ClientOfCall

IInv ==
    /\ TypeOK
    /\ Stages
    /\ ServedMeansReadable
    /\ DoctorOkMeansAccepted
    /\ EveryTierHasAVerdict

LEMMA InitInv == Init => IInv
  BY SetupsAssumption, OutcomesAssumption, ElementsOfShort
     DEF Init, IInv, TypeOK, Stages, ServedMeansReadable, DoctorOkMeansAccepted,
         EveryTierHasAVerdict, NoVerdicts, IsPartialFunction, Outcomes, Maybe

\* What the files and the fleet say does not change while a server runs.
LEMMA FilesKept ==
    ASSUME UNCHANGED <<setup, fleet>>
    PROVE  /\ \A d : WrittenHost(d)' = WrittenHost(d)
           /\ \A d, x : WrittenCredentials(d, x)' = WrittenCredentials(d, x)
           /\ WrittenCloud' = WrittenCloud
           /\ \A d : WrittenCloudOnly(d)' <=> WrittenCloudOnly(d)
           /\ \A d : IsAp(d)' <=> IsAp(d)
           /\ \A d : Device(d)' = Device(d)
           /\ \A tool, d : Reach(tool, d)' = Reach(tool, d)
           /\ \A tool, d : Asked(tool, d)' = Asked(tool, d)
  <1>1. \A d : WrittenHost(d)' = WrittenHost(d)
    BY DEF WrittenHost, YamlInForce, SecretOf, ConfBlock
  <1>2. \A d : SecretOf(d)' = SecretOf(d) /\ ProfileOf(d)' = ProfileOf(d)
    BY DEF SecretOf, ProfileOf
  <1>3. \A d, x : WrittenCredentials(d, x)' = WrittenCredentials(d, x)
    BY DEF WrittenCredentials, YamlInForce, SecretOf, ProfileOf, ConfBlock
  <1>4. WrittenCloud' = WrittenCloud
    BY DEF WrittenCloud, YamlInForce
  <1>5. \A d : WrittenCloudOnly(d)' <=> WrittenCloudOnly(d)
    BY <1>1 DEF WrittenCloudOnly, YamlInForce, SecretOf
  <1>6. \A d : (IsAp(d)' <=> IsAp(d)) /\ Device(d)' = Device(d)
    BY DEF IsAp, Device
  <1>7. \A tool, d : Reach(tool, d)' = Reach(tool, d) /\ Asked(tool, d)' = Asked(tool, d)
    BY DEF Reach, GatewayOf, Asked, Named, Device
  <1>. QED  BY <1>1, <1>3, <1>4, <1>5, <1>6, <1>7

LEMMA ServedKept ==
    ASSUME Served, UNCHANGED <<setup, fleet>>
    PROVE  Served'
  BY FilesKept DEF Served, FleetTrue, DeviceTrue, CloudTrue, HostsKnown

LEMMA ClientKept ==
    ASSUME ClientOfCall, UNCHANGED <<setup, fleet, call, client>>
    PROVE  ClientOfCall'
  BY FilesKept DEF ClientOfCall, ClientTrue

LEMMA ReadableKept ==
    ASSUME ServedMeansReadable, UNCHANGED <<setup, fleet, call, outcome>>
    PROVE  ServedMeansReadable'
  <1>1. Reachable' = Reachable
    BY DEF Reachable, Asked, Named, GatewayOf, Device
  <1>. QED  BY <1>1, FilesKept DEF ServedMeansReadable

LEMMA DoctorKept ==
    ASSUME UNCHANGED <<fleet, call, todo, report, accepted, outcome>>
    PROVE  /\ DoctorAtWork => DoctorAtWork'
           /\ DoctorOkMeansAccepted => DoctorOkMeansAccepted'
           /\ EveryTierHasAVerdict => EveryTierHasAVerdict'
  <1>1. Owed' = Owed /\ Examined' = Examined /\ CloudOwed' = CloudOwed
    BY DEF Owed, Examined, CloudOwed, Named, IsAp, Device
  <1>2. \A t : ProbeClient(t)' = ProbeClient(t)
    BY DEF ProbeClient, Named, IsAp, Device, HttpClient, SnmpClient
  <1>3. \A d : TiersOf(d)' = TiersOf(d)
    BY DEF TiersOf, IsAp, Device
  <1>4. Examinable' <=> Examinable
    BY DEF Examinable, Named, IsAp, Device, SnmpError, HttpError
  <1>. QED
    BY <1>1, <1>2, <1>3, <1>4
       DEF DoctorAtWork, OnTheList, VerdictsTrue, Named, DoctorOkMeansAccepted, EveryTierHasAVerdict

-----------------------------------------------------------------------------
(* The start.                                                              *)

LEMMA SetupKept ==
    ASSUME UNCHANGED setup
    PROVE  \A f : (FleetTrue(f)' <=> FleetTrue(f)) /\ (HostsKnown(f)' <=> HostsKnown(f))
  <1>1. \A d : WrittenHost(d)' = WrittenHost(d)
    BY DEF WrittenHost, YamlInForce, SecretOf, ConfBlock
  <1>2. \A d, x : WrittenCredentials(d, x)' = WrittenCredentials(d, x)
    BY DEF WrittenCredentials, YamlInForce, SecretOf, ProfileOf, ConfBlock
  <1>3. WrittenCloud' = WrittenCloud
    BY DEF WrittenCloud, YamlInForce
  <1>4. \A d : WrittenCloudOnly(d)' <=> WrittenCloudOnly(d)
    BY <1>1 DEF WrittenCloudOnly, YamlInForce, SecretOf
  <1>5. \A f : CloudTrue(f)' <=> CloudTrue(f)
    BY <1>3 DEF CloudTrue
  <1>6. \A v, d : DeviceTrue(v, d)' <=> DeviceTrue(v, d)
    BY <1>1, <1>2, <1>4 DEF DeviceTrue
  <1>. QED  BY <1>5, <1>6 DEF FleetTrue, HostsKnown

LEMMA StartStep ==
    ASSUME IInv, Start
    PROVE  IInv'
  <1>. DEFINE loaded == LoadRuntimeFleet(setup)
  <1>1. /\ server = "starting" /\ stage = "idle" /\ client = None /\ outcome = None
        /\ UNCHANGED <<setup, valid, sessions, stage, call, client, todo, report, accepted, outcome>>
    BY DEF Start, IInv, Stages, remote
  <1>2. \/ loaded # None /\ server' = "serving" /\ fleet' = WithHosts(loaded)
        \/ server' = "refused"
    BY DEF Start
  <1>3. server' = "serving" => Served'
    <2>. SUFFICES ASSUME server' = "serving" PROVE Served'
      OBVIOUS
    <2>1. loaded # None /\ fleet' = WithHosts(loaded)
      BY <1>2
    <2>2. IsSetup(setup)
      BY SetupsAssumption DEF IInv, TypeOK
    <2>3. FleetTrue(loaded) /\ FleetRecord(loaded)
      BY <2>1, <2>2, YamlTrue, ConfTrue
    <2>4. FleetTrue(WithHosts(loaded)) /\ HostsKnown(WithHosts(loaded))
      BY <2>3, ResolvedTrue
    <2>5. FleetTrue(fleet)' /\ HostsKnown(fleet)'
      BY <1>1, <2>1, <2>4, SetupKept
    <2>. QED  BY <2>5 DEF Served
  <1>4. TypeOK'
    <2>1. server' = "serving" => IsFleet(fleet)'
      BY <1>3 DEF Served, FleetTrue
    <2>. QED  BY <1>1, <1>2, <2>1 DEF IInv, TypeOK
  <1>5. Stages'
    BY <1>1, <1>3 DEF Stages
  <1>6. ServedMeansReadable' /\ DoctorOkMeansAccepted' /\ EveryTierHasAVerdict'
    BY <1>1, OutcomesAssumption
       DEF ServedMeansReadable, DoctorOkMeansAccepted, EveryTierHasAVerdict, Outcomes
  <1>. QED  BY <1>4, <1>5, <1>6 DEF IInv

-----------------------------------------------------------------------------
(* A call begins.                                                          *)

\* The parts of the invariant that a call without a report leaves alone.
LEMMA NoReport ==
    ASSUME IInv, outcome' # "report"
    PROVE  DoctorOkMeansAccepted' /\ EveryTierHasAVerdict'
  BY DEF DoctorOkMeansAccepted, EveryTierHasAVerdict

LEMMA BeginTyped ==
    ASSUME IInv, NEW tool \in Tools \cup CloudTools \cup Doctors,
           NEW device \in DeviceIds \cup {None, Unknown},
           NEW error \in Maybe(Errors), NEW next \in {"request", "probing"},
           Begin(tool, device, error, next),
           client' \in Maybe(Clients), todo' \in Seq(Tiers \cup Checks)
    PROVE  TypeOK'
  <1>1. IsPartialFunction(report, Tiers \cup Checks, BOOLEAN)'
    BY DEF Begin, NoVerdicts, IsPartialFunction
  <1>. QED  BY <1>1 DEF IInv, TypeOK, Begin, files, remote, Errors, Maybe

LEMMA BeginReadStep ==
    ASSUME IInv, NEW tool \in Tools, NEW device \in DeviceIds \cup {None, Unknown},
           BeginRead(tool, device)
    PROVE  IInv'
  <1>. DEFINE d == Asked(tool, device)
              error == ReadError(tool, d)
  <1>1. /\ Begin(tool, device, error, "request")
        /\ client' = IF error = None THEN ReadClient(tool, d) ELSE None
        /\ todo' = <<>>
    BY DEF BeginRead
  <1>2. Served
    BY <1>1 DEF Begin, IInv, Stages
  <1>3. error \in Maybe(Errors) /\ Justified(error, Reach(tool, d))
    BY <1>2, ReadErrorFacts
  <1>4. error = None => ClientTrue(ReadClient(tool, d), Reach(tool, d))
    BY <1>2, ReadClientTrue
  <1>. HIDE DEF error, d
  <1>5. /\ UNCHANGED <<setup, server, fleet>> /\ server = "serving"
        /\ call' = [tool |-> tool, device |-> device]
        /\ stage' = IF error # None THEN "over" ELSE "request"
        /\ outcome' = error
    BY <1>1 DEF Begin, files
  <1>6. Reach(call.tool, Asked(call.tool, call.device))' = Reach(tool, d)
    BY <1>5, FilesKept DEF d
  <1>7. client' = None \/ ClientOfCall'
    BY <1>1, <1>4, <1>5, <1>6, FilesKept DEF ClientOfCall, ClientTrue
  <1>8. TypeOK'
    <2>1. client' \in Maybe(Clients)
      BY <1>1, <1>4 DEF ClientTrue, Maybe
    <2>. QED  BY <1>1, <1>3, <2>1, ElementsOfShort, BeginTyped
  <1>9. Stages'
    <2>1. error = None => ClientOfCall'
      BY <1>1, <1>4, <1>5, <1>6, FilesKept DEF ClientOfCall, ClientTrue
    <2>2. Served'
      BY <1>2, <1>5, ServedKept
    <2>. QED  BY <1>5, <1>7, <2>1, <2>2 DEF Stages
  <1>10. ServedMeansReadable'
    <2>1. Reachable' = Reach(tool, d)
      BY <1>6 DEF Reachable, Reach
    <2>. QED  BY <1>3, <1>5, <2>1, FilesKept DEF ServedMeansReadable, Justified
  <1>11. outcome' # "report"
    BY <1>3, <1>5, OutcomesAssumption DEF Errors, Outcomes, Maybe
  <1>. QED  BY <1>8, <1>9, <1>10, <1>11, NoReport DEF IInv

LEMMA BeginCloudReadStep ==
    ASSUME IInv, NEW tool \in CloudTools, NEW device \in DeviceIds \cup {None, Unknown},
           BeginCloudRead(tool, device)
    PROVE  IInv'
  <1>1. server = "serving" /\ fleet.ic2_enabled /\ todo' = <<>> /\ Served
    BY DEF BeginCloudRead, IInv, Stages
  <1>2. PICK error :
            /\ error \in {None, "no organisation", "unknown device", "no mapping"}
            /\ Begin(tool, device, error, "request")
            /\ client' = IF error = None
                         THEN CloudClient("read_only", CloudRead(fleet.incontrol2)) ELSE None
    BY DEF BeginCloudRead, CloudTools
  <1>3. /\ UNCHANGED <<setup, server, fleet>>
        /\ call' = [tool |-> tool, device |-> device]
        /\ stage' = IF error # None THEN "over" ELSE "request"
        /\ outcome' = error
    BY <1>2 DEF Begin, files
  <1>4. error \in Maybe(Errors)
    BY <1>2 DEF Errors, Outcomes, Maybe
  <1>. DEFINE R == Reach(tool, Asked(tool, device))
              c == CloudClient("read_only", CloudRead(fleet.incontrol2))
  <1>5. ClientTrue(c, R)
    BY <1>1, CloudClientTrue
  <1>6. Reach(call.tool, Asked(call.tool, call.device))' = R
    BY <1>3, FilesKept
  <1>. HIDE DEF R, c
  <1>7. IF error = None THEN ClientOfCall' ELSE client' = None
    BY <1>2, <1>3, <1>5, <1>6, FilesKept DEF ClientOfCall, ClientTrue, c
  <1>8. TypeOK'
    <2>1. client' \in Maybe(Clients)
      BY <1>2, <1>5 DEF ClientTrue, Maybe, c
    <2>. QED  BY <1>1, <1>2, <1>4, <2>1, ElementsOfShort, BeginTyped
  <1>9. Stages'
    <2>1. Served'
      BY <1>1, <1>3, ServedKept
    <2>. QED  BY <1>1, <1>3, <1>7, <2>1 DEF Stages
  <1>10. outcome' \notin {"report", "no credentials", "no snmp", "no host"}
    BY <1>2, <1>3, OutcomesAssumption DEF Outcomes
  <1>. QED  BY <1>8, <1>9, <1>10, NoReport DEF IInv, ServedMeansReadable

LEMMA BeginDoctorStep ==
    ASSUME IInv, NEW device \in DeviceIds \cup {None, Unknown}, BeginDoctor(device)
    PROVE  IInv'
  <1>. DEFINE d == Named(device)
              error == IF IsAp(d) THEN SnmpError(d) ELSE HttpError(d)
  <1>1. /\ Begin("doctor", device, error, "probing")
        /\ client' = None
        /\ todo' = IF error = None THEN DoctorTiers(d) ELSE <<>>
    BY DEF BeginDoctor
  <1>2. Served
    BY <1>1 DEF Begin, IInv, Stages
  <1>3. /\ error \in Maybe(Errors)
        /\ error \in {"no credentials", "no snmp", "no host"} =>
             /\ d # None
             /\ WrittenCloudOnly(d) \/ (error = "no credentials" /\ IsAp(d))
    BY <1>2, HttpErrorFacts, SnmpErrorFacts, DeviceFacts
  <1>4. error = None => /\ DoctorTiers(d) \in Seq(Tiers \cup Checks) /\ DoctorTiers(d) # <<>>
                        /\ Elements(DoctorTiers(d)) = TiersOf(d)
    BY <1>2, DoctorTiersAreAll
  <1>5. /\ UNCHANGED <<setup, server, fleet>> /\ server = "serving"
        /\ call' = [tool |-> "doctor", device |-> device]
        /\ stage' = IF error # None THEN "over" ELSE "probing"
        /\ outcome' = error
        /\ report' = NoVerdicts
    BY <1>1 DEF Begin, files
  <1>6. Named(call.device)' = d
    BY <1>5 DEF Named
  <1>7. TypeOK'
    <2>1. todo' \in Seq(Tiers \cup Checks)
      BY <1>1, <1>4, ElementsOfShort
    <2>. HIDE DEF error
    <2>. QED  BY <1>1, <1>3, <2>1, BeginTyped DEF Doctors, Maybe
  <1>8. error = None => DoctorAtWork'
    <2>. SUFFICES ASSUME error = None PROVE DoctorAtWork'
      OBVIOUS
    <2>1. Examinable'
      BY <1>5, <1>6 DEF Examinable, IsAp, SnmpError, HttpError, Device
    <2>2. TiersOf(Named(call.device))' = TiersOf(d)
      BY <1>5, <1>6 DEF TiersOf, IsAp, Device
    <2>3. DOMAIN report' = {}
      BY <1>5 DEF NoVerdicts
    <2>4. OnTheList'
      BY <1>1, <1>4, <1>5, <2>2, <2>3 DEF OnTheList, Elements
    <2>5. VerdictsTrue'
      BY <2>3 DEF VerdictsTrue
    <2>6. todo' # <<>>
      BY <1>1, <1>4
    <2>. QED  BY <2>1, <2>4, <2>5, <2>6 DEF DoctorAtWork
  <1>. HIDE DEF error, d
  <1>9. Stages'
    <2>1. Served'
      BY <1>2, <1>5, ServedKept
    <2>. QED  BY <1>1, <1>5, <1>8, <2>1 DEF Stages
  <1>10. ServedMeansReadable'
    <2>1. d \in Reachable'
      BY <1>5, <1>6 DEF Reachable, Asked, Named
    <2>. QED  BY <1>3, <1>5, <2>1, FilesKept DEF ServedMeansReadable
  <1>11. outcome' # "report"
    BY <1>3, <1>5, OutcomesAssumption DEF Errors, Outcomes, Maybe
  <1>. QED  BY <1>7, <1>9, <1>10, <1>11, NoReport DEF IInv

\* What the cloud doctor is to probe: what it owes, and what it asks with the token.
CloudTodo(groups) ==
    (<<"token_grant", "list_orgs">> \o (IF groups THEN <<"list_groups">> ELSE <<>>))
        \o (IF WritesApart(fleet.incontrol2)
            THEN <<"admin_token_grant">> ELSE <<>>)

LEMMA CloudTodoIsAll ==
    ASSUME NEW groups \in BOOLEAN
    PROVE  /\ CloudTodo(groups) \in Seq(Tiers \cup Checks) /\ CloudTodo(groups) # <<>>
           /\ CloudOwed \subseteq Elements(CloudTodo(groups))
           /\ Elements(CloudTodo(groups)) \subseteq CloudOwed \cup {"list_orgs", "list_groups"}
  <1>. DEFINE first == <<"token_grant", "list_orgs">>
              second == IF groups THEN <<"list_groups">> ELSE <<>>
              third == IF WritesApart(fleet.incontrol2)
                       THEN <<"admin_token_grant">> ELSE <<>>
              reads == first \o second
              S == Tiers \cup Checks
  <1>1. {"token_grant", "list_orgs", "list_groups", "admin_token_grant"} \subseteq S
    BY DEF Checks
  <1>2. /\ first \in Seq(S) /\ Elements(first) = {"token_grant", "list_orgs"}
        /\ second \in Seq(S) /\ Elements(second) = IF groups THEN {"list_groups"} ELSE {}
        /\ third \in Seq(S)
        /\ Elements(third) = CloudOwed \ {"token_grant"}
    BY <1>1, ElementsOfShort DEF CloudOwed
  <1>3. CloudTodo(groups) = reads \o third
    BY DEF CloudTodo
  <1>. HIDE DEF first, second, third, S
  <1>4. reads \in Seq(S) /\ Elements(reads) = Elements(first) \cup Elements(second)
    BY <1>2, ElementsOfConcat
  <1>. HIDE DEF reads
  <1>5. /\ CloudTodo(groups) \in Seq(S)
        /\ Elements(CloudTodo(groups)) = Elements(reads) \cup Elements(third)
    BY <1>2, <1>3, <1>4, ElementsOfConcat
  <1>6. "token_grant" \in CloudOwed
    BY DEF CloudOwed
  <1>7. /\ CloudOwed \subseteq Elements(CloudTodo(groups))
        /\ Elements(CloudTodo(groups)) \subseteq CloudOwed \cup {"list_orgs", "list_groups"}
    BY <1>2, <1>4, <1>5, <1>6
  <1>8. CloudTodo(groups) # <<>>
    BY <1>6, <1>7, ElementsOfShort
  <1>. QED  BY <1>5, <1>7, <1>8 DEF S

LEMMA BeginCloudDoctorStep ==
    ASSUME IInv, BeginCloudDoctor
    PROVE  IInv'
  <1>. DEFINE error == IF fleet.ic2_enabled THEN None ELSE "no credentials"
  <1>1. PICK groups \in BOOLEAN :
            /\ Begin("ic2-doctor", None, error, "probing")
            /\ client' = None
            /\ todo' = IF ~fleet.ic2_enabled THEN <<>>
                       ELSE <<"token_grant", "list_orgs">>
                            \o (IF groups THEN <<"list_groups">> ELSE <<>>)
                            \o (IF WritesApart(fleet.incontrol2)
                                THEN <<"admin_token_grant">> ELSE <<>>)
    BY DEF BeginCloudDoctor
  <1>2. Served
    BY <1>1 DEF Begin, IInv, Stages
  <1>3. todo' = IF ~fleet.ic2_enabled THEN <<>> ELSE CloudTodo(groups)
    BY <1>1 DEF CloudTodo
  <1>4. error \in Maybe(Errors) /\ (error = None <=> fleet.ic2_enabled)
    BY OutcomesAssumption DEF Errors, Outcomes, Maybe
  <1>5. /\ UNCHANGED <<setup, server, fleet>> /\ server = "serving"
        /\ call' = [tool |-> "ic2-doctor", device |-> None]
        /\ stage' = IF error # None THEN "over" ELSE "probing"
        /\ outcome' = error
        /\ report' = NoVerdicts
    BY <1>1 DEF Begin, files
  <1>. HIDE DEF error
  <1>6. TypeOK'
    <2>1. todo' \in Seq(Tiers \cup Checks)
      BY <1>3, CloudTodoIsAll, ElementsOfShort
    <2>. QED  BY <1>1, <1>4, <2>1, BeginTyped DEF Doctors, Maybe
  <1>7. error = None => DoctorAtWork'
    <2>. SUFFICES ASSUME error = None PROVE DoctorAtWork'
      OBVIOUS
    <2>1. Examinable'
      BY <1>4, <1>5 DEF Examinable
    <2>2. CloudOwed' = CloudOwed
      BY <1>5 DEF CloudOwed
    <2>3. DOMAIN report' = {}
      BY <1>5 DEF NoVerdicts
    <2>4. OnTheList'
      BY <1>3, <1>4, <1>5, <2>2, <2>3, CloudTodoIsAll DEF OnTheList, Elements
    <2>5. VerdictsTrue'
      BY <2>3 DEF VerdictsTrue
    <2>6. todo' # <<>>
      BY <1>3, <1>4, CloudTodoIsAll
    <2>. QED  BY <2>1, <2>4, <2>5, <2>6 DEF DoctorAtWork
  <1>8. Stages'
    <2>1. Served'
      BY <1>2, <1>5, ServedKept
    <2>. QED  BY <1>1, <1>5, <1>7, <2>1 DEF Stages
  <1>9. ServedMeansReadable'
    BY <1>5 DEF ServedMeansReadable
  <1>10. outcome' # "report"
    BY <1>4, <1>5, OutcomesAssumption DEF Errors, Outcomes, Maybe
  <1>. QED  BY <1>6, <1>8, <1>9, <1>10, NoReport DEF IInv

-----------------------------------------------------------------------------
(* The request of a read tool.                                             *)

LEMMA RequestTyped ==
    ASSUME IInv, stage = "request"
    PROVE  /\ client \in Clients /\ SessionOf(client) \in Maybe(DeviceIds) \X Tiers
           /\ ClientOfCall /\ Served
  BY DEF IInv, Stages, ClientOfCall, ClientTrue, Clients, SessionOf

LEMMA RequestOver ==
    ASSUME IInv, stage = "request", stage' = "over",
           outcome' \in {"no gateway", "answered", "failed"},
           sessions' \subseteq Maybe(DeviceIds) \X Tiers, accepted' \subseteq Credentials,
           UNCHANGED <<setup, server, fleet, valid, call, client, todo, report>>
    PROVE  IInv'
  <1>1. Served' /\ ClientOfCall'
    BY RequestTyped, ServedKept, ClientKept
  <1>2. TypeOK'
    BY DEF IInv, TypeOK, Outcomes, Maybe
  <1>3. Stages'
    BY <1>1 DEF IInv, Stages
  <1>4. ServedMeansReadable'
    BY DEF ServedMeansReadable
  <1>. QED  BY <1>2, <1>3, <1>4, NoReport DEF IInv

LEMMA AnsweredStep ==
    ASSUME IInv, Answered
    PROVE  IInv'
  <1>1. /\ stage = "request" /\ stage' = "over" /\ outcome' \in {"no gateway", "answered"}
        /\ UNCHANGED <<setup, server, fleet, valid, call, client, todo, report>>
    BY DEF Answered, files
  <1>2. /\ sessions' = sessions \/ sessions' = sessions \cup {SessionOf(client)}
        /\ accepted' = accepted \/ (client.credential \in valid
                                    /\ accepted' = accepted \cup {client.credential})
    BY DEF Answered
  <1>3. /\ sessions' \subseteq Maybe(DeviceIds) \X Tiers
        /\ accepted' \subseteq Credentials
    BY <1>1, <1>2, RequestTyped DEF IInv, TypeOK
  <1>. QED  BY <1>1, <1>3, RequestOver

LEMMA RequestFailsStep ==
    ASSUME IInv, RequestFails
    PROVE  IInv'
  <1>1. /\ stage = "request" /\ stage' = "over" /\ outcome' = "failed"
        /\ UNCHANGED <<setup, server, fleet, valid, call, client, todo, report, accepted>>
    BY DEF RequestFails, files
  <1>2. sessions' \subseteq sessions \cup {SessionOf(client)}
    BY DEF RequestFails
  <1>3. /\ sessions' \subseteq Maybe(DeviceIds) \X Tiers
        /\ accepted' \subseteq Credentials
    BY <1>1, <1>2, RequestTyped DEF IInv, TypeOK
  <1>. QED  BY <1>1, <1>3, RequestOver

-----------------------------------------------------------------------------
(* A probe of a doctor.                                                    *)

LEMMA ProbeClientTrue ==
    ASSUME Served, Examinable, OnTheList, NEW tier \in Elements(todo)
    PROVE  ClientTrue(ProbeClient(tier), Reach(call.tool, Asked(call.tool, call.device)))
  <1>. DEFINE R == Reach(call.tool, Asked(call.tool, call.device))
              d == Named(call.device)
  <1>1. CASE call.tool = "doctor"
    <2>1. d \in R
      BY <1>1 DEF Reach, Asked
    <2>2. tier \in TiersOf(d)
      BY <1>1 DEF OnTheList
    <2>. HIDE DEF R
    <2>3. CASE IsAp(d)
      <3>1. ProbeClient(tier) = SnmpClient(d, tier) /\ SnmpError(d) = None
        BY <1>1, <2>3 DEF ProbeClient, Examinable
      <3>2. tier \in Tiers
        BY <2>2, <2>3 DEF TiersOf, Tiers
      <3>. QED  BY <2>1, <3>1, <3>2, SnmpClientTrue DEF R
    <2>4. CASE ~IsAp(d)
      <3>1. ProbeClient(tier) = HttpClient(d, tier) /\ HttpError(d) = None
        BY <1>1, <2>4 DEF ProbeClient, Examinable
      <3>2. tier \in Tiers /\ Device(d).auth[tier] # None
        BY <2>2, <2>4 DEF TiersOf
      <3>. QED  BY <2>1, <3>1, <3>2, HttpClientTrue DEF R
    <2>. QED  BY <2>3, <2>4
  <1>2. CASE call.tool # "doctor"
    <2>1. call.tool = "ic2-doctor" /\ fleet.ic2_enabled
      BY <1>2 DEF Examinable
    <2>2. tier \in CloudOwed \cup {"list_orgs", "list_groups"}
      BY <1>2 DEF OnTheList
    <2>3. ProbeClient(tier) = IF tier = "admin_token_grant"
                              THEN CloudClient("admin", CloudWrite(fleet.incontrol2))
                              ELSE CloudClient("read_only", CloudRead(fleet.incontrol2))
      BY <2>1 DEF ProbeClient
    <2>4. tier = "admin_token_grant" => CloudWrite(fleet.incontrol2) # None
      BY <2>2 DEF CloudOwed, WritesApart
    <2>. HIDE DEF R
    <2>. QED  BY <2>1, <2>3, <2>4, CloudClientTrue DEF R
  <1>. QED  BY <1>1, <1>2

\* A report that is complete, or that says of a request to the cloud that it failed.
Finished ==
    /\ Examinable
    /\ VerdictsTrue
    /\ \/ \E t \in DOMAIN report : ~report[t] /\ call.tool # "doctor"
       \/ IF call.tool = "doctor" THEN DOMAIN report = TiersOf(Named(call.device))
          ELSE CloudOwed \subseteq DOMAIN report

LEMMA FinishedTrue == Served /\ Finished => DoctorOkMeansAccepted /\ EveryTierHasAVerdict
  <1>. SUFFICES ASSUME Served, Finished PROVE DoctorOkMeansAccepted /\ EveryTierHasAVerdict
    OBVIOUS
  <1>. DEFINE d == Named(call.device)
  <1>1. EveryTierHasAVerdict
    BY DEF Finished, EveryTierHasAVerdict, Owed, TiersOf
  <1>2. ASSUME \A t \in DOMAIN report : report[t], call.tool = "doctor"
        PROVE  Examined \subseteq accepted
    <2>1. DOMAIN report = TiersOf(d)
      BY <1>2 DEF Finished
    <2>2. ASSUME NEW t \in TiersOf(d)
          PROVE  ProbeClient(t).credential \in accepted
      <3>1. t \in DOMAIN report /\ ~UsesToken(t)
        BY <2>1 DEF TiersOf, UsesToken, Tiers
      <3>. QED  BY <1>2, <3>1 DEF Finished, VerdictsTrue
    <2>3. CASE IsAp(d)
      <3>1. SnmpError(d) = None
        BY <1>2, <2>3 DEF Finished, Examinable
      <3>2. /\ SnmpClient(d, "read_only").credential \in accepted
            /\ SnmpClient(d, "config_read").credential \in accepted
        <4>1. \A t : ProbeClient(t) = SnmpClient(d, t)
          BY <1>2, <2>3 DEF ProbeClient
        <4>2. "read_only" \in TiersOf(d) /\ "config_read" \in TiersOf(d)
          BY <2>3 DEF TiersOf
        <4>. QED  BY <2>2, <4>1, <4>2
      <3>3. Examined = {Device(d).snmp.community, Device(d).snmp.config_community} \ {None}
        BY <1>2, <2>3 DEF Examined
      <3>4. "read_only" \in Tiers
        BY DEF Tiers
      <3>. QED  BY <3>1, <3>2, <3>3, <3>4, SnmpClientTrue
    <2>4. CASE ~IsAp(d)
      <3>1. \A t : ProbeClient(t) = HttpClient(d, t)
        BY <1>2, <2>4 DEF ProbeClient
      <3>2. Examined = { Device(d).auth[t] : t \in Tiers } \ {None}
        BY <1>2, <2>4 DEF Examined
      <3>3. TiersOf(d) = { t \in Tiers : Device(d).auth[t] # None }
        BY <2>4 DEF TiersOf
      <3>4. \A t : ProbeClient(t).credential = Device(d).auth[t]
        BY <3>1 DEF HttpClient
      <3>. QED  BY <2>2, <3>2, <3>3, <3>4
    <2>. QED  BY <2>3, <2>4
  <1>3. ASSUME \A t \in DOMAIN report : report[t], call.tool # "doctor"
        PROVE  Examined \subseteq accepted
    <2>1. call.tool = "ic2-doctor" /\ CloudOwed \subseteq DOMAIN report
      BY <1>3 DEF Finished, Examinable
    <2>2. \A t \in CloudOwed : ProbeClient(t).credential \in accepted
      BY <1>3, <2>1 DEF Finished, VerdictsTrue, CloudOwed, UsesToken
    <2>3. /\ ProbeClient("token_grant").credential = CloudRead(fleet.incontrol2)
          /\ ProbeClient("admin_token_grant").credential = CloudWrite(fleet.incontrol2)
      BY <2>1 DEF ProbeClient, CloudClient
    <2>4. Examined = {CloudRead(fleet.incontrol2), CloudWrite(fleet.incontrol2)} \ {None}
      BY <2>1 DEF Examined
    <2>5. ~WritesApart(fleet.incontrol2)
          => CloudWrite(fleet.incontrol2) \in {None, CloudRead(fleet.incontrol2)}
      BY DEF WritesApart, CloudWrite, CloudRead, FirstNonEmpty
    <2>. QED  BY <2>2, <2>3, <2>4, <2>5 DEF CloudOwed
  <1>. QED  BY <1>1, <1>2, <1>3 DEF DoctorOkMeansAccepted

LEMMA ProbeStep ==
    ASSUME IInv, Probe
    PROVE  IInv'
  <1>. DEFINE tier == Head(todo)
  <1>1. PICK ok \in BOOLEAN :
            /\ client' = ProbeClient(tier)
            /\ \/ (ok => LoggedIn(tier)) /\ UNCHANGED accepted
               \/ client'.credential \in valid /\ accepted' = accepted \cup {client'.credential}
            /\ report' = [t \in DOMAIN report \cup {tier} |-> IF t = tier THEN ok ELSE report[t]]
            /\ todo' = Rest(tier, ok)
            /\ stage' = IF todo' = <<>> THEN "over" ELSE "probing"
            /\ outcome' = IF todo' = <<>> THEN "report" ELSE None
    BY DEF Probe
  <1>2. stage = "probing" /\ UNCHANGED <<setup, server, fleet, valid, sessions, call>>
    BY DEF Probe, files, remote
  <1>3. server = "serving" /\ Served /\ DoctorAtWork
    BY <1>2 DEF IInv, Stages
  <1>4. /\ todo \in Seq(Tiers \cup Checks) /\ todo # <<>>
        /\ IsPartialFunction(report, Tiers \cup Checks, BOOLEAN)
    BY <1>3 DEF IInv, TypeOK, DoctorAtWork
  <1>5. /\ tier \in Tiers \cup Checks /\ Tail(todo) \in Seq(Tiers \cup Checks)
        /\ Elements(todo) = {tier} \cup Elements(Tail(todo))
    BY <1>4, HeadAndTail
  <1>. HIDE DEF tier
  <1>6. ClientTrue(ProbeClient(tier), Reach(call.tool, Asked(call.tool, call.device)))
    BY <1>3, <1>5, ProbeClientTrue DEF DoctorAtWork
  <1>7. ClientOfCall'
    BY <1>1, <1>2, <1>6, FilesKept DEF ClientOfCall, ClientTrue
  <1>8. TypeOK'
    <2>1. client' \in Clients /\ accepted' \subseteq Credentials
      BY <1>1, <1>6 DEF ClientTrue, IInv, TypeOK
    <2>2. todo' \in Seq(Tiers \cup Checks)
      BY <1>1, <1>5, ElementsOfShort DEF Rest
    <2>3. IsPartialFunction(report, Tiers \cup Checks, BOOLEAN)'
      BY <1>1, <1>4, <1>5 DEF IsPartialFunction
    <2>. QED  BY <1>1, <1>2, <2>1, <2>2, <2>3 DEF IInv, TypeOK, Outcomes, Maybe
  <1>9. Examinable' /\ VerdictsTrue'
    <2>1. Examinable'
      BY <1>2, <1>3 DEF DoctorAtWork, Examinable, Named, IsAp, SnmpError, HttpError, Device
    <2>2. \A t : ProbeClient(t)' = ProbeClient(t)
      BY <1>2 DEF ProbeClient, Named, IsAp, Device, HttpClient, SnmpClient
    <2>3. ok /\ ~UsesToken(tier) => ProbeClient(tier).credential \in accepted'
      BY <1>1 DEF LoggedIn
    <2>4. accepted \subseteq accepted'
      BY <1>1
    <2>5. /\ DOMAIN report' = DOMAIN report \cup {tier}
          /\ \A t \in DOMAIN report' : report'[t] = IF t = tier THEN ok ELSE report[t]
      BY <1>1
    <2>6. \A t \in DOMAIN report : report[t] /\ ~UsesToken(t) => ProbeClient(t).credential \in accepted
      BY <1>3 DEF DoctorAtWork, VerdictsTrue
    <2>7. \A t \in DOMAIN report' :
              report'[t] /\ ~UsesToken(t) => ProbeClient(t).credential \in accepted'
      BY <2>3, <2>4, <2>5, <2>6
    <2>8. VerdictsTrue'
      BY <2>2, <2>7 DEF VerdictsTrue, UsesToken
    <2>. QED  BY <2>1, <2>8
  <1>. DEFINE listed == Elements(todo) \cup DOMAIN report
              left == Elements(Tail(todo)) \cup (DOMAIN report \cup {tier})
  <1>10. left = listed /\ DOMAIN report' = DOMAIN report \cup {tier}
    BY <1>1, <1>5
  <1>11. CASE todo' # <<>>
    <2>1. todo' = Tail(todo)
      BY <1>1, <1>11 DEF Rest
    <2>2. OnTheList'
      <3>1. TiersOf(Named(call.device))' = TiersOf(Named(call.device)) /\ CloudOwed' = CloudOwed
        BY <1>2 DEF TiersOf, CloudOwed, Named, IsAp, Device
      <3>2. Elements(todo)' \cup DOMAIN report' = listed
        BY <1>10, <2>1 DEF Elements
      <3>. QED  BY <1>2, <1>3, <3>1, <3>2 DEF OnTheList, DoctorAtWork
    <2>3. DoctorAtWork'
      BY <1>9, <1>11, <2>2 DEF DoctorAtWork
    <2>4. Stages'
      BY <1>1, <1>2, <1>3, <1>7, <1>11, <2>3, ServedKept DEF Stages
    <2>5. outcome' = None
      BY <1>1, <1>11
    <2>6. outcome' # "report" /\ ServedMeansReadable'
      BY <2>5, OutcomesAssumption DEF ServedMeansReadable, Outcomes
    <2>. QED  BY <1>8, <2>4, <2>6, NoReport DEF IInv
  <1>12. CASE todo' = <<>>
    <2>1. Stages'
      BY <1>1, <1>2, <1>3, <1>7, <1>12, ServedKept DEF Stages
    <2>2. outcome' = "report"
      BY <1>1, <1>12
    <2>3. ServedMeansReadable'
      BY <2>2 DEF ServedMeansReadable
    <2>4. Finished'
      <3>1. call.tool = "doctor" => tier \in Tiers
        BY <1>3, <1>5 DEF DoctorAtWork, OnTheList, TiersOf, Tiers
      <3>2. CASE todo' = Tail(todo)
        <4>1. DOMAIN report' = listed
          BY <1>10, <1>12, <3>2, ElementsOfShort
        <4>2. TiersOf(Named(call.device))' = TiersOf(Named(call.device)) /\ CloudOwed' = CloudOwed
          BY <1>2 DEF TiersOf, CloudOwed, Named, IsAp, Device
        <4>. QED  BY <1>2, <1>3, <1>9, <4>1, <4>2 DEF Finished, DoctorAtWork, OnTheList
      <3>3. CASE todo' # Tail(todo)
        <4>1. ~ok /\ tier \notin Tiers
          BY <1>1, <3>3 DEF Rest, Tiers
        <4>2. tier \in DOMAIN report' /\ ~report'[tier] /\ call'.tool # "doctor"
          BY <1>1, <1>2, <3>1, <4>1
        <4>. QED  BY <1>9, <4>2 DEF Finished
      <3>. QED  BY <3>2, <3>3
    <2>5. Served'
      BY <1>2, <1>3, ServedKept
    <2>6. DoctorOkMeansAccepted' /\ EveryTierHasAVerdict'
      BY <2>4, <2>5, FinishedTrue, PTL
    <2>. QED  BY <1>8, <2>1, <2>3, <2>6 DEF IInv
  <1>. QED  BY <1>11, <1>12

LEMMA ProbeRaisesStep ==
    ASSUME IInv, ProbeRaises
    PROVE  IInv'
  <1>. DEFINE tier == Head(todo)
  <1>1. /\ stage = "probing" /\ stage' = "over" /\ outcome' = "failed"
        /\ client' = ProbeClient(tier) /\ report' = NoVerdicts /\ todo' = <<>>
        /\ UNCHANGED <<setup, server, fleet, valid, sessions, call, accepted>>
    BY DEF ProbeRaises, files, remote
  <1>2. server = "serving" /\ Served /\ DoctorAtWork
    BY <1>1 DEF IInv, Stages
  <1>3. tier \in Elements(todo)
    BY <1>2, HeadAndTail DEF IInv, TypeOK, DoctorAtWork
  <1>. HIDE DEF tier
  <1>4. ClientTrue(ProbeClient(tier), Reach(call.tool, Asked(call.tool, call.device)))
    BY <1>2, <1>3, ProbeClientTrue DEF DoctorAtWork
  <1>5. ClientOfCall'
    BY <1>1, <1>4, FilesKept DEF ClientOfCall, ClientTrue
  <1>6. TypeOK'
    <2>1. client' \in Clients
      BY <1>1, <1>4 DEF ClientTrue
    <2>2. IsPartialFunction(report, Tiers \cup Checks, BOOLEAN)'
      BY <1>1 DEF NoVerdicts, IsPartialFunction
    <2>3. todo' \in Seq(Tiers \cup Checks)
      BY <1>1, ElementsOfShort
    <2>. QED  BY <1>1, <2>1, <2>2, <2>3 DEF IInv, TypeOK, Outcomes, Maybe
  <1>7. Stages'
    BY <1>1, <1>2, <1>5, ServedKept DEF Stages
  <1>8. ServedMeansReadable' /\ outcome' # "report"
    BY <1>1 DEF ServedMeansReadable
  <1>. QED  BY <1>6, <1>7, <1>8, NoReport DEF IInv

-----------------------------------------------------------------------------

LEMMA ReturnStep ==
    ASSUME IInv, Return
    PROVE  IInv'
  <1>1. /\ stage = "over" /\ stage' = "idle" /\ call' = None /\ client' = None
        /\ report' = NoVerdicts /\ accepted' = {} /\ outcome' = None
        /\ UNCHANGED <<setup, server, fleet, valid, sessions, todo>>
    BY DEF Return, files, remote
  <1>2. IsPartialFunction(report, Tiers \cup Checks, BOOLEAN)'
    BY <1>1 DEF NoVerdicts, IsPartialFunction
  <1>3. TypeOK'
    BY <1>1, <1>2 DEF IInv, TypeOK, Maybe
  <1>4. Stages'
    BY <1>1, ServedKept DEF IInv, Stages
  <1>5. outcome' \notin {"report", "no credentials", "no snmp", "no host"}
    BY <1>1, OutcomesAssumption DEF Outcomes
  <1>. QED  BY <1>3, <1>4, <1>5, NoReport DEF IInv, ServedMeansReadable

\* Only what the devices accept and the sessions changed, if anything.
LEMMA CallKept ==
    ASSUME IInv, valid' \subseteq valid, sessions' \subseteq sessions,
           UNCHANGED <<setup, server, fleet, stage, call, client, todo, report, accepted, outcome>>
    PROVE  IInv'
  <1>1. TypeOK'
    BY DEF IInv, TypeOK
  <1>2. Stages'
    <2>1. server = "serving" => Served'
      BY ServedKept DEF IInv, Stages
    <2>2. ClientOfCall => ClientOfCall'
      BY ClientKept
    <2>3. DoctorAtWork => DoctorAtWork'
      BY DoctorKept
    <2>. QED  BY <2>1, <2>2, <2>3 DEF IInv, Stages
  <1>. QED  BY <1>1, <1>2, ReadableKept, DoctorKept DEF IInv

LEMMA NextInv == IInv /\ [Next]_vars => IInv'
  <1>. SUFFICES ASSUME IInv, [Next]_vars PROVE IInv'
    OBVIOUS
  <1>1. ASSUME NEW credential \in Credentials, Revoke(credential)
        PROVE  IInv'
    BY <1>1, CallKept DEF Revoke, files
  <1>2. ASSUME NEW s \in sessions, EndSession(s)
        PROVE  IInv'
    BY <1>2, CallKept DEF EndSession, files
  <1>3. CASE UNCHANGED vars
    BY <1>3, CallKept DEF vars, files, remote
  <1>. QED
    BY <1>1, <1>2, <1>3, StartStep, BeginReadStep, BeginCloudReadStep, AnsweredStep,
       RequestFailsStep, BeginDoctorStep, BeginCloudDoctorStep, ProbeStep,
       ProbeRaisesStep, ReturnStep DEF Next

LEMMA Invariance == Spec => []IInv
  BY InitInv, NextInv, PTL DEF Spec

\* The server, the calls and the reports stay within their types.
THEOREM TypesKept == Spec => []TypeOK
  <1>1. IInv => TypeOK
    BY DEF IInv
  <1>. QED  BY Invariance, <1>1, PTL

\* For all files: the address and the credential of a request are those written for
\* the device asked or its gateway (config.py, runtime.py, registry.py).
THEOREM CredentialsStay == Spec => []CredentialStaysWithItsDevice
  <1>1. IInv => CredentialStaysWithItsDevice
    <2>. SUFFICES ASSUME IInv PROVE CredentialStaysWithItsDevice
      OBVIOUS
    <2>1. client # None => ClientOfCall
      BY DEF IInv, Stages
    <2>2. Reachable = Reach(call.tool, Asked(call.tool, call.device))
      BY DEF Reachable, Reach
    <2>. QED  BY <2>1, <2>2 DEF CredentialStaysWithItsDevice, ClientOfCall, ClientTrue
  <1>. QED  BY Invariance, <1>1, PTL

\* For all files the checks at the start let through: a read misses a credential or
\* an address only where the device is in the cloud only or an access point is
\* asked over HTTP (config.py, bootstrap.py).
THEOREM ServersRead == Spec => []ServedMeansReadable
  <1>1. IInv => ServedMeansReadable
    BY DEF IInv
  <1>. QED  BY Invariance, <1>1, PTL

\* A report without a failure means that each credential was accepted for it
\* (doctor.py of peplink_core and of peplink_ic2).
THEOREM DoctorsTrue == Spec => []DoctorOkMeansAccepted
  <1>1. IInv => DoctorOkMeansAccepted
    BY DEF IInv
  <1>. QED  BY Invariance, <1>1, PTL

\* A report on a device has exactly the verdicts it owes.
THEOREM ReportsComplete == Spec => []EveryTierHasAVerdict
  <1>1. IInv => EveryTierHasAVerdict
    BY DEF IInv
  <1>. QED  BY Invariance, <1>1, PTL
=============================================================================
