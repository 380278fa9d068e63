----------------------------- MODULE MCReadTools -----------------------------
(***************************************************************************)
(* ReadTools for TLC: a gateway, a second device of every kind the files   *)
(* can make of it, with its credentials and its address in config.yaml,    *)
(* in secrets.yaml, in a profile or nowhere, and the setups of             *)
(* secrets.conf with one or two devices.                                   *)
(***************************************************************************)
EXTENDS ReadTools, TLC

CONSTANTS mainId, leaf, hubId, addr1, addr2, addr3, profile, other,
          gwRead, gwAdmin, leafRead, leafConf, profRead, baseRead,
          status, settings, cloudBase, cloudAdmin

Auth(read, config, admin) ==
    ("read_only" :> read) @@ ("config_read" :> config) @@ ("admin" :> admin)
Cloud(auth, read, admin) ==
    ("auth" :> auth) @@ ("read_only" :> read) @@ ("admin" :> admin)
Snmp(community, config) == [community |-> community, config_community |-> config]

NoSecret == [auth |-> None, auth_profile |-> None, snmp |-> None, ic2 |-> FALSE, host |-> None]

Gateway == [EmptyEntry EXCEPT !.host = addr1]

Leaves ==
    { [EmptyEntry EXCEPT !.kind = "switch", !.management = "gateway", !.via = mainId, !.discover = addr2],
      [EmptyEntry EXCEPT !.kind = "switch", !.management = "gateway", !.host = addr2],
      [EmptyEntry EXCEPT !.kind = "ap", !.host = addr2, !.snmp = Snmp(status, None)],
      [EmptyEntry EXCEPT !.kind = "ap", !.management = "gateway", !.via = mainId, !.discover = addr2],
      [EmptyEntry EXCEPT !.management = "gateway", !.via = mainId, !.host = addr2,
                         !.auth = Auth(baseRead, baseRead, None)],
      [EmptyEntry EXCEPT !.management = "gateway", !.via = mainId, !.discover = addr1],
      [EmptyEntry EXCEPT !.kind = "fusionhub", !.host = addr2, !.auth = Auth(baseRead, None, None)],
      [EmptyEntry EXCEPT !.ic2 = TRUE],
      EmptyEntry }

LeafSecrets ==
    { [NoSecret EXCEPT !.auth = Auth(leafRead, leafConf, None)],
      [NoSecret EXCEPT !.auth_profile = profile],
      [NoSecret EXCEPT !.snmp = Snmp(status, settings)],
      [NoSecret EXCEPT !.auth = Auth(leafRead, None, leafConf), !.host = addr3],
      [NoSecret EXCEPT !.auth_profile = other],
      [NoSecret EXCEPT !.ic2 = TRUE],
      NoSecret }

Files(entry, secret, default, cloud) ==
    [config |-> [devices |-> (mainId :> Gateway) @@ (leaf :> entry),
                 device_id |-> default, gateway_id |-> default, ic2_enabled |-> cloud,
                 incontrol2 |-> Cloud(cloudBase, None, None)],
     secrets |-> [devices |-> (mainId :> [NoSecret EXCEPT !.auth = Auth(gwRead, None, gwAdmin)])
                              @@ (leaf :> secret),
                  auth_profiles |-> profile :> Auth(profRead, None, None),
                  incontrol2 |-> Cloud(None, None, cloudAdmin)],
     conf |-> Missing, device_id |-> mainId]

Block(host, api, user, admin) ==
    [host |-> host, readonly_api |-> api, userpass |-> user, config_read_api |-> None,
     admin_api |-> None, admin_userpass |-> admin]
NoBlock == Block(None, None, None, None)

Conf(sections, id) ==
    [config |-> Unset, secrets |-> Unset, conf |-> sections, device_id |-> id]
Section(main, second, cloud) == [gateway |-> main, fusionhub |-> second, incontrol2 |-> cloud]

ConfSetups ==
    LET main   == Block(addr1, gwRead, baseRead, gwAdmin)
        bare   == Block(addr2, None, None, leafConf)
        second == Block(addr3, None, leafRead, leafConf)
        cloud  == Cloud(None, cloudBase, cloudAdmin)
    IN  { Conf(<<Section(main, second, cloud)>>, mainId),
          Conf(<<Section(main, second, NoCloudAuth)>>, hubId),
          Conf(<<Section(NoBlock, second, cloud), Section(main, NoBlock, NoCloudAuth)>>, leaf),
          Conf(<<Section(main, NoBlock, NoCloudAuth), Section(bare, second, NoCloudAuth)>>, mainId),
          Conf(<<Section(bare, NoBlock, cloud), Section(main, NoBlock, cloud)>>, mainId),
          Conf(<<Section(NoBlock, second, cloud)>>, mainId) }

MCSetups ==
    LET given == { Files(e, s, mainId, FALSE) : e \in Leaves, s \in LeafSecrets }
        lone  == { Files(e, s, None, FALSE) :
                    e \in { l \in Leaves : l.management = "gateway" }, s \in LeafSecrets }
        plain == Files(EmptyEntry, [NoSecret EXCEPT !.auth = Auth(leafRead, None, None), !.host = addr2],
                       mainId, TRUE)
    IN  given \cup lone \cup ConfSetups
        \cup { plain, [plain EXCEPT !.secrets = Unset], [plain EXCEPT !.secrets = Missing],
               [plain EXCEPT !.config = Missing], [plain EXCEPT !.config = Unset],
               [plain EXCEPT !.secrets.incontrol2 = NoCloudAuth, !.config.incontrol2 = NoCloudAuth] }
=============================================================================
