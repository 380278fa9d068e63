----------------------------- MODULE MCWriteTools -----------------------------
(***************************************************************************)
(* WriteTools for TLC: a gateway and a switch, the fleet configurations    *)
(* that make the precedence rules meet, and one endpoint of each sort the  *)
(* manifest files list.                                                    *)
(***************************************************************************)
EXTENDS WriteTools

CONSTANTS gateway, switch

Router ==
    [kind |-> "router", management |-> "direct", via |-> None, ic2 |-> FALSE,
     config_authority |-> "auto", tiers |-> Tiers, host |-> TRUE]

Switch == [Router EXCEPT !.kind = "switch", !.management = "gateway", !.via = gateway]

FleetOf(g, s, ic2, default) ==
    [devices |-> [d \in {gateway, switch} |-> IF d = gateway THEN g ELSE s],
     device_id |-> default, gateway_id |-> None, ic2 |-> ic2]

\* Which plane: who manages the device, InControl 2's reach, the pin.
AuthorityFleets ==
    { FleetOf(Router, [Switch EXCEPT !.management = m, !.ic2 = i, !.config_authority = a,
                                     !.kind = "router"], plane, switch) :
        m \in {"direct", "gateway"}, i \in BOOLEAN, a \in {"device", "ic2", "auto"},
        plane \in {"off", "read", "write"} }

\* Which gateway: discover.via against defaults.gateway_id, hosts not resolved.
GatewayFleets ==
    { [FleetOf([Router EXCEPT !.host = unresolved # gateway],
               [Switch EXCEPT !.host = unresolved # switch, !.via = v], "off", None)
            EXCEPT !.gateway_id = g] :
        unresolved \in {gateway, switch, None}, v \in {gateway, switch, Unknown, None},
        g \in {gateway, None} }

\* Which credential: the tiers configured for the device.
CredentialFleets ==
    { FleetOf([Router EXCEPT !.tiers = {"read_only"}],
              [Switch EXCEPT !.management = "direct", !.tiers = t], "off", None) :
        t \in SUBSET Tiers }

MCFleets == AuthorityFleets \cup GatewayFleets \cup CredentialFleets

Endpoint(method, path, tier, policy, destructive, kinds, known) ==
    [method |-> method, path |-> path, tier |-> tier, policy |-> policy,
     destructive |-> destructive, kinds |-> kinds, known |-> known]

MCSpecs ==
    { \* cmd.system.reboot, config.wan.connection.priority
      Endpoint("POST", "managed", "admin", "flag", TRUE, {}, TRUE),
      \* cmd.port.poe.enable on routers and switches, config.mesh on routers
      Endpoint("POST", "config", "admin", None, FALSE, {}, TRUE),
      Endpoint("POST", "config", "admin", None, FALSE, {"router"}, TRUE),
      \* status.cellularModule.temperature, auth.client
      Endpoint("POST", "status", "admin", None, FALSE, {}, TRUE),
      Endpoint("POST", "auth", "admin", "flag", FALSE, {}, TRUE),
      \* reads of the configuration, the status and the API clients
      Endpoint("GET", "config", "config_read", None, FALSE, {}, TRUE),
      Endpoint("GET", "status", "read_only", None, FALSE, {}, TRUE),
      Endpoint("GET", "auth", "admin", None, FALSE, {}, TRUE),
      Endpoint("TCP", "auth", "read_only", None, FALSE, {}, TRUE),
      \* what only peplink_invoke can reach
      Endpoint("PUT", "managed", "admin", None, FALSE, {}, FALSE),
      Endpoint("PUT", "auth", "admin", None, FALSE, {}, FALSE),
      \* ic2_set_vlan_config, ic2_set_wan_priority, ic2_reboot_device
      Endpoint("PUT", "group", "admin", "flag", FALSE, {}, TRUE),
      Endpoint("POST", "device", "admin", "flag", FALSE, {}, TRUE),
      Endpoint("POST", "device", "admin", "flag", TRUE, {}, TRUE) }

\* Calls that differ in what the gates look at, and calls of an operator that
\* differ in where they go.
GateCalls ==
    { c \in CallRecords : c.device_id = None /\ c.override = None /\ c.parses }

RouteCalls ==
    { c \in CallRecords :
        /\ c.caller = "admin" /\ c.mcp_tier = "admin" /\ c.confirm
        /\ c.parses \/ (c.override = None /\ c.device_id = switch) }

MCCalls == GateCalls \cup RouteCalls
=============================================================================
