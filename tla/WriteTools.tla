------------------------------ MODULE WriteTools ------------------------------
(***************************************************************************)
(* What a privileged tool call of the MCP server goes through before a     *)
(* request leaves: the manifest tools and peplink_invoke                   *)
(* (manifest_tools.py), and the InControl 2 write tools (ic2_tools.py).    *)
(* A call passes the gates, is routed to a control plane                   *)
(* (config_authority.py) and a device (management.py, registry.py), gets a *)
(* credential tier, is recorded by the audit log and is handed to a        *)
(* client, which behaves as RemoteCall says.  The server runs one call at  *)
(* a time; the invariants hold between any two of its steps, so a process  *)
(* that stops there has broken none of them.                               *)
(*                                                                         *)
(* The configuration is chosen once: `fleet` and `allowed` never change.   *)
(* An operator defined right before one with the same parameters is a      *)
(* fault of the code the properties are tested against.                    *)
(***************************************************************************)
EXTENDS Integers

CONSTANTS
    Devices,      \* the device ids of the fleet
    Unknown,      \* a device id the fleet does not have
    InControl,    \* the cloud: the audit label of a group write, the IC2 client
    None,         \* an absent argument or setting
    Kinds,        \* device kinds
    PolicyKeys,   \* PEPLINK_POLICY_ALLOW_* flags
    Fleets,       \* the fleet configurations considered
    Specs,        \* the endpoints considered
    Calls,        \* the tool calls considered
    MaxAttempts   \* most requests a client sends for one call

Tiers == {"read_only", "config_read", "admin"}

Overrides == {None, "gateway", "device", "other"}

DeviceConfigs ==
    [kind : Kinds, management : {"direct", "gateway"},
     via : Devices \cup {Unknown, None}, ic2 : BOOLEAN,
     config_authority : {"device", "ic2", "auto"},
     tiers : SUBSET Tiers, host : BOOLEAN]

FleetConfigs ==
    [devices : [Devices -> DeviceConfigs],
     device_id : Devices \cup {None}, gateway_id : Devices \cup {None},
     ic2 : {"off", "read", "write"}]

\* "managed": IC2_MANAGED_PATHS; "config": the other /api/config. and /api/cmd.
\* paths; "status": /api/status.; "auth": the rest of the device API.
LanPaths == {"managed", "config", "status", "auth"}
CloudPaths == {"group", "device"}

WriteMethods == {"POST", "PUT"}

SpecRecords ==
    [method : WriteMethods \cup {"GET", "TCP"}, path : LanPaths \cup CloudPaths,
     tier : Tiers, policy : PolicyKeys \cup {None}, destructive : BOOLEAN,
     kinds : SUBSET Kinds, known : BOOLEAN]

\* One PeplinkDeviceClient per credential tier of a device, one IC2Client to write.
Clients == (Devices \X Tiers) \cup {<<InControl, "admin">>}

ASSUME NamesAssumption ==
    /\ {Unknown, InControl, None} \cap Devices = {}
    /\ Unknown # None /\ InControl # None /\ InControl # Unknown
    /\ None \notin PolicyKeys \cup Tiers \cup Clients \cup {"gateway", "device", "other"}
ASSUME FleetsAssumption == Fleets \subseteq FleetConfigs
ASSUME SpecsAssumption == Specs \subseteq SpecRecords
\* Of the manifest files: every write endpoint they list has device tier admin.
ASSUME ManifestAssumption ==
    \A s \in Specs : s.known /\ s.method \in WriteMethods => s.tier = "admin"
ASSUME AttemptsAssumption == MaxAttempts \in Nat \ {0}

CallRecords ==
    { c \in [tool : {"typed", "invoke", "ic2"}, spec : Specs,
             device_id : Devices \cup {Unknown, None}, override : Overrides,
             confirm : BOOLEAN, parses : BOOLEAN,
             caller : {"nobody", "read_only", "admin"},
             mcp_tier : {"read_only", "admin"}] :
        /\ c.tool = "typed" => c.spec.known
        /\ c.tool = "ic2" <=> c.spec.path \in CloudPaths
        \* arguments a tool does not have
        /\ c.tool = "ic2" => c.override = None
        /\ c.tool = "ic2" /\ c.spec.destructive => c.parses
        /\ c.tool # "invoke" => c.mcp_tier = "admin" }

ASSUME CallsAssumption == Calls \subseteq CallRecords

VARIABLES
    fleet,        \* FleetConfig
    allowed,      \* PolicyGate.allowed
    call,         \* the arguments of the running call
    stage,        \* how far it is
    level,        \* WritePlan.level
    handle,       \* handle.device_id, or what an InControl 2 call resolved
    client,       \* the device client chosen
    trail,        \* records the call left in the audit log
    phase, effects, unconfirmed   \* of each client: see RemoteCall

config == <<fleet, allowed>>
locals == <<call, level, handle, client>>
remote == <<phase, effects, unconfirmed>>
vars == <<config, stage, locals, trail, remote>>

Remote == INSTANCE RemoteCall WITH Threads <- Clients

Stages == {"idle", "target", "gates", "route", "client", "record", "invoke",
           "sending", "over"}

Init ==
    /\ fleet \in Fleets
    /\ allowed \in SUBSET PolicyKeys
    /\ call = None
    /\ stage = "idle"
    /\ level = None
    /\ handle = None
    /\ client = None
    /\ trail = {}
    /\ Remote!Init

-----------------------------------------------------------------------------
(* config_authority.py and management.py, over the configuration.          *)

Config(d) == fleet.devices[d]

\* get_device(): the id given, or the default; it raises for any other name.
Named(c) == IF c.device_id # None THEN c.device_id ELSE fleet.device_id

IsGatewayManaged(d) == Config(d).management = "gateway"

\* preferred_authority(): a path without an InControl 2 tool stays on the LAN.
CloudIfPinned(d, path) ==
    fleet.ic2 # "off" /\ path = "managed" /\ Config(d).config_authority = "ic2"
CloudManages(d, path) ==
    /\ fleet.ic2 # "off"
    /\ Config(d).ic2
    /\ path = "managed"
    /\ Config(d).config_authority # "device"

FewerGatewayPaths(d, path) == IsGatewayManaged(d) /\ path = "managed"
GatewayManages(d, path) == IsGatewayManaged(d) /\ path \in {"managed", "config"}

PreferredAuthority(d, path) ==
    IF CloudManages(d, path) THEN "ic2"
    ELSE IF GatewayManages(d, path) THEN "gateway"
    ELSE "device"

\* plan_write_authority(): the level, or why it raises.
PlanLevel(d, path, override) ==
    LET preferred == PreferredAuthority(d, path) IN
    CASE override = "other" -> "invalid"
      [] override # "other" /\ preferred = "ic2" ->
            IF override = None THEN "redirect" ELSE override
      [] override # "other" /\ preferred = "gateway" ->
            IF override = "device" THEN "device" ELSE "gateway"
      [] override # "other" /\ preferred = "device" -> "device"

\* management_gateway_id(), None where it raises.
DefaultGatewayFirst(d) ==
    IF fleet.gateway_id # None THEN fleet.gateway_id
    ELSE IF Config(d).via \in Devices THEN Config(d).via ELSE None
GatewayOf(d) ==
    LET controller == IF Config(d).via # None THEN Config(d).via ELSE fleet.gateway_id
    IN  IF controller \in Devices THEN controller ELSE None

\* DeviceRegistry.get() returns a handle.
Available(d) == "read_only" \in Config(d).tiers /\ Config(d).host

\* resolve_write_handle() and registry.get(), None where they raise.
WriteHandle(d) ==
    LET target == IF IsGatewayManaged(d) THEN GatewayOf(d) ELSE d
    IN  IF Available(d) /\ target # None /\ Available(target) THEN target ELSE None

DeviceHandle(d) == IF Available(d) THEN d ELSE None

-----------------------------------------------------------------------------
(* What the handlers derive from the arguments of a call.                  *)

IsWriteMethod(spec) == spec.method \in WriteMethods

\* is_write of peplink_invoke: some reads count as writes.
CountsAsWrite(spec) ==
    spec.path \in {"managed", "config", "status"} \/ IsWriteMethod(spec)

\* The calls plan_write_authority() is asked about.
IsRouted(c) ==
    IF c.tool = "invoke"
    THEN CountsAsWrite(c.spec)
    ELSE IsWriteMethod(c.spec) /\ c.spec.path \in {"managed", "config", "status"}

RequiredTier(c) ==
    CASE c.tool = "typed" ->
            IF IsWriteMethod(c.spec) \/ c.spec.tier = "admin" THEN "admin" ELSE "read_only"
      [] c.tool = "invoke" -> IF CountsAsWrite(c.spec) THEN "admin" ELSE c.mcp_tier
      [] c.tool = "ic2" -> "admin"

PolicyKey(c) == IF c.tool = "invoke" /\ ~c.spec.known THEN None ELSE c.spec.policy

TypedConfirmOnly(c) == c.tool # "invoke" /\ c.spec.destructive
NeedsConfirm(c) ==
    CASE c.tool = "typed" -> c.spec.destructive
      [] c.tool = "invoke" -> IF c.spec.known THEN c.spec.destructive ELSE CountsAsWrite(c.spec)
      [] c.tool = "ic2" -> TRUE

\* require_tier(), require_policy() and the confirm test raise nothing.
Permitted(c) ==
    /\ c.caller = "admin" \/ c.caller = RequiredTier(c)
    /\ PolicyKey(c) # None => PolicyKey(c) \in allowed
    /\ NeedsConfirm(c) => c.confirm

AuditNamed(c, h) == Named(c)
AuditedDevice(c, h) == h

Tier(d, tier) == IF tier \in Config(d).tiers THEN tier ELSE None

OrElse(tier, other) == IF tier # None THEN tier ELSE other

\* _device_client_for_spec().
TypedTier(d, spec) ==
    CASE spec.tier = "admin" -> Tier(d, "admin")
      [] spec.tier = "config_read" -> OrElse(Tier(d, "config_read"), Tier(d, "admin"))
      [] spec.tier = "read_only" ->
            IF spec.path \in {"managed", "config"}
            THEN OrElse(Tier(d, "config_read"), "read_only") ELSE "read_only"

\* peplink_invoke's own choice, None where it raises.
AnyTier(d, c) == OrElse(Tier(d, "admin"), OrElse(Tier(d, "config_read"), "read_only"))
InvokeTier(d, c) ==
    LET elevated == OrElse(Tier(d, "config_read"), Tier(d, "admin")) IN
    CASE IsWriteMethod(c.spec) -> OrElse(Tier(d, "admin"), Tier(d, "config_read"))
      [] ~IsWriteMethod(c.spec) /\ c.spec.path \in {"managed", "config"} -> elevated
      [] OTHER -> "read_only"

ClientTier(c, d) ==
    IF c.tool = "typed" THEN TypedTier(d, c.spec) ELSE InvokeTier(d, c)

\* The plan of a routed call; other calls go to the device they name.
PlanOf(c) ==
    IF IsRouted(c) THEN PlanLevel(Named(c), c.spec.path, c.override) ELSE None

\* _resolve_handle(), and the same choice in peplink_invoke.
RouteTarget(c) ==
    IF PlanOf(c) \in {"redirect", "invalid"} THEN None
    ELSE IF PlanOf(c) = "gateway" THEN WriteHandle(Named(c))
    ELSE DeviceHandle(Named(c))

\* _assert_device_kind(), which only the typed tools call.
Supported(c, d) ==
    \/ c.tool = "invoke"
    \/ c.spec.kinds = {}
    \/ Config(d).kind \in c.spec.kinds

-----------------------------------------------------------------------------
(* The steps of a call.                                                    *)

Goto(next) == stage' = next

\* An exception ends the call; nothing was sent.
Raise == Goto("over") /\ UNCHANGED <<config, locals, trail, remote>>

\* Which tools the server registers for this fleet.
IsRegistered(c) ==
    /\ c.tool = "ic2" => fleet.ic2 # "off"
    /\ c.tool = "typed" /\ IsWriteMethod(c.spec) =>
            \E d \in Devices : "admin" \in Config(d).tiers

Begin ==
    /\ stage = "idle"
    /\ \E c \in Calls :
        /\ IsRegistered(c)
        /\ call' = c
        /\ Goto(IF c.tool = "ic2" THEN "target" ELSE "gates")
    /\ UNCHANGED <<config, level, handle, client, trail, remote>>

\* A group named by its own ids, not by a device in it; what the log then says.
GroupByIds(c) == c.spec.path = "group" /\ c.device_id = None

LabelByPath(c) == IF c.spec.path = "group" THEN InControl ELSE Named(c)
CloudLabel(c) == IF GroupByIds(c) THEN InControl ELSE Named(c)

\* _resolve_target() and _group_scope(), before the gates.  The lookup reads
\* InControl 2 and may fail.
ResolveTarget ==
    /\ stage = "target"
    /\ \/ Raise
       \/ /\ GroupByIds(call) \/ (Named(call) \in Devices /\ Config(Named(call)).ic2)
          /\ handle' = CloudLabel(call)
          /\ Goto("gates")
          /\ UNCHANGED <<config, call, level, client, trail, remote>>

SwallowDenial == Goto("route")
StopCall == Goto("over")

\* _run_gates().
RunGates ==
    /\ stage = "gates"
    /\ call.tool # "ic2"
    /\ IF Permitted(call)
       THEN Goto("route") /\ UNCHANGED trail
       ELSE /\ trail' = trail \cup {[decision |-> "deny", device |-> Named(call)]}
            /\ StopCall
    /\ UNCHANGED <<config, locals, remote>>

\* _write_gates() of the InControl 2 tools, which records the allowed call too.
WriteGates ==
    /\ stage = "gates"
    /\ call.tool = "ic2"
    /\ IF Permitted(call)
       THEN /\ trail' = trail \cup {[decision |-> "allow", device |-> handle]}
            /\ client' = <<InControl, "admin">>
            /\ Goto("invoke")
       ELSE /\ trail' = trail \cup {[decision |-> "deny", device |-> handle]}
            /\ StopCall
            /\ UNCHANGED client
    /\ UNCHANGED <<config, call, level, handle, remote>>

Route ==
    /\ stage = "route"
    /\ IF \/ Named(call) \notin Devices
          \/ call.tool = "typed" /\ call.spec.method = "TCP"
          \/ RouteTarget(call) = None
          \/ ~Supported(call, RouteTarget(call))
       THEN Raise
       ELSE /\ level' = PlanOf(call)
            /\ handle' = RouteTarget(call)
            /\ Goto("client")
            /\ UNCHANGED <<config, call, client, trail, remote>>

\* The client is chosen; a typed tool also parses its arguments here.
SelectClient ==
    /\ stage = "client"
    /\ IF \/ ClientTier(call, handle) = None
          \/ call.tool = "typed" /\ ~call.parses
       THEN Raise
       ELSE /\ client' = <<handle, ClientTier(call, handle)>>
            /\ Goto("record")
            /\ UNCHANGED <<config, call, level, handle, trail, remote>>

Record ==
    /\ stage = "record"
    /\ trail' = IF RequiredTier(call) = "admin"
                THEN trail \cup {[decision |-> "allow", device |-> AuditedDevice(call, handle)]}
                ELSE trail
    /\ Goto("invoke")
    /\ UNCHANGED <<config, locals, remote>>

\* invoke_device_api(): peplink_invoke parses its arguments only here.
Invoke ==
    /\ stage = "invoke"
    /\ call.tool # "ic2"
    /\ IF call.tool = "invoke" /\ ~call.parses
       THEN Raise
       ELSE /\ Remote!Begin(client)
            /\ Goto("sending")
            /\ UNCHANGED <<config, locals, trail>>

\* The write client is looked for and the body parsed, then the client called.
InvokeCloud ==
    /\ stage = "invoke"
    /\ call.tool = "ic2"
    /\ IF fleet.ic2 # "write" \/ ~call.parses
       THEN Raise
       ELSE /\ Remote!Begin(client)
            /\ Goto("sending")
            /\ UNCHANGED <<config, locals, trail>>

\* The client's own loop of requests.
Transfer ==
    /\ stage = "sending"
    /\ Remote!TakeEffect(client) \/ Remote!LoseAnswer(client)
    /\ UNCHANGED <<config, stage, locals, trail>>

Answer ==
    /\ stage = "sending"
    /\ \/ Remote!Succeed(client)
       \/ \E failure \in Remote!Failures : Remote!Fail(client, failure)
    /\ Goto("over")
    /\ UNCHANGED <<config, locals, trail>>

\* The caller has the result; nothing of the call is kept.
Finish ==
    /\ stage = "over"
    /\ Goto("idle")
    /\ call' = None /\ level' = None /\ handle' = None /\ client' = None
    /\ trail' = {}
    /\ IF client # None /\ phase[client] # "idle"
       THEN Remote!Forget(client)
       ELSE UNCHANGED remote
    /\ UNCHANGED config

Next ==
    \/ Begin
    \/ ResolveTarget
    \/ RunGates
    \/ WriteGates
    \/ Route
    \/ SelectClient
    \/ Record
    \/ Invoke
    \/ InvokeCloud
    \/ Transfer
    \/ Answer
    \/ Finish

Spec == Init /\ [][Next]_vars

-----------------------------------------------------------------------------
(* Properties.                                                             *)

TypeOK ==
    /\ fleet \in FleetConfigs
    /\ allowed \subseteq PolicyKeys
    /\ call \in Calls \cup {None}
    /\ stage \in Stages
    /\ level \in {None, "gateway", "device"}
    /\ handle \in Devices \cup {InControl, None}
    /\ client \in Clients \cup {None}
    /\ trail \subseteq [decision : {"allow", "deny"},
                        device : Devices \cup {Unknown, InControl, None}]
    /\ phase \in [Clients -> Remote!Phases]
    /\ effects \in [Clients -> 0 .. MaxAttempts]
    /\ unconfirmed \in [Clients -> 0 .. MaxAttempts]

\* A request of the running call reached the device, or InControl 2.
Reached(d) == \E c \in Clients : c[1] = d /\ effects[c] > 0

\* policy.py promises a triple gate: admin key, policy flag, explicit confirm.
Cleared(c) ==
    /\ c.caller = "admin"
    /\ c.spec.known /\ c.spec.policy # None => c.spec.policy \in allowed
    /\ c.spec.destructive \/ ~c.spec.known => c.confirm

\* The triple gate holds of the endpoint, whichever tool the write came through, the escape
\* hatch included, and whatever device or plane it was routed to.
TripleGate ==
    \A d \in Devices \cup {InControl} :
        Reached(d) /\ IsWriteMethod(call.spec) => Cleared(call)

\* When an admin-tier request reaches a device, the audit log already has the
\* "allow" record that names this device (the gateway, for a write that was
\* proxied), so a process that stops in between leaves no untraced effect.
TrailPrecedesEffect ==
    \A d \in Devices :
        Reached(d) /\ RequiredTier(call) = "admin"
            => [decision |-> "allow", device |-> d] \in trail

\* A call the audit log shows as denied has reached nothing, nor will it (part of
\* what ImplementsPrivilegedCall says).
NoEffectAfterDenial ==
    \A r \in trail : r.decision = "deny" =>
        /\ \A d \in Devices \cup {InControl} : ~Reached(d)
        /\ stage = "over"

\* A LAN call reaches the device it names or the gateway that manages that
\* device, and no third device, whatever the defaults and the override say.
IsTargetOrItsGateway(d) ==
    \/ d = Named(call)
    \/ /\ Config(Named(call)).management = "gateway"
       /\ Config(Named(call)).via \in {d, None}
       /\ Config(Named(call)).via = None => fleet.gateway_id = d

OnlyTargetOrItsGateway == \A d \in Devices : Reached(d) => IsTargetOrItsGateway(d)

\* Without an override, a config or cmd write to a gateway-managed device never
\* reaches that device: its controller owns the configuration.
GatewayKeepsItsDevices ==
    \A d \in Devices :
        /\ Reached(d) /\ d = Named(call) /\ Config(d).management = "gateway"
        /\ IsWriteMethod(call.spec) /\ call.spec.path \in {"managed", "config"}
        /\ call.override = None
        => GatewayOf(d) = d

\* Without an override, a write InControl 2 has a tool for reaches no device of
\* a fleet that maps the device to InControl 2 and does not pin it to itself.
CloudKeepsItsPaths ==
    \A d \in Devices :
        Reached(d) /\ IsWriteMethod(call.spec) /\ call.spec.path = "managed"
        /\ call.override = None /\ fleet.ic2 # "off" /\ Config(Named(call)).ic2
        => Config(Named(call)).config_authority = "device"

\* A write never leaves with the read-only credential of a device (part of what
\* ImplementsPrivilegedCall says).
WritesUseElevatedTier ==
    \A d \in Devices : effects[<<d, "read_only">>] > 0 => ~IsWriteMethod(call.spec)

\* Where a call may go, and what the log has to call it: a LAN call to the device
\* named or its gateway, with an elevated credential if it writes; an InControl 2
\* call to InControl 2, on behalf of a device or of a whole group.
LanRoutes ==
    { [client |-> <<d, tier>>, name |-> d] :
        d \in { e \in Devices : Named(call) \in Devices /\ IsTargetOrItsGateway(e) },
        tier \in IF IsWriteMethod(call.spec) THEN Tiers \ {"read_only"} ELSE Tiers }

CloudRoutes ==
    { [client |-> <<InControl, "admin">>,
       name |-> IF call.spec.path = "group" /\ call.device_id = None THEN InControl ELSE Named(call)] }

\* The tools with their gates, plans, tiers and records are, to the operator, calls
\* that are cleared and recorded before they are sent, each one way only.
Promise == INSTANCE PrivilegedCall WITH
    Names   <- Devices \cup {Unknown, InControl, None},
    state   <- IF stage = "idle" THEN "idle" ELSE IF stage = "over" THEN "closed" ELSE "open",
    request <- IF stage = "idle" THEN [audited |-> FALSE, cleared |-> FALSE, routes |-> {}]
               ELSE [audited |-> RequiredTier(call) = "admin",
                     cleared |-> IsWriteMethod(call.spec) => Cleared(call),
                     routes  |-> IF call.tool = "ic2" THEN CloudRoutes ELSE LanRoutes],
    via     <- IF stage = "record" THEN None ELSE client,
    log     <- trail

ImplementsPrivilegedCall == Promise!Spec

-----------------------------------------------------------------------------
(* What comments of the code say, and what runs show it does not do.       *)

\* audit.py: "allow" (action sent to the device).  peplink_invoke parses its
\* arguments, and the InControl 2 tools look for a write credential, only after
\* the record.
AllowMeansSent ==
    stage = "over" /\ (\E r \in trail : r.decision = "allow") => phase[client] # "idle"

\* audit.py: every admin-tier / write invocation is recorded.  A call that passes
\* the gates and fails before the record leaves none.
EveryInvocationRecorded ==
    stage = "over" /\ RequiredTier(call) = "admin" => trail # {}
=============================================================================
