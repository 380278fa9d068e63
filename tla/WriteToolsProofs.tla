--------------------------- MODULE WriteToolsProofs ---------------------------
(***************************************************************************)
(* Theorems about WriteTools, for every fleet, endpoint and call.  The     *)
(* inductive invariant says what each stage of a call can rely on: past    *)
(* the gates the call is permitted, past the routing its handle is the     *)
(* target of its plan, past the client its tier is one of that device,     *)
(* past the record the audit log names that device, and only the client    *)
(* chosen ever carries a request.                                          *)
(***************************************************************************)
EXTENDS WriteTools, TLAPS

Quiet(c) == phase[c] = "idle" /\ effects[c] = 0 /\ unconfirmed[c] = 0

AnySent == \E c \in Clients : ~Quiet(c)

CallKnown == stage # "idle" => call \in Calls

ToolOfStage ==
    /\ stage = "target" => call.tool = "ic2"
    /\ stage \in {"route", "client", "record"} => call.tool # "ic2"
    /\ stage = "gates" /\ call.tool = "ic2"
        => handle \in Devices \cup {InControl} /\ handle = CloudLabel(call)

OnlyClientSends ==
    \A c \in Clients : ~Quiet(c) => c = client /\ stage \in {"sending", "over"}

PastGates ==
    stage \in {"route", "client", "record", "invoke", "sending"} \/ AnySent => Permitted(call)

Routed ==
    /\ Named(call) \in Devices
    /\ handle \in Devices
    /\ handle = RouteTarget(call)

PastRoute ==
    call.tool # "ic2" /\ (stage \in {"client", "record", "invoke", "sending"} \/ AnySent)
        => Routed

Chosen == ClientTier(call, handle) \in Tiers /\ client = <<handle, ClientTier(call, handle)>>

PastClient ==
    call.tool # "ic2" /\ (stage \in {"record", "invoke", "sending"} \/ AnySent) => Chosen

PastRecord ==
    /\ call.tool # "ic2" /\ (stage \in {"invoke", "sending"} \/ AnySent)
    /\ RequiredTier(call) = "admin"
    => [decision |-> "allow", device |-> handle] \in trail

CloudCall ==
    call.tool = "ic2" /\ (stage \in {"invoke", "sending"} \/ AnySent)
        => client = <<InControl, "admin">>

\* A client nobody waits for keeps nothing of an earlier call.
IdleIsQuiet == \A c \in Clients : phase[c] = "idle" => Quiet(c)

DenialEnds == \A r \in trail : r.decision = "deny" => stage = "over" /\ ~AnySent

Facts ==
    /\ CallKnown
    /\ ToolOfStage
    /\ OnlyClientSends
    /\ PastGates
    /\ PastRoute
    /\ PastClient
    /\ PastRecord
    /\ CloudCall
    /\ DenialEnds
    /\ IdleIsQuiet

-----------------------------------------------------------------------------
(* What the choices return.                                                *)

\* A routed call that does not raise goes to a device of the fleet, by a plan
\* that names a LAN plane.
LEMMA TargetIsDevice ==
    ASSUME TypeOK, call \in Calls, Named(call) \in Devices, RouteTarget(call) # None
    PROVE  /\ RouteTarget(call) \in Devices
           /\ PlanOf(call) \in {None, "gateway", "device"}
  <1>1. call.override \in {None, "gateway", "device", "other"}
    BY CallsAssumption DEF CallRecords, Overrides
  <1>2. PlanOf(call) \in {None, "gateway", "device", "redirect", "invalid"}
    <2>1. PreferredAuthority(Named(call), call.spec.path) \in {"ic2", "gateway", "device"}
      BY DEF PreferredAuthority
    <2>2. PlanLevel(Named(call), call.spec.path, call.override)
            \in {"gateway", "device", "redirect", "invalid"}
      BY <1>1, <2>1 DEF PlanLevel
    <2>. QED  BY <2>2 DEF PlanOf
  <1>3. PlanOf(call) \notin {"redirect", "invalid"}
    BY DEF RouteTarget
  <1>4. GatewayOf(Named(call)) \in Devices \cup {None}
    BY DEF GatewayOf
  <1>5. RouteTarget(call) \in Devices
    BY <1>4, <1>3 DEF RouteTarget, WriteHandle, DeviceHandle
  <1>. QED  BY <1>2, <1>3, <1>5

\* The credential chosen is one the client has, or the call raises.
LEMMA TierOrNone ==
    ASSUME TypeOK, call \in Calls, call.tool # "ic2", handle \in Devices
    PROVE  ClientTier(call, handle) \in Tiers \cup {None}
  <1>1. call.spec.tier \in Tiers
    BY CallsAssumption, SpecsAssumption DEF CallRecords, SpecRecords
  <1>2. TypedTier(handle, call.spec) \in Tiers \cup {None}
    BY <1>1 DEF TypedTier, Tier, OrElse, Tiers
  <1>3. InvokeTier(handle, call) \in Tiers \cup {None}
    BY DEF InvokeTier, Tier, OrElse, Tiers
  <1>. QED  BY <1>2, <1>3 DEF ClientTier

-----------------------------------------------------------------------------
(* Type correctness.                                                       *)

\* What the steps of the client do to its own variables.
LEMMA RemoteTyped ==
    ASSUME TypeOK, client \in Clients,
           \/ Remote!Begin(client) \/ Remote!TakeEffect(client)
           \/ Remote!LoseAnswer(client) \/ Remote!Succeed(client)
           \/ (\E failure \in Remote!Failures : Remote!Fail(client, failure))
           \/ Remote!Forget(client)
    PROVE  /\ phase' \in [Clients -> Remote!Phases]
           /\ effects' \in [Clients -> 0 .. MaxAttempts]
           /\ unconfirmed' \in [Clients -> 0 .. MaxAttempts]
  <1>. USE AttemptsAssumption DEF TypeOK, Remote!Phases, Remote!Failures
  <1>1. CASE Remote!Begin(client)
    BY <1>1 DEF Remote!Begin
  <1>2. CASE Remote!TakeEffect(client)
    BY <1>2 DEF Remote!TakeEffect
  <1>3. CASE Remote!LoseAnswer(client)
    BY <1>3 DEF Remote!LoseAnswer
  <1>4. CASE Remote!Succeed(client)
    BY <1>4 DEF Remote!Succeed
  <1>5. CASE \E failure \in Remote!Failures : Remote!Fail(client, failure)
    BY <1>5 DEF Remote!Fail
  <1>6. CASE Remote!Forget(client)
    BY <1>6 DEF Remote!Forget
  <1>. QED  BY <1>1, <1>2, <1>3, <1>4, <1>5, <1>6

LEMMA InitFacts == Init => TypeOK /\ Facts
  <1>. SUFFICES ASSUME Init PROVE TypeOK /\ Facts
    OBVIOUS
  <1>1. TypeOK
    BY FleetsAssumption, AttemptsAssumption
       DEF Init, TypeOK, Stages, Remote!Init, Remote!Phases
  <1>2. \A c \in Clients : Quiet(c)
    BY DEF Init, Remote!Init, Quiet
  <1>3. Facts
    BY <1>2 DEF Init, Facts, CallKnown, ToolOfStage, OnlyClientSends, PastGates, PastRoute,
                PastClient, PastRecord, CloudCall, DenialEnds, IdleIsQuiet, AnySent
  <1>. QED  BY <1>1, <1>3

\* A client was chosen before anything is handed to it.
LEMMA ClientChosen ==
    ASSUME TypeOK, Facts, stage \in {"invoke", "sending"}
    PROVE  client \in Clients
  <1>1. CASE call.tool = "ic2"
    BY <1>1 DEF Facts, CloudCall, Clients
  <1>2. CASE call.tool # "ic2"
    BY <1>2 DEF Facts, PastRoute, Routed, PastClient, Chosen, Clients
  <1>. QED  BY <1>1, <1>2

LEMMA TypeStep ==
    ASSUME TypeOK, Facts, Next
    PROVE  TypeOK'
  <1>. USE DEF TypeOK, config, locals, remote, Stages, Goto
  <1>0. stage # "idle" => call \in Calls
    BY DEF Facts, CallKnown
  <1>1. CASE Begin
    BY <1>1 DEF Begin
  <1>2. CASE ResolveTarget
    BY <1>2 DEF ResolveTarget, CloudLabel, Raise
  <1>3. CASE RunGates
    <2>1. Named(call) \in Devices \cup {Unknown, None}
      BY <1>3, <1>0, CallsAssumption DEF RunGates, Named, CallRecords, FleetConfigs
    <2>. QED  BY <1>3, <2>1 DEF RunGates, StopCall
  <1>4. CASE WriteGates
    BY <1>4 DEF WriteGates, StopCall, Facts, ToolOfStage, Clients, Tiers
  <1>5. CASE Route
    <2>1. CASE /\ Named(call) \in Devices
               /\ RouteTarget(call) # None
               /\ level' = PlanOf(call) /\ handle' = RouteTarget(call) /\ stage' = "client"
               /\ UNCHANGED <<config, call, client, trail, remote>>
      BY <1>0, <1>5, <2>1, TargetIsDevice DEF Route
    <2>2. CASE Raise
      BY <2>2 DEF Raise
    <2>. QED  BY <1>5, <2>1, <2>2 DEF Route
  <1>6. CASE SelectClient
    <2>1. handle \in Devices /\ call.tool # "ic2"
      BY <1>6 DEF SelectClient, Facts, PastRoute, ToolOfStage, Routed
    <2>2. ClientTier(call, handle) \in Tiers \cup {None}
      BY <1>0, <1>6, <2>1, TierOrNone DEF SelectClient
    <2>. QED  BY <1>6, <2>1, <2>2 DEF SelectClient, Raise, Clients
  <1>7. CASE Record
    <2>1. handle \in Devices
      BY <1>7 DEF Record, Facts, PastRoute, ToolOfStage, Routed
    <2>. QED  BY <1>7, <2>1 DEF Record, AuditedDevice
  <1>8. CASE Invoke \/ InvokeCloud
    BY <1>8, ClientChosen, RemoteTyped DEF Invoke, InvokeCloud, Raise
  <1>9. CASE Transfer \/ Answer
    BY <1>9, ClientChosen, RemoteTyped DEF Transfer, Answer
  <1>10. CASE Finish
    BY <1>10, RemoteTyped DEF Finish
  <1>. QED  BY <1>1, <1>2, <1>3, <1>4, <1>5, <1>6, <1>7, <1>8, <1>9, <1>10 DEF Next

-----------------------------------------------------------------------------
(* The facts about the stages.                                             *)

\* The steps that change neither the configuration nor the call keep what was
\* concluded from them.
LEMMA Frame ==
    ASSUME UNCHANGED <<fleet, allowed, call>>
    PROVE  /\ Permitted(call)' <=> Permitted(call)
           /\ RequiredTier(call)' = RequiredTier(call)
           /\ Named(call)' = Named(call)
           /\ CloudLabel(call)' = CloudLabel(call)
           /\ RouteTarget(call)' = RouteTarget(call)
           /\ handle' = handle => ClientTier(call, handle)' = ClientTier(call, handle)
  <1>1. Permitted(call)' <=> Permitted(call)
    BY DEF Permitted, RequiredTier, PolicyKey, NeedsConfirm, CountsAsWrite, IsWriteMethod
  <1>2. RequiredTier(call)' = RequiredTier(call)
    BY DEF RequiredTier, CountsAsWrite, IsWriteMethod
  <1>3. Named(call)' = Named(call)
    BY DEF Named
  <1>6. CloudLabel(call)' = CloudLabel(call)
    BY DEF CloudLabel, GroupByIds, Named
  <1>4. RouteTarget(call)' = RouteTarget(call)
    BY DEF RouteTarget, PlanOf, PlanLevel, PreferredAuthority, CloudManages, GatewayManages,
           IsGatewayManaged, GatewayOf, WriteHandle, DeviceHandle, Available, Config, Named,
           IsRouted, CountsAsWrite, IsWriteMethod
  <1>5. handle' = handle => ClientTier(call, handle)' = ClientTier(call, handle)
    BY DEF ClientTier, TypedTier, InvokeTier, Tier, OrElse, Config, IsWriteMethod
  <1>. QED  BY <1>1, <1>2, <1>3, <1>4, <1>5, <1>6

\* A step before the request leaves every client quiet.
LEMMA NothingSentYet ==
    ASSUME Facts, stage \notin {"sending", "over"}
    PROVE  ~AnySent
  BY DEF Facts, OnlyClientSends, AnySent

LEMMA StillQuiet ==
    ASSUME Facts, stage \notin {"sending", "over"}, UNCHANGED remote
    PROVE  ~AnySent' /\ OnlyClientSends' /\ IdleIsQuiet'
  BY NothingSentYet DEF AnySent, OnlyClientSends, IdleIsQuiet, Quiet, remote

\* The client's steps touch the client chosen alone.
LEMMA OthersStayQuiet ==
    ASSUME TypeOK, client \in Clients, NEW c \in Clients, c # client,
           \/ Remote!Begin(client) \/ Remote!TakeEffect(client)
           \/ Remote!LoseAnswer(client) \/ Remote!Succeed(client)
           \/ (\E failure \in Remote!Failures : Remote!Fail(client, failure))
           \/ Remote!Forget(client)
    PROVE  Quiet(c)' <=> Quiet(c)
  BY DEF TypeOK, Quiet, Remote!Begin, Remote!TakeEffect, Remote!LoseAnswer,
         Remote!Succeed, Remote!Fail, Remote!Forget

LEMMA FactsStep ==
    ASSUME TypeOK, Facts, Next, TypeOK'
    PROVE  Facts'
  <1>. USE DEF Goto, config, locals
  <1>. DEFINE StageFacts ==
          /\ PastGates /\ PastRoute /\ PastClient /\ PastRecord /\ CloudCall /\ DenialEnds
  <1>1. CASE Begin
    <2>1. ~AnySent' /\ OnlyClientSends' /\ IdleIsQuiet' /\ ~AnySent
      BY <1>1, StillQuiet, NothingSentYet DEF Begin
    <2>2. stage' \in {"target", "gates"} /\ call' \in Calls /\ UNCHANGED trail
      BY <1>1 DEF Begin
    <2>3. DenialEnds'
      BY <1>1, <2>1, <2>2 DEF Facts, DenialEnds, Begin
    <2>4. ToolOfStage'
      BY <1>1 DEF Begin, ToolOfStage
    <2>. QED
      BY <2>1, <2>2, <2>3, <2>4 DEF Facts, CallKnown, PastGates, PastRoute, PastClient,
                                    PastRecord, CloudCall
  <1>2. CASE ResolveTarget
    <2>1. ~AnySent' /\ OnlyClientSends' /\ IdleIsQuiet' /\ ~AnySent
      BY <1>2, StillQuiet, NothingSentYet DEF ResolveTarget, Raise
    <2>2. stage' \in {"gates", "over"} /\ UNCHANGED <<call, trail>>
      BY <1>2 DEF ResolveTarget, Raise
    <2>3. DenialEnds' /\ CallKnown'
      BY <1>2, <2>1, <2>2 DEF Facts, DenialEnds, CallKnown, ResolveTarget
    <2>4. ToolOfStage'
      BY <1>2 DEF ResolveTarget, CloudLabel, GroupByIds, Named, Raise, Facts, ToolOfStage
    <2>. QED
      BY <2>1, <2>2, <2>3, <2>4 DEF Facts, PastGates, PastRoute, PastClient, PastRecord, CloudCall
  <1>3. CASE RunGates
    <2>1. ~AnySent' /\ OnlyClientSends' /\ IdleIsQuiet' /\ ~AnySent
      BY <1>3, StillQuiet, NothingSentYet DEF RunGates
    <2>2. /\ stage' \in {"route", "over"} /\ UNCHANGED <<call, allowed, fleet>>
          /\ stage' = "route" => Permitted(call) /\ UNCHANGED trail
      BY <1>3 DEF RunGates, StopCall
    <2>3. PastGates'
      BY <2>1, <2>2, Frame DEF PastGates
    <2>4. DenialEnds' /\ CallKnown'
      BY <1>3, <2>1, <2>2 DEF Facts, DenialEnds, CallKnown, RunGates
    <2>5. ToolOfStage'
      BY <1>3, <2>2 DEF RunGates, ToolOfStage
    <2>. QED
      BY <2>1, <2>2, <2>3, <2>4, <2>5 DEF Facts, PastRoute, PastClient, PastRecord, CloudCall
  <1>4. CASE WriteGates
    <2>1. ~AnySent' /\ OnlyClientSends' /\ IdleIsQuiet' /\ ~AnySent
      BY <1>4, StillQuiet, NothingSentYet DEF WriteGates
    <2>2. /\ stage' \in {"invoke", "over"} /\ UNCHANGED <<call, allowed, fleet, handle>>
          /\ call.tool = "ic2"
          /\ stage' = "invoke" => /\ Permitted(call)
                                  /\ client' = <<InControl, "admin">>
                                  /\ trail' = trail \cup {[decision |-> "allow", device |-> handle]}
      BY <1>4 DEF WriteGates, StopCall
    <2>3. PastGates'
      BY <2>1, <2>2, Frame DEF PastGates
    <2>4. DenialEnds'
      <3>1. \A r \in trail : r.decision # "deny"
        BY <1>4 DEF Facts, DenialEnds, WriteGates
      <3>. QED  BY <2>1, <2>2, <3>1 DEF DenialEnds
    <2>5. ToolOfStage' /\ CallKnown'
      BY <1>4, <2>2 DEF WriteGates, ToolOfStage, CallKnown, Facts
    <2>. QED
      BY <2>1, <2>2, <2>3, <2>4, <2>5 DEF Facts, PastRoute, PastClient, PastRecord, CloudCall
  <1>5. CASE Route
    <2>1. ~AnySent' /\ OnlyClientSends' /\ IdleIsQuiet' /\ ~AnySent
      BY <1>5, StillQuiet, NothingSentYet DEF Route, Raise
    <2>2. /\ stage' \in {"client", "over"} /\ UNCHANGED <<call, allowed, fleet, trail>>
          /\ stage' = "client" => /\ Named(call) \in Devices
                                  /\ RouteTarget(call) # None
                                  /\ handle' = RouteTarget(call)
      BY <1>5 DEF Route, Raise
    <2>3. call \in Calls /\ call.tool # "ic2" /\ Permitted(call)
      BY <1>5 DEF Route, Facts, CallKnown, ToolOfStage, PastGates
    <2>4. PastGates'
      BY <2>1, <2>2, <2>3, Frame DEF PastGates
    <2>5. PastRoute'
      BY <2>1, <2>2, <2>3, Frame, TargetIsDevice DEF PastRoute, Routed
    <2>6. DenialEnds' /\ CallKnown' /\ ToolOfStage'
      BY <1>5, <2>1, <2>2, <2>3 DEF Facts, DenialEnds, CallKnown, ToolOfStage, Route
    <2>. QED
      BY <2>1, <2>2, <2>4, <2>5, <2>6 DEF Facts, PastClient, PastRecord, CloudCall
  <1>6. CASE SelectClient
    <2>1. ~AnySent' /\ OnlyClientSends' /\ IdleIsQuiet' /\ ~AnySent
      BY <1>6, StillQuiet, NothingSentYet DEF SelectClient, Raise
    <2>2. /\ stage' \in {"record", "over"} /\ UNCHANGED <<call, allowed, fleet, trail, handle>>
          /\ stage' = "record" => /\ ClientTier(call, handle) # None
                                  /\ client' = <<handle, ClientTier(call, handle)>>
      BY <1>6 DEF SelectClient, Raise
    <2>3. call \in Calls /\ call.tool # "ic2" /\ Permitted(call) /\ Routed
      BY <1>6 DEF SelectClient, Facts, CallKnown, ToolOfStage, PastGates, PastRoute
    <2>4. PastGates' /\ PastRoute'
      BY <2>1, <2>2, <2>3, Frame DEF PastGates, PastRoute, Routed
    <2>5. PastClient'
      BY <2>1, <2>2, <2>3, Frame, TierOrNone DEF PastClient, Chosen, Routed
    <2>6. DenialEnds' /\ CallKnown' /\ ToolOfStage'
      BY <1>6, <2>1, <2>2, <2>3 DEF Facts, DenialEnds, CallKnown, ToolOfStage, SelectClient
    <2>. QED
      BY <2>1, <2>2, <2>3, <2>4, <2>5, <2>6 DEF Facts, PastRecord, CloudCall
  <1>7. CASE Record
    <2>1. ~AnySent' /\ OnlyClientSends' /\ IdleIsQuiet' /\ ~AnySent
      BY <1>7, StillQuiet, NothingSentYet DEF Record
    <2>2. /\ stage' = "invoke" /\ UNCHANGED <<call, allowed, fleet, handle, client>>
          /\ RequiredTier(call) = "admin"
                => trail' = trail \cup {[decision |-> "allow", device |-> handle]}
          /\ RequiredTier(call) # "admin" => trail' = trail
      BY <1>7 DEF Record, AuditedDevice
    <2>3. call \in Calls /\ call.tool # "ic2" /\ Permitted(call) /\ Routed /\ Chosen
      BY <1>7 DEF Record, Facts, CallKnown, ToolOfStage, PastGates, PastRoute, PastClient
    <2>4. PastGates' /\ PastRoute' /\ PastClient'
      BY <2>1, <2>2, <2>3, Frame DEF PastGates, PastRoute, Routed, PastClient, Chosen
    <2>5. PastRecord'
      BY <2>2, Frame DEF PastRecord
    <2>6. DenialEnds'
      <3>1. \A r \in trail : r.decision # "deny"
        BY <1>7 DEF Facts, DenialEnds, Record
      <3>2. \A r \in trail' : r.decision # "deny"
        BY <2>2, <3>1
      <3>. QED  BY <3>2 DEF DenialEnds
    <2>7. CallKnown' /\ ToolOfStage'
      BY <2>2, <2>3 DEF CallKnown, ToolOfStage
    <2>. QED
      BY <2>1, <2>2, <2>3, <2>4, <2>5, <2>6, <2>7 DEF Facts, CloudCall
  <1>8. CASE Invoke \/ InvokeCloud
    <2>1. /\ UNCHANGED <<fleet, allowed, call, handle, client, trail>>
          /\ call \in Calls /\ Permitted(call)
          /\ call.tool # "ic2" => Routed /\ Chosen
      BY <1>8 DEF Invoke, InvokeCloud, Raise, Facts, CallKnown, PastGates, PastRoute, PastClient
    <2>2. \A r \in trail : r.decision # "deny"
      BY <1>8 DEF Invoke, InvokeCloud, Facts, DenialEnds
    <2>3. CASE Raise
      <3>1. ~AnySent' /\ OnlyClientSends' /\ IdleIsQuiet'
        BY <1>8, <2>3, StillQuiet DEF Invoke, InvokeCloud, Raise
      <3>. QED
        BY <2>1, <2>2, <2>3, <3>1 DEF Raise, Facts, CallKnown, ToolOfStage, PastGates, PastRoute,
                                      PastClient, PastRecord, CloudCall, DenialEnds
    <2>4. CASE Remote!Begin(client) /\ stage' = "sending"
      <3>1. client \in Clients
        BY <1>8, ClientChosen DEF Invoke, InvokeCloud
      <3>2. \A c \in Clients : c # client => (Quiet(c)' <=> Quiet(c)) /\ phase'[c] = phase[c]
        BY <2>4, <3>1, OthersStayQuiet DEF Remote!Begin, TypeOK
      <3>3. phase'[client] = "pending"
        BY <2>4, <3>1 DEF Remote!Begin, TypeOK
      <3>4. OnlyClientSends' /\ IdleIsQuiet'
        BY <1>8, <2>1, <2>4, <3>2, <3>3
           DEF Facts, OnlyClientSends, IdleIsQuiet, Invoke, InvokeCloud
      <3>5. PastGates' /\ PastRoute' /\ PastClient'
        BY <2>1, Frame DEF PastGates, PastRoute, Routed, PastClient, Chosen
      <3>6. PastRecord' /\ CloudCall'
        BY <1>8, <2>1, Frame DEF Facts, PastRecord, CloudCall, Invoke, InvokeCloud
      <3>7. CallKnown' /\ ToolOfStage' /\ DenialEnds'
        BY <2>1, <2>2, <2>4 DEF CallKnown, ToolOfStage, DenialEnds
      <3>. QED  BY <3>4, <3>5, <3>6, <3>7 DEF Facts
    <2>. QED  BY <1>8, <2>3, <2>4 DEF Invoke, InvokeCloud
  <1>9. CASE Transfer \/ Answer
    <2>1. /\ UNCHANGED <<fleet, allowed, call, handle, client, trail>>
          /\ stage = "sending" /\ stage' \in {"sending", "over"}
          /\ call \in Calls /\ Permitted(call)
          /\ call.tool # "ic2" => Routed /\ Chosen
      BY <1>9 DEF Transfer, Answer, Facts, CallKnown, PastGates, PastRoute, PastClient
    <2>2. \A r \in trail : r.decision # "deny"
      BY <2>1 DEF Facts, DenialEnds
    <2>3. client \in Clients
      BY <2>1, ClientChosen
    <2>4. \A c \in Clients : c # client => (Quiet(c)' <=> Quiet(c)) /\ phase'[c] = phase[c]
      <3>1. \A c \in Clients : c # client => (Quiet(c)' <=> Quiet(c))
        BY <1>9, <2>3, OthersStayQuiet DEF Transfer, Answer
      <3>2. \A c \in Clients : c # client => phase'[c] = phase[c]
        BY <1>9, <2>3 DEF Transfer, Answer, TypeOK, Remote!TakeEffect, Remote!LoseAnswer,
                          Remote!Succeed, Remote!Fail
      <3>. QED  BY <3>1, <3>2
    <2>5. phase'[client] # "idle"
      BY <1>9, <2>3 DEF Transfer, Answer, TypeOK, Remote!TakeEffect, Remote!LoseAnswer,
                        Remote!Succeed, Remote!Fail, Remote!Failures
    <2>6. OnlyClientSends' /\ IdleIsQuiet'
      BY <2>1, <2>4, <2>5 DEF Facts, OnlyClientSends, IdleIsQuiet
    <2>7. PastGates' /\ PastRoute' /\ PastClient'
      BY <2>1, Frame DEF PastGates, PastRoute, Routed, PastClient, Chosen
    <2>8. PastRecord' /\ CloudCall'
      BY <2>1, Frame DEF Facts, PastRecord, CloudCall
    <2>9. CallKnown' /\ ToolOfStage' /\ DenialEnds'
      BY <2>1, <2>2 DEF CallKnown, ToolOfStage, DenialEnds
    <2>. QED  BY <2>6, <2>7, <2>8, <2>9 DEF Facts
  <1>10. CASE Finish
    <2>1. \A c \in Clients : Quiet(c)'
      <3>1. SUFFICES ASSUME NEW c \in Clients PROVE Quiet(c)'
        OBVIOUS
      <3>2. CASE client # None /\ phase[client] # "idle"
        <4>1. Remote!Forget(client)
          BY <1>10, <3>2 DEF Finish
        <4>2. client \in Clients
          BY <3>2 DEF TypeOK
        <4>3. CASE c = client
          BY <4>1, <4>2, <4>3 DEF Remote!Forget, Quiet, TypeOK
        <4>4. CASE c # client
          BY <4>1, <4>2, <4>4, OthersStayQuiet DEF Facts, OnlyClientSends
        <4>. QED  BY <4>3, <4>4
      <3>3. CASE ~(client # None /\ phase[client] # "idle")
        <4>1. Quiet(c)
          BY <3>3, NamesAssumption DEF Facts, OnlyClientSends, IdleIsQuiet
        <4>2. UNCHANGED remote
          BY <1>10, <3>3 DEF Finish
        <4>. QED  BY <4>1, <4>2 DEF Quiet, remote
      <3>. QED  BY <3>2, <3>3
    <2>2. stage' = "idle" /\ trail' = {}
      BY <1>10 DEF Finish
    <2>. QED
      BY <2>1, <2>2 DEF Facts, CallKnown, ToolOfStage, OnlyClientSends, IdleIsQuiet, PastGates,
                        PastRoute, PastClient, PastRecord, CloudCall, DenialEnds, AnySent
  <1>. QED  BY <1>1, <1>2, <1>3, <1>4, <1>5, <1>6, <1>7, <1>8, <1>9, <1>10 DEF Next

-----------------------------------------------------------------------------
(* The theorems.                                                           *)

IInv == TypeOK /\ Facts

\* The inductive invariant: types, and what each stage of a call can rely on.
THEOREM InductiveInvariant == Spec => []IInv
  <1>1. Init => IInv
    BY InitFacts DEF IInv
  <1>2. IInv /\ [Next]_vars => IInv'
    <2>1. ASSUME IInv, Next PROVE IInv'
      BY <2>1, TypeStep, FactsStep DEF IInv
    <2>2. ASSUME IInv, UNCHANGED vars PROVE IInv'
      <3>1. TypeOK'
        BY <2>2 DEF IInv, TypeOK, vars, config, locals, remote
      <3>2. UNCHANGED <<fleet, allowed, call>>
        BY <2>2 DEF vars, config, locals
      <3>3. Facts'
        BY <2>2, <3>2, Frame
           DEF IInv, Facts, CallKnown, ToolOfStage, OnlyClientSends, IdleIsQuiet, PastGates,
               PastRoute, Routed, PastClient, Chosen, PastRecord, CloudCall, DenialEnds, AnySent,
               Quiet, vars, config, locals, remote
      <3>. QED  BY <3>1, <3>3 DEF IInv
    <2>. QED  BY <2>1, <2>2
  <1>. QED  BY <1>1, <1>2, PTL DEF Spec

\* Every variable keeps its type.
THEOREM Typing == Spec => []TypeOK
  BY InductiveInvariant, PTL DEF IInv

-----------------------------------------------------------------------------
(* What follows when a request has arrived somewhere.                      *)

LEMMA Arrival ==
    ASSUME IInv, NEW c \in Clients, effects[c] > 0
    PROVE  /\ c = client
           /\ call \in Calls
           /\ Permitted(call)
           /\ call.tool # "ic2" => Routed /\ Chosen
           /\ call.tool # "ic2" /\ RequiredTier(call) = "admin"
                => [decision |-> "allow", device |-> handle] \in trail
           /\ call.tool = "ic2" => client = <<InControl, "admin">>
  <1>1. ~Quiet(c) /\ AnySent
    BY DEF Quiet, AnySent
  <1>2. c = client /\ stage \in {"sending", "over"}
    BY <1>1 DEF IInv, Facts, OnlyClientSends
  <1>3. call \in Calls
    BY <1>2 DEF IInv, Facts, CallKnown
  <1>4. Permitted(call) /\ (call.tool # "ic2" => Routed /\ Chosen)
    BY <1>1 DEF IInv, Facts, PastGates, PastRoute, PastClient
  <1>5. /\ call.tool # "ic2" /\ RequiredTier(call) = "admin"
              => [decision |-> "allow", device |-> handle] \in trail
        /\ call.tool = "ic2" => client = <<InControl, "admin">>
    BY <1>1 DEF IInv, Facts, PastRecord, CloudCall
  <1>. QED  BY <1>2, <1>3, <1>4, <1>5

\* What a device of the fleet received came from a LAN tool.
LEMMA DeviceArrival ==
    ASSUME IInv, NEW c \in Clients, effects[c] > 0, c[1] \in Devices
    PROVE  /\ call \in Calls /\ call.tool \in {"typed", "invoke"}
           /\ Routed /\ c[1] = handle /\ c[2] = ClientTier(call, handle)
  <1>1. call \in Calls /\ c = client
    BY Arrival
  <1>2. call.tool \in {"typed", "invoke", "ic2"}
    BY <1>1, CallsAssumption DEF CallRecords
  <1>3. call.tool # "ic2"
    BY <1>1, Arrival, NamesAssumption
  <1>4. Routed /\ Chosen
    BY <1>3, Arrival
  <1>. QED  BY <1>1, <1>2, <1>3, <1>4 DEF Chosen

\* What the gates let through is cleared by all three of them.
LEMMA PermittedIsCleared ==
    ASSUME call \in Calls, Permitted(call), IsWriteMethod(call.spec)
    PROVE  Cleared(call)
  <1>1. /\ call.tool \in {"typed", "invoke", "ic2"}
        /\ call.tool = "typed" => call.spec.known
        /\ call.spec.known \in BOOLEAN
    BY CallsAssumption, SpecsAssumption DEF CallRecords, SpecRecords
  <1>2. RequiredTier(call) = "admin"
    BY <1>1 DEF RequiredTier, CountsAsWrite
  <1>3. call.spec.destructive \/ ~call.spec.known => call.confirm
    BY <1>1 DEF Permitted, NeedsConfirm, CountsAsWrite
  <1>. QED  BY <1>1, <1>2, <1>3 DEF Permitted, PolicyKey, Cleared

\* A call is routed to the device it names or to that device's gateway.
LEMMA RoutedToOwn ==
    ASSUME Routed
    PROVE  IsTargetOrItsGateway(handle)
  <1>1. handle = RouteTarget(call) /\ handle # None /\ Named(call) \in Devices
    BY NamesAssumption DEF Routed
  <1>2. \/ handle = Named(call)
        \/ IsGatewayManaged(Named(call)) /\ handle = GatewayOf(Named(call))
    BY <1>1 DEF RouteTarget, WriteHandle, DeviceHandle
  <1>. QED  BY <1>1, <1>2 DEF GatewayOf, IsGatewayManaged, IsTargetOrItsGateway

\* The credential chosen for a write is not the read-only one.
LEMMA ElevatedTier ==
    ASSUME call \in Calls, call.tool # "ic2", IsWriteMethod(call.spec)
    PROVE  ClientTier(call, handle) # "read_only"
  <1>1. /\ call.tool \in {"typed", "invoke"} /\ call.spec \in Specs
        /\ call.tool = "typed" => call.spec.known
    BY CallsAssumption DEF CallRecords
  <1>2. CASE call.tool = "typed"
    <2>1. call.spec.tier = "admin"
      BY <1>1, <1>2, ManifestAssumption DEF IsWriteMethod
    <2>2. TypedTier(handle, call.spec) # "read_only"
      BY <2>1, NamesAssumption DEF TypedTier, Tier, Tiers
    <2>. QED  BY <1>2, <2>2 DEF ClientTier
  <1>3. CASE call.tool = "invoke"
    <2>1. InvokeTier(handle, call) # "read_only"
      BY NamesAssumption DEF InvokeTier, Tier, OrElse, Tiers
    <2>. QED  BY <1>3, <2>1 DEF ClientTier
  <1>. QED  BY <1>1, <1>2, <1>3

\* The triple gate, for every endpoint, tool and fleet.
THEOREM GatesHold == Spec => []TripleGate
  <1>1. IInv => TripleGate
    <2>1. SUFFICES ASSUME IInv, NEW c \in Clients, effects[c] > 0, IsWriteMethod(call.spec)
                   PROVE  Cleared(call)
      BY DEF TripleGate, Reached
    <2>. QED  BY <2>1, Arrival, PermittedIsCleared
  <1>. QED  BY <1>1, InductiveInvariant, PTL

\* The record of an admin-tier request precedes its effect on a device.
THEOREM RecordedFirst == Spec => []TrailPrecedesEffect
  <1>1. IInv => TrailPrecedesEffect
    <2>1. SUFFICES ASSUME IInv, NEW c \in Clients, effects[c] > 0, c[1] \in Devices,
                          RequiredTier(call) = "admin"
                   PROVE  [decision |-> "allow", device |-> c[1]] \in trail
      BY DEF TrailPrecedesEffect, Reached
    <2>2. c[1] = handle /\ call.tool # "ic2"
      BY <2>1, DeviceArrival
    <2>. QED  BY <2>1, <2>2, Arrival
  <1>. QED  BY <1>1, InductiveInvariant, PTL

\* A denied call reaches nothing.
THEOREM DeniedReachesNothing == Spec => []NoEffectAfterDenial
  <1>1. IInv => NoEffectAfterDenial
    <2>1. SUFFICES ASSUME IInv, NEW r \in trail, r.decision = "deny"
                   PROVE  /\ \A c \in Clients : ~(effects[c] > 0)
                          /\ stage = "over"
      BY DEF NoEffectAfterDenial, Reached
    <2>2. stage = "over" /\ ~AnySent
      BY <2>1 DEF IInv, Facts, DenialEnds
    <2>. QED  BY <2>2 DEF AnySent, Quiet
  <1>. QED  BY <1>1, InductiveInvariant, PTL

\* A LAN call reaches the device it names or its gateway.
THEOREM NoThirdDevice == Spec => []OnlyTargetOrItsGateway
  <1>1. IInv => OnlyTargetOrItsGateway
    <2>1. SUFFICES ASSUME IInv, NEW c \in Clients, effects[c] > 0, c[1] \in Devices
                   PROVE  IsTargetOrItsGateway(c[1])
      BY DEF OnlyTargetOrItsGateway, Reached
    <2>. QED  BY <2>1, DeviceArrival, RoutedToOwn
  <1>. QED  BY <1>1, InductiveInvariant, PTL

\* Without an override a gateway-managed device receives no write of its own.
THEOREM ControllerOwnsWrites == Spec => []GatewayKeepsItsDevices
  <1>1. IInv => GatewayKeepsItsDevices
    <2>1. SUFFICES ASSUME IInv, NEW c \in Clients, effects[c] > 0, c[1] \in Devices,
                          c[1] = Named(call), Config(c[1]).management = "gateway",
                          IsWriteMethod(call.spec), call.spec.path \in {"managed", "config"},
                          call.override = None
                   PROVE  GatewayOf(c[1]) = c[1]
      BY DEF GatewayKeepsItsDevices, Reached
    <2>2. c[1] = RouteTarget(call) /\ c[1] # None /\ call.tool \in {"typed", "invoke"}
      BY <2>1, DeviceArrival, NamesAssumption DEF Routed
    <2>3. IsRouted(call)
      BY <2>1, <2>2 DEF IsRouted, CountsAsWrite
    <2>4. PlanOf(call) \in {"redirect", "gateway"}
      <3>1. PreferredAuthority(c[1], call.spec.path) \in {"ic2", "gateway"}
        BY <2>1 DEF PreferredAuthority, GatewayManages, IsGatewayManaged
      <3>. QED  BY <2>1, <2>3, <3>1, NamesAssumption DEF PlanOf, PlanLevel
    <2>. QED  BY <2>1, <2>2, <2>4 DEF RouteTarget, WriteHandle, IsGatewayManaged
  <1>. QED  BY <1>1, InductiveInvariant, PTL

\* Without an override no LAN device receives what InControl 2 has a tool for.
THEOREM CloudOwnsWrites == Spec => []CloudKeepsItsPaths
  <1>1. IInv => CloudKeepsItsPaths
    <2>1. SUFFICES ASSUME IInv, NEW c \in Clients, effects[c] > 0, c[1] \in Devices,
                          IsWriteMethod(call.spec), call.spec.path = "managed",
                          call.override = None, fleet.ic2 # "off", Config(Named(call)).ic2
                   PROVE  Config(Named(call)).config_authority = "device"
      BY DEF CloudKeepsItsPaths, Reached
    <2>2. c[1] = RouteTarget(call) /\ c[1] # None /\ call.tool \in {"typed", "invoke"}
      BY <2>1, DeviceArrival, NamesAssumption DEF Routed
    <2>3. IsRouted(call)
      BY <2>1, <2>2 DEF IsRouted, CountsAsWrite
    <2>4. PlanOf(call) # "redirect"
      BY <2>2 DEF RouteTarget
    <2>5. PreferredAuthority(Named(call), call.spec.path) # "ic2"
      BY <2>1, <2>3, <2>4, NamesAssumption DEF PlanOf, PlanLevel
    <2>. QED  BY <2>1, <2>5 DEF PreferredAuthority, CloudManages
  <1>. QED  BY <1>1, InductiveInvariant, PTL

\* No write leaves with a read-only credential.
THEOREM ElevatedWrites == Spec => []WritesUseElevatedTier
  <1>1. IInv => WritesUseElevatedTier
    <2>1. SUFFICES ASSUME IInv, NEW d \in Devices, effects[<<d, "read_only">>] > 0,
                          IsWriteMethod(call.spec)
                   PROVE  FALSE
      BY DEF WritesUseElevatedTier
    <2>2. <<d, "read_only">> \in Clients
      BY DEF Clients, Tiers
    <2>3. call \in Calls /\ call.tool # "ic2" /\ ClientTier(call, handle) = "read_only"
      BY <2>1, <2>2, DeviceArrival
    <2>. QED  BY <2>1, <2>3, ElevatedTier
  <1>. QED  BY <1>1, InductiveInvariant, PTL

-----------------------------------------------------------------------------
(* The refinement: what the tools do is one of the promised calls.         *)

\* No client is chosen before the call is routed.
NoClientYet == stage \in {"idle", "target", "gates", "route", "client"} => client = None

LEMMA ClientComesLate == Spec => []NoClientYet
  <1>1. Init => NoClientYet
    BY DEF Init, NoClientYet
  <1>2. NoClientYet /\ [Next]_vars => NoClientYet'
    <2>. SUFFICES ASSUME NoClientYet, [Next]_vars PROVE NoClientYet'
      OBVIOUS
    <2>. USE DEF NoClientYet, Goto, config, locals
    <2>1. CASE UNCHANGED vars
      BY <2>1 DEF vars
    <2>2. CASE Begin \/ ResolveTarget \/ RunGates \/ WriteGates
      BY <2>2 DEF Begin, ResolveTarget, RunGates, WriteGates, StopCall, Raise
    <2>3. CASE Route \/ SelectClient \/ Record
      BY <2>3 DEF Route, SelectClient, Record, Raise
    <2>4. CASE Invoke \/ InvokeCloud \/ Transfer \/ Answer \/ Finish
      BY <2>4 DEF Invoke, InvokeCloud, Transfer, Answer, Finish, Raise
    <2>. QED  BY <2>1, <2>2, <2>3, <2>4 DEF Next
  <1>. QED  BY <1>1, <1>2, PTL DEF Spec

Request ==
    IF stage = "idle" THEN [audited |-> FALSE, cleared |-> FALSE, routes |-> {}]
    ELSE [audited |-> RequiredTier(call) = "admin",
          cleared |-> IsWriteMethod(call.spec) => Cleared(call),
          routes  |-> IF call.tool = "ic2" THEN CloudRoutes ELSE LanRoutes]

Via == IF stage = "record" THEN None ELSE client

\* A call asks for the same from its first step to its last.
LEMMA RequestFixed ==
    ASSUME stage # "idle", stage' # "idle", UNCHANGED <<fleet, allowed, call>>
    PROVE  Request' = Request
  <1>1. RequiredTier(call)' = RequiredTier(call)
    BY Frame
  <1>2. (IsWriteMethod(call.spec) => Cleared(call))' <=> (IsWriteMethod(call.spec) => Cleared(call))
    BY DEF IsWriteMethod, Cleared
  <1>3. LanRoutes' = LanRoutes /\ CloudRoutes' = CloudRoutes
    BY DEF LanRoutes, CloudRoutes, IsWriteMethod, IsTargetOrItsGateway, Config, Named
  <1>. QED  BY <1>1, <1>2, <1>3 DEF Request

\* What a call may ask for is what PrivilegedCall knows.
LEMMA RequestTyped ==
    TypeOK /\ (stage # "idle" => call \in Calls) => Request \in Promise!Requests
  <1>. SUFFICES ASSUME TypeOK, stage # "idle", call \in Calls PROVE Request \in Promise!Requests
    BY DEF Request, Promise!Requests
  <1>1. LanRoutes \subseteq Promise!Routes
    BY DEF LanRoutes, Promise!Routes, Clients
  <1>2. Named(call) \in Devices \cup {Unknown, None}
    BY CallsAssumption DEF Named, CallRecords, TypeOK, FleetConfigs
  <1>3. CloudRoutes \subseteq Promise!Routes
    BY <1>2 DEF CloudRoutes, Promise!Routes, Clients
  <1>4. (RequiredTier(call) = "admin") \in BOOLEAN
    OBVIOUS
  <1>5. (IsWriteMethod(call.spec) => Cleared(call)) \in BOOLEAN
    OBVIOUS
  <1>. QED  BY <1>1, <1>3, <1>4, <1>5 DEF Request, Promise!Requests

LEMMA RequestTypedNext ==
    (TypeOK /\ (stage # "idle" => call \in Calls) => Request \in Promise!Requests)'
  BY RequestTyped, PTL

\* A call that leaves over the LAN does so as it may.
LEMMA LanRouteAllowed ==
    ASSUME call \in Calls, call.tool # "ic2", Routed, Chosen
    PROVE  [client |-> client, name |-> handle] \in LanRoutes
  <1>1. IsTargetOrItsGateway(handle) /\ handle \in Devices /\ Named(call) \in Devices
    BY RoutedToOwn DEF Routed
  <1>2. ClientTier(call, handle) \in IF IsWriteMethod(call.spec) THEN Tiers \ {"read_only"} ELSE Tiers
    BY ElevatedTier DEF Chosen
  <1>. QED  BY <1>1, <1>2 DEF Chosen, LanRoutes

\* Each step of a tool is a step of the promised call, or none.
LEMMA StepKeepsPromise ==
    ASSUME IInv, IInv', NoClientYet, Next
    PROVE  [Promise!Next]_Promise!vars
  <1>. USE DEF Goto, config, locals
  <1>1. CASE Begin
    <2>1. call' \in Calls /\ stage' \in {"target", "gates"}
      BY <1>1 DEF Begin
    <2>2. Request' \in Promise!Requests
      BY <2>1, RequestTypedNext DEF IInv
    <2>3. Promise!Ask
      BY <1>1, <2>1, <2>2 DEF Begin, Promise!Ask, Request, remote
    <2>. QED  BY <2>3 DEF Promise!Next
  <1>2. ASSUME stage # "idle", stage' \notin {"idle", "over"}, UNCHANGED <<fleet, allowed, call, trail, effects>>,
               stage # "over", Via' = Via
        PROVE  UNCHANGED Promise!vars
    BY <1>2, RequestFixed DEF Promise!vars, Request, Via
  <1>3. ASSUME stage \notin {"idle", "over"}, stage' = "over", UNCHANGED <<fleet, allowed, call, trail, effects>>,
               Via' = Via
        PROVE  Promise!Next
    <2>1. Promise!Close
      BY <1>3, RequestFixed DEF Promise!Close, Request, Via
    <2>. QED  BY <2>1 DEF Promise!Next
  <1>4. ASSUME stage \notin {"idle", "over", "record"}, Raise
        PROVE  Promise!Next
    BY <1>3, <1>4 DEF Raise, remote, Via
  <1>5. CASE ResolveTarget
    BY <1>2, <1>4, <1>5 DEF ResolveTarget, remote, Via
  <1>6. ASSUME NEW name \in Devices \cup {Unknown, InControl, None},
               stage = "gates", stage' = "over",
               trail' = trail \cup {[decision |-> "deny", device |-> name]},
               UNCHANGED <<fleet, allowed, call, client, effects>>
        PROVE  Promise!Next
    <2>1. Promise!Deny(name)
      BY <1>6, RequestFixed DEF Promise!Deny, Promise!Logged, Request, NoClientYet
    <2>. QED  BY <2>1 DEF Promise!Next
  <1>7. ASSUME NEW name, NEW way,
               stage \in {"gates", "record"}, stage' = "invoke", call \in Calls, Permitted(call),
               way = client', Via = None,
               [client |-> way, name |-> name] \in Request.routes,
               trail' = IF RequiredTier(call) = "admin"
                        THEN trail \cup {[decision |-> "allow", device |-> name]} ELSE trail,
               UNCHANGED <<fleet, allowed, call, effects>>
        PROVE  Promise!Next
    <2>1. Request.cleared
      BY <1>7, PermittedIsCleared DEF Request
    <2>2. Promise!Commit([client |-> way, name |-> name])
      BY <1>7, <2>1, RequestFixed DEF Promise!Commit, Promise!Logged, Request, Via
    <2>. QED  BY <1>7, <2>2 DEF Promise!Next, Request
  <1>8. CASE RunGates
    <2>1. Named(call) \in Devices \cup {Unknown, InControl, None}
      BY <1>8, CallsAssumption DEF RunGates, IInv, Facts, CallKnown, Named, CallRecords, TypeOK, FleetConfigs
    <2>. QED  BY <1>2, <1>6, <1>8, <2>1 DEF RunGates, StopCall, remote, Via
  <1>9. CASE WriteGates
    <2>1. /\ stage = "gates" /\ call.tool = "ic2" /\ call \in Calls
          /\ handle = CloudLabel(call) /\ handle \in Devices \cup {InControl}
      BY <1>9 DEF WriteGates, IInv, Facts, CallKnown, ToolOfStage
    <2>2. CASE Permitted(call)
      <3>1. RequiredTier(call) = "admin"
        BY <2>1 DEF RequiredTier
      <3>2. [client |-> <<InControl, "admin">>, name |-> handle] \in Request.routes
        BY <2>1 DEF Request, CloudRoutes, CloudLabel, GroupByIds
      <3>. QED  BY <1>7, <1>9, <2>1, <2>2, <3>1, <3>2 DEF WriteGates, remote, Via, NoClientYet
    <2>3. CASE ~Permitted(call)
      BY <1>6, <1>9, <2>1, <2>3 DEF WriteGates, StopCall, remote
    <2>. QED  BY <2>2, <2>3
  <1>10. CASE Route
    BY <1>2, <1>4, <1>10 DEF Route, remote, Via
  <1>11. CASE SelectClient
    BY <1>2, <1>4, <1>11 DEF SelectClient, remote, Via, NoClientYet
  <1>12. CASE Record
    <2>1. call \in Calls /\ call.tool # "ic2" /\ Permitted(call) /\ Routed /\ Chosen
      BY <1>12 DEF Record, IInv, Facts, CallKnown, ToolOfStage, PastGates, PastRoute, PastClient
    <2>2. [client |-> client, name |-> handle] \in Request.routes
      BY <1>12, <2>1, LanRouteAllowed DEF Record, Request
    <2>. QED  BY <1>7, <1>12, <2>1, <2>2 DEF Record, AuditedDevice, remote, Via
  <1>13. CASE Invoke \/ InvokeCloud
    <2>1. CASE Raise
      BY <1>4, <1>13, <2>1 DEF Invoke, InvokeCloud
    <2>2. CASE Remote!Begin(client) /\ stage' = "sending" /\ UNCHANGED <<config, locals, trail>>
      BY <1>2, <1>13, <2>2 DEF Invoke, InvokeCloud, Remote!Begin, Via
    <2>. QED  BY <1>13, <2>1, <2>2 DEF Invoke, InvokeCloud
  <1>14. CASE Transfer
    <2>1. client \in Clients /\ client # None
      BY <1>14, ClientChosen, NamesAssumption DEF Transfer, IInv
    <2>2. CASE Remote!TakeEffect(client)
      <3>1. Promise!Apply
        BY <1>14, <2>1, <2>2, RequestFixed DEF Transfer, Remote!TakeEffect, Promise!Apply, Request, Via
      <3>. QED  BY <3>1 DEF Promise!Next
    <2>3. CASE Remote!LoseAnswer(client)
      BY <1>2, <1>14, <2>3 DEF Transfer, Remote!LoseAnswer, Via
    <2>. QED  BY <1>14, <2>2, <2>3 DEF Transfer
  <1>15. CASE Answer
    BY <1>3, <1>15 DEF Answer, Remote!Succeed, Remote!Fail, Via
  <1>16. CASE Finish
    <2>1. \A c \in Clients : effects'[c] = 0
      BY <1>16 DEF Finish, IInv, Facts, OnlyClientSends, Quiet
    <2>2. effects' = [c \in Clients |-> 0]
      BY <2>1 DEF IInv, TypeOK
    <2>3. Promise!Forget
      BY <1>16, <2>2 DEF Finish, Promise!Forget, Promise!NoRequest, Promise!NothingSent
    <2>. QED  BY <2>3 DEF Promise!Next
  <1>. QED
    BY <1>1, <1>5, <1>8, <1>9, <1>10, <1>11, <1>12, <1>13, <1>14, <1>15, <1>16 DEF Next

\* Every tool call, typed, by the escape hatch or by InControl 2, is a promised call: one
\* that is committed to one client before anything is sent, only when it is cleared,
\* and under the name the log then has.
THEOREM Refinement == Spec => ImplementsPrivilegedCall
  <1>1. Init => Promise!Init
    BY DEF Init, Remote!Init, Promise!Init, Promise!NoRequest, Promise!NothingSent
  <1>2. IInv /\ IInv' /\ NoClientYet /\ [Next]_vars => [Promise!Next]_Promise!vars
    <2>1. ASSUME UNCHANGED vars PROVE UNCHANGED Promise!vars
      <3>1. UNCHANGED <<fleet, allowed, call, stage, client, trail, effects>>
        BY <2>1 DEF vars, config, locals, remote
      <3>2. CASE stage = "idle"
        BY <3>1, <3>2 DEF Promise!vars
      <3>3. CASE stage # "idle"
        BY <3>1, <3>3, RequestFixed DEF Promise!vars, Request, Via
      <3>. QED  BY <3>2, <3>3
    <2>. QED  BY <2>1, StepKeepsPromise
  <1>. QED
    BY <1>1, <1>2, InductiveInvariant, ClientComesLate, PTL DEF Spec, ImplementsPrivilegedCall, Promise!Spec
=============================================================================
