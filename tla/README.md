# Formal model of peplink-mcp

TLA+ modules, TLC configurations and TLAPS proofs for the Peplink MCP server: a
Python program that lets a language model read and change a fleet of Peplink
routers, switches and access points over their LAN API, over InControl 2 (the
vendor's cloud, "IC2" below) and over SNMP. Source paths below are relative to
`src/`; `core` is `packages/peplink-core/src/peplink_core`, `shared` is
`packages/peplink-mcp-shared/src/peplink_mcp_shared`, `ic2` is
`packages/peplink-ic2/src/peplink_ic2` and `app` is
`apps/device/src/peplink_device_mcp`.

## 1. Inventory

| Component | State it keeps | Operations | What makes it hard | What makes it correct |
|---|---|---|---|---|
| **Device API client** `core/client.py` | one credential (token + expiry, or cookie) and a lock, per device and tier | `request`, `request_unauthenticated`, `ensure_authenticated`, grant, login | a lock around the grant but not around the use; three nested retry loops; a POST repeated after a lost answer; a 401 of one thread clears what another one holds | one grant at a time; a refused credential is not sent again; a call ends within its budget; an effect is repeated only when its answer was lost |
| **Privileged tools and write routing** `app/manifest_tools.py`, `core/manifest.py`, `core/config_authority.py`, `core/management.py`, `core/registry.py` | nothing between calls; a call carries its target, plane, handle and tier | one tool per manifest endpoint, `peplink_invoke` | three planes (device, its gateway, IC2), an override, a pin and two management modes decided by the order of early returns; steps that raise between gate, record and effect | gate before effect, record before effect, the right device, the right plane, the right credential |
| **Policy and audit** `shared/policy.py`, `shared/audit.py`, `shared/context.py` | process-wide flags; the log | the gates, one record per privileged call | what a record promises against what happened | the trail is complete and says what was done |
| **IC2 client** `ic2/client.py` | access token, refresh token, expiry, lock | `request`, grant (refresh first, then client credentials), envelope | a refresh token that is refused must not be tried for ever; rate limits; the token used without the lock | as for the device client, and a dead refresh token is dropped |
| **IC2 tools** `app/ic2_tools.py` | none | reads and writes by group or device, gated as above | the target is resolved (over the network) before the gates | as for the privileged tools |
| **IC2 target resolution** `ic2/resolver.py` | a cache from fleet device to IC2 ids, for the life of the process | resolve by ids, by serial, in the default organisation, then in the others | a hit is kept for ever, a device may move; partial ids | a resolved target is the device the fleet file means |
| **IC2 matching and sync** `ic2/automap.py`, `app/ic2_sync.py` | none; reads the fleet file, writes a copy of it for review | match each fleet device to an IC2 record, write the match into the copy | fuzzy matches written like exact ones; two devices matching one record; explicit ids replaced; the file edited between matching and writing | a serial the file has is kept; a match has no rival |
| **Host discovery** `core/fleet_resolve.py`, `core/discovery.py` | `device.host` of each configured device | at start: ask a gateway for the address of each device that has none; any failure ends the process, which is started again | the result depends on the order of the file; one failure stops all; addresses change afterwards | the server serves only with every host resolved; a host is the address of a unit that fits; a resolvable file is served in the end |
| **Caller identity** `shared/mcp_keys.py`, `shared/auth_middleware.py`, `app/runtime.py` | a context variable with the caller's tier | bearer token to principal, `require_tier` | a principal of one request visible in another | a tool runs with the tier of the request that called it |
| **Configuration** `core/config.py`, `core/secrets_ini.py`, `core/bootstrap.py` | the fleet and its credentials, read once | parse, overlay, merge, check, pick a source | credentials in a device's secrets, in a profile or in the base file; checks before and after validation; a second source of another shape | a device has the credentials written for it, as a whole; what passes the checks can be read |
| **Read tools** `app/runtime.py`, reads of `app/ic2_tools.py`, `core/registry.py` | a client per device and tier, with its session | choose device, transport and tier; one request | an access point answers over SNMP, a managed device's ports come from its gateway; sessions outlive credentials | the credential goes to the device it belongs to |
| **Diagnostics** `core/doctor.py`, `ic2/doctor.py`, `core/fleet_summary.py` | none (clients of their own) | probe each tier; probe the cloud | one tier failing; a session from before | OK means every credential was accepted now; no tier is passed over |
| **SNMP** `core/snmp/*.py` | none | walk the tables of an access point, join them | two walks joined by row index are no snapshot; rows change meanwhile; `asyncio.run` inside a server that has a loop | rows that stay are read exactly, no entry mixes two rows, the walk ends |
| **Endpoint helpers** `core/endpoints/*.py`, `ic2/endpoints/*.py` | none | format one request, trim one answer | wording of requests | - |
| **Command line, setup wizard** `app/main.py`, `app/setup_wizard.py` | none | start the parts above; a first fleet file | - | - |

How they interact: the server process (`app/runtime.py`) resolves the
configuration once, builds an `AppContext` (policy, audit log, registry of device
handles, IC2 handles), optionally asks a gateway for missing addresses, and
registers tools. A tool call arrives over stdio or HTTP with a principal; the
handler runs the gates, chooses a plane, takes a client from the registry, writes
an audit record and calls the client, which logs in and retries as needed. Tools
are plain synchronous functions, so one process runs them one after another;
the clients nevertheless hold a lock and are written to be shared by threads,
and that is how they are modelled.

## 2. Modules

| Module | What it is |
|---|---|
| `RemoteCall` | abstract specification: what a caller of a client may rely on |
| `PrivilegedCall` | abstract specification: what the operator is promised of a tool call that may change something |
| `TargetLookup` | abstract specification: what a tool may rely on when it asks for the IC2 target of a device |
| `DeviceClient` | `PeplinkDeviceClient`, several threads on one client |
| `DeviceCallBudget` | `DeviceClient` with fairness, counters of the logins one call makes, and a note of what other threads did to it |
| `MCDeviceClient` | `DeviceCallBudget` for two threads: symmetry and a view |
| `DeviceClientProofs` | inductive invariant, safety theorems and refinement of `DeviceClient` and of `DeviceCallBudget` |
| `WriteTools` | a privileged call, from the gates through routing, tier and record to its effect; uses `RemoteCall` for each client |
| `MCWriteTools` | fleets, endpoints and calls for TLC |
| `WriteToolsProofs` | inductive invariant, safety theorems and refinement of `WriteTools` |
| `IC2Client` | `IC2Client`, several threads on one client |
| `IC2CallBlame`, `MCIC2Client` | `IC2Client` with a note of what other threads did to a call; symmetry for TLC |
| `IC2ClientProofs` | inductive invariants, safety theorems and refinement of `IC2Client` and of `IC2CallBlame` |
| `IC2Mapping`, `MCIC2Mapping` | the resolver with its cache, the matcher and ic2-sync, the fleet file between them; files and hints for TLC |
| `IC2MappingProofs` | inductive invariant, safety theorems and refinement of `IC2Mapping` |
| `CallerIdentity`, `MCCallerIdentity` | key store, bearer middleware, context variable, both transports; key lists for TLC |
| `CallerIdentityProofs` | inductive invariant and safety theorems of `CallerIdentity` |
| `HostDiscovery`, `MCHostDiscovery` | resolution of missing hosts at start, and the restarts; fleets for TLC |
| `HostDiscoveryProofs` | inductive invariant and safety theorems of `HostDiscovery` |
| `FleetConfig` | what the configuration files say, as operators: merge, checks, `secrets.conf`, choice of the source |
| `ReadTools`, `MCReadTools` | the server from those files to the requests of its read tools and of the doctors; setups for TLC |
| `ReadToolsProofs` | lemmas on `FleetConfig`, inductive invariant and safety theorems of `ReadTools` |
| `ApTables`, `MCApTables` | the SNMP walks over an access point's tables and the joining of their rows; items for TLC |
| `ApTablesProofs` | inductive invariant and safety theorems of `ApTables` |

`DeviceClient` implements `RemoteCall` (checked and proved), and so does
`IC2Client` (likewise); `WriteTools` composes the tool pipeline with one
`RemoteCall` per client, and implements `PrivilegedCall`; `IC2Mapping` implements
`TargetLookup` (all checked and proved). The pipeline is therefore
checked against everything a client may do, without its lock and token states.
`ReadTools` composes the configuration (`FleetConfig`) with the server that is
started from it.

### RemoteCall

A call is idle, pending, successful or failed. The device may carry it out again
only when the answer to the previous effect was lost, at most `MaxAttempts`
times, and "ok" needs a confirmed effect. Four kinds of failure stand for
`PeplinkConnectionError`, an API error whose message is "Internal Error", another
API error and `PeplinkAuthError`.

### PrivilegedCall and TargetLookup

A `PrivilegedCall` is idle, open or closed. It asks for something (`request`: whether
it must be audited, whether the gates let it through, the clients it may go by and
the name the log has for the target of each), is committed once to one of these
clients (`via`) and recorded in the same step, and only then carried out, by that
client alone; a call that is denied is closed at once. In `WriteTools` five steps lie
between the gates and the commitment and any of them may raise; which clients a call
may go by (`LanRoutes`, `CloudRoutes`) is stated from the call alone, without the plan.

A `TargetLookup` answers by explicit ids, by what it answered before, or by the place
of the unit at one moment (`Find`). It may say "not found" only of a unit that is in
no group or moved since it was asked for (`strayed`), and "not reached" at any time.
`IC2Mapping` gets there by one request per organisation with the fleet moving between
them.

### DeviceClient

| Model | Code |
|---|---|
| `kind` | the type of `self.auth`: client credentials or user and password |
| `lock` | `self._lock` |
| `credential`, `fresh` | `_access_token` with `_token_expires_at`, or `_cookie_name`/`_cookie_value` (a cookie does not expire locally) |
| `pc`, `authed`, `attempt`, `rescue`, `grantTry` | where a thread is in `request`, in the handler of its `except PeplinkAuthError`, in `_grant_token` |
| `sent`, `reply`, `error` | the request in flight, its answer, the exception on its way up |
| `applied`, `unconfirmed`, `rejected` | history of the running call, read by properties only |

One step is what a thread does between two points where another thread may run:
acquiring the lock, a round trip, each read of the credential outside the lock,
each clearing. `ensure_authenticated` tests and grants under the lock;
`TestCredential` and `AttachCredential` are the two unlocked reads of
`_auth_query`; `_clear_auth` is not locked in the code and not in the model.

The device is external. It may carry out a request and lose the answer, carry it
out and answer with an error, refuse the credential at any time, refuse a grant
or a login, fail at the transport level anywhere. It does not carry out a request
without a credential, and does not issue a credential that a running call still
remembers (`Unused`). The two attributes of a credential (token and expiry,
cookie name and value) are stored by one step: no other thread reads the second
without having read the first. An answer whose `expiresIn` or `code` is no number
raises `ValueError` in the code; the model counts it with the API errors.

`PeplinkAuthError`, `PeplinkConnectionError` and `PeplinkAPIError` are siblings,
so `_grant_token`, which catches `PeplinkAPIError`, repeats a grant only after
"Internal Error"; a transport error leaves it at once and is repeated by
`request`, and what the handler of an authentication error raises is not caught
again (`Uncaught`).

### WriteTools

| Model | Code |
|---|---|
| `fleet` | `FleetConfig`: per device its kind, management mode, gateway (`discover.via`), pin (`config_authority`), IC2 mapping, available tiers, whether its host is known; defaults; IC2 credentials |
| `allowed` | the policy flags the operator switched on |
| `call` | the endpoint, device, confirm argument, override and caller's tier of the running tool call |
| `stage` | where the handler is: `target` (an IC2 tool resolves first), `gates`, `route`, `client`, `record`, `invoke`, `sending`, `over`; `idle` between calls |
| `level`, `handle`, `client` | `WritePlan.level`, the `DeviceHandle` and the client (device, tier) chosen |
| `trail` | the audit records of the call |
| `phase`, `effects`, `unconfirmed` | the `RemoteCall` of every client |

`Begin` takes any call over the registered endpoints; `RunGates` is `_run_gates`
(key tier, policy flag, confirm), `ResolveTarget` and `WriteGates` the same for the
IC2 tools, where the target is resolved first; `Route` is `_resolve_handle` with
`plan_write_authority` and `resolve_write_handle`; `SelectClient` chooses the
credential; `Record` the audit record; `Invoke` and `InvokeCloud` parse the
arguments and start the request; `Transfer` and `Answer` are steps of `RemoteCall`;
`Finish` returns. A step that raises ends the call (`Raise`), a denial is recorded
(`StopCall`).

Paths are abstracted to what the decision tells apart: LAN paths to those IC2
manages, other `config`/`cmd` paths, status paths and authentication paths; IC2
paths to group and device. Query and body are abstracted to whether they parse.
Devices have a gateway at most one hop away, as in `management_gateway_id`.
`request_unauthenticated` sends once; as a `RemoteCall` it is allowed to repeat, an
over-approximation that no property of this module depends on.

In every module an operator that stands just before another with the same
parameters and is used by no definition is a fault of the code, kept as evidence
that a property would notice it (a dropped guard, a cache with the wrong key); the
header of each module says so.

### IC2Client

The state is that of `DeviceClient` with a refresh token (`refresh`), which
survives `_clear_auth`, and the two exchanges of `_grant_token` as program points
(`refreshing`, then `granting`), each repeated by `_post_token`. `rate`
(`IC2RateLimitError`) is retried like `conn`
and is mapped to it in the refinement of `RemoteCall`. `refused` remembers the
refresh tokens the service refused: one that is refused is dropped, or every later
grant would try it first again.

Not modelled: the length of the waits, `Retry-After` included. Modelled although
improbable: an `expires_in` that is no number raises after the tokens are stored
and before the expiry is (`GrantedWithoutExpiry`), and with two threads a request
may leave with the text "Bearer None" (`sent = None`), which the service refuses.

### IC2Mapping

| Model | Code |
|---|---|
| `file`, `copy` | `config.yaml` and `config.synced.yaml`: serial, explicit ids and site of each device |
| `fleet`, `cache` | what the server read at start, `target_cache` |
| `walk`, `answer` | a `_resolve_by_serial` in progress, what the last resolution returned or raised |
| `sync` | the matches `run_ic2_sync` found and has not written yet |
| `place` | InControl 2: the organisation and group of each unit |
| `movedSince` | history: units moved since the device was last looked up |

Each request to InControl 2 is one step (`SearchOrg`, `ListOrgs`, `SyncMatch`), so a
unit may move between two of them. `MatchDevice` is the precedence of
`match_device`: serial, MAC, then the listed devices narrowed by model and by
name, each only when that leaves something, and a match only if one is left. The
order of the organisations does not matter to the properties and is left open. A
unit is named by its serial number; two spellings of a serial, other payload
shapes and the site a record without a group inherits are left out.

### CallerIdentity

| Model | Code |
|---|---|
| `environment`, `keys` | transport, `PEPLINK_MCP_KEY`, `PEPLINK_MCP_TIER`; the `mcp_keys` entries with their secrets, in order |
| `server`, `root` | whether the process runs or raised at start; the principal bound over stdio |
| `pc`, `token`, `session`, `public` | an HTTP request: where it is, its bearer token, session id, whether its path is public |
| `bound`, `task` | `_current_principal` in the context of the request, and of the task the tool runs in |
| `opener`, `ran` | history: who used a session first; the kind of the tool that ran |

`Start` is `create_server` with `_resolve_stdio_principal` or `_run_http`;
`Authenticate` the middleware. `CallTool` runs a tool of one of three kinds: most reads
are open and ask for nothing, not even that anybody is bound (`app/ic2_tools.py:8`,
the tools of `app/runtime.py`), the others ask for the tier they need (`MayRun`). Only the
middleware keeps strangers from the open ones, so `ToolRunsAsRequester` fails as soon as
it lets a request through without a key. `Dispatch`
is the MCP library, which is not in `src/`: in its stateless mode the task is
started by the request and inherits its context, which is what
`shared/auth_middleware.py:12` relies on. `SessionContext` is the other mode, and
`ToolRunsAsRequester` fails with it too.

### HostDiscovery

| Model | Code |
|---|---|
| `fleet` | the fleet file (order, `host`, `discover.via`, `defaults.gateway_id`, kind, management, which devices have read credentials) and the network it describes (which units fit `discover.match`, which a gateway reports) |
| `host`, `todo`, `listings` | `device.host`, the rest of `pending` (a set, taken in the file's order), the three caches by gateway |
| `stage` | `down`, `resolving`, `failed`, `serving` |
| `lease`, `up`, `moved` | the network: addresses, reachable units; history: units renumbered since the start |

`AskGateway(d)` is one iteration up to its request, `TakeAddress(d)` the match and
the assignment, both for the device that is next in the file (`IsNext`); every
exception leads to `failed`, and `Boot` starts again from the file. A unit that does
not answer may be missing from the gateway's list, or be there with or without an address (`Reported`, `shown`). The keys of `discover.match`
are abstracted to the set of units that fit. The caches are keyed by gateway and
kind of list, as the three dictionaries are.

### FleetConfig and ReadTools

| Model | Code |
|---|---|
| `setup` | `config.yaml`, `secrets.yaml` and `secrets.conf`, and which of them the environment names |
| `server`, `fleet` | whether `create_server` returned; `ctx.fleet` after `resolve_discovered_hosts` |
| `valid` | external: the credentials devices and cloud accept |
| `sessions` | the clients of `registry._handles` that are logged in |
| `stage`, `call`, `client` | the running tool or doctor and where its last request went: device, address, transport, tier, credential |
| `todo`, `report` | tiers or checks still to probe, and the verdicts |
| `accepted` | history: credentials a login of this call proved |

The files are records of what they say; YAML and INI syntax is left out, and so
are ports, TLS and sites. `Merged` is `_merge_device_auth` for one device, `MergedCloud`
is `_merge_ic2`: the credentials of a device are replaced as a whole, those of the
cloud one by one. `Complete` is the check after the merge with the validators of
`DeviceConfig` and `DeviceAuthPair`. `FleetFromConf` is `fleet_from_secrets_conf`.
`LoadRuntimeFleet` chooses between them.

A read tool is an element of `Tools`, one for each way to choose a client:
`Asked` is the device it names, `ReadError` why it raises before its request, `ReadClient`
the client it uses. `Answered` and `RequestFails` are its request, which logs in when the
client has no session; what happens in between is `DeviceClient`. `Probe` is
`_probe_tier` or a check of `run_ic2_doctor`, `Rest` what a failure leaves to do,
`ProbeRaises` an exception neither of them catches, which leaves no report.
`Revoke` and `EndSession` are the devices' doing.

`Start` lets a discovered gateway be asked whatever its place in the file and then
takes the addresses it reports to be right; order, failures and changing
addresses are in `HostDiscovery`. The doctors run between the tools here, and as
commands they run in a process of their own: both make clients of their own, so
it makes no difference to them. An access point's HTTP credentials, if it has any, are not
probed by the doctor, and `Examined` does not name them.
`peplink_get_config_port` may raise after its request was answered, when the
device it read is itself managed and its gateway is not known (`Answered`).

### ApTables

| Model | Code |
|---|---|
| `table` | external: what each row of the access point's tables holds |
| `walk`, `pos`, `got` | which walk runs, the OID of its last cell, the varbinds collected by column and row |
| `answer` | the parsed and joined answer of `fetch_ap_ssid_profile_config`, or the client list |
| `changes`, `held` | bound; history: what each row held since the read began |

`ReadCell` is one GETNEXT with the code's filter: the next cell that has a value, column
after column; `LeaveTable` is the answer that lies outside the table. Between two
cells a row may be freed or given to another item (`Change`), whose columns differ
(`Filled`). The advanced table has the rows of the profile table, as the join by index assumes.
An answer is `None` when the walk raised: what was read is lost with the exception.
The code joins by index (`SameIndex`) and lists a profile under its number, or under
its index when the read saw none (`Key`), and a later row replaces an earlier one with
the same key (`LastOf`). `UntouchedRowsExact` says so: a row that did not change is
listed under its own key, and unless a later row that may go under that key
(`MayGoUnder`: it has that id, or had none and has that index) has the entry, it
shows the row's own values.

## 3. Runs

| Run | Instance | Shows |
|---|---|---|
| `device_call` | 1 thread, 4 attempts (the code's `MAX_ATTEMPTS`), both kinds of login | `PostBudget`, `LoginRefusedTwiceAtMost`, `CallReturns` |
| `device_threads` | 2 threads, 2 attempts, 6 credentials | `SingleFlight`, `NeverResendRejected`, `AuthFailureJustified`, `CallsRunDown`, `ImplementsRemoteCall` |
| `write_tools` | a router and a switch, 2 attempts, the fleets of `MCFleets` | `TripleGate`, `TrailPrecedesEffect`, `OnlyTargetOrItsGateway`, `GatewayKeepsItsDevices`, `CloudKeepsItsPaths`, `ImplementsPrivilegedCall` |
| `ic2_call` | 1 thread, 4 attempts, 2 refresh tokens | `RefusedRefreshTokenDropped`, `CallReturns` |
| `ic2_threads` | 2 threads, 2 attempts, 6 tokens, 1 refresh token | `SingleFlight`, `NeverResendRejected`, `AuthFailureJustified`, `CallsRunDown`, `ImplementsRemoteCall` |
| `ic2_mapping` | 2 devices, 2 units, 2 organisations (one the default), 1 group, 1 move or edit | `AnswerIsTheMappedDevice`, `CacheTrueUnlessMoved`, `MissIsJustified`, `SyncKeepsSerials`, `NoRivalCandidate`, `ImplementsLookup` |
| `caller_identity` | 2 requests, 2 session ids, every list of at most 2 keys, every environment | `ToolRunsAsRequester`, `OneTierPerToken`, `ServesOnlyAuthorized` |
| `host_discovery` | 3 devices, 3 units, 3 addresses, 108 files, 2 changes of the network | `ServingMeansResolved`, `HostTrueUnlessMoved`, `StartsInTheEnd` |
| `ap_tables` | 3 rows, 3 items, 2 changes during a read | `UntouchedRowsExact`, `EntriesComeFromOneRow`, `ReadEnds` |
| `read_server` | 110 setups, 3 devices, 1 credential withdrawn | `CredentialStaysWithItsDevice`, `ServedMeansReadable`, `DoctorOkMeansAccepted`, `EveryTierHasAVerdict` |
| `audit_allow` (violation) | as `write_tools` | section 5 |
| `audit_complete` (violation) | as `write_tools` | section 5 |

Each property is stated in words where the module defines it. `TypeOK` of every
module is proved (section 4) and is therefore in no configuration.

Bounds. `device_call` and `ic2_call` use the code's own number of attempts, and one
thread because their properties are about one call. `device_threads` has a view that drops
the counters of `DeviceCallBudget`, which no step and no property of that run reads, but for
whether a login was refused. With two threads every pair
of program points meets; two attempts are enough for a retry after every kind of
failure, and the proofs cover every number of threads and attempts. Six credentials are more than two threads and their histories
remember, so the service never runs out. `ic2_threads` has one refresh token,
so that it is refused, dropped and not issued again; `ic2_call` has two, so that
one replaces another.

In `write_tools` two devices are the named device and its gateway; a third device
is covered by the theorem. The calls of `MCCalls` take every endpoint class with
every override, confirm value, caller tier and parse outcome; the fleets vary one
aspect in all its values at a time together with the aspects it interacts with
(management x authority x IC2 mapping x credentials; `via` x default gateway x
unresolved host).

In `ic2_mapping` one change (`MaxChanges`) is either a move during a walk or an
edit during a sync; the two do not interact, and restarts, walks and syncs are
not counted. Two units are one that fits and its rival.
`caller_identity` needs two requests for one to see the other's principal, two
session ids to share one or not, and two keys for them to coincide in id, secret
or tier. `host_discovery` has a gateway with an address, a router found through it
and a device found through either, in three orders of the file; two changes let
a unit go and come back, or be renumbered before and after its list was read.

`ap_tables` has an item that shows every column, one without an id that shows only
what a listing needs and goes under its index, and one that is never listed; the
rows are 0, 1 and 2 and the number of the full profile is another row's index, so that
an index can be taken for a number. Three rows are one that stays, one that changes
and one whose key is at stake; two changes move an item from a row to another
during one read.
The setups of `read_server` give a second device every kind and management mode,
and its address and credentials in `config.yaml`, in `secrets.yaml`, in a profile, in
several of them or nowhere, with and without a default gateway, and one of them is a
router found by synergy, whose address is its gateway's; the `secrets.conf` have
one or two sections, a FusionHub and cloud credentials in either. Calls are
independent but for sessions and withdrawn credentials, and one withdrawal is
enough for a session to outlive its credential.

Fairness. `CallReturns` (both clients) assumes weak fairness of every step of a
thread (`Advance`). The code justifies it because every exchange is made by
`httpx` with a timeout, so a round trip ends, and nothing else in a call waits
except for the lock, which its holder gives back. `StartsInTheEnd` assumes that the
process runs on, that a request to a gateway ends, and that a process that ended
is started again (`docker/docker-compose.yml:28`, `docs/docker.md:63`); of the
network only what the property itself says, that the units are reachable from
some moment on. `ReadEnds` assumes that each SNMP request
ends, by its answer or its timeout (`core/snmp/client.py:113`); a walk ends because the OIDs it
asks for increase and the columns and rows are finite. No fairness is assumed of
the device, the access point, the service, the operator or the clock.

Deadlock is checked in every run but `read_server`, where a server that was refused
its configuration stops for good.

## 4. Proofs

Eight proof modules prove safety for all values of the constants that satisfy the
named assumptions of their modules.

`DeviceClientProofs`: `TypeInv` is `TypeOK` with the fact that the handler of an
authentication error calls `ensure_authenticated` only when an attempt is left,
without which the attempt counter could pass its bound. `SingleFlight` is inductive
given the types. `NeverResendRejected` is not: `RejectedInv` adds that the credential
held, which the next request will copy, is in no running call's `rejected`, and
that a copied one is not until its own refusal arrives. `EffectInv` says what
each program point knows of the effects of its call (between two attempts all are
unconfirmed and at most as many as attempts made); with it `Refinement` maps
every step to a step or a stutter of `RemoteCall`.

`CallsFinite` is the safety half of termination, for any number of threads:
`StepsLeft` puts a number on every position of a call, which is its program point with the
attempt, the handler's login and the try of a grant (`Position`), and whatever
changes a call's position lowers its number (`CallsRunDown`). That includes the step in which a
thread logs in for the handler of a 401 and finds what another was granted, after which
it stands at the same program point one attempt later; and no step of another thread
changes a position at all (`OthersKeep`). No
interleaving of threads that clear each other's credential makes a call go round for
ever; that it does return needs fairness besides and is left to TLC.

The history of `DeviceCallBudget` restricts nothing (`BudgetIsClient`), so the
invariants above hold there too. `AuthFailureJustified` says who is to blame for a
`PeplinkAuthError`, for any number of threads: the device, which refused this call
something, or another thread that cleared the credential between this call's test
under the lock and its unlocked read, in its last attempt. `BlameInv` follows the credential
from the test to the outcome; a step of the thread itself never loses it
(`BlameOfOneself`), one of another thread that does is noted (`BlameOfOthers`). With one thread
`disturbed` stays false and the error always stands for a refusal.

`PostBudget` holds for any number of threads: a call of `request` calls `ensure_authenticated` at most twice per attempt and once in the last
(`GrantsOver`), each posts at most `MaxAttempts` times, and `PostInv` relates `posts` to both
at every program point. `LoginRefusedTwiceAtMost` is what one thread may rely on when no
other uses the client, and has that as an explicit hypothesis: a login that was refused
leaves the loop through the handler at its second refusal (`DeniedInv`). With more
threads another one's login may let the loop go on in between.

`IC2ClientProofs`: the same argument for the other client. Its type invariant needs
`CallInv` beside it: what is refused in a refresh exchange is a refresh token only
because the lock keeps another thread from dropping it meanwhile, so types, lock
and loop bound are proved together. `RefusedRefreshTokenDropped` is then inductive
given `SingleFlight`; `RejectedInv` strengthens `NeverResendRejected` by the token
held, and `EffectInv` ties effects to attempts for the refinement. `CallsFinite` and
`AuthFailuresJustified` are proved as above; a step count here covers two
exchanges per grant, and a request may go out without a token ("Bearer None")
only when another thread cleared it in that moment.

`WriteToolsProofs`: `IInv` is `TypeOK /\ Facts`, where each fact ties what the call
has done so far to its stage: after the gates the caller's tier, flag and confirm
were sufficient; after routing the handle is what the plan names; after the record
the trail names the handle's device; only the selected client has a call, and only
after the record. `GatesHold`, `RecordedFirst`, `DeniedReachesNothing`,
`NoThirdDevice`, `ControllerOwnsWrites`, `CloudOwnsWrites` and `ElevatedWrites` follow.
`ElevatedWrites` rests on the assumption that the manifest gives every write
endpoint the admin tier, which is a property of the manifest files.

Its `Refinement` follows the same facts to the commitment of a call: a call that got past
the gates is cleared (`PermittedIsCleared`), the handle it was routed to is one its routes
name (`RoutedToOwn`), so is its credential (`ElevatedTier`), and the client chosen is not
used before the record is written (`ClientComesLate`), so choosing it is a
stutter and recording it the commitment. `DeniedReachesNothing` and `ElevatedWrites` state two
consequences of the refinement on their own; TLC checks them through it.

`IC2MappingProofs`: `IInv` is the types with one half for the resolver and one for
ic2-sync, which share no step. Cached and answered targets are those the server's
file maps the device to (`CacheMapped`, `AnswerMapped`); a unit that stays where it is
and is not found yet is in an organisation the walk still has to read (`NotPassed`).
A fuzzy match fits better than any other listed unit (`FuzzyIsBest`, from lemmas
about the matcher), and a copy differs from the file in its serials only where a match
added one (`CopyIsOfSync`). `Refinement` maps the end of a walk to `Find` or `Miss`: for
the miss `NotPassed` leaves no organisation the unit could still be in, unless it
strayed.

`CallerIdentityProofs`: a running server passed the checks of its transport, distinct
secrets included (`Started`), so one token holds one principal. `HttpRequest` follows
the token's principal (`Holds`) from the middleware into the task, which inherits it
because the request starts it (`TaskContext`), and to the tool; `StdioRequest` does so from
what the environment entitles the local caller to. For an open tool, which asks for
nothing, what remains to be shown is that its request carried a key: the middleware's doing.

`HostDiscoveryProofs`: while resolving, `todo` is exactly the devices without a host, an
address in a cached list is its unit's unless the unit moved, and a list under a
key is of that gateway and kind. The order of the file makes no difference to
safety.

`ApTablesProofs`: the invariant relates the cells collected to the position of the
walk: for a row that did not change, a cell behind the position was collected if
and only if its item shows it, and one ahead was not; a cell collected came from
an item the row held. A walk that leaves the table has nothing ahead, so every cell of
such a row is decided, its key and its values with them. The entry under its key is that of the
last row that goes there (`LastOf`): the row itself, or a later one, which held
something that lets it go under that key (`GoesUnder`, `AnswerExact`). Minima and maxima of the
finite set of rows come from the library's well-foundedness of strict subsets. The
proof assumes finitely many rows and nothing of the ids: they may repeat, be missing
from some profiles, and be indices of other rows.

`ReadToolsProofs`: lemmas show that what `LoadRuntimeFleet` returns is well formed and
that each address and credential in it is one the files write for that device
(`DeviceTrue`, `CloudTrue`) and that each device is complete. `IInv` keeps this of `fleet`,
that the client of a call was made from one device of it, and for a doctor that
verdicts given and tiers left to probe are together those owed, and that each good
verdict stands for a credential accepted during this call.

Only model-checked: liveness (`CallReturns` of both clients, `StartsInTheEnd`,
`ReadEnds`), which is out of the prover's reach. Every invariant, action property and
refinement of the passing runs is proved.

## 5. Disagreements between code and comments

| Run | A comment says | The code does |
|---|---|---|
| `audit_allow` | `shared/audit.py:36`: an "allow" record means the action was sent | the record is written before the arguments are parsed, which may raise (`app/manifest_tools.py:379`) |
| `audit_complete` | `shared/audit.py:3`: every admin-tier or write invocation is recorded | steps before the gates (an InControl 2 target that is not found, `app/ic2_tools.py:262`) or between the gates and the record (`app/manifest_tools.py:232`) may raise and leave none |

The findings are not hidden from the passing runs, which check the code as it is.

Three more texts describe the code more strictly than it behaves; no run is
spent on them, as the definitions named show it at a glance. The message of
`core/fleet_resolve.py:61` says a gateway must have a static address, while the test before it
accepts any host: one that was itself discovered earlier in the file serves as well, and
the fleet starts or fails by the order of its entries (`MayBeAsked`). An override to
"gateway" is planned as such for a device no gateway manages, and goes to the device
(`core/config_authority.py:83` calls the level the plane the write will use; `PlanLevel`,
`WriteHandle`). `ic2/automap.py:7` and `:16` say only exact matches are safe to write
without a human, and ic2-sync writes every match (`app/ic2_sync.py:97`; `SyncMatch`), though
into a copy meant for review.

Facts the models made visible that no document contradicts:

- while a device is offline another unit that fits its `discover.match` is taken for
  it (`core/discovery.py:235`);
- a profile without an id, or one that appears between two columns of a walk and has
  none in the answer, goes under its row index, which may be another profile's
  number, and replaces that one if it comes later (`core/snmp/ap.py:226`; `MayGoUnder`);
- a profile whose row changed between the two walks may show the VLAN of
  its successor (`EntriesComeFromOneRow` bounds the damage to that row);
- the doctor of an access point probes its communities and not its HTTP login
  (`core/doctor.py:116`);
- a probe of the other doctors that raises anything but its client's errors ends the
  report with the verdicts it had (`core/doctor.py:60`; `ProbeRaises`);
- with `PEPLINK_MCP_SECRETS` alone the variable is ignored and `secrets.conf` is loaded
  (`core/bootstrap.py:97`), while `validate` and `keys` use other defaults
  (`core/config.py:306`).

## 6. Not modelled

- Endpoint helpers: the path of one request and the trimming of its answer. Which
  client makes the request is in `ReadTools` and `WriteTools`.
- YAML and INI syntax, ports, TLS settings and sites; the listing of the fleet
  (`core/fleet_summary.py`), `peplink_whoami` and `peplink_list_devices`, which print what the
  process holds.
- The length of waits, `Retry-After` included: properties here are about order, not
  time.
- `asyncio.run` in `core/snmp/client.py:59` needs a thread without a running event loop;
  which thread the MCP library runs a tool in is outside `src/`.
- Agents whose OIDs do not increase, and conversions of single SNMP values.
- Steps taken together where no property tells them apart: the two requests of a mesh
  listing (`core/discovery.py:160-161`) are one step of `AskGateway`, and a machine that
  answers at a gateway's old address is a failure there, as its login would fail. In
  `IC2Mapping` the operator edits the file until the copy is written, not after (`EditFile`).
- The setup wizard and the coverage scripts: a dialogue and a development check.
- The manifest files are data; what `WriteTools` needs of them is the assumption
  `ManifestAssumption`.
- External, and modelled only by what the code relies on: the device API,
  InControl 2, DHCP, the MCP library, `httpx`, the container runtime.

## 7. Plan

Order: the parts where one step of several actors may go wrong first, pure
functions last.

1. Done: `RemoteCall`, `DeviceClient`, `WriteTools`, `IC2Client`, `IC2Mapping`,
   `CallerIdentity`, `HostDiscovery`, `FleetConfig`, `ReadTools`, `ApTables`, each with its
   runs and, but for `RemoteCall` and `FleetConfig`, a module of proofs.
2. Done: `TargetLookup` and `PrivilegedCall`, the abstract sides of `IC2Mapping` and
   `WriteTools`, with their refinements; the step counts and budgets of the clients.
3. `ReadTools` composed with `HostDiscovery`, whose addresses change while the server
   serves, instead of the one step `Start`.
