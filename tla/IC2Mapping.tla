------------------------------ MODULE IC2Mapping ------------------------------
(***************************************************************************)
(* Which InControl 2 record a device of the fleet file stands for: the     *)
(* resolver of the server (peplink_ic2/resolver.py), which turns a mapping *)
(* into organisation, group and device and keeps it for the life of the    *)
(* process, and the ic2-sync command (automap.py, ic2_sync.py), which      *)
(* finds the mapping of devices that have none and writes a copy of the    *)
(* fleet file.  The two run against a service where units are moved        *)
(* between groups and organisations meanwhile, one request at a time, and  *)
(* meet in the file, which an operator edits, takes over from the copy and *)
(* makes the server read again.                                            *)
(*                                                                         *)
(* A unit is named by its serial number; the two ways of writing a serial  *)
(* (trimmed, in either case) are one unit.  An operator defined just       *)
(* before another with the same parameters is a fault of the code that the *)
(* properties are tested against; the specification does not use it.       *)
(***************************************************************************)
EXTENDS Integers, FiniteSets

CONSTANTS
    Devices,     \* devices of the fleet file, by key
    Units,       \* units registered in InControl 2
    Orgs,        \* organisations the credential can read
    Groups,      \* group ids
    DefaultOrg,  \* incontrol2.default_org_id, or None
    None,
    Hints,       \* what discover.match may say of the devices
    Files,       \* initial contents of the fleet file
    MaxChanges   \* bound: moves of units and edits of the file

ASSUME UnitsAssumption == IsFiniteSet(Units)
ASSUME DefaultOrgAssumption == DefaultOrg \in Orgs \cup {None}
ASSUME NoneAssumption == None \notin Devices \cup Units \cup Orgs \cup Groups \cup {"not found", "not reached"}
ASSUME ChangesAssumption == MaxChanges \in Nat

\* A unit without a group has group None.
Places == [org : Orgs, group : Groups \cup {None}]

\* IC2Target: unit stands for its device_id.
Targets == [org : Orgs, group : Groups, unit : Units]

\* DeviceIC2Mapping and site: serial and explicit ids may both be there.
Entries == [serial : Units \cup {None}, pinned : Targets \cup {None},
            site : Groups \cup {None}]

\* discover.match: the serial it gives, the unit that has its MAC, the units
\* whose name contains its name, those whose model fits (None: no model given).
HintRecords == [serial : Units \cup {None}, mac : Units \cup {None},
                name : SUBSET Units, model : {None} \cup SUBSET Units]

ASSUME HintsAssumption == Hints \subseteq [Devices -> HintRecords]
ASSUME FilesAssumption == Files \subseteq [Devices -> Entries]

VARIABLES
    hint,      \* discover.match of each device, fixed
    place,     \* InControl 2: where each unit is registered
    file,      \* config.yaml
    sync,      \* what ic2-sync found, until the copy is taken over
    copy,      \* config.synced.yaml
    fleet,     \* the mappings the server read at start
    cache,     \* target_cache of the server
    walk,      \* _resolve_by_serial() in progress
    answer,    \* what the last resolution returned or raised
    changes,   \* moves and edits so far
    movedSince \* history: units moved since the device was last looked up

cloud == <<place, movedSince>>
files == <<hint, file, sync, copy>>
server == <<fleet, cache, walk, answer>>
vars == <<cloud, files, server, changes>>

NoSync == [found |-> [d \in Devices |-> None], exact |-> {}, listed |-> {}]

NoWalk == [device |-> None, todo |-> {}, orgsListed |-> FALSE]

Answered(d, target) == [device |-> d, target |-> target, failure |-> None]
Failed(d, failure) == [device |-> d, target |-> None, failure |-> failure]

NoAnswer == Answered(None, None)

Init ==
    /\ hint \in Hints
    /\ place \in [Units -> Places]
    /\ file \in Files
    /\ sync = NoSync
    /\ copy = None
    /\ fleet = file
    /\ cache = [d \in Devices |-> None]
    /\ walk = NoWalk
    /\ answer = NoAnswer
    /\ changes = 0
    /\ movedSince = [d \in Devices |-> {}]

-----------------------------------------------------------------------------
(* resolve_ic2_target(): one tool call at a time.                          *)

Idle == walk = NoWalk

\* mapping.org_id and mapping.group_id and mapping.device_id.
ExplicitIfNoSerial(d) == fleet[d].pinned # None /\ fleet[d].serial = None
HasExplicitIds(d) == fleet[d].pinned # None

CacheHit(d) ==
    /\ Idle
    /\ cache[d] # None
    /\ answer' = Answered(d, cache[d])
    /\ UNCHANGED <<cloud, files, fleet, cache, walk, changes>>

Resolved(d, target) ==
    /\ cache' = [cache EXCEPT ![d] = target]
    /\ answer' = Answered(d, target)
    /\ walk' = NoWalk

UseExplicitIds(d) ==
    /\ Idle
    /\ cache[d] = None
    /\ HasExplicitIds(d)
    /\ Resolved(d, fleet[d].pinned)
    /\ UNCHANGED <<cloud, files, fleet, changes>>

\* The default organisation, if any, is tried before the list is asked for.
StartWalk(d) ==
    /\ Idle
    /\ cache[d] = None
    /\ ~HasExplicitIds(d)
    /\ fleet[d].serial # None
    /\ walk' = [device |-> d, todo |-> {DefaultOrg} \ {None}, orgsListed |-> FALSE]
    /\ answer' = NoAnswer
    /\ movedSince' = [movedSince EXCEPT ![d] = {}]
    /\ UNCHANGED <<place, files, fleet, cache, changes>>

\* _match_in_org(): a record counts only with both its device and group id.
MatchesInOrg(unit, org) == place[unit].org = org /\ place[unit].group # None

DefaultOrgTarget(unit, org) ==
    [org |-> IF DefaultOrg = None THEN org ELSE DefaultOrg,
     group |-> place[unit].group, unit |-> unit]
TargetIn(unit, org) == [org |-> org, group |-> place[unit].group, unit |-> unit]

\* GET /rest/o/{org}/d.
SearchOrg(org) ==
    /\ org \in walk.todo
    /\ LET unit == fleet[walk.device].serial IN
       IF MatchesInOrg(unit, org)
       THEN Resolved(walk.device, TargetIn(unit, org))
       ELSE /\ walk' = [walk EXCEPT !.todo = @ \ {org}]
            /\ UNCHANGED <<cache, answer>>
    /\ UNCHANGED <<cloud, files, fleet, changes>>

\* GET /rest/o: every organisation but the one already tried.
NoneIfDefault == IF DefaultOrg = None THEN Orgs ELSE {}
OtherOrgs == Orgs \ {DefaultOrg}

ListOrgs ==
    /\ ~Idle
    /\ walk.todo = {}
    /\ ~walk.orgsListed
    /\ walk' = [walk EXCEPT !.todo = OtherOrgs, !.orgsListed = TRUE]
    /\ UNCHANGED <<cloud, files, fleet, cache, answer, changes>>

\* IC2ConfigError: nothing is cached, the next call walks again.
NotFound ==
    /\ walk.todo = {}
    /\ walk.orgsListed
    /\ answer' = Failed(walk.device, "not found")
    /\ walk' = NoWalk
    /\ UNCHANGED <<cloud, files, fleet, cache, changes>>

\* client.request() raises.
WalkFails ==
    /\ ~Idle
    /\ answer' = Failed(walk.device, "not reached")
    /\ walk' = NoWalk
    /\ UNCHANGED <<cloud, files, fleet, cache, changes>>

-----------------------------------------------------------------------------
(* ic2-sync: match_device() over the devices of one organisation.          *)

\* Without a default it is the first organisation the service lists.
SyncOrgs == IF DefaultOrg # None THEN {DefaultOrg} ELSE Orgs

Listed(org) == { u \in Units : place[u].org = org }

\* _hint(): the serial of the mapping, else that of discover.match.
SerialOf(d) == IF file[d].serial # None THEN file[d].serial ELSE hint[d].serial

ExactMatches(d, listed) ==
    IF SerialOf(d) \in listed THEN {SerialOf(d)} ELSE {hint[d].mac} \cap listed

\* The pool is narrowed by model and then by name, each only if that leaves
\* something; a pool narrowed by neither matches nothing.
Narrow(pool, fitting) == IF pool \cap fitting # {} THEN pool \cap fitting ELSE pool

FuzzyMatches(d, listed) ==
    LET modeled == hint[d].model # None /\ hint[d].model \cap listed # {}
        pool    == IF modeled THEN hint[d].model \cap listed ELSE listed
    IN  IF modeled \/ hint[d].name \cap pool # {} THEN Narrow(pool, hint[d].name) ELSE {}

\* One candidate is a match, several are "ambiguous".
FirstCandidate(candidates) ==
    IF candidates # {} THEN CHOOSE u \in candidates : TRUE ELSE None
OnlyCandidate(candidates) ==
    IF Cardinality(candidates) = 1 THEN CHOOSE u \in candidates : TRUE ELSE None

MatchDevice(d, listed) ==
    LET exact == ExactMatches(d, listed)
    IN  OnlyCandidate(IF exact # {} THEN exact ELSE FuzzyMatches(d, listed))

\* run_ic2_sync(): read the file, list the organisation's devices, match.
SyncMatch ==
    /\ sync = NoSync
    /\ \E org \in SyncOrgs :
        LET listed == Listed(org) IN
        sync' = [found  |-> [d \in Devices |->
                               LET u == MatchDevice(d, listed) IN
                               IF u = None THEN None
                               ELSE [serial |-> u, site |-> place[u].group]],
                 exact  |-> { d \in Devices : ExactMatches(d, listed) # {} },
                 listed |-> listed]
    /\ UNCHANGED <<cloud, hint, file, copy, server, changes>>

\* _write_synced(), on the file as it is now: a serial is added where there is
\* none, in place of explicit ids; the site is always set.
OverwriteSerial(entry, match) ==
    [entry EXCEPT !.serial = match.serial, !.pinned = None]
AddSerial(entry, match) ==
    IF entry.serial = None
    THEN [entry EXCEPT !.serial = match.serial, !.pinned = None] ELSE entry

SetSite(entry, match) ==
    IF match.site = None THEN entry ELSE [entry EXCEPT !.site = match.site]

SyncWrite ==
    /\ sync # NoSync
    /\ copy = None
    /\ copy' = [d \in Devices |->
                  IF sync.found[d] = None THEN file[d]
                  ELSE SetSite(AddSerial(file[d], sync.found[d]), sync.found[d])]
    /\ UNCHANGED <<cloud, hint, file, sync, server, changes>>

\* The command ends without --write, or the operator throws the copy away.
SyncDropped ==
    /\ sync # NoSync
    /\ sync' = NoSync
    /\ copy' = None
    /\ UNCHANGED <<cloud, hint, file, server, changes>>

-----------------------------------------------------------------------------
(* The operator and the service.                                           *)

\* The copy is reviewed and taken over.
TakeCopy ==
    /\ copy # None
    /\ file' = copy
    /\ copy' = None
    /\ sync' = NoSync
    /\ UNCHANGED <<cloud, hint, server, changes>>

\* The operator enters a serial by hand, also while ic2-sync runs.
EditFile(d, unit) ==
    /\ copy = None
    /\ file[d].serial = None
    /\ changes < MaxChanges
    /\ changes' = changes + 1
    /\ file' = [file EXCEPT ![d].serial = unit]
    /\ UNCHANGED <<cloud, hint, sync, copy, server>>

Restart ==
    /\ fleet' = file
    /\ cache' = [d \in Devices |-> None]
    /\ walk' = NoWalk
    /\ answer' = NoAnswer
    /\ UNCHANGED <<cloud, files, changes>>

Move(unit, to) ==
    /\ place[unit] # to
    /\ changes < MaxChanges
    /\ changes' = changes + 1
    /\ place' = [place EXCEPT ![unit] = to]
    /\ movedSince' = [d \in Devices |-> movedSince[d] \cup {unit}]
    /\ UNCHANGED <<files, server>>

Next ==
    \/ \E d \in Devices :
        \/ CacheHit(d)
        \/ UseExplicitIds(d)
        \/ StartWalk(d)
        \/ \E unit \in Units : EditFile(d, unit)
    \/ \E org \in Orgs : SearchOrg(org)
    \/ ListOrgs
    \/ NotFound
    \/ WalkFails
    \/ SyncMatch
    \/ SyncWrite
    \/ SyncDropped
    \/ TakeCopy
    \/ Restart
    \/ \E unit \in Units, to \in Places : Move(unit, to)

Spec == Init /\ [][Next]_vars

-----------------------------------------------------------------------------
(* Properties.                                                             *)

TypeOK ==
    /\ hint \in [Devices -> HintRecords]
    /\ place \in [Units -> Places]
    /\ file \in [Devices -> Entries]
    /\ sync.found \in [Devices -> {None} \cup [serial : Units, site : Groups \cup {None}]]
    /\ sync.exact \subseteq Devices
    /\ sync.listed \subseteq Units
    /\ copy \in {None} \cup [Devices -> Entries]
    /\ fleet \in [Devices -> Entries]
    /\ cache \in [Devices -> Targets \cup {None}]
    /\ walk \in [device : Devices \cup {None}, todo : SUBSET Orgs, orgsListed : BOOLEAN]
    /\ answer \in [device : Devices \cup {None}, target : Targets \cup {None},
                   failure : {None, "not found", "not reached"}]
    /\ changes \in 0 .. MaxChanges
    /\ movedSince \in [Devices -> SUBSET Units]

\* "Explicit ids in config win": whatever else the mapping holds and whenever
\* the call is made, resolve_ic2_target() answers the explicit ids of the fleet
\* the server read, and otherwise a target that has the serial of the mapping.
AnswerIsTheMappedDevice ==
    answer.target # None =>
        LET entry == fleet[answer.device] IN
        IF entry.pinned # None THEN answer.target = entry.pinned
        ELSE answer.target.unit = entry.serial

\* A target resolved by serial and kept in the cache is where the unit is now,
\* unless the unit was moved after the resolver began to look for it.
CacheTrueUnlessMoved ==
    \A d \in Devices :
        cache[d] # None /\ fleet[d].pinned = None /\ cache[d].unit \notin movedSince[d]
            => place[cache[d].unit] = [org |-> cache[d].org, group |-> cache[d].group]

\* _resolve_by_serial() says "not found in any accessible organization" only of
\* a unit that is in no group or was moved while the organisations were read.
MissIsJustified ==
    answer.failure = "not found" =>
        LET unit == fleet[answer.device].serial IN
        \/ unit \in movedSince[answer.device]
        \/ place[unit].group = None

\* resolve_ic2_target() with its cache and its requests to one organisation after
\* another is, to its callers, a lookup that finds the unit where it is at one moment,
\* misses none that stays in its group, and repeats what it answered once.
Strayed == ~Idle /\ fleet[walk.device].serial \in movedSince[walk.device]

Lookup == INSTANCE TargetLookup WITH
    mapping <- [d \in Devices |-> [pinned |-> fleet[d].pinned, serial |-> fleet[d].serial]],
    known   <- cache,
    asked   <- walk.device,
    strayed <- Strayed,
    reply   <- answer

ImplementsLookup == Lookup!Spec

\* The copy ic2-sync writes keeps every serial the file has, those the operator
\* enters between the matching and the writing included.
SyncKeepsSerials ==
    copy # None =>
        \A d \in Devices : file[d].serial # None => copy[d].serial = file[d].serial

\* A serial ic2-sync adds without an exact match is the only candidate: no
\* other listed unit fits what the fleet says of the device as well as it does.
NoRivalCandidate ==
    copy # None =>
        \A d \in Devices \ sync.exact, rival \in sync.listed :
            LET unit == copy[d].serial
                name == hint[d].name
                model == IF hint[d].model = None THEN {} ELSE hint[d].model
            IN  unit # file[d].serial /\ rival # unit =>
                    \/ unit \in name /\ rival \notin name
                    \/ unit \in model /\ rival \notin model
=============================================================================
