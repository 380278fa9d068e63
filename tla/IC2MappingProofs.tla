--------------------------- MODULE IC2MappingProofs ---------------------------
(***************************************************************************)
(* Theorems about IC2Mapping, for every set of devices, units and          *)
(* organisations.  The resolver's half of the invariant says what the      *)
(* cache, the walk and the answer have to do with the mapping the server   *)
(* read, and where a unit may still be that a walk has not found; the half *)
(* of ic2-sync says what a match without an exact key rests on.  No step   *)
(* reads both.                                                             *)
(***************************************************************************)
EXTENDS IC2Mapping, FiniteSetTheorems, TLAPS

-----------------------------------------------------------------------------
(* The resolver.                                                           *)

Mapped(d, target) ==
    IF fleet[d].pinned # None THEN target = fleet[d].pinned
    ELSE target.unit = fleet[d].serial

CacheMapped == \A d \in Devices : cache[d] # None => Mapped(d, cache[d])

AnswerMapped == answer.target # None => answer.device \in Devices /\ Mapped(answer.device, answer.target)

WalkOfSerial ==
    ~Idle => /\ walk.device \in Devices
             /\ fleet[walk.device].pinned = None
             /\ fleet[walk.device].serial \in Units
             /\ cache[walk.device] = None

\* A unit in a group that stays where it is is in an organisation still to come.
NotPassed ==
    ~Idle =>
        LET unit == fleet[walk.device].serial IN
        \/ unit \in movedSince[walk.device]
        \/ place[unit].group = None
        \/ place[unit].org \in walk.todo
        \/ (~walk.orgsListed /\ place[unit].org \in OtherOrgs)

MissOfSerial ==
    answer.failure = "not found" =>
        /\ answer.device \in Devices
        /\ fleet[answer.device].serial \in Units
        /\ MissIsJustified

ServerInv ==
    /\ CacheMapped
    /\ AnswerMapped
    /\ WalkOfSerial
    /\ NotPassed
    /\ MissOfSerial
    /\ CacheTrueUnlessMoved

-----------------------------------------------------------------------------
(* ic2-sync and the file.                                                  *)

ModelOf(d) == IF hint[d].model = None THEN {} ELSE hint[d].model

\* What sets a unit apart from another listed one.
FitsBetter(d, unit, rival) ==
    \/ unit \in hint[d].name /\ rival \notin hint[d].name
    \/ unit \in ModelOf(d) /\ rival \notin ModelOf(d)

FuzzyIsBest ==
    \A d \in Devices \ sync.exact, rival \in sync.listed :
        sync.found[d] # None /\ rival # sync.found[d].serial
            => FitsBetter(d, sync.found[d].serial, rival)

CopyIsOfSync ==
    copy # None =>
        /\ sync # NoSync
        /\ \A d \in Devices :
            copy[d].serial # file[d].serial =>
                sync.found[d] # None /\ copy[d].serial = sync.found[d].serial

FilesInv ==
    /\ FuzzyIsBest
    /\ CopyIsOfSync
    /\ SyncKeepsSerials

IInv == TypeOK /\ ServerInv /\ FilesInv

-----------------------------------------------------------------------------
(* The matcher.                                                            *)

LEMMA FilesTyped ==
    ASSUME TypeOK, NEW d \in Devices
    PROVE  /\ file[d] \in Entries /\ fleet[d] \in Entries /\ hint[d] \in HintRecords
           /\ None \notin Units
  BY NoneAssumption DEF TypeOK

LEMMA OnlyOne ==
    ASSUME NEW S \in SUBSET Units, OnlyCandidate(S) # None
    PROVE  S = {OnlyCandidate(S)}
  <1>1. Cardinality(S) = 1
    BY DEF OnlyCandidate
  <1>2. IsFiniteSet(S)
    BY UnitsAssumption, FS_Subset
  <1>3. PICK u : S = {u}
    BY <1>1, <1>2, FS_Singleton
  <1>. QED  BY <1>1, <1>3 DEF OnlyCandidate

\* A match is a listed unit; one that is not exact fits better than any other.
LEMMA MatchIsBest ==
    ASSUME TypeOK, NEW d \in Devices, NEW listed \in SUBSET Units,
           NEW unit, unit = MatchDevice(d, listed), unit # None
    PROVE  /\ unit \in Units
           /\ ExactMatches(d, listed) = {} =>
                \A rival \in listed : rival # unit => FitsBetter(d, unit, rival)
  <1>1. ExactMatches(d, listed) \subseteq listed /\ FuzzyMatches(d, listed) \subseteq listed
    BY DEF ExactMatches, FuzzyMatches, Narrow
  <1>2. CASE ExactMatches(d, listed) # {}
    BY <1>1, <1>2, OnlyOne DEF MatchDevice
  <1>3. CASE ExactMatches(d, listed) = {}
    <2>1. FuzzyMatches(d, listed) = {unit}
      BY <1>1, <1>3, OnlyOne DEF MatchDevice
    <2>2. ASSUME NEW rival \in listed, rival # unit PROVE FitsBetter(d, unit, rival)
      BY <2>1, <2>2 DEF FuzzyMatches, Narrow, FitsBetter, ModelOf
    <2>. QED  BY <1>1, <2>1, <2>2
  <1>. QED  BY <1>2, <1>3

-----------------------------------------------------------------------------

\* One more change is within the bound.
LEMMA OneMoreChange ==
    ASSUME TypeOK, changes < MaxChanges, changes' = changes + 1
    PROVE  changes' \in 0 .. MaxChanges
  <1>1. changes \in 0 .. MaxChanges
    BY DEF TypeOK
  <1>. QED  BY <1>1, ChangesAssumption

LEMMA InitInv == Init => IInv
  <1>. SUFFICES ASSUME Init PROVE IInv
    OBVIOUS
  <1>1. TypeOK
    BY HintsAssumption, FilesAssumption, ChangesAssumption
       DEF Init, TypeOK, NoSync, NoWalk, NoAnswer, Answered
  <1>2. ServerInv
    BY NoneAssumption DEF Init, ServerInv, CacheMapped, AnswerMapped, WalkOfSerial, NotPassed,
                          MissOfSerial, CacheTrueUnlessMoved, Idle, NoAnswer, Answered
  <1>3. FilesInv
    BY DEF Init, FilesInv, FuzzyIsBest, CopyIsOfSync, SyncKeepsSerials, NoSync
  <1>. QED  BY <1>1, <1>2, <1>3 DEF IInv

\* What each half of the invariant reads.
LEMMA FilesKept ==
    ASSUME FilesInv, UNCHANGED files
    PROVE  FilesInv'
  BY DEF files, FilesInv, FuzzyIsBest, FitsBetter, ModelOf, CopyIsOfSync, SyncKeepsSerials

LEMMA ServerKept ==
    ASSUME ServerInv, UNCHANGED <<cloud, server>>
    PROVE  ServerInv'
  BY DEF cloud, server, ServerInv, CacheMapped, AnswerMapped, Mapped, WalkOfSerial, NotPassed,
         MissOfSerial, MissIsJustified, CacheTrueUnlessMoved, Idle

\* The end of a resolution with a target, from the ids of the file or by serial.
LEMMA ResolvedInv ==
    ASSUME IInv, NEW d \in Devices, NEW target \in Targets, Resolved(d, target), Mapped(d, target),
           \/ fleet[d].pinned # None
           \/ place[target.unit] = [org |-> target.org, group |-> target.group],
           UNCHANGED <<cloud, files, fleet, changes>>
    PROVE  IInv'
  <1>. USE NoneAssumption DEF IInv, Resolved, Answered, cloud, files
  <1>1. TypeOK'
    BY DEF TypeOK, NoWalk
  <1>2. \A e \in Devices : cache'[e] = IF e = d THEN target ELSE cache[e]
    BY DEF TypeOK
  <1>3. CacheMapped'
    <2>. SUFFICES ASSUME NEW e \in Devices, cache'[e] # None PROVE Mapped(e, cache[e])'
      BY DEF CacheMapped
    <2>1. CASE e = d
      BY <1>2, <2>1 DEF Mapped
    <2>2. CASE e # d
      BY <1>2, <2>2 DEF Mapped, ServerInv, CacheMapped
    <2>. QED  BY <2>1, <2>2
  <1>6. AnswerMapped'
    BY DEF AnswerMapped, Mapped
  <1>4. WalkOfSerial' /\ NotPassed' /\ MissOfSerial'
    BY DEF WalkOfSerial, NotPassed, MissOfSerial, Idle
  <1>5. CacheTrueUnlessMoved'
    <2>. SUFFICES ASSUME NEW e \in Devices, cache'[e] # None, fleet[e].pinned = None,
                         cache'[e].unit \notin movedSince[e]
                  PROVE  place[cache'[e].unit] = [org |-> cache'[e].org, group |-> cache'[e].group]
      BY DEF CacheTrueUnlessMoved
    <2>1. CASE e = d
      BY <1>2, <2>1
    <2>2. CASE e # d
      BY <1>2, <2>2 DEF ServerInv, CacheTrueUnlessMoved
    <2>. QED  BY <2>1, <2>2
  <1>. QED  BY <1>1, <1>3, <1>4, <1>5, <1>6, FilesKept DEF ServerInv

LEMMA ResolverSteps ==
    ASSUME IInv, NEW d \in Devices, CacheHit(d) \/ UseExplicitIds(d) \/ StartWalk(d)
    PROVE  IInv'
  <1>. USE NoneAssumption DEF IInv
  <1>1. CASE CacheHit(d)
    <2>1. TypeOK'
      BY <1>1 DEF CacheHit, Answered, TypeOK, cloud, files
    <2>2. ServerInv'
      BY <1>1 DEF CacheHit, Answered, cloud, ServerInv, CacheMapped, AnswerMapped, Mapped,
                  WalkOfSerial, NotPassed, MissOfSerial, CacheTrueUnlessMoved, Idle
    <2>. QED  BY <1>1, <2>1, <2>2, FilesKept DEF CacheHit
  <1>2. CASE UseExplicitIds(d)
    <2>1. fleet[d].pinned \in Targets /\ Mapped(d, fleet[d].pinned)
      BY <1>2, FilesTyped DEF UseExplicitIds, HasExplicitIds, Mapped, Entries
    <2>. QED  BY <1>2, <2>1, ResolvedInv DEF UseExplicitIds, HasExplicitIds
  <1>3. CASE StartWalk(d)
    <2>1. /\ walk' = [device |-> d, todo |-> {DefaultOrg} \ {None}, orgsListed |-> FALSE]
          /\ answer' = NoAnswer
          /\ movedSince' = [movedSince EXCEPT ![d] = {}]
          /\ UNCHANGED <<place, files, fleet, cache, changes>>
          /\ cache[d] = None /\ fleet[d].pinned = None /\ fleet[d].serial # None
      BY <1>3 DEF StartWalk, HasExplicitIds
    <2>2. TypeOK'
      BY <2>1, DefaultOrgAssumption DEF TypeOK, files, NoAnswer, Answered
    <2>3. CacheMapped' /\ AnswerMapped' /\ MissOfSerial'
      BY <2>1 DEF ServerInv, CacheMapped, AnswerMapped, Mapped, MissOfSerial, NoAnswer, Answered
    <2>4. fleet[d].serial \in Units /\ place[fleet[d].serial].org \in Orgs
      BY <2>1, FilesTyped DEF Entries, TypeOK, Places
    <2>5. WalkOfSerial'
      BY <2>1, <2>4 DEF WalkOfSerial
    <2>7. place[fleet[d].serial].org \in ({DefaultOrg} \ {None}) \cup OtherOrgs
      BY <2>4 DEF OtherOrgs
    <2>8. NotPassed'
      BY <2>1, <2>7 DEF NotPassed
    <2>6. CacheTrueUnlessMoved'
      BY <2>1 DEF ServerInv, CacheTrueUnlessMoved, TypeOK
    <2>. QED  BY <2>1, <2>2, <2>3, <2>5, <2>6, <2>8, FilesKept DEF ServerInv
  <1>. QED  BY <1>1, <1>2, <1>3

LEMMA WalkIsOn ==
    ASSUME IInv, (\E org \in Orgs : SearchOrg(org)) \/ ListOrgs \/ NotFound \/ WalkFails
    PROVE  ~Idle /\ WalkOfSerial
  <1>1. walk.todo # {} \/ walk.orgsListed \/ ~Idle
    BY DEF SearchOrg, ListOrgs, NotFound, WalkFails
  <1>2. NoWalk.todo = {} /\ ~NoWalk.orgsListed
    BY DEF NoWalk
  <1>. QED  BY <1>1, <1>2 DEF Idle, IInv, ServerInv

LEMMA WalkSteps ==
    ASSUME IInv, (\E org \in Orgs : SearchOrg(org)) \/ ListOrgs \/ NotFound \/ WalkFails
    PROVE  IInv'
  <1>. USE NoneAssumption DEF IInv
  <1>1. ~Idle /\ WalkOfSerial
    BY WalkIsOn
  <1>2. CASE ListOrgs
    <2>1. TypeOK'
      BY <1>2 DEF ListOrgs, TypeOK, cloud, files, OtherOrgs
    <2>2. ServerInv'
      BY <1>1, <1>2 DEF ListOrgs, cloud, TypeOK, ServerInv, CacheMapped, AnswerMapped, Mapped, WalkOfSerial,
                  NotPassed, MissOfSerial, MissIsJustified, CacheTrueUnlessMoved, OtherOrgs
    <2>. QED  BY <1>2, <2>1, <2>2, FilesKept DEF ListOrgs
  <1>3. CASE NotFound \/ WalkFails
    <2>1. PICK failure \in {"not found", "not reached"} :
            /\ answer' = [device |-> walk.device, target |-> None, failure |-> failure]
            /\ walk' = NoWalk
            /\ UNCHANGED <<cloud, files, fleet, cache, changes>>
            /\ failure = "not found" => walk.todo = {} /\ walk.orgsListed
      BY <1>3 DEF NotFound, WalkFails, Failed
    <2>2. TypeOK'
      BY <1>1, <2>1 DEF TypeOK, cloud, files, NoWalk, WalkOfSerial
    <2>3. MissOfSerial'
      BY <1>1, <2>1 DEF cloud, WalkOfSerial, NotPassed, MissOfSerial, MissIsJustified, ServerInv
    <2>4. CacheMapped' /\ AnswerMapped'
      BY <2>1 DEF CacheMapped, AnswerMapped, Mapped, ServerInv
    <2>5. WalkOfSerial' /\ NotPassed' /\ CacheTrueUnlessMoved'
      BY <2>1 DEF WalkOfSerial, NotPassed, Idle, CacheTrueUnlessMoved, cloud, ServerInv
    <2>. QED  BY <2>1, <2>2, <2>3, <2>4, <2>5, FilesKept DEF ServerInv
  <1>4. ASSUME NEW org \in Orgs, SearchOrg(org)
        PROVE  IInv'
    <2>. DEFINE d == walk.device
                unit == fleet[d].serial
    <2>1. d \in Devices /\ unit \in Units /\ fleet[d].pinned = None
      BY <1>1 DEF WalkOfSerial
    <2>2. CASE MatchesInOrg(unit, org)
      <3>1. Resolved(d, TargetIn(unit, org)) /\ UNCHANGED <<cloud, files, fleet, changes>>
        BY <1>4, <2>2 DEF SearchOrg
      <3>2. place[unit] = [org |-> org, group |-> place[unit].group] /\ place[unit].group \in Groups
        BY <2>1, <2>2 DEF MatchesInOrg, TypeOK, Places
      <3>3. TargetIn(unit, org) \in Targets
        BY <2>1, <3>2 DEF TargetIn, Targets
      <3>4. Mapped(d, TargetIn(unit, org))
        BY <2>1 DEF Mapped, TargetIn
      <3>5. place[TargetIn(unit, org).unit] = [org |-> TargetIn(unit, org).org, group |-> TargetIn(unit, org).group]
        BY <3>2 DEF TargetIn
      <3>. QED  BY <2>1, <3>1, <3>3, <3>4, <3>5, ResolvedInv
    <2>3. CASE ~MatchesInOrg(unit, org)
      <3>1. walk' = [walk EXCEPT !.todo = @ \ {org}] /\ UNCHANGED <<cloud, files, fleet, cache, answer, changes>>
        BY <1>4, <2>3 DEF SearchOrg
      <3>2. TypeOK'
        BY <3>1 DEF TypeOK, cloud, files
      <3>3. NotPassed'
        BY <1>1, <2>3, <3>1 DEF NotPassed, ServerInv, TypeOK, cloud, MatchesInOrg
      <3>4. ServerInv'
        BY <1>1, <3>1, <3>3 DEF cloud, TypeOK, ServerInv, CacheMapped, AnswerMapped, Mapped,
                  WalkOfSerial, MissOfSerial, MissIsJustified, CacheTrueUnlessMoved
      <3>. QED  BY <3>1, <3>2, <3>4, FilesKept
    <2>. QED  BY <2>2, <2>3
  <1>. QED  BY <1>2, <1>3, <1>4

\* The server starts again from the file.
LEMMA RestartInv == ASSUME IInv, Restart PROVE IInv'
  <1>. USE NoneAssumption DEF IInv, Restart
  <1>1. TypeOK'
    BY DEF TypeOK, cloud, files, NoWalk, NoAnswer, Answered
  <1>2. CacheMapped' /\ AnswerMapped' /\ MissOfSerial' /\ CacheTrueUnlessMoved'
    BY DEF CacheMapped, AnswerMapped, MissOfSerial, NoAnswer, Answered, CacheTrueUnlessMoved
  <1>3. WalkOfSerial' /\ NotPassed'
    BY DEF WalkOfSerial, NotPassed, Idle
  <1>. QED  BY <1>1, <1>2, <1>3, FilesKept DEF ServerInv

\* A unit moves: it is remembered for every device.
LEMMA MoveInv ==
    ASSUME IInv, NEW unit \in Units, NEW to \in Places, Move(unit, to)
    PROVE  IInv'
  <1>. USE DEF IInv
  <1>1. /\ place' = [place EXCEPT ![unit] = to]
        /\ movedSince' = [d \in Devices |-> movedSince[d] \cup {unit}]
        /\ UNCHANGED <<files, server>>
        /\ changes < MaxChanges /\ changes' = changes + 1
    BY DEF Move
  <1>7. changes' \in 0 .. MaxChanges
    BY <1>1, OneMoreChange
  <1>2. TypeOK'
    BY <1>1, <1>7 DEF TypeOK, files, server
  <1>3. CacheMapped' /\ AnswerMapped' /\ WalkOfSerial'
    BY <1>1 DEF ServerInv, CacheMapped, AnswerMapped, WalkOfSerial, Mapped, Idle, server
  <1>4. \A u \in Units, d \in Devices :
            /\ u \in movedSince[d] => u \in movedSince'[d]
            /\ u \in movedSince'[d] \/ place'[u] = place[u]
    BY <1>1 DEF TypeOK
  <1>5. NotPassed' /\ MissOfSerial'
    BY <1>1, <1>4 DEF ServerInv, WalkOfSerial, NotPassed, MissOfSerial, MissIsJustified, Idle, server
  <1>6. CacheTrueUnlessMoved'
    <2>1. \A d \in Devices : cache[d] # None => cache[d].unit \in Units
      BY DEF TypeOK, Targets
    <2>. QED  BY <1>1, <1>4, <2>1 DEF ServerInv, CacheTrueUnlessMoved, server
  <1>. QED  BY <1>1, <1>2, <1>3, <1>5, <1>6, FilesKept DEF ServerInv

-----------------------------------------------------------------------------
(* ic2-sync and the operator.                                              *)

LEMMA SyncMatchInv == ASSUME IInv, SyncMatch PROVE IInv'
  <1>. USE NoneAssumption DEF IInv
  <1>1. PICK org \in SyncOrgs :
            LET listed == Listed(org) IN
            sync' = [found  |-> [d \in Devices |->
                               LET u == MatchDevice(d, listed) IN
                               IF u = None THEN None
                               ELSE [serial |-> u, site |-> place[u].group]],
                 exact  |-> { d \in Devices : ExactMatches(d, listed) # {} },
                 listed |-> listed]
    BY DEF SyncMatch
  <1>2. sync = NoSync /\ UNCHANGED <<cloud, hint, file, copy, server, changes>>
    BY DEF SyncMatch
  <1>. DEFINE listed == Listed(org)
  <1>3. listed \in SUBSET Units
    BY DEF Listed
  <1>4. /\ sync'.listed = listed
        /\ sync'.exact = { d \in Devices : ExactMatches(d, listed) # {} }
        /\ sync'.found = [d \in Devices |-> LET u == MatchDevice(d, listed) IN
                               IF u = None THEN None
                               ELSE [serial |-> u, site |-> place[u].group]]
    BY <1>1
  <1>. HIDE DEF listed
  <1>5. \A d \in Devices : MatchDevice(d, listed) # None => MatchDevice(d, listed) \in Units
    BY <1>3, MatchIsBest
  <1>6. \A u \in Units : place[u].group \in Groups \cup {None}
    BY DEF TypeOK, Places
  <1>10. ASSUME NEW d \in Devices
         PROVE  /\ sync'.found[d] \in {None} \cup [serial : Units, site : Groups \cup {None}]
                /\ sync'.found[d] # None =>
                    /\ MatchDevice(d, listed) # None
                    /\ sync'.found[d].serial = MatchDevice(d, listed)
    <2>. DEFINE u == MatchDevice(d, listed)
    <2>. DEFINE match == [serial |-> u, site |-> place[u].group]
    <2>1. sync'.found[d] = IF u = None THEN None ELSE match
      BY <1>4
    <2>5. match.serial = u /\ match.site = place[u].group
      OBVIOUS
    <2>2. u # None => u \in Units /\ place[u].group \in Groups \cup {None}
      BY <1>5, <1>6
    <2>. HIDE DEF u
    <2>3. u # None => match \in [serial : Units, site : Groups \cup {None}]
      BY <2>2
    <2>. HIDE DEF match
    <2>4. /\ sync'.found[d] \in {None} \cup [serial : Units, site : Groups \cup {None}]
          /\ sync'.found[d] # None => u # None /\ sync'.found[d].serial = u
      BY <2>1, <2>3, <2>5
    <2>. QED  BY <2>4 DEF u
  <1>11. sync'.found \in [Devices -> {None} \cup [serial : Units, site : Groups \cup {None}]]
    <2>1. sync'.found = [d \in Devices |-> sync'.found[d]]
      BY <1>4
    <2>. QED  BY <1>10, <2>1
  <1>7. TypeOK'
    BY <1>2, <1>3, <1>4, <1>11 DEF TypeOK, cloud, server
  <1>8. FuzzyIsBest'
    <2>. SUFFICES ASSUME NEW d \in Devices \ sync'.exact, NEW rival \in sync'.listed,
                         sync'.found[d] # None, rival # sync'.found[d].serial
                  PROVE  FitsBetter(d, sync.found[d].serial, rival)'
      BY DEF FuzzyIsBest
    <2>1. ExactMatches(d, listed) = {} /\ rival \in listed
      BY <1>4
    <2>2. MatchDevice(d, listed) # None /\ sync'.found[d].serial = MatchDevice(d, listed)
      BY <1>10
    <2>3. FitsBetter(d, MatchDevice(d, listed), rival)
      BY <1>3, <2>1, <2>2, MatchIsBest
    <2>. QED  BY <1>2, <2>2, <2>3 DEF FitsBetter, ModelOf
  <1>9. CopyIsOfSync' /\ SyncKeepsSerials'
    <2>1. copy = None
      BY <1>2 DEF FilesInv, CopyIsOfSync
    <2>. QED  BY <1>2, <2>1 DEF CopyIsOfSync, SyncKeepsSerials
  <1>. QED  BY <1>2, <1>7, <1>8, <1>9, ServerKept DEF FilesInv

LEMMA SyncWriteInv == ASSUME IInv, SyncWrite PROVE IInv'
  <1>. USE NoneAssumption DEF IInv
  <1>1. /\ sync # NoSync
        /\ copy' = [d \in Devices |->
                  IF sync.found[d] = None THEN file[d]
                  ELSE SetSite(AddSerial(file[d], sync.found[d]), sync.found[d])]
        /\ UNCHANGED <<cloud, hint, file, sync, server, changes>>
    BY DEF SyncWrite
  <1>2. ASSUME NEW d \in Devices
        PROVE  /\ copy'[d] \in Entries
               /\ file[d].serial # None => copy'[d].serial = file[d].serial
               /\ copy'[d].serial # file[d].serial =>
                    sync.found[d] # None /\ copy'[d].serial = sync.found[d].serial
    <2>1. file[d] \in Entries
      BY FilesTyped
    <2>2. CASE sync.found[d] = None
      BY <1>1, <2>1, <2>2
    <2>3. CASE sync.found[d] # None
      <3>1. sync.found[d] \in [serial : Units, site : Groups \cup {None}]
        BY <2>3 DEF TypeOK
      <3>2. copy'[d] = SetSite(AddSerial(file[d], sync.found[d]), sync.found[d])
        BY <1>1, <2>3
      <3>. DEFINE entry == AddSerial(file[d], sync.found[d])
      <3>3. /\ entry \in Entries
            /\ file[d].serial # None => entry.serial = file[d].serial
            /\ file[d].serial = None => entry.serial = sync.found[d].serial
        BY <2>1, <3>1 DEF AddSerial, Entries
      <3>. HIDE DEF entry
      <3>4. copy'[d] \in Entries /\ copy'[d].serial = entry.serial
        BY <3>1, <3>2, <3>3 DEF SetSite, Entries, entry
      <3>. QED  BY <2>3, <3>3, <3>4
    <2>. QED  BY <2>2, <2>3
  <1>3. copy' \in [Devices -> Entries]
    BY <1>1, <1>2
  <1>4. TypeOK'
    BY <1>1, <1>3 DEF TypeOK, cloud, server
  <1>5. FilesInv'
    BY <1>1, <1>2 DEF FilesInv, FuzzyIsBest, FitsBetter, ModelOf, CopyIsOfSync, SyncKeepsSerials
  <1>. QED  BY <1>1, <1>4, <1>5, ServerKept

\* Nothing is left of a copy that is thrown away, taken over or not there yet.
LEMMA OperatorSteps ==
    ASSUME IInv, SyncDropped \/ TakeCopy \/ \E d \in Devices, unit \in Units : EditFile(d, unit)
    PROVE  IInv'
  <1>. USE DEF IInv
  <1>1. CASE SyncDropped \/ TakeCopy
    <2>1. /\ copy' = None /\ sync' = NoSync
          /\ file' = file \/ (copy # None /\ file' = copy)
          /\ UNCHANGED <<cloud, hint, server, changes>>
      BY <1>1 DEF SyncDropped, TakeCopy
    <2>2. TypeOK'
      BY <2>1 DEF TypeOK, cloud, server, NoSync
    <2>3. FilesInv'
      BY <2>1 DEF FilesInv, FuzzyIsBest, CopyIsOfSync, SyncKeepsSerials, NoSync
    <2>. QED  BY <2>1, <2>2, <2>3, ServerKept
  <1>2. CASE \E d \in Devices, unit \in Units : EditFile(d, unit)
    <2>1. PICK d \in Devices, unit \in Units : EditFile(d, unit)
      BY <1>2
    <2>2. /\ copy = None /\ file' = [file EXCEPT ![d].serial = unit]
          /\ changes < MaxChanges /\ changes' = changes + 1
          /\ UNCHANGED <<cloud, hint, sync, copy, server>>
      BY <2>1 DEF EditFile
    <2>3. file' \in [Devices -> Entries]
      BY <2>1, <2>2, FilesTyped DEF TypeOK, Entries
    <2>6. changes' \in 0 .. MaxChanges
      BY <2>2, OneMoreChange
    <2>4. TypeOK'
      BY <2>2, <2>3, <2>6 DEF TypeOK, cloud, server
    <2>5. FilesInv'
      BY <2>2 DEF FilesInv, FuzzyIsBest, FitsBetter, ModelOf, CopyIsOfSync, SyncKeepsSerials
    <2>. QED  BY <2>2, <2>4, <2>5, ServerKept
  <1>. QED  BY <1>1, <1>2

LEMMA NextInv == IInv /\ [Next]_vars => IInv'
  <1>. SUFFICES ASSUME IInv, [Next]_vars PROVE IInv'
    OBVIOUS
  <1>1. CASE UNCHANGED vars
    <2>1. UNCHANGED <<cloud, files, server, changes>>
      BY <1>1 DEF vars
    <2>2. TypeOK'
      BY <2>1 DEF IInv, TypeOK, cloud, files, server
    <2>. QED  BY <2>1, <2>2, FilesKept, ServerKept DEF IInv
  <1>. QED  BY <1>1, ResolverSteps, WalkSteps, RestartInv, MoveInv, SyncMatchInv, SyncWriteInv,
               OperatorSteps DEF Next

LEMMA Invariant == Spec => []IInv
  BY InitInv, NextInv, PTL DEF Spec

-----------------------------------------------------------------------------

\* Every variable keeps its type.
THEOREM TypesKept == Spec => []TypeOK
  BY Invariant, PTL DEF IInv

\* A target the server works with is that of the mapping it read: the explicit
\* ids if the mapping has them, else a target with its serial.
THEOREM AnswersMapped == Spec => []AnswerIsTheMappedDevice
  <1>1. IInv => AnswerIsTheMappedDevice
    BY DEF IInv, ServerInv, AnswerMapped, Mapped, AnswerIsTheMappedDevice
  <1>. QED  BY <1>1, Invariant, PTL

\* The cache is out of date only for units that were moved.
THEOREM CacheTrue == Spec => []CacheTrueUnlessMoved
  <1>1. IInv => CacheTrueUnlessMoved
    BY DEF IInv, ServerInv
  <1>. QED  BY <1>1, Invariant, PTL

\* "Not found" is said only of a unit without a group, or one that was moved.
THEOREM MissesJustified == Spec => []MissIsJustified
  <1>1. IInv => MissIsJustified
    BY DEF IInv, ServerInv, MissOfSerial, MissIsJustified
  <1>. QED  BY <1>1, Invariant, PTL

\* A serial in the file survives ic2-sync, edits in between included.
THEOREM SerialsKept == Spec => []SyncKeepsSerials
  <1>1. IInv => SyncKeepsSerials
    BY DEF IInv, FilesInv
  <1>. QED  BY <1>1, Invariant, PTL

\* A match without an exact key fits better than any other listed unit.
THEOREM NoRival == Spec => []NoRivalCandidate
  <1>1. IInv => NoRivalCandidate
    <2>. SUFFICES ASSUME IInv, copy # None, NEW d \in Devices \ sync.exact, NEW rival \in sync.listed,
                         copy[d].serial # file[d].serial, rival # copy[d].serial
                  PROVE  FitsBetter(d, copy[d].serial, rival)
      BY DEF NoRivalCandidate, FitsBetter, ModelOf
    <2>. QED  BY DEF IInv, FilesInv, CopyIsOfSync, FuzzyIsBest
  <1>. QED  BY <1>1, Invariant, PTL

-----------------------------------------------------------------------------
(* The refinement: requests to the organisations are steps of one lookup.  *)

MappingOf(f) == [d \in Devices |-> [pinned |-> f[d].pinned, serial |-> f[d].serial]]

LEMMA MappingTyped ==
    ASSUME NEW f \in [Devices -> Entries]
    PROVE  MappingOf(f) \in [Devices -> Lookup!Mappings]
  BY DEF MappingOf, Entries, Lookup!Mappings, Lookup!Targets, Targets

LEMMA LookupInit == IInv /\ Init => Lookup!Init
  <1>. SUFFICES ASSUME IInv, Init PROVE Lookup!Init
    OBVIOUS
  <1>1. MappingOf(fleet) \in [Devices -> Lookup!Mappings]
    BY MappingTyped DEF IInv, TypeOK
  <1>. QED
    BY <1>1, NoneAssumption
       DEF Init, MappingOf, Lookup!Init, Lookup!Places, Places, Lookup!NothingKnown, Lookup!NoReply, Lookup!Reply,
           NoAnswer, Answered, NoWalk, Idle, Strayed

\* Steps that neither look for a unit nor move one.
LEMMA LookupKept ==
    ASSUME UNCHANGED <<cloud, server>>
    PROVE  UNCHANGED Lookup!vars
  BY DEF cloud, server, Lookup!vars, Strayed, Idle

LEMMA ResolverLooksUp ==
    ASSUME IInv, NEW d \in Devices, CacheHit(d) \/ UseExplicitIds(d) \/ StartWalk(d)
    PROVE  Lookup!Next
  <1>. USE NoneAssumption DEF Lookup!Reply, Answered
  <1>1. CASE CacheHit(d)
    <2>1. Lookup!Recall(d)
      BY <1>1 DEF CacheHit, cloud, Idle, NoWalk, Strayed, Lookup!Recall
    <2>. QED  BY <2>1 DEF Lookup!Next
  <1>2. CASE UseExplicitIds(d)
    <2>1. Lookup!AnswerPinned(d)
      BY <1>2 DEF UseExplicitIds, HasExplicitIds, Resolved, cloud, Idle, NoWalk, Strayed,
                  Lookup!AnswerPinned, Lookup!Open, Lookup!Learn, Lookup!Done
    <2>. QED  BY <2>1 DEF Lookup!Next
  <1>3. CASE StartWalk(d)
    <2>1. movedSince'[d] = {}
      BY <1>3 DEF StartWalk, IInv, TypeOK
    <2>2. walk'.device = d
      BY <1>3 DEF StartWalk
    <2>3. Strayed' = FALSE
      BY <2>1, <2>2 DEF Strayed
    <2>4. Lookup!Ask(d)
      BY <1>3, <2>2, <2>3 DEF StartWalk, HasExplicitIds, Idle, NoWalk, NoAnswer,
                  Lookup!Ask, Lookup!Open, Lookup!NoReply
    <2>. QED  BY <2>4 DEF Lookup!Next
  <1>. QED  BY <1>1, <1>2, <1>3

\* A request that does not find the unit is no step of the lookup.
LEMMA WalkLooksUp ==
    ASSUME IInv, (\E org \in Orgs : SearchOrg(org)) \/ ListOrgs \/ NotFound \/ WalkFails
    PROVE  [Lookup!Next]_Lookup!vars
  <1>. DEFINE d == walk.device
              unit == fleet[d].serial
  <1>1. ~Idle /\ WalkOfSerial
    BY WalkIsOn
  <1>2. d \in Devices /\ unit \in Units
    BY <1>1 DEF WalkOfSerial
  <1>3. d # None
    BY <1>2, NoneAssumption
  <1>4. Lookup!Wanted = unit
    BY <1>2 DEF Lookup!Wanted
  <1>5. ASSUME walk'.device = d, UNCHANGED <<cloud, fleet, cache, answer>>
        PROVE  UNCHANGED Lookup!vars
    <2>1. ~Idle'
      BY <1>3, <1>5 DEF Idle, NoWalk
    <2>2. Strayed' = Strayed
      BY <1>1, <1>5, <2>1 DEF Strayed, cloud
    <2>. QED  BY <1>5, <2>2 DEF cloud, Lookup!vars
  <1>9. CASE ListOrgs
    <2>1. walk'.device = d
      BY <1>9 DEF ListOrgs, IInv, TypeOK
    <2>. QED  BY <1>5, <1>9, <2>1 DEF ListOrgs
  <1>6. CASE NotFound
    <2>1. Strayed \/ place[unit].group = None
      BY <1>1, <1>6 DEF IInv, ServerInv, NotPassed, NotFound, Strayed
    <2>2. Lookup!Miss
      BY <1>3, <1>4, <1>6, <2>1
         DEF NotFound, Failed, cloud, NoWalk, Strayed, Idle, Lookup!Miss, Lookup!Reply, Lookup!Done
    <2>. QED  BY <2>2 DEF Lookup!Next
  <1>7. CASE WalkFails
    <2>1. Lookup!GiveUp
      BY <1>3, <1>7
         DEF WalkFails, Failed, cloud, NoWalk, Strayed, Idle, Lookup!GiveUp, Lookup!Reply, Lookup!Done
    <2>. QED  BY <2>1 DEF Lookup!Next
  <1>8. ASSUME NEW org \in Orgs, SearchOrg(org)
        PROVE  [Lookup!Next]_Lookup!vars
    <2>1. CASE MatchesInOrg(unit, org)
      <3>1. Resolved(d, TargetIn(unit, org)) /\ UNCHANGED <<cloud, files, fleet, changes>>
        BY <1>8, <2>1 DEF SearchOrg
      <3>2. Lookup!Find
        BY <1>3, <1>4, <2>1, <3>1
           DEF MatchesInOrg, TargetIn, Resolved, Answered, cloud, NoWalk, Strayed, Idle,
               Lookup!Find, Lookup!Learn, Lookup!Reply, Lookup!Done
      <3>. QED  BY <3>2 DEF Lookup!Next
    <2>2. CASE ~MatchesInOrg(unit, org)
      <3>1. walk' = [walk EXCEPT !.todo = @ \ {org}] /\ UNCHANGED <<cloud, fleet, cache, answer>>
        BY <1>8, <2>2 DEF SearchOrg
      <3>2. walk'.device = d
        BY <3>1 DEF IInv, TypeOK
      <3>. QED  BY <1>5, <3>1, <3>2
    <2>. QED  BY <2>1, <2>2
  <1>. QED  BY <1>6, <1>7, <1>8, <1>9

LEMMA RestartLooksUp == ASSUME IInv, Restart PROVE Lookup!Next
  <1>1. MappingOf(fleet)' \in [Devices -> Lookup!Mappings]
    BY MappingTyped DEF IInv, TypeOK, Restart
  <1>2. Lookup!Reload
    BY <1>1 DEF Restart, cloud, NoAnswer, Answered, NoWalk, Strayed, Idle, MappingOf,
                Lookup!Reload, Lookup!NothingKnown, Lookup!NoReply, Lookup!Reply
  <1>. QED  BY <1>2 DEF Lookup!Next

LEMMA MoveLooksUp ==
    ASSUME IInv, NEW unit \in Units, NEW to \in Places, Move(unit, to)
    PROVE  Lookup!Next
  <1>1. /\ place' = [place EXCEPT ![unit] = to]
        /\ movedSince' = [d \in Devices |-> movedSince[d] \cup {unit}]
        /\ UNCHANGED server
    BY DEF Move
  <1>2. CASE Idle
    <2>1. walk.device = None /\ Strayed = FALSE /\ Strayed' = FALSE
      BY <1>1, <1>2 DEF Idle, NoWalk, Strayed, server
    <2>2. Strayed' = (Strayed \/ (walk.device # None /\ unit = Lookup!Wanted))
      BY <2>1
    <2>3. Lookup!Move(unit, to)
      BY <1>1, <2>2 DEF server, Lookup!Move
    <2>. QED  BY <2>3 DEF Lookup!Next, Lookup!Places, Places
  <1>3. CASE ~Idle
    <2>1. walk.device \in Devices /\ walk.device # None
      BY <1>3, NoneAssumption DEF IInv, ServerInv, WalkOfSerial
    <2>2. Lookup!Wanted = fleet[walk.device].serial
      BY <2>1 DEF Lookup!Wanted
    <2>3. Strayed' = (Strayed \/ unit = fleet[walk.device].serial)
      BY <1>1, <1>3, <2>1 DEF Strayed, Idle, server
    <2>4. Strayed' = (Strayed \/ (walk.device # None /\ unit = Lookup!Wanted))
      BY <2>1, <2>2, <2>3
    <2>5. Lookup!Move(unit, to)
      BY <1>1, <2>4 DEF server, Lookup!Move
    <2>. QED  BY <2>5 DEF Lookup!Next, Lookup!Places, Places
  <1>. QED  BY <1>2, <1>3

LEMMA StepLooksUp == IInv /\ [Next]_vars => [Lookup!Next]_Lookup!vars
  <1>. SUFFICES ASSUME IInv, [Next]_vars PROVE [Lookup!Next]_Lookup!vars
    OBVIOUS
  <1>1. CASE UNCHANGED vars
    BY <1>1, LookupKept DEF vars
  <1>2. CASE \/ SyncMatch \/ SyncWrite \/ SyncDropped \/ TakeCopy
             \/ \E d \in Devices, unit \in Units : EditFile(d, unit)
    BY <1>2, LookupKept DEF SyncMatch, SyncWrite, SyncDropped, TakeCopy, EditFile
  <1>. QED  BY <1>1, <1>2, ResolverLooksUp, WalkLooksUp, RestartLooksUp, MoveLooksUp DEF Next

\* The resolver, whose walk over the organisations takes many steps while units move,
\* implements a lookup that answers in one: a target found is true at the moment the
\* answer is given, a unit that stays in its group is never missed, and an answer stays
\* the same until the server is started again.
THEOREM Refinement == Spec => ImplementsLookup
  BY Invariant, LookupInit, StepLooksUp, PTL DEF Spec, ImplementsLookup, Lookup!Spec
=============================================================================
