---------------------------- MODULE HostDiscovery ----------------------------
(***************************************************************************)
(* resolve_discovered_hosts() (peplink_core/fleet_resolve.py), run when    *)
(* the server builds its registry: the devices without an address are      *)
(* taken in the order of the fleet file, the gateway of each is asked once *)
(* for its list of peers, and the address of the one peer that fits the    *)
(* device becomes its host for the life of the process.  Anything that     *)
(* goes wrong ends the process, and the container runtime starts it again  *)
(* (docs/docker.md) from the file.  Meanwhile gateways come and go and     *)
(* peers get other addresses.                                              *)
(*                                                                         *)
(* An operator defined just before another with the same parameters is a   *)
(* fault of the code that the properties are tested against; the           *)
(* specification does not use it.                                          *)
(***************************************************************************)
EXTENDS Integers, FiniteSets, Functions

CONSTANTS
    Devices,    \* devices of the fleet file, by key
    Unknown,    \* a name in discover.via that no device has
    Units,      \* machines on the networks of the gateways
    Addresses,
    None,
    Fleets,     \* fleet files, with the network they describe
    MaxChanges  \* bound: what the network and the operator do

ASSUME NoneAssumption == None \notin Devices \cup {Unknown} \cup Units \cup Addresses
ASSUME ChangesAssumption == MaxChanges \in Nat

(***************************************************************************)
(* order lists the devices as the file does.  fits says which units answer *)
(* to discover.match ({}: the device has no discover), machine which unit  *)
(* a device really is, sees which units a gateway reports.                 *)
(***************************************************************************)
FleetRecords ==
    [order : { s \in [1 .. Cardinality(Devices) -> Devices] : IsInjective(s) },
     host : [Devices -> Addresses \cup {None}],
     via : [Devices -> Devices \cup {Unknown, None}],
     gateway_id : Devices \cup {None},
     kind : [Devices -> {"router", "fusionhub", "switch", "ap"}],
     management : [Devices -> {"direct", "gateway"}],
     readable : SUBSET Devices,
     fits : [Devices -> SUBSET Units],
     machine : [Devices -> Units],
     sees : [Devices -> SUBSET Units]]

ASSUME FleetsAssumption == Fleets \subseteq FleetRecords

VARIABLES
    fleet,     \* the file and the network, fixed
    lease,     \* the address each unit has
    up,        \* the units that answer
    stage,     \* "down", "resolving", "failed" or "serving"
    host,      \* device.host in the process
    todo,      \* the rest of the pending list, taken in the order of the file
    listings,  \* the caches of peers by gateway and kind of list
    changes,   \* changes so far
    moved      \* history: units that got another address since the start

network == <<lease, up, moved>>
process == <<stage, host, todo, listings>>
vars == <<fleet, network, process, changes>>

Sorts == {"synergy", "clients", "mesh"}

\* A list of peers: pairs of unit and address; "none yet" is no such set.
NoListing == {<<None, None>>}

NoListings == [k \in Devices \X Sorts |-> NoListing]

\* Each unit has an address of its own; static hosts are right.
Leases == { l \in [Units -> Addresses] : IsInjective(l) }

StaticHostsHold(l) ==
    \A d \in Devices : fleet.host[d] # None => l[fleet.machine[d]] = fleet.host[d]

Init ==
    /\ fleet \in Fleets
    /\ lease \in Leases
    /\ StaticHostsHold(lease)
    /\ up \in SUBSET Units
    /\ stage = "down"
    /\ host = fleet.host
    /\ todo = {}
    /\ listings = NoListings
    /\ changes = 0
    /\ moved = {}

-----------------------------------------------------------------------------
(* What the code asks of the file.                                         *)

Discovers(d) == fleet.fits[d] # {}

Before(d, e) ==
    \E i, j \in DOMAIN fleet.order : fleet.order[i] = d /\ fleet.order[j] = e /\ i < j

IsNext(d) == d \in todo /\ \A e \in todo \ {d} : Before(d, e)

\* discovery_gateway_id(), None where it raises.
GatewayId(d) ==
    LET id == IF fleet.via[d] # None THEN fleet.via[d] ELSE fleet.gateway_id
    IN  IF id \in Devices THEN id ELSE None

\* Which list of the gateway the device is looked for in.
SortOf(d) ==
    CASE fleet.management[d] = "gateway" /\ fleet.kind[d] = "router" -> "synergy"
      [] fleet.kind[d] \in {"ap", "switch"} -> "clients"
      [] OTHER -> "mesh"

OneListPerGateway(d) == <<GatewayId(d), "mesh">>
ListingKey(d) == <<GatewayId(d), SortOf(d)>>

\* "gateway must have a static address": the code asks for any address, which
\* the gateway may have got a moment ago.
StaticAddressOnly(g) == fleet.host[g] # None /\ g \in fleet.readable
MayBeAsked(g) == host[g] # None /\ g \in fleet.readable

\* match_discovered_peer(), over the units that fit.
OneMatch(d, peers) == Cardinality({ p \in peers : p[1] \in fleet.fits[d] }) = 1

-----------------------------------------------------------------------------
(* The process.                                                            *)

Fail == stage' = "failed" /\ UNCHANGED <<fleet, network, host, todo, listings, changes>>

Boot ==
    /\ stage \in {"down", "failed"}
    /\ stage' = "resolving"
    /\ host' = fleet.host
    /\ todo' = { d \in Devices : Discovers(d) /\ fleet.host[d] = None }
    /\ listings' = NoListings
    /\ moved' = {}
    /\ UNCHANGED <<fleet, lease, up, changes>>

\* What the gateway reports: of a unit that does not answer it may still know
\* the address ("shown"), else the entry has none.  The synergized routers are
\* those connected now, and stand for the address of the gateway itself.
Reported(g, sort, shown) ==
    IF sort = "synergy"
    THEN { <<u, host[g]>> : u \in fleet.sees[g] \cap up }
    ELSE { <<u, IF u \in up \cup shown THEN lease[u] ELSE None>> : u \in fleet.sees[g] }

\* Entries without an address are not peers.
EveryEntry(g, sort, shown) == Reported(g, sort, shown)
Peers(g, sort, shown) == { p \in Reported(g, sort, shown) : p[2] # None }

\* The next device's gateway has not been asked for that list yet.
AskGateway(d) ==
    /\ stage = "resolving"
    /\ IsNext(d)
    /\ LET g == GatewayId(d) IN
       IF g = None \/ ~MayBeAsked(g)
       THEN Fail
       ELSE /\ listings[ListingKey(d)] = NoListing
            /\ IF fleet.machine[g] \notin up \/ lease[fleet.machine[g]] # host[g]
               THEN Fail
               ELSE /\ \E shown \in SUBSET (fleet.sees[g] \ up) :
                        listings' = [listings EXCEPT ![ListingKey(d)] = Peers(g, SortOf(d), shown)]
                    /\ UNCHANGED <<fleet, network, stage, host, todo, changes>>

\* The address of the one peer that fits; none or several are an error.
TakeAddress(d) ==
    /\ stage = "resolving"
    /\ IsNext(d)
    /\ GatewayId(d) # None
    /\ LET peers == listings[ListingKey(d)] IN
       /\ peers # NoListing
       /\ IF OneMatch(d, peers)
          THEN /\ \E p \in peers :
                    p[1] \in fleet.fits[d] /\ host' = [host EXCEPT ![d] = p[2]]
               /\ todo' = todo \ {d}
               /\ UNCHANGED <<fleet, network, stage, listings, changes>>
          ELSE Fail

Serve ==
    /\ stage = "resolving"
    /\ todo = {}
    /\ stage' = "serving"
    /\ UNCHANGED <<fleet, network, host, todo, listings, changes>>

-----------------------------------------------------------------------------
(* The network and the operator.                                           *)

Change == changes < MaxChanges /\ changes' = changes + 1

\* A unit gets another address, or two units exchange theirs.
Renumber(leases) ==
    /\ Change
    /\ leases # lease
    /\ StaticHostsHold(leases)
    /\ lease' = leases
    /\ moved' = moved \cup { u \in Units : leases[u] # lease[u] }
    /\ UNCHANGED <<fleet, up, process>>

ComeAndGo(units) ==
    /\ Change
    /\ up' = units
    /\ units # up
    /\ UNCHANGED <<fleet, lease, moved, process>>

Stop ==
    /\ stage = "serving"
    /\ stage' = "down"
    /\ UNCHANGED <<fleet, network, host, todo, listings, changes>>

Next ==
    \/ Boot
    \/ \E d \in Devices : AskGateway(d) \/ TakeAddress(d)
    \/ Serve
    \/ \E leases \in Leases : Renumber(leases)
    \/ \E units \in SUBSET Units : ComeAndGo(units)
    \/ Stop

\* The process runs on, each request ends, and a process that ended is started
\* again ("restart: unless-stopped"). Nothing is assumed of the network.
Spec ==
    /\ Init
    /\ [][Next]_vars
    /\ WF_vars(Boot) /\ WF_vars(Serve)
    /\ WF_vars(\E d \in Devices : AskGateway(d)) /\ WF_vars(\E d \in Devices : TakeAddress(d))

-----------------------------------------------------------------------------
(* Properties.                                                             *)

TypeOK ==
    /\ fleet \in Fleets
    /\ lease \in Leases
    /\ up \subseteq Units
    /\ stage \in {"down", "resolving", "failed", "serving"}
    /\ host \in [Devices -> Addresses \cup {None}]
    /\ todo \subseteq Devices
    /\ listings \in [Devices \X Sorts -> {NoListing} \cup SUBSET (Units \X Addresses)]
    /\ changes \in 0 .. MaxChanges
    /\ moved \subseteq Units

\* The server answers tool calls only when every device that has a discover
\* entry has an address; a device without one has none.
ServingMeansResolved ==
    stage = "serving" =>
        \A d \in Devices : host[d] = None <=> ~Discovers(d) /\ fleet.host[d] = None

\* A discovered host is the address of a unit that the gateway sees and that fits
\* the device, unless that unit was renumbered since the process started; a router
\* joined by Synergy has its gateway's address.  (Of several units that fit, one
\* that is listed alone is taken for the device: the host need not be of the machine meant.)
HostTrueUnlessMoved ==
    \A d \in Devices : Discovers(d) /\ fleet.host[d] = None /\ host[d] # None =>
        IF SortOf(d) = "synergy" THEN host[d] = host[GatewayId(d)]
        ELSE \E u \in fleet.fits[d] \cap fleet.sees[GatewayId(d)] :
                u \in moved \/ host[d] = lease[u]

\* Which files can be resolved: the gateway of every discovered device has an
\* address in the file, or is itself resolved and comes before the device, and
\* one unit fits.
Resolvable ==
    \A d \in Devices : Discovers(d) /\ fleet.host[d] = None =>
        LET g == GatewayId(d) IN
        /\ g # None
        /\ g \in fleet.readable
        /\ fleet.host[g] # None \/ (Discovers(g) /\ Before(g, d))
        /\ Cardinality(fleet.fits[d] \cap fleet.sees[g]) = 1

\* Each discovered gateway is found as the machine it is.
GatewaysFitThemselves ==
    \A d \in Devices : Discovers(d) /\ SortOf(d) # "synergy" => fleet.fits[d] = {fleet.machine[d]}

\* With a file that can be resolved the server gets to serve once the units stay
\* reachable, however the network behaved before: no failed start leaves behind
\* what keeps the next one from succeeding.
StartsInTheEnd ==
    (Resolvable /\ GatewaysFitThemselves /\ <>[](up = Units)) => <>(stage = "serving")
=============================================================================
