------------------------- MODULE HostDiscoveryProofs -------------------------
(***************************************************************************)
(* Theorems about HostDiscovery, for every fleet file and network.  While  *)
(* the process resolves, its list holds exactly the discovered devices     *)
(* still without an address, so that an empty list means all are found;    *)
(* and a list of peers stays true but for the units renumbered since the   *)
(* process started, so that an address taken from it is, too.              *)
(***************************************************************************)
EXTENDS HostDiscovery, TLAPS

Missing == { d \in Devices : Discovers(d) /\ fleet.host[d] = None /\ host[d] = None }

TodoIsMissing ==
    /\ stage \in {"resolving", "serving"} => todo = Missing
    /\ stage = "serving" => todo = {}

\* Discovery gives addresses only to devices the file gives none.
FileHostsKept ==
    \A d \in Devices : fleet.host[d] # None \/ ~Discovers(d) => host[d] = fleet.host[d]

PeerTrue(g, sort, p) ==
    IF sort = "synergy" THEN host[g] # None /\ p[2] = host[g]
    ELSE p[1] \in fleet.sees[g] /\ (p[1] \in moved \/ p[2] = lease[p[1]])

ListingsTrue ==
    stage = "resolving" =>
        \A g \in Devices, sort \in Sorts :
            listings[<<g, sort>>] # NoListing => \A p \in listings[<<g, sort>>] : PeerTrue(g, sort, p)

GatewayKnown ==
    \A d \in Devices :
        Discovers(d) /\ fleet.host[d] = None /\ host[d] # None => GatewayId(d) \in Devices

IInv ==
    /\ TypeOK
    /\ TodoIsMissing
    /\ FileHostsKept
    /\ ListingsTrue
    /\ GatewayKnown
    /\ HostTrueUnlessMoved

-----------------------------------------------------------------------------
(* The file and what the code asks of it.                                  *)

LEMMA FleetTyped ==
    ASSUME TypeOK
    PROVE  /\ fleet.host \in [Devices -> Addresses \cup {None}]
           /\ fleet.sees \in [Devices -> SUBSET Units]
           /\ fleet.fits \in [Devices -> SUBSET Units]
           /\ None \notin Addresses \cup Units \cup Devices
  BY FleetsAssumption, NoneAssumption DEF TypeOK, FleetRecords

LEMMA SortTyped == ASSUME NEW d PROVE SortOf(d) \in Sorts
  BY DEF SortOf, Sorts

LEMMA PeersTyped ==
    ASSUME TypeOK, NEW g \in Devices, NEW sort \in Sorts, NEW shown
    PROVE  /\ Peers(g, sort, shown) \subseteq Units \X Addresses
           /\ \A p \in Peers(g, sort, shown) : PeerTrue(g, sort, p)
  <1>1. host[g] \in Addresses \cup {None} /\ \A u \in Units : lease[u] \in Addresses
    BY DEF TypeOK, Leases
  <1>2. fleet.sees[g] \subseteq Units
    BY FleetTyped
  <1>3. CASE sort = "synergy"
    BY <1>1, <1>2, <1>3 DEF Peers, Reported, PeerTrue
  <1>4. CASE sort # "synergy"
    BY <1>1, <1>2, <1>4 DEF Peers, Reported, PeerTrue
  <1>. QED  BY <1>3, <1>4

-----------------------------------------------------------------------------

LEMMA InitInv == Init => IInv
  <1>. SUFFICES ASSUME Init PROVE IInv
    OBVIOUS
  <1>1. TypeOK
    BY ChangesAssumption, FleetsAssumption DEF Init, TypeOK, FleetRecords, NoListings
  <1>2. TodoIsMissing /\ FileHostsKept /\ ListingsTrue /\ GatewayKnown /\ HostTrueUnlessMoved
    BY DEF Init, GatewayKnown, TodoIsMissing, FileHostsKept, ListingsTrue, HostTrueUnlessMoved
  <1>. QED  BY <1>1, <1>2 DEF IInv

LEMMA BootInv == ASSUME IInv, Boot PROVE IInv'
  <1>1. TypeOK'
    BY FleetTyped DEF IInv, TypeOK, Boot, NoListings
  <1>2. TodoIsMissing' /\ FileHostsKept' /\ ListingsTrue' /\ GatewayKnown' /\ HostTrueUnlessMoved'
    BY DEF Boot, GatewayKnown, TodoIsMissing, Missing, Discovers, FileHostsKept, ListingsTrue,
           NoListings, HostTrueUnlessMoved
  <1>. QED  BY <1>1, <1>2 DEF IInv

\* The end of a resolution, by success or failure, and the end of the server.
LEMMA StageOnly ==
    ASSUME IInv, UNCHANGED <<fleet, network, host, todo, listings, changes>>,
           \/ stage' \in {"failed", "down"}
           \/ stage = "resolving" /\ stage' = "serving" /\ todo = {}
    PROVE  IInv'
  <1>1. TypeOK'
    BY DEF IInv, TypeOK, network
  <1>2. TodoIsMissing' /\ FileHostsKept' /\ ListingsTrue'
    BY DEF IInv, TodoIsMissing, Missing, Discovers, FileHostsKept, ListingsTrue
  <1>3. GatewayKnown' /\ HostTrueUnlessMoved'
    BY DEF IInv, GatewayKnown, HostTrueUnlessMoved, Discovers, SortOf, GatewayId, network
  <1>. QED  BY <1>1, <1>2, <1>3 DEF IInv

LEMMA AskInv == ASSUME IInv, NEW d \in Devices, AskGateway(d) PROVE IInv'
  <1>1. CASE Fail
    BY <1>1, StageOnly DEF Fail
  <1>2. CASE ~Fail
    <2>. DEFINE g == GatewayId(d)
    <2>1. PICK shown :
            /\ g # None
            /\ stage = "resolving"
            /\ listings' = [listings EXCEPT ![ListingKey(d)] = Peers(g, SortOf(d), shown)]
            /\ UNCHANGED <<fleet, network, stage, host, todo, changes>>
      BY <1>2 DEF AskGateway
    <2>2. g \in Devices /\ SortOf(d) \in Sorts /\ ListingKey(d) = <<g, SortOf(d)>>
      BY <2>1, SortTyped DEF GatewayId, ListingKey
    <2>3. /\ Peers(g, SortOf(d), shown) \subseteq Units \X Addresses
          /\ \A p \in Peers(g, SortOf(d), shown) : PeerTrue(g, SortOf(d), p)
      BY <2>2, PeersTyped DEF IInv
    <2>. HIDE DEF g
    <2>4. TypeOK'
      BY <2>1, <2>2, <2>3 DEF IInv, TypeOK, network
    <2>5. \A p, h, s : PeerTrue(h, s, p)' <=> PeerTrue(h, s, p)
      BY <2>1 DEF PeerTrue, network
    <2>6. \A h \in Devices, s \in Sorts :
            listings'[<<h, s>>] = IF <<h, s>> = <<g, SortOf(d)>> THEN Peers(g, SortOf(d), shown)
                              ELSE listings[<<h, s>>]
      BY <2>1, <2>2 DEF IInv, TypeOK
    <2>7. ListingsTrue'
      <3>. SUFFICES ASSUME NEW h \in Devices, NEW s \in Sorts,
                           listings'[<<h, s>>] # NoListing, NEW p \in listings'[<<h, s>>]
                    PROVE  PeerTrue(h, s, p)'
        BY DEF ListingsTrue
      <3>1. PeerTrue(h, s, p)
        BY <2>1, <2>2, <2>3, <2>6 DEF IInv, ListingsTrue
      <3>. QED  BY <3>1, <2>5
    <2>8. TodoIsMissing' /\ FileHostsKept' /\ GatewayKnown' /\ HostTrueUnlessMoved'
      BY <2>1 DEF IInv, GatewayKnown, TodoIsMissing, Missing, Discovers, FileHostsKept, HostTrueUnlessMoved,
                  SortOf, GatewayId, network
    <2>. QED  BY <2>4, <2>7, <2>8 DEF IInv
  <1>. QED  BY <1>1, <1>2

LEMMA TakeInv == ASSUME IInv, NEW d \in Devices, TakeAddress(d) PROVE IInv'
  <1>1. CASE Fail
    BY <1>1, StageOnly DEF Fail
  <1>2. CASE ~Fail
    <2>. DEFINE g == GatewayId(d)
                sort == SortOf(d)
    <2>1. /\ stage = "resolving"
          /\ d \in todo
          /\ g # None
          /\ listings[ListingKey(d)] # NoListing
          /\ todo' = todo \ {d}
          /\ UNCHANGED <<fleet, network, stage, listings, changes>>
      BY <1>2 DEF TakeAddress, IsNext
    <2>2. PICK p \in listings[ListingKey(d)] :
            p[1] \in fleet.fits[d] /\ host' = [host EXCEPT ![d] = p[2]]
      BY <1>2 DEF TakeAddress
    <2>3. g \in Devices /\ sort \in Sorts /\ ListingKey(d) = <<g, sort>>
      BY <2>1, SortTyped DEF GatewayId, ListingKey
    <2>4. PeerTrue(g, sort, p) /\ p \in Units \X Addresses
      BY <2>1, <2>2, <2>3 DEF IInv, ListingsTrue, TypeOK
    <2>5. Discovers(d) /\ fleet.host[d] = None /\ host[d] = None
      BY <2>1 DEF IInv, TodoIsMissing, Missing
    <2>6. p[2] # None /\ p[2] \in Addresses
      BY <2>4, FleetTyped DEF IInv
    <2>. HIDE DEF g, sort
    <2>7. /\ host \in [Devices -> Addresses \cup {None}]
          /\ \A e \in Devices : host'[e] = IF e = d THEN p[2] ELSE host[e]
          /\ host' \in [Devices -> Addresses \cup {None}]
      BY <2>2, <2>6 DEF IInv, TypeOK
    <2>8. TypeOK'
      BY <2>1, <2>7 DEF IInv, TypeOK, network
    <2>9. TodoIsMissing' /\ FileHostsKept'
      BY <2>1, <2>5, <2>6, <2>7 DEF IInv, TodoIsMissing, Missing, Discovers, FileHostsKept
    <2>10. ListingsTrue'
      BY <2>1, <2>5, <2>7 DEF IInv, ListingsTrue, PeerTrue, network
    <2>11. HostTrueUnlessMoved'
      <3>. SUFFICES ASSUME NEW e \in Devices,
                           Discovers(e), fleet.host[e] = None, host'[e] # None
                    PROVE  IF SortOf(e) = "synergy" THEN host'[e] = host'[GatewayId(e)]
                           ELSE \E u \in fleet.fits[e] \cap fleet.sees[GatewayId(e)] :
                                    u \in moved \/ host'[e] = lease[u]
        BY <2>1 DEF HostTrueUnlessMoved, Discovers, SortOf, GatewayId, network
      <3>1. CASE e = d
        BY <3>1, <2>2, <2>3, <2>4, <2>5, <2>7 DEF PeerTrue, g, sort
      <3>2. CASE e # d /\ SortOf(e) # "synergy"
        BY <3>2, <2>7 DEF IInv, HostTrueUnlessMoved
      <3>3. CASE e # d /\ SortOf(e) = "synergy"
        <4>1. host[e] = host[GatewayId(e)] /\ host[e] # None
          BY <3>3, <2>7 DEF IInv, HostTrueUnlessMoved
        <4>2. GatewayId(e) # d
          BY <4>1, <2>5
        <4>3. GatewayId(e) \in Devices
          BY <3>3, <4>1 DEF IInv, GatewayKnown
        <4>. QED  BY <3>3, <4>1, <4>2, <4>3, <2>7
      <3>. QED  BY <3>1, <3>2, <3>3
    <2>12. GatewayKnown'
      BY <2>1, <2>3, <2>7 DEF IInv, GatewayKnown, Discovers, GatewayId, g
    <2>. QED  BY <2>8, <2>9, <2>10, <2>11, <2>12 DEF IInv
  <1>. QED  BY <1>1, <1>2

\* The network changes under the process: what was renumbered is in moved.
LEMMA NetworkInv ==
    ASSUME IInv, (\E leases \in Leases : Renumber(leases)) \/ (\E units \in SUBSET Units : ComeAndGo(units))
    PROVE  IInv'
  <1>1. /\ UNCHANGED <<fleet, process>>
        /\ changes' \in 0 .. MaxChanges /\ up' \subseteq Units
        /\ lease' \in Leases
        /\ moved' \subseteq Units /\ moved \subseteq moved'
        /\ \A u \in Units : u \in moved' \/ lease'[u] = lease[u]
    <2>1. CASE \E leases \in Leases : Renumber(leases)
      BY <2>1, ChangesAssumption DEF Renumber, Change, IInv, TypeOK
    <2>2. CASE \E units \in SUBSET Units : ComeAndGo(units)
      BY <2>2, ChangesAssumption DEF ComeAndGo, Change, IInv, TypeOK
    <2>. QED  BY <2>1, <2>2
  <1>2. TypeOK'
    BY <1>1 DEF IInv, TypeOK, process
  <1>3. TodoIsMissing' /\ FileHostsKept' /\ GatewayKnown'
    BY <1>1 DEF IInv, TodoIsMissing, Missing, Discovers, FileHostsKept, GatewayKnown, GatewayId, process
  <1>4. ListingsTrue'
    <2>. SUFFICES ASSUME stage = "resolving", NEW g \in Devices, NEW sort \in Sorts,
                         listings[<<g, sort>>] # NoListing, NEW p \in listings[<<g, sort>>]
                  PROVE  PeerTrue(g, sort, p)'
      BY <1>1 DEF ListingsTrue, process
    <2>1. PeerTrue(g, sort, p) /\ p[1] \in Units
      BY DEF IInv, ListingsTrue, TypeOK
    <2>. QED  BY <1>1, <2>1 DEF PeerTrue, process
  <1>5. HostTrueUnlessMoved'
    <2>1. \A d \in Devices : fleet.fits[d] \subseteq Units
      BY FleetTyped DEF IInv
    <2>. QED  BY <1>1, <2>1 DEF IInv, HostTrueUnlessMoved, Discovers, SortOf, GatewayId, process
  <1>. QED  BY <1>2, <1>3, <1>4, <1>5 DEF IInv

LEMMA NextInv == IInv /\ [Next]_vars => IInv'
  <1>. SUFFICES ASSUME IInv, [Next]_vars PROVE IInv'
    OBVIOUS
  <1>1. CASE UNCHANGED vars
    BY <1>1 DEF vars, network, process, IInv, TypeOK, TodoIsMissing, Missing, Discovers,
                FileHostsKept, ListingsTrue, PeerTrue, GatewayKnown, GatewayId,
                HostTrueUnlessMoved, SortOf
  <1>2. CASE Serve \/ Stop
    BY <1>2, StageOnly DEF Serve, Stop
  <1>. QED  BY <1>1, <1>2, BootInv, AskInv, TakeInv, NetworkInv DEF Next

LEMMA Invariant == Spec => []IInv
  BY InitInv, NextInv, PTL DEF Spec

-----------------------------------------------------------------------------

\* Every variable keeps its type; a list of peers is one of units with addresses.
THEOREM TypesKept == Spec => []TypeOK
  BY Invariant, PTL DEF IInv

\* The server serves only when every discovered device has an address.
THEOREM ServesResolved == Spec => []ServingMeansResolved
  <1>1. IInv => ServingMeansResolved
    BY DEF IInv, ServingMeansResolved, TodoIsMissing, Missing, FileHostsKept
  <1>. QED  BY <1>1, Invariant, PTL

\* A discovered address is that of a unit that fits, or that was renumbered.
THEOREM HostsTrue == Spec => []HostTrueUnlessMoved
  BY Invariant, PTL DEF IInv
=============================================================================
