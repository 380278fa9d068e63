--------------------------- MODULE MCHostDiscovery ---------------------------
(***************************************************************************)
(* HostDiscovery for TLC: a gateway with a static address, a router found  *)
(* through it, and a third device found through either of them.            *)
(***************************************************************************)
EXTENDS HostDiscovery, TLC

CONSTANTS main, branch, leaf, unit1, unit2, unit3, addr1, addr2, addr3

\* The files differ in their order and in what they say of the leaf; in some
\* the branch has no discover entry, so that it never gets an address.
Base(order, branchFits, via, default, kind, management, leafFits) ==
    [order |-> order,
     host |-> [d \in Devices |-> IF d = main THEN addr1 ELSE None],
     via |-> (main :> None) @@ (branch :> main) @@ (leaf :> via),
     gateway_id |-> default,
     kind |-> (main :> "router") @@ (branch :> "router") @@ (leaf :> kind),
     management |-> (main :> "direct") @@ (branch :> "direct") @@ (leaf :> management),
     readable |-> {main, branch},
     fits |-> (main :> {}) @@ (branch :> branchFits) @@ (leaf :> leafFits),
     machine |-> (main :> unit1) @@ (branch :> unit2) @@ (leaf :> unit3),
     sees |-> (main :> {unit2, unit3}) @@ (branch :> {unit3}) @@ (leaf :> {})]

MCFleets ==
    { Base(o, v[1], v[2], v[3], k[1], k[2], f) :
        o \in {<<main, branch, leaf>>, <<branch, leaf, main>>, <<leaf, branch, main>>},
        v \in {<<{unit2}, main, None>>, <<{unit2}, branch, main>>, <<{}, branch, main>>,
               <<{unit2}, None, main>>, <<{unit2}, Unknown, None>>, <<{unit2}, None, None>>},
        k \in {<<"switch", "gateway">>, <<"router", "gateway">>, <<"fusionhub", "direct">>},
        f \in {{unit3}, {unit2, unit3}} }
=============================================================================
