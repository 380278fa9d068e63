----------------------------- MODULE MCIC2Mapping -----------------------------
(***************************************************************************)
(* IC2Mapping for TLC: a router and a switch, two units, two organisations *)
(* of which one is the default.                                            *)
(***************************************************************************)
EXTENDS IC2Mapping

CONSTANTS router, switch, unit1, unit2, org1, org2, group1

Blank == [serial |-> None, pinned |-> None, site |-> None]

Pinned == [org |-> org2, group |-> group1, unit |-> unit2]

\* The router is mapped by serial, by ids, by both or not at all; the switch is
\* mapped to the router's unit by mistake, or not at all.
MCFiles ==
    { [d \in {router, switch} |-> IF d = router THEN r ELSE s] :
        r \in [serial : {unit1, None}, pinned : {Pinned, None}, site : {None}],
        s \in {Blank, [Blank EXCEPT !.serial = unit1]} }

NoHint == [serial |-> None, mac |-> None, name |-> {}, model |-> None]

\* What is known of the switch: every combination of name and model, or one of
\* the exact keys; of the router, nothing but its mapping.
MCHints ==
    { [d \in {router, switch} |-> IF d = router THEN NoHint ELSE s] :
        s \in [serial : {None}, mac : {None}, name : SUBSET {unit1, unit2},
               model : {None} \cup SUBSET {unit1, unit2}]
              \cup { [NoHint EXCEPT !.mac = unit2, !.name = {unit1}],
                     [NoHint EXCEPT !.serial = unit2, !.mac = unit1] } }
=============================================================================
