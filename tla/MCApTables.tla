------------------------------ MODULE MCApTables ------------------------------
(***************************************************************************)
(* ApTables for TLC: an item that shows every column, one without an id,   *)
(* which goes under its index, and one that is never listed but whose id   *)
(* an item that replaces it during a read may inherit.  The first row has  *)
(* the index 0, and the ids are indices of other rows.                     *)
(***************************************************************************)
EXTENDS ApTables, TLC

CONSTANTS full, bare, hidden

MCFilled ==
    (full :> Columns) @@
    (bare :> {ProfileSsid, AdvancedVlan, ClientIp}) @@
    (hidden :> {ProfileId, AdvancedVlan, AdvancedPassphrase})

MCNumber == (full :> 1) @@ (bare :> 0) @@ (hidden :> 1)
=============================================================================
