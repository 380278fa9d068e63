------------------------------- MODULE ApTables -------------------------------
(***************************************************************************)
(* Reading the tables of an access point over SNMP (peplink_core/snmp).    *)
(* A walk asks for one cell after another with GETNEXT, column by column,  *)
(* until it leaves the table; the cells are then grouped by row.  The SSID *)
(* profiles take two walks, over two tables that have the same rows, and   *)
(* the wireless clients take one.  The access point goes on working: rows  *)
(* come, go and are given to others between two cells.                     *)
(*                                                                         *)
(* An operator defined just before another with the same parameters is a   *)
(* fault of the code that the properties are tested against; the           *)
(* specification does not use it.                                          *)
(***************************************************************************)
EXTENDS Integers, FiniteSets

CONSTANTS
    Rows,       \* row indices, which end an OID
    Items,      \* what a row may hold: SSID profiles, or stations
    Filled,     \* the cells that have a value, by item: pairs of walk and column
    Number,     \* the profile id of those SSID profiles that show one
    None,
    MaxChanges  \* bound: changes of a table during one read

Kinds == {"ssid", "clients"}

\* The columns the parsers look at, by their numbers in the MIB; those left out
\* (enable, security, band, counters) are treated like VLAN or address.
ProfileId == <<1, 1>>
ProfileSsid == <<1, 4>>
AdvancedVlan == <<2, 2>>
AdvancedPassphrase == <<2, 10>>
ClientMac == <<1, 2>>
ClientIp == <<1, 3>>

ColumnsOf(k) ==
    IF k = "ssid" THEN {ProfileId, ProfileSsid, AdvancedVlan, AdvancedPassphrase}
    ELSE {ClientMac, ClientIp}

Columns == ColumnsOf("ssid") \cup ColumnsOf("clients")

LastWalk(k) == IF k = "ssid" THEN 2 ELSE 1

ASSUME RowsAssumption == Rows \subseteq Nat /\ IsFiniteSet(Rows)
ASSUME NoneAssumption == None \notin Items \cup Nat
ASSUME FilledAssumption == Filled \in [Items -> SUBSET Columns]
ASSUME NumberAssumption == Number \in [Items -> Nat]
ASSUME ChangesAssumption == MaxChanges \in Nat

VARIABLES
    kind,     \* which tables are read
    table,    \* the access point: what each row holds now
    stage,    \* "idle", "walking" or "over"
    walk,     \* the walk in progress
    pos,      \* column and row of its last cell
    got,      \* the varbinds collected: the item whose value came, by column and row
    answer,   \* what the read returned, None if it raised
    changes,  \* changes since the read started
    held      \* history: what each row held since then, None included

reader == <<kind, stage, walk, pos, got, answer>>
vars == <<reader, table, changes, held>>

\* An item is in one row at a time.
Tables ==
    { t \in [Rows -> Items \cup {None}] :
        \A r, s \in Rows : t[r] = t[s] /\ t[r] # None => r = s }

NothingYet == [c \in Columns \X Rows |-> None]

Init ==
    /\ kind \in Kinds
    /\ table \in Tables
    /\ stage = "idle"
    /\ walk = 1
    /\ pos = <<0, 0>>
    /\ got = NothingYet
    /\ answer = None
    /\ changes = 0
    /\ held = [r \in Rows |-> {table[r]}]

-----------------------------------------------------------------------------
(* SnmpSession.walk().                                                     *)

Later(a, b) == a[1] > b[1] \/ (a[1] = b[1] /\ a[2] > b[2])

Shows(item, column) == item # None /\ column \in Filled[item]

\* The cells of the current table after the last one, as column number and row;
\* a cell without a value (noSuchInstance) is passed over.
NeverAdvancing ==
    { cell \in { <<c[2], r>> : c \in { d \in ColumnsOf(kind) : d[1] = walk }, r \in Rows } :
        Shows(table[cell[2]], <<walk, cell[1]>>) /\ ~Later(pos, cell) }
Ahead ==
    { cell \in { <<c[2], r>> : c \in { d \in ColumnsOf(kind) : d[1] = walk }, r \in Rows } :
        Shows(table[cell[2]], <<walk, cell[1]>>) /\ Later(cell, pos) }

ReadCell ==
    /\ stage = "walking"
    /\ \E cell \in Ahead :
        /\ \A other \in Ahead : ~Later(cell, other)
        /\ pos' = cell
        /\ got' = [got EXCEPT ![<< <<walk, cell[1]>>, cell[2]>>] = table[cell[2]]]
    /\ UNCHANGED <<kind, stage, walk, answer, table, changes, held>>

-----------------------------------------------------------------------------
(* fetch_ap_ssid_profile_config() and parse_client_table().                *)

\* profile_id of a row, or its index; a station is listed under its index.
Key(r) ==
    IF kind = "ssid" /\ got[<<ProfileId, r>>] # None THEN Number[got[<<ProfileId, r>>]] ELSE r

\* A profile needs an SSID, a station an address of either kind.
AnyRow(r) == \E c \in ColumnsOf(kind) : got[<<c, r>>] # None
Listed(r) ==
    IF kind = "ssid" THEN got[<<ProfileSsid, r>>] # None
    ELSE got[<<ClientMac, r>>] # None \/ got[<<ClientIp, r>>] # None

\* The row of the advanced table that goes with a row of the profile table.
SameProfileNumber(r) == IF Key(r) \in Rows THEN Key(r) ELSE r
SameIndex(r) == r

\* The value of a column, for an item that shows it; a passphrase is redacted.
ValueOf(item, column) ==
    IF ~Shows(item, column) THEN None
    ELSE IF column = AdvancedPassphrase THEN "[redacted]" ELSE item

Fields(r) ==
    [c \in ColumnsOf(kind) |->
        LET row == IF c[1] = 1 THEN r ELSE SameIndex(r) IN ValueOf(got[<<c, row>>], c)]

\* The first row with a key keeps it.
FirstOf(key) ==
    CHOOSE r \in Rows : /\ Listed(r) /\ Key(r) = key
                        /\ \A s \in Rows : Listed(s) /\ Key(s) = key => r <= s

\* A later row with the same key replaces an earlier one.
LastOf(key) ==
    CHOOSE r \in Rows : /\ Listed(r) /\ Key(r) = key
                        /\ \A s \in Rows : Listed(s) /\ Key(s) = key => s <= r

\* "order", the keys by ascending row, and the entries by key.
Answer ==
    [order    |-> [r \in { s \in Rows : Listed(s) } |-> Key(r)],
     response |-> [key \in { Key(s) : s \in { t \in Rows : Listed(t) } } |-> Fields(LastOf(key))]]

-----------------------------------------------------------------------------
(* The read as a whole.                                                    *)

\* Whatever happened to the table since the last read.
Start(k, t) ==
    /\ stage = "idle"
    /\ stage' = "walking"
    /\ kind' = k
    /\ table' = t
    /\ walk' = 1
    /\ pos' = <<0, 0>>
    /\ got' = NothingYet
    /\ answer' = None
    /\ changes' = 0
    /\ held' = [r \in Rows |-> {t[r]}]

\* The walk left the table: the next one, or the answer.
LastTable == walk = LastWalk(kind)

LeaveTable ==
    /\ stage = "walking"
    /\ Ahead = {}
    /\ IF LastTable
       THEN stage' = "over" /\ answer' = Answer /\ UNCHANGED <<walk, pos>>
       ELSE walk' = walk + 1 /\ pos' = <<0, 0>> /\ UNCHANGED <<stage, answer>>
    /\ UNCHANGED <<kind, got, table, changes, held>>

\* A timeout or an error of the agent raises, and what was collected is lost.
WalkFails == stage = "walking" /\ stage' = "over" /\ UNCHANGED <<kind, walk, pos, got, answer, table, changes, held>>

\* The answer, or the exception, is the caller's; the next read starts anew.
Return ==
    /\ stage = "over"
    /\ stage' = "idle"
    /\ got' = NothingYet
    /\ answer' = None
    /\ held' = [r \in Rows |-> {table[r]}]
    /\ walk' = 1
    /\ pos' = <<0, 0>>
    /\ changes' = 0
    /\ UNCHANGED <<kind, table>>

\* The access point gives a row to another item or frees it.
Change(r, item) ==
    /\ stage = "walking"
    /\ changes < MaxChanges
    /\ changes' = changes + 1
    /\ table[r] # item
    /\ table' = [table EXCEPT ![r] = item]
    /\ table' \in Tables
    /\ held' = [held EXCEPT ![r] = @ \cup {item}]
    /\ UNCHANGED reader

Next ==
    \/ \E k \in Kinds, t \in Tables : Start(k, t)
    \/ ReadCell
    \/ LeaveTable
    \/ WalkFails
    \/ Return
    \/ \E r \in Rows, item \in Items \cup {None} : Change(r, item)

\* Each request ends, by its answer or its timeout; nothing is assumed of the
\* access point.
Spec == Init /\ [][Next]_vars /\ WF_vars(ReadCell) /\ WF_vars(LeaveTable)

-----------------------------------------------------------------------------
(* Properties.                                                             *)

TypeOK ==
    /\ kind \in Kinds
    /\ table \in Tables
    /\ stage \in {"idle", "walking", "over"}
    /\ walk \in 1 .. LastWalk(kind)
    /\ pos \in Nat \X Nat
    /\ got \in [Columns \X Rows -> Items \cup {None}]
    /\ changes \in 0 .. MaxChanges
    /\ held \in [Rows -> SUBSET (Items \cup {None})]

IsListed(item) ==
    IF kind = "ssid" THEN Shows(item, ProfileSsid)
    ELSE Shows(item, ClientMac) \/ Shows(item, ClientIp)

KeyOf(item, r) == IF kind = "ssid" /\ Shows(item, ProfileId) THEN Number[item] ELSE r

Untouched(r, item) == held[r] = {item}

\* What a row held lets it be listed under this key: an SSID, and either an id or,
\* when it showed none as the walk passed the id column, its index.
MayGoUnder(r, key) ==
    /\ kind = "ssid"
    /\ \E item \in held[r] : IsListed(item)
    /\ \/ r = key /\ \E item \in held[r] : ~Shows(item, ProfileId)
       \/ \E item \in held[r] : Shows(item, ProfileId) /\ Number[item] = key

\* A row that held one and the same item from the first cell of a read to the last
\* is answered, however the other rows changed: it is listed if and only if it
\* shows what a listing needs, under its own key, and the entry there has its own
\* values in every column of both tables.  Only a later row that may go under
\* the same key, one without an id at that index or with that id, can have
\* replaced the entry.
UntouchedRowsExact ==
    answer # None =>
        \A r \in Rows, item \in Items \cup {None} : Untouched(r, item) =>
            /\ r \in DOMAIN answer.order <=> IsListed(item)
            /\ IsListed(item) =>
                /\ answer.order[r] = KeyOf(item, r)
                /\ \/ answer.response[KeyOf(item, r)] =
                        [c \in ColumnsOf(kind) |-> ValueOf(item, c)]
                   \/ \E s \in Rows : s > r /\ MayGoUnder(s, KeyOf(item, r))

\* However the table changes, an entry is put together from one row: each of its
\* values is that of an item the row held while it was read.  (Two values may come
\* from two items: the read is no snapshot.)
EntriesComeFromOneRow ==
    answer # None =>
        \A key \in DOMAIN answer.response :
            \E r \in Rows : \A c \in ColumnsOf(kind) :
                \E item \in held[r] : answer.response[key][c] = ValueOf(item, c)

\* A read ends although rows come and go while it walks.
ReadEnds == stage = "walking" ~> stage = "over"
=============================================================================
