---------------------------- MODULE ApTablesProofs ----------------------------
(***************************************************************************)
(* Theorems about ApTables, for every number of rows, items and changes.   *)
(* A row that held one item since the read started is read truly: each of  *)
(* its cells behind the walk has come if the item shows it, and none of    *)
(* the cells ahead.  When the last walk leaves its table no cell is ahead. *)
(* Of any row, steady or not, a cell that came was shown by it, and one    *)
(* that did not come was missing when the walk passed; so a row that goes  *)
(* under the key of a steady one held an item with that id, or none with   *)
(* an id at that index, and the later of the two has the entry.            *)
(***************************************************************************)
EXTENDS ApTables, FiniteSetTheorems, TLAPS

Behind(c, r) == c[1] < walk \/ (c[1] = walk /\ ~Later(<<c[2], r>>, pos))

\* What came was shown by the row since the read started.
GotTrue ==
    \A c \in Columns, r \in Rows :
        got[<<c, r>>] # None => got[<<c, r>>] \in held[r] /\ Shows(got[<<c, r>>], c)

Cell(item, c) == IF Shows(item, c) THEN item ELSE None

SteadyRows ==
    \A c \in ColumnsOf(kind), r \in Rows, item \in Items \cup {None} :
        Untouched(r, item) =>
            got[<<c, r>>] = IF Behind(c, r) THEN Cell(item, c) ELSE None

\* What did not come was not shown when the walk passed.
MissedTrue ==
    \A c \in ColumnsOf(kind), r \in Rows :
        Behind(c, r) /\ got[<<c, r>>] = None => \E item \in held[r] : ~Shows(item, c)

HeldNow == \A r \in Rows : table[r] \in held[r]

OnlyOverAnswers == stage # "over" => answer = None

IInv ==
    /\ TypeOK
    /\ GotTrue
    /\ SteadyRows
    /\ MissedTrue
    /\ HeldNow
    /\ OnlyOverAnswers
    /\ UntouchedRowsExact
    /\ EntriesComeFromOneRow

-----------------------------------------------------------------------------
(* A read that starts, or is yet to start.                                 *)

LEMMA ColumnFacts ==
    ASSUME NEW k \in Kinds, NEW c \in ColumnsOf(k)
    PROVE  /\ c \in Columns
           /\ c = <<c[1], c[2]>>
           /\ c[1] \in 1 .. LastWalk(k)
           /\ c[2] \in Nat \ {0}
  BY DEF Kinds, ColumnsOf, Columns, LastWalk, ProfileId, ProfileSsid, AdvancedVlan,
         AdvancedPassphrase, ClientMac, ClientIp

\* Nothing is read, and each row has held only what it holds.
Fresh ==
    /\ kind \in Kinds
    /\ table \in Tables
    /\ stage \in {"idle", "walking"}
    /\ walk = 1
    /\ pos = <<0, 0>>
    /\ got = NothingYet
    /\ answer = None
    /\ changes = 0
    /\ held = [r \in Rows |-> {table[r]}]

LEMMA FreshInv == Fresh => IInv
  <1>. SUFFICES ASSUME Fresh PROVE IInv
    OBVIOUS
  <1>1. \A r \in Rows : held[r] = {table[r]} /\ table[r] \in Items \cup {None}
    BY DEF Fresh, Tables
  <1>2. \A c \in Columns, r \in Rows : got[<<c, r>>] = None
    BY DEF Fresh, NothingYet
  <1>3. TypeOK
    BY ChangesAssumption, <1>1 DEF Fresh, TypeOK, NothingYet, LastWalk
  <1>4. SteadyRows /\ MissedTrue
    <2>. SUFFICES ASSUME NEW c \in ColumnsOf(kind), NEW r \in Rows
                  PROVE  got[<<c, r>>] = None /\ ~Behind(c, r)
      BY DEF SteadyRows, MissedTrue
    <2>1. kind \in Kinds /\ walk = 1 /\ pos = <<0, 0>>
      BY DEF Fresh
    <2>2. c \in Columns /\ c[1] \in 1 .. LastWalk(kind) /\ c[2] \in Nat \ {0}
      BY <2>1, ColumnFacts
    <2>3. c[1] \in Nat /\ c[1] >= 1
      BY <2>2 DEF LastWalk
    <2>. QED  BY <1>2, <2>1, <2>2, <2>3 DEF Behind, Later
  <1>. QED
    BY <1>1, <1>2, <1>3, <1>4
       DEF IInv, GotTrue, HeldNow, OnlyOverAnswers, UntouchedRowsExact,
           EntriesComeFromOneRow, Fresh

LEMMA InitInv == Init => IInv
  BY FreshInv DEF Init, Fresh

LEMMA StartStep ==
    ASSUME IInv, NEW k \in Kinds, NEW t \in Tables, Start(k, t)
    PROVE  IInv'
  <1>1. Fresh'
    BY DEF Start, Fresh, NothingYet
  <1>2. Fresh' => IInv'
    BY FreshInv, PTL
  <1>. QED  BY <1>1, <1>2

LEMMA ReturnStep ==
    ASSUME IInv, Return
    PROVE  IInv'
  <1>1. Fresh'
    BY DEF Return, Fresh, NothingYet, IInv, TypeOK
  <1>2. Fresh' => IInv'
    BY FreshInv, PTL
  <1>. QED  BY <1>1, <1>2

-----------------------------------------------------------------------------
(* The walk.                                                               *)

LEMMA WalkTyped ==
    ASSUME TypeOK
    PROVE  /\ kind \in Kinds
           /\ walk \in Nat
           /\ pos = <<pos[1], pos[2]>> /\ pos[1] \in Nat /\ pos[2] \in Nat
  BY DEF TypeOK, LastWalk

\* A cell ahead: its column, its row and what the row holds.
LEMMA AheadCell ==
    ASSUME TypeOK, NEW cell \in Ahead
    PROVE  \E c \in ColumnsOf(kind), r \in Rows :
               /\ c[1] = walk /\ c = <<walk, c[2]>> /\ c[2] \in Nat
               /\ cell = <<c[2], r>> /\ cell[1] = c[2] /\ cell[2] = r
               /\ r \in Nat
               /\ Shows(table[r], c)
               /\ Later(<<c[2], r>>, pos)
  <1>1. PICK c \in ColumnsOf(kind), r \in Rows :
            c[1] = walk /\ cell = <<c[2], r>> /\ Shows(table[cell[2]], <<walk, cell[1]>>)
            /\ Later(cell, pos)
    BY DEF Ahead
  <1>2. c = <<c[1], c[2]>> /\ c[2] \in Nat
    BY ColumnFacts, WalkTyped
  <1>. QED  BY <1>1, <1>2, RowsAssumption

\* A cell neither behind nor ahead is one its row does not show.
LEMMA NotAhead ==
    ASSUME IInv, NEW c \in ColumnsOf(kind), NEW r \in Rows,
           c[1] = walk, ~Behind(c, r), <<c[2], r>> \notin Ahead
    PROVE  ~Shows(table[r], c) /\ table[r] \in held[r]
  <1>1. c = <<walk, c[2]>>
    BY ColumnFacts, WalkTyped DEF IInv
  <1>2. Later(<<c[2], r>>, pos)
    BY DEF Behind
  <1>. QED  BY <1>1, <1>2 DEF Ahead, IInv, HeldNow

LEMMA PassedOver ==
    ASSUME IInv, NEW c \in ColumnsOf(kind), NEW r \in Rows,
           c[1] = walk, ~Behind(c, r), <<c[2], r>> \notin Ahead
    PROVE  /\ \E item \in held[r] : ~Shows(item, c)
           /\ \A item \in Items \cup {None} : Untouched(r, item) => Cell(item, c) = None
  BY NotAhead DEF Untouched, Cell

LEMMA ReadCellStep ==
    ASSUME IInv, ReadCell
    PROVE  IInv'
  <1>1. PICK cell \in Ahead :
            /\ \A other \in Ahead : ~Later(cell, other)
            /\ pos' = cell
            /\ got' = [got EXCEPT ![<< <<walk, cell[1]>>, cell[2]>>] = table[cell[2]]]
    BY DEF ReadCell
  <1>2. PICK d \in ColumnsOf(kind), q \in Rows :
            /\ d[1] = walk /\ d = <<walk, d[2]>> /\ d[2] \in Nat
            /\ cell = <<d[2], q>> /\ cell[1] = d[2] /\ cell[2] = q
            /\ q \in Nat
            /\ Shows(table[q], d)
            /\ Later(<<d[2], q>>, pos)
    BY AheadCell DEF IInv
  <1>3. UNCHANGED <<kind, stage, walk, answer, table, changes, held>> /\ stage = "walking"
    BY DEF ReadCell
  <1>4. d \in Columns /\ table[q] \in Items \cup {None} /\ table[q] \in held[q]
    BY ColumnFacts, WalkTyped DEF IInv, TypeOK, Tables, HeldNow
  <1>5. got \in [Columns \X Rows -> Items \cup {None}]
        /\ got' = [got EXCEPT ![<<d, q>>] = table[q]]
    BY <1>1, <1>2 DEF IInv, TypeOK
  <1>6. TypeOK'
    BY <1>1, <1>2, <1>3, <1>4, <1>5 DEF IInv, TypeOK, LastWalk, Tables
  <1>7. GotTrue'
    <2>. SUFFICES ASSUME NEW c \in Columns, NEW r \in Rows, got'[<<c, r>>] # None
                  PROVE  got'[<<c, r>>] \in held[r] /\ Shows(got'[<<c, r>>], c)
      BY <1>3 DEF GotTrue, Shows
    <2>1. CASE c = d /\ r = q
      BY <2>1, <1>2, <1>4, <1>5
    <2>2. CASE ~(c = d /\ r = q)
      <3>1. got'[<<c, r>>] = got[<<c, r>>]
        BY <2>2, <1>5
      <3>. QED  BY <3>1 DEF IInv, GotTrue
    <2>. QED  BY <2>1, <2>2
  <1>8. SteadyRows'
    <2>. SUFFICES ASSUME NEW c \in ColumnsOf(kind), NEW r \in Rows,
                         NEW item \in Items \cup {None}, Untouched(r, item)
                  PROVE  got'[<<c, r>>] = IF Behind(c, r)' THEN Cell(item, c) ELSE None
      BY <1>3 DEF SteadyRows, Untouched, Cell, Shows, ColumnsOf
    <2>1. c \in Columns /\ c = <<c[1], c[2]>> /\ c[1] \in Nat /\ c[2] \in Nat /\ r \in Nat
      BY ColumnFacts, WalkTyped, RowsAssumption DEF IInv, LastWalk
    <2>2. got[<<c, r>>] = IF Behind(c, r) THEN Cell(item, c) ELSE None
      BY DEF IInv, SteadyRows
    <2>3. walk \in Nat /\ pos[1] \in Nat /\ pos[2] \in Nat
      BY WalkTyped DEF IInv
    <2>4. CASE c = d /\ r = q
      <3>1. table[r] = item
        BY DEF IInv, HeldNow, Untouched
      <3>2. Behind(c, r)'
        BY <2>4, <1>1, <1>2, <1>3 DEF Behind, Later
      <3>3. got'[<<c, r>>] = item /\ Shows(item, c)
        BY <2>4, <3>1, <1>2, <1>4, <1>5
      <3>. QED  BY <3>2, <3>3 DEF Cell
    <2>5. CASE ~(c = d /\ r = q)
      <3>1. got'[<<c, r>>] = got[<<c, r>>]
        BY <2>1, <2>5, <1>5
      <3>2. CASE Behind(c, r)
        <4>1. Behind(c, r)'
          BY <3>2, <1>1, <1>2, <1>3, <2>1, <2>3 DEF Behind, Later
        <4>. QED  BY <3>1, <3>2, <4>1, <2>2
      <3>3. CASE ~Behind(c, r) /\ ~Behind(c, r)'
        BY <3>1, <3>3, <2>2
      <3>4. CASE ~Behind(c, r) /\ Behind(c, r)'
        <4>1. c[1] = walk
          BY <3>4, <1>3, <2>1, <2>3 DEF Behind
        <4>2. ~Later(<<c[2], r>>, cell)
          BY <3>4, <4>1, <1>1, <1>3, <2>1, <2>3 DEF Behind
        <4>3. c[2] # d[2] \/ r # q
          BY <2>5, <4>1, <2>1, <1>2
        <4>4. Later(cell, <<c[2], r>>)
          BY <4>2, <4>3, <1>2, <2>1 DEF Later
        <4>5. <<c[2], r>> \notin Ahead
          BY <4>4, <1>1
        <4>. QED  BY <3>1, <3>4, <4>1, <4>5, <2>2, PassedOver
      <3>. QED  BY <3>2, <3>3, <3>4
    <2>. QED  BY <2>4, <2>5
  <1>9. MissedTrue'
    <2>. SUFFICES ASSUME NEW c \in ColumnsOf(kind), NEW r \in Rows,
                         Behind(c, r)', got'[<<c, r>>] = None
                  PROVE  \E item \in held[r] : ~Shows(item, c)
      BY <1>3 DEF MissedTrue, Shows, ColumnsOf
    <2>1. c \in Columns /\ c = <<c[1], c[2]>> /\ c[1] \in Nat /\ c[2] \in Nat /\ r \in Nat
      BY ColumnFacts, WalkTyped, RowsAssumption DEF IInv, LastWalk
    <2>2. ~(c = d /\ r = q)
      BY <1>2, <1>4, <1>5, NoneAssumption DEF Shows
    <2>3. got[<<c, r>>] = None
      BY <2>1, <2>2, <1>5
    <2>4. CASE Behind(c, r)
      BY <2>3, <2>4 DEF IInv, MissedTrue
    <2>5. CASE ~Behind(c, r)
      <3>1. c[1] = walk /\ ~Later(<<c[2], r>>, cell)
        BY <2>1, <2>5, <1>1, <1>3 DEF Behind
      <3>2. c[2] # d[2] \/ r # q
        BY <2>1, <2>2, <3>1, <1>2
      <3>3. Later(cell, <<c[2], r>>)
        BY <3>1, <3>2, <1>2, <2>1 DEF Later
      <3>4. <<c[2], r>> \notin Ahead
        BY <3>3, <1>1
      <3>. QED  BY <3>1, <3>4, <2>5, PassedOver
    <2>. QED  BY <2>4, <2>5
  <1>10. HeldNow'
    BY <1>3 DEF IInv, HeldNow
  <1>11. OnlyOverAnswers' /\ UntouchedRowsExact' /\ EntriesComeFromOneRow'
    BY <1>3 DEF IInv, OnlyOverAnswers, UntouchedRowsExact, EntriesComeFromOneRow
  <1>. QED  BY <1>6, <1>7, <1>8, <1>9, <1>10, <1>11 DEF IInv

-----------------------------------------------------------------------------
(* The answer.                                                             *)

\* Every cell of a steady row has come.
AllRead ==
    \A c \in ColumnsOf(kind), r \in Rows, item \in Items \cup {None} :
        Untouched(r, item) => got[<<c, r>>] = Cell(item, c)

LEMMA WalksOver ==
    ASSUME IInv, Ahead = {}, LastTable
    PROVE  AllRead
  <1>. SUFFICES ASSUME NEW c \in ColumnsOf(kind), NEW r \in Rows,
                       NEW item \in Items \cup {None}, Untouched(r, item)
                PROVE  got[<<c, r>>] = Cell(item, c)
    BY DEF AllRead
  <1>1. got[<<c, r>>] = IF Behind(c, r) THEN Cell(item, c) ELSE None
    BY DEF IInv, SteadyRows
  <1>2. c[1] < walk \/ c[1] = walk
    BY ColumnFacts, WalkTyped DEF IInv, LastTable, LastWalk
  <1>3. CASE ~Behind(c, r)
    <2>1. c[1] = walk
      BY <1>2, <1>3 DEF Behind
    <2>. QED  BY <1>1, <1>3, <2>1, PassedOver
  <1>. QED  BY <1>1, <1>3

\* What did not come of any row was not shown by it when the walk passed.
AllPassed ==
    \A c \in ColumnsOf(kind), r \in Rows :
        got[<<c, r>>] = None => \E item \in held[r] : ~Shows(item, c)

LEMMA NothingLeft ==
    ASSUME IInv, Ahead = {}, LastTable
    PROVE  AllPassed
  <1>. SUFFICES ASSUME NEW c \in ColumnsOf(kind), NEW r \in Rows, got[<<c, r>>] = None
                PROVE  \E item \in held[r] : ~Shows(item, c)
    BY DEF AllPassed
  <1>1. c[1] < walk \/ c[1] = walk
    BY ColumnFacts, WalkTyped DEF IInv, LastTable, LastWalk
  <1>2. CASE Behind(c, r)
    BY <1>2 DEF IInv, MissedTrue
  <1>3. CASE ~Behind(c, r)
    <2>1. c[1] = walk
      BY <1>1, <1>3 DEF Behind
    <2>. QED  BY <1>3, <2>1, PassedOver
  <1>. QED  BY <1>2, <1>3

LEMMA IndexedColumns ==
    /\ ProfileId \in ColumnsOf("ssid") /\ ProfileSsid \in ColumnsOf("ssid")
    /\ ClientMac \in ColumnsOf("clients") /\ ClientIp \in ColumnsOf("clients")
    /\ ColumnsOf("ssid") \subseteq Columns /\ ColumnsOf("clients") \subseteq Columns
  BY DEF ColumnsOf, Columns

LEMMA CellFacts ==
    ASSUME NEW item \in Items \cup {None}, NEW c
    PROVE  /\ Cell(item, c) # None <=> Shows(item, c)
           /\ Shows(item, c) => Cell(item, c) = item /\ item \in Items
           /\ ValueOf(Cell(item, c), c) = ValueOf(item, c)
  BY DEF Cell, Shows, ValueOf

LEMMA ListedAndKey ==
    ASSUME IInv, AllRead, NEW r \in Rows, NEW item \in Items \cup {None}, Untouched(r, item)
    PROVE  /\ Listed(r) <=> IsListed(item)
           /\ Key(r) = KeyOf(item, r)
           /\ Fields(r) = [c \in ColumnsOf(kind) |-> ValueOf(item, c)]
  <1>1. \A c \in ColumnsOf(kind) : got[<<c, r>>] = Cell(item, c)
    BY DEF AllRead
  <1>2. kind \in Kinds
    BY WalkTyped DEF IInv
  <1>3. CASE kind = "ssid"
    <2>1. got[<<ProfileSsid, r>>] = Cell(item, ProfileSsid)
          /\ got[<<ProfileId, r>>] = Cell(item, ProfileId)
      BY <1>1, <1>3, IndexedColumns
    <2>2. (Listed(r) <=> IsListed(item)) /\ Key(r) = KeyOf(item, r)
      BY <1>3, <2>1, CellFacts DEF Listed, IsListed, Key, KeyOf
    <2>. QED  BY <1>1, <2>2, CellFacts DEF Fields, SameIndex
  <1>4. CASE kind = "clients"
    <2>1. got[<<ClientMac, r>>] = Cell(item, ClientMac)
          /\ got[<<ClientIp, r>>] = Cell(item, ClientIp)
      BY <1>1, <1>4, IndexedColumns
    <2>2. (Listed(r) <=> IsListed(item)) /\ Key(r) = KeyOf(item, r)
      BY <1>4, <2>1, CellFacts DEF Listed, IsListed, Key, KeyOf
    <2>. QED  BY <1>1, <2>2, CellFacts DEF Fields, SameIndex
  <1>. QED  BY <1>2, <1>3, <1>4 DEF Kinds

\* A row is listed only under a key it may go under.
LEMMA GoesUnder ==
    ASSUME IInv, AllPassed, kind = "ssid", NEW s \in Rows, Listed(s)
    PROVE  MayGoUnder(s, Key(s))
  <1>1. got[<<ProfileSsid, s>>] \in held[s] /\ IsListed(got[<<ProfileSsid, s>>])
    BY IndexedColumns DEF IInv, GotTrue, Listed, IsListed
  <1>2. CASE got[<<ProfileId, s>>] = None
    <2>1. Key(s) = s
      BY <1>2 DEF Key
    <2>2. \E item \in held[s] : ~Shows(item, ProfileId)
      BY <1>2, IndexedColumns DEF AllPassed
    <2>. QED  BY <1>1, <2>1, <2>2 DEF MayGoUnder
  <1>3. CASE got[<<ProfileId, s>>] # None
    <2>1. got[<<ProfileId, s>>] \in held[s] /\ Shows(got[<<ProfileId, s>>], ProfileId)
      BY <1>3, IndexedColumns DEF IInv, GotTrue
    <2>2. Key(s) = Number[got[<<ProfileId, s>>]]
      BY <1>3 DEF Key
    <2>. QED  BY <1>1, <2>1, <2>2 DEF MayGoUnder
  <1>. QED  BY <1>2, <1>3

\* Of a finite set of rows one comes last: the rows after it are the fewest.
LEMMA LastRow ==
    ASSUME NEW T \in SUBSET Rows, T # {}
    PROVE  \E r \in T : \A s \in T : s <= r
  <1>. DEFINE after(r) == { s \in T : s > r }
              tails == { after(r) : r \in T }
  <1>1. IsFiniteSet(T)
    BY RowsAssumption, FS_Subset
  <1>2. \A r \in T : IsFiniteSet(after(r)) /\ after(r) \in SUBSET T
    BY <1>1, FS_Subset
  <1>3. tails \subseteq FiniteSubsetsOf(T) /\ tails # {}
    BY <1>2 DEF FiniteSubsetsOf
  <1>4. PICK tail \in tails : \A other \in tails : ~(<<other, tail>> \in StrictSubsetOrdering(T))
    <2>1. IsWellFoundedOn(StrictSubsetOrdering(T), FiniteSubsetsOf(T))
      BY FS_StrictSubsetOrderingWellFounded
    <2>. HIDE DEF tails
    <2>. QED  BY <1>3, <2>1, WFMin
  <1>5. PICK r \in T : tail = after(r)
    BY <1>4
  <1>6. ASSUME NEW s \in T, s > r
        PROVE  FALSE
    <2>1. r \in Nat /\ s \in Nat /\ \A t \in T : t \in Nat
      BY RowsAssumption
    <2>2. s \in after(r) /\ s \notin after(s)
      BY <1>6, <2>1
    <2>3. \A t \in T : t > s => t > r
      BY <1>6, <2>1
    <2>4. after(s) \subseteq after(r)
      BY <2>3
    <2>5. <<after(s), after(r)>> \in StrictSubsetOrdering(T)
      BY <2>2, <2>4 DEF StrictSubsetOrdering
    <2>. QED  BY <1>4, <1>5, <2>5
  <1>. QED  BY <1>6, RowsAssumption

\* The entry of a steady row is its own, or that of a later one.
LEMMA AnswerExact ==
    ASSUME IInv, AllRead, AllPassed,
           NEW r \in Rows, NEW item \in Items \cup {None}, Untouched(r, item)
    PROVE  /\ r \in DOMAIN Answer.order <=> IsListed(item)
           /\ IsListed(item) =>
                /\ Answer.order[r] = KeyOf(item, r)
                /\ \/ Answer.response[KeyOf(item, r)] =
                        [c \in ColumnsOf(kind) |-> ValueOf(item, c)]
                   \/ \E s \in Rows : s > r /\ MayGoUnder(s, KeyOf(item, r))
  <1>1. DOMAIN Answer.order = { s \in Rows : Listed(s) }
    BY DEF Answer
  <1>2. IsListed(item) => Answer.order[r] = KeyOf(item, r)
    BY ListedAndKey DEF Answer
  <1>3. ASSUME IsListed(item)
        PROVE  \/ Answer.response[KeyOf(item, r)] = [c \in ColumnsOf(kind) |-> ValueOf(item, c)]
               \/ \E s \in Rows : s > r /\ MayGoUnder(s, KeyOf(item, r))
    <2>. DEFINE K == KeyOf(item, r)
                T == { t \in Rows : Listed(t) /\ Key(t) = K }
                s == LastOf(K)
    <2>1. r \in T /\ T \in SUBSET Rows
      BY <1>3, ListedAndKey
    <2>2. \E t \in T : \A u \in T : u <= t
      <3>. HIDE DEF T
      <3>. QED  BY <2>1, LastRow
    <2>3. s \in T /\ \A u \in T : u <= s
      BY <2>2 DEF LastOf
    <2>4. K \in { Key(t) : t \in { u \in Rows : Listed(u) } }
      BY <2>1
    <2>5. Answer.response[K] = Fields(s)
      BY <2>4 DEF Answer
    <2>6. CASE s = r
      BY <2>5, <2>6, ListedAndKey
    <2>7. CASE s # r
      <3>1. s \in Rows /\ Listed(s) /\ Key(s) = K /\ r <= s
        BY <2>1, <2>3
      <3>2. s > r
        <4>1. r \in Nat /\ s \in Nat
          BY <3>1, RowsAssumption
        <4>. HIDE DEF s
        <4>. QED  BY <3>1, <4>1, <2>7
      <3>3. kind = "ssid"
        <4>1. Key(r) = K
          BY <2>1
        <4>. QED  BY <3>1, <4>1, <2>7 DEF Key
      <3>4. MayGoUnder(s, K)
        <4>. HIDE DEF s, K
        <4>. QED  BY <3>1, <3>3, GoesUnder
      <3>. QED  BY <3>1, <3>2, <3>4
    <2>. QED  BY <2>6, <2>7
  <1>. QED  BY <1>1, <1>2, <1>3, ListedAndKey

\* A value is that of an item its row held, or missing from one.
LEMMA FieldTrue ==
    ASSUME IInv, AllPassed, NEW r \in Rows, NEW c \in ColumnsOf(kind)
    PROVE  \E item \in held[r] : Fields(r)[c] = ValueOf(item, c)
  <1>1. Fields(r)[c] = ValueOf(got[<<c, r>>], c)
    BY DEF Fields, SameIndex
  <1>2. c \in Columns
    BY ColumnFacts, WalkTyped DEF IInv
  <1>3. CASE got[<<c, r>>] # None
    BY <1>1, <1>2, <1>3 DEF IInv, GotTrue
  <1>4. CASE got[<<c, r>>] = None
    BY <1>1, <1>4 DEF AllPassed, ValueOf, Shows
  <1>. QED  BY <1>3, <1>4

LEMMA AnswerRows ==
    ASSUME IInv, AllPassed, NEW key \in DOMAIN Answer.response
    PROVE  \E r \in Rows : \A c \in ColumnsOf(kind) :
               \E item \in held[r] : Answer.response[key][c] = ValueOf(item, c)
  <1>. DEFINE T == { t \in Rows : Listed(t) /\ Key(t) = key }
  <1>1. Answer.response[key] = Fields(LastOf(key)) /\ T # {}
    BY DEF Answer
  <1>2. \E r \in T : \A s \in T : s <= r
    <2>. HIDE DEF T
    <2>1. T \in SUBSET Rows
      BY DEF T
    <2>. QED  BY <1>1, <2>1, LastRow
  <1>3. LastOf(key) \in Rows
    BY <1>2 DEF LastOf
  <1>. QED  BY <1>1, <1>3, FieldTrue

LEMMA LeaveTableStep ==
    ASSUME IInv, LeaveTable
    PROVE  IInv'
  <1>1. UNCHANGED <<kind, got, table, changes, held>> /\ stage = "walking" /\ Ahead = {}
    BY DEF LeaveTable
  <1>2. GotTrue' /\ HeldNow'
    BY <1>1 DEF IInv, GotTrue, HeldNow, Shows
  <1>3. CASE LastTable
    <2>1. stage' = "over" /\ answer' = Answer /\ UNCHANGED <<walk, pos>>
      BY <1>3 DEF LeaveTable
    <2>2. AllRead
      BY <1>1, <1>3, WalksOver
    <2>3. TypeOK' /\ SteadyRows' /\ MissedTrue' /\ OnlyOverAnswers'
      BY <1>1, <2>1
         DEF IInv, TypeOK, SteadyRows, MissedTrue, Untouched, Behind, OnlyOverAnswers
    <2>4. UntouchedRowsExact'
      <3>. SUFFICES ASSUME NEW r \in Rows, NEW item \in Items \cup {None}, Untouched(r, item)
                    PROVE  /\ r \in DOMAIN Answer.order <=> IsListed(item)
                           /\ IsListed(item) =>
                                /\ Answer.order[r] = KeyOf(item, r)
                                /\ \/ Answer.response[KeyOf(item, r)] =
                                        [c \in ColumnsOf(kind) |-> ValueOf(item, c)]
                                   \/ \E s \in Rows : s > r /\ MayGoUnder(s, KeyOf(item, r))
        BY <1>1, <2>1 DEF UntouchedRowsExact, Untouched, IsListed, KeyOf, MayGoUnder, Shows
      <3>1. AllPassed
        BY <1>1, <1>3, NothingLeft
      <3>. QED  BY <2>2, <3>1, AnswerExact
    <2>5. EntriesComeFromOneRow'
      <3>1. AllPassed
        BY <1>1, <1>3, NothingLeft
      <3>. QED  BY <1>1, <2>1, <3>1, AnswerRows DEF EntriesComeFromOneRow, ValueOf, Shows
    <2>. QED  BY <1>2, <2>3, <2>4, <2>5 DEF IInv
  <1>4. CASE ~LastTable
    <2>1. walk' = walk + 1 /\ pos' = <<0, 0>> /\ UNCHANGED <<stage, answer>>
      BY <1>4 DEF LeaveTable
    <2>2. TypeOK'
      BY <1>1, <1>4, <2>1 DEF IInv, TypeOK, LastTable, LastWalk
    <2>3. SteadyRows'
      <3>. SUFFICES ASSUME NEW c \in ColumnsOf(kind), NEW r \in Rows,
                           NEW item \in Items \cup {None}, Untouched(r, item)
                    PROVE  got[<<c, r>>] = IF Behind(c, r)' THEN Cell(item, c) ELSE None
        BY <1>1 DEF SteadyRows, Untouched, Cell, Shows, ColumnsOf
      <3>1. c[1] \in Nat /\ c[2] \in Nat \ {0} /\ walk \in Nat
        BY ColumnFacts, WalkTyped DEF IInv, LastWalk
      <3>2. Behind(c, r)' <=> c[1] <= walk
        BY <2>1, <3>1 DEF Behind, Later
      <3>3. got[<<c, r>>] = IF Behind(c, r) THEN Cell(item, c) ELSE None
        BY DEF IInv, SteadyRows
      <3>4. CASE c[1] = walk /\ ~Behind(c, r)
        <4>1. Cell(item, c) = None
          BY <1>1, <3>4, PassedOver
        <4>. QED  BY <3>3, <3>4, <4>1
      <3>5. CASE c[1] # walk \/ Behind(c, r)
        <4>1. Behind(c, r) <=> c[1] <= walk
          BY <3>1, <3>5 DEF Behind
        <4>. QED  BY <3>2, <3>3, <4>1
      <3>. QED  BY <3>4, <3>5
    <2>4. MissedTrue'
      <3>. SUFFICES ASSUME NEW c \in ColumnsOf(kind), NEW r \in Rows,
                           Behind(c, r)', got[<<c, r>>] = None
                    PROVE  \E item \in held[r] : ~Shows(item, c)
        BY <1>1 DEF MissedTrue, Shows, ColumnsOf
      <3>1. c[1] \in Nat /\ c[2] \in Nat \ {0} /\ walk \in Nat
        BY ColumnFacts, WalkTyped DEF IInv, LastWalk
      <3>2. c[1] <= walk
        BY <2>1, <3>1 DEF Behind, Later
      <3>3. CASE Behind(c, r)
        BY <3>3 DEF IInv, MissedTrue
      <3>4. CASE ~Behind(c, r)
        <4>1. c[1] = walk
          BY <3>1, <3>2, <3>4 DEF Behind
        <4>. QED  BY <1>1, <3>4, <4>1, PassedOver
      <3>. QED  BY <3>3, <3>4
    <2>5. OnlyOverAnswers' /\ UntouchedRowsExact' /\ EntriesComeFromOneRow'
      BY <1>1, <2>1 DEF IInv, OnlyOverAnswers, UntouchedRowsExact, EntriesComeFromOneRow
    <2>. QED  BY <1>2, <2>2, <2>3, <2>4, <2>5 DEF IInv
  <1>. QED  BY <1>3, <1>4

LEMMA WalkFailsStep ==
    ASSUME IInv, WalkFails
    PROVE  IInv'
  <1>1. UNCHANGED <<kind, walk, pos, got, answer, table, changes, held>>
        /\ stage = "walking" /\ stage' = "over"
    BY DEF WalkFails
  <1>. QED
    BY <1>1 DEF IInv, TypeOK, GotTrue, SteadyRows, MissedTrue, HeldNow,
                OnlyOverAnswers, UntouchedRowsExact, EntriesComeFromOneRow, Untouched, Behind

-----------------------------------------------------------------------------
(* The access point goes on working.                                       *)

LEMMA OneMore ==
    ASSUME NEW n \in 0 .. MaxChanges, n < MaxChanges
    PROVE  n + 1 \in 0 .. MaxChanges
  BY ChangesAssumption

LEMMA ChangeStep ==
    ASSUME IInv, NEW q \in Rows, NEW new \in Items \cup {None}, Change(q, new)
    PROVE  IInv'
  <1>1. /\ stage = "walking" /\ changes < MaxChanges /\ changes' = changes + 1
        /\ table' = [table EXCEPT ![q] = new] /\ table' \in Tables
        /\ held' = [held EXCEPT ![q] = @ \cup {new}]
        /\ UNCHANGED <<kind, stage, walk, pos, got, answer>>
    BY DEF Change, reader
  <1>2. held \in [Rows -> SUBSET (Items \cup {None})] /\ table \in [Rows -> Items \cup {None}]
    BY DEF IInv, TypeOK, Tables
  <1>3. \A r \in Rows : held[r] \subseteq held'[r] /\ held'[r] \subseteq held[r] \cup {table'[r]}
    BY <1>1, <1>2
  <1>4. \A r \in Rows : table[r] \in held[r] /\ table'[r] \in held'[r]
    BY <1>1, <1>2 DEF IInv, HeldNow
  <1>5. \A r \in Rows : \A item : Untouched(r, item)' => Untouched(r, item)
    BY <1>3, <1>4 DEF Untouched
  <1>6. TypeOK'
    <2>1. changes' \in 0 .. MaxChanges
      BY <1>1, OneMore DEF IInv, TypeOK
    <2>2. held' \in [Rows -> SUBSET (Items \cup {None})]
      BY <1>1, <1>2
    <2>. QED  BY <1>1, <2>1, <2>2 DEF IInv, TypeOK
  <1>7. GotTrue'
    BY <1>1, <1>3 DEF IInv, GotTrue, Shows
  <1>8. SteadyRows'
    <2>. SUFFICES ASSUME NEW c \in ColumnsOf(kind), NEW r \in Rows,
                         NEW item \in Items \cup {None}, Untouched(r, item)'
                  PROVE  got[<<c, r>>] = IF Behind(c, r) THEN Cell(item, c) ELSE None
      BY <1>1 DEF SteadyRows, Behind, Cell, Shows, ColumnsOf
    <2>. QED  BY <1>5 DEF IInv, SteadyRows
  <1>9. HeldNow' /\ MissedTrue'
    BY <1>1, <1>3, <1>4 DEF IInv, HeldNow, MissedTrue, Behind, Shows
  <1>10. OnlyOverAnswers' /\ UntouchedRowsExact' /\ EntriesComeFromOneRow'
    BY <1>1 DEF IInv, OnlyOverAnswers, UntouchedRowsExact, EntriesComeFromOneRow
  <1>. QED  BY <1>6, <1>7, <1>8, <1>9, <1>10 DEF IInv

-----------------------------------------------------------------------------

LEMMA StutterStep ==
    ASSUME IInv, UNCHANGED vars
    PROVE  IInv'
  <1>1. UNCHANGED <<kind, table, stage, walk, pos, got, answer, changes, held>>
    BY DEF vars, reader
  <1>2. TypeOK' /\ GotTrue' /\ HeldNow' /\ OnlyOverAnswers'
    BY <1>1 DEF IInv, TypeOK, GotTrue, HeldNow, OnlyOverAnswers
  <1>3. SteadyRows' /\ MissedTrue'
    BY <1>1 DEF IInv, SteadyRows, MissedTrue, Untouched, Behind
  <1>4. UntouchedRowsExact'
    BY <1>1 DEF IInv, UntouchedRowsExact, Untouched, IsListed, KeyOf, MayGoUnder
  <1>5. EntriesComeFromOneRow'
    BY <1>1 DEF IInv, EntriesComeFromOneRow
  <1>. QED  BY <1>2, <1>3, <1>4, <1>5 DEF IInv

LEMMA NextInv == IInv /\ [Next]_vars => IInv'
  BY StartStep, ReadCellStep, LeaveTableStep, WalkFailsStep, ReturnStep, ChangeStep,
     StutterStep DEF Next

LEMMA Invariance == Spec => []IInv
  BY InitInv, NextInv, PTL DEF Spec

\* The reader and the access point stay within their types.
THEOREM TypesKept == Spec => []TypeOK
  <1>1. IInv => TypeOK
    BY DEF IInv
  <1>. QED  BY Invariance, <1>1, PTL

\* A row that did not change while it was read is answered exactly, for any rows,
\* profiles with and without ids and changes around it (snmp/ap.py joins two walks
\* by the row index), unless a later row may go under its key.
THEOREM SteadyRowsExact == Spec => []UntouchedRowsExact
  <1>1. IInv => UntouchedRowsExact
    BY DEF IInv
  <1>. QED  BY Invariance, <1>1, PTL

\* However the rows change, an entry is put together from the values of one row.
THEOREM RowsNotMixed == Spec => []EntriesComeFromOneRow
  <1>1. IInv => EntriesComeFromOneRow
    BY DEF IInv
  <1>. QED  BY Invariance, <1>1, PTL
=============================================================================
