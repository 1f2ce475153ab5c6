----------------------------- MODULE ListProofs ------------------------------
(***************************************************************************)
(* Proofs about the lists and statistics over the rows of the memory       *)
(* store.  A list is an operator on the state: what it promises follows    *)
(* from the types of the rows, and where it speaks of records and          *)
(* authorizations together, from LedgerConsistent.  The last section is    *)
(* about a client that reads a list page by page.                          *)
(***************************************************************************)
EXTENDS ListProperties, ListWalk, ParkingFineProofs, SequenceTheorems

-----------------------------------------------------------------------------
(* Which rows a list has                                                   *)

\* A query that names a status or an area, and nothing else.
Plain(q) ==
  /\ q.building = None /\ q.plate = None /\ q.validOn = None
  /\ q.today = FALSE /\ q.expiringSoon = FALSE

\* What such a query asks of a row.
LEMMA Listed ==
  ASSUME NEW q, Plain(q), NEW t, NEW x
  PROVE  x \in MemoryListed(q, t) <=>
           /\ x \in DOMAIN auths /\ ~auths[x].archived
           /\ q.area \in {None, auths[x].area}
           /\ q.status \in {None, deriveStatus(auths[x], t)}
<1> DEFINE f == AuthFilter(q, t)
<1>1. /\ f.building = None /\ f.plate = None /\ f.area = q.area /\ f.status = q.status
      /\ f.validOn = None /\ f.validOnNow = t /\ f.endingBefore = None
      /\ f.startFrom = None /\ f.startTo = None
  BY DEF Plain, AuthFilter, Normalize
<1>2. x \in MemoryListed(q, t) <=> x \in DOMAIN auths /\ MemoryMatches(auths[x], f)
  BY DEF MemoryListed
<1> HIDE DEF f
<1> QED
  BY <1>1, <1>2 DEF MemoryMatches, Selected

\* The authorizations listed under a status.
LEMMA ListedUnder ==
  ASSUME NEW s, NEW t, NEW x
  PROVE  x \in MemoryListed(WithStatus(s), t) <=>
           x \in DOMAIN auths /\ ~auths[x].archived /\ s \in {None, deriveStatus(auths[x], t)}
<1>1. Plain(WithStatus(s)) /\ WithStatus(s).area = None /\ WithStatus(s).status = s
  BY DEF Plain, WithStatus, NoFilter
<1> QED
  BY <1>1, Listed

\* All authorizations that are not archived.
LEMMA ListedAll ==
  ASSUME NEW t, NEW x
  PROVE  x \in MemoryListed(NoFilter, t) <=> x \in DOMAIN auths /\ ~auths[x].archived
<1>1. Plain(NoFilter) /\ NoFilter.area = None /\ NoFilter.status = None
  BY DEF Plain, NoFilter
<1> QED
  BY <1>1, Listed

\* OneStatusEach, for any clock and any number of authorizations.
THEOREM StatusesApart == Spec => []OneStatusEach
<1>1. ASSUME TypeOK, NEW x \in MemoryListed(NoFilter, now)
      PROVE  Cardinality({s \in ShownStatus : x \in MemoryListed(WithStatus(s), now)}) = 1
  <2> DEFINE shown == deriveStatus(auths[x], now)
  <2>1. x \in DOMAIN auths /\ ~auths[x].archived /\ auths[x] \in Authorization
    BY <1>1, ListedAll DEF TypeOK, StoreTypeOK
  <2>2. shown \in ShownStatus
    BY <2>1 DEF deriveStatus, ShownStatus, Authorization
  <2>3. {s \in ShownStatus : x \in MemoryListed(WithStatus(s), now)} = {shown}
    <3>1. \A s \in ShownStatus : x \in MemoryListed(WithStatus(s), now) <=> s = shown
      BY <2>1, ListedUnder, ListAssumption DEF ShownStatus
    <3> QED
      BY <2>2, <3>1
  <2> QED
    BY <2>3, FS_Singleton
<1>2. TypeOK => OneStatusEach
  BY <1>1 DEF OneStatusEach
<1> QED
  BY <1>2, TypeCorrect, PTL

\* ShownStatusTruthful, for any clock and any number of authorizations: the
\* list and the gate put the end of the window at the same instant.
THEOREM StatusShownTrue == Spec => []ShownStatusTruthful
<1>1. ASSUME TypeOK, NEW x \in MemoryListed(WithStatus("expired"), now)
      PROVE  EnterVehicleErr(x, now) = "ErrOutOfTimeWindow"
  <2>1. x \in DOMAIN auths /\ ~auths[x].archived /\ auths[x] \in Authorization
    BY <1>1, ListedUnder DEF TypeOK, StoreTypeOK
  <2>2. deriveStatus(auths[x], now) = "expired"
    BY <1>1, ListedUnder, ListAssumption
  <2>3. auths[x].status = "pending" /\ auths[x].end <= now
    BY <2>1, <2>2 DEF deriveStatus, Authorization, AuthStatus
  <2>4. ~InWindow(auths[x], now)
    BY <1>1, <2>1, <2>3, TimeAssumption DEF InWindow, Authorization, Time, TypeOK
  <2> QED
    BY <2>1, <2>3, <2>4 DEF EnterVehicleErr, Live
<1>2. ASSUME TypeOK, NEW x \in MemoryListed(WithStatus("pending"), now), auths[x].start <= now
      PROVE  EnterVehicleErr(x, now) # "ErrOutOfTimeWindow"
  <2>1. x \in DOMAIN auths /\ auths[x] \in Authorization
    BY <1>2, ListedUnder DEF TypeOK, StoreTypeOK
  <2>2. deriveStatus(auths[x], now) = "pending"
    BY <1>2, ListedUnder, ListAssumption DEF AuthStatus
  <2>3. ~(auths[x].end <= now)
    BY <2>1, <2>2 DEF deriveStatus
  <2>4. InWindow(auths[x], now)
    BY <1>2, <2>1, <2>3, TimeAssumption DEF InWindow, Authorization, Time, TypeOK
  <2> QED
    BY <2>4 DEF EnterVehicleErr
<1>3. TypeOK => ShownStatusTruthful
  BY <1>1, <1>2 DEF ShownStatusTruthful
<1> QED
  BY <1>3, TypeCorrect, PTL

\* OccupancyTruthful, for any clock and any number of vehicles: statistics
\* and gate count the same records.
THEOREM OccupancyTrue == Spec => []OccupancyTruthful
<1>1. ASSUME TypeOK, RecordsFinite, NEW a \in DOMAIN areas
      PROVE  AreaOccupancy(a).available > 0 <=> ~Full(a)
  <2>1. Occupied(a) \in Nat /\ areas[a].capacity \in Nat
    BY <1>1, OccupiedNat DEF TypeOK, StoreTypeOK, ParkingArea
  <2>2. AreaOccupancy(a).available =
          IF areas[a].capacity - Occupied(a) < 0 THEN 0 ELSE areas[a].capacity - Occupied(a)
    BY DEF AreaOccupancy, Occupied, Inside
  <2> QED
    BY <2>1, <2>2 DEF Full
<1>2. ASSUME TypeOK, RecordsFinite, NEW a \in DOMAIN areas, Full(a)
      PROVE  AreaOccupancy(a).available = 0
  <2>1. Occupied(a) \in Nat /\ areas[a].capacity \in Nat
    BY <1>2, OccupiedNat DEF TypeOK, StoreTypeOK, ParkingArea
  <2>2. AreaOccupancy(a).available =
          IF areas[a].capacity - Occupied(a) < 0 THEN 0 ELSE areas[a].capacity - Occupied(a)
    BY DEF AreaOccupancy, Occupied, Inside
  <2> QED
    BY <1>2, <2>1, <2>2 DEF Full
<1>3. ASSUME TypeOK, RecordsFinite, NEW x \in DOMAIN auths, Live(areas, auths[x].area)
      PROVE  /\ EnterVehicleErr(x, now) = "ErrNoCapacity" =>
                  AreaOccupancy(auths[x].area).available = 0
             /\ EnterVehicleErr(x, now) = "nil" => AreaOccupancy(auths[x].area).available > 0
  <2>1. auths[x].area \in DOMAIN areas
    BY <1>3 DEF Live
  <2>2. /\ EnterVehicleErr(x, now) = "ErrNoCapacity" => Full(auths[x].area)
        /\ EnterVehicleErr(x, now) = "nil" => ~Full(auths[x].area)
    BY DEF EnterVehicleErr
  <2> QED
    BY <1>1, <1>2, <1>3, <2>1, <2>2
<1>4. TypeOK /\ RecordsFinite => OccupancyTruthful
  BY <1>3 DEF OccupancyTruthful
<1> QED
  BY <1>4, TypeCorrect, FiniteRecords, PTL

\* CurrentVehiclesActive, for a clock whose readings differ: the list that
\* looks at the records and the one that looks at the statuses show the same
\* vehicles.
THEOREM CurrentTrue ==
  ASSUME ~CoarseClock
  PROVE  Spec => []CurrentVehiclesActive
<1>1. ASSUME TypeOK, LedgerConsistent, NEW a \in DOMAIN areas
      PROVE  {records[r].auth : r \in CurrentVehicles(a)} \ {x \in DOMAIN auths : auths[x].archived}
               = MemoryListed([WithStatus("active") EXCEPT !.area = a], now)
  <2> DEFINE inside == {records[r].auth : r \in CurrentVehicles(a)}
             listed == MemoryListed([WithStatus("active") EXCEPT !.area = a], now)
  <2>1. a # None
    BY <1>1, NoneAssumption DEF TypeOK, StoreTypeOK
  <2>2. CurrentVehicles(a) = {r \in DOMAIN records : records[r].area = a /\ records[r].status = "entered"}
    BY <2>1, ListAssumption DEF CurrentVehicles, RecordsListed, RecordMatches, RecordStatus
  <2>3. listed = {x \in DOMAIN auths : /\ ~auths[x].archived /\ auths[x].area = a
                                       /\ auths[x].status = "active"}
    <3> DEFINE q == [WithStatus("active") EXCEPT !.area = a]
    <3>1. Plain(q) /\ q.area = a /\ q.status = "active"
      BY DEF Plain, WithStatus, NoFilter
    <3> HIDE DEF q
    <3>2. \A x : x \in MemoryListed(q, now) <=>
            /\ x \in DOMAIN auths /\ ~auths[x].archived /\ a \in {None, auths[x].area}
            /\ "active" \in {None, deriveStatus(auths[x], now)}
      BY <3>1, Listed
    <3>3. \A x \in DOMAIN auths : "active" = deriveStatus(auths[x], now) <=> auths[x].status = "active"
      BY DEF deriveStatus
    <3> QED
      BY <2>1, <3>2, <3>3, ListAssumption DEF AuthStatus, q
  <2>4. ASSUME NEW x \in listed
        PROVE  x \in inside /\ ~auths[x].archived
    <3>1. PICK r \in DOMAIN records : records[r].auth = x
      BY <1>1, <2>3, <2>4 DEF LedgerConsistent
    <3>2. RecordAgrees(records[r])
      BY <1>1 DEF LedgerConsistent
    <3>3. records[r].status = "entered" /\ records[r].area = a
      BY <2>3, <3>1, <3>2 DEF RecordAgrees
    <3> QED
      BY <2>2, <2>3, <3>1, <3>3
  <2>5. ASSUME NEW r \in CurrentVehicles(a)
        PROVE  records[r].auth \in listed \/ auths[records[r].auth].archived
    <3>1. RecordAgrees(records[r])
      BY <1>1, <2>2 DEF LedgerConsistent
    <3> QED
      BY <2>2, <2>3, <3>1 DEF RecordAgrees
  <2>6. \A r \in CurrentVehicles(a) : records[r].auth \in DOMAIN auths
    BY <1>1, <2>2 DEF LedgerConsistent, RecordAgrees
  <2> QED
    BY <2>3, <2>4, <2>5, <2>6
<1>2. TypeOK /\ LedgerConsistent => CurrentVehiclesActive
  BY <1>1 DEF CurrentVehiclesActive
<1> QED
  BY <1>2, TypeCorrect, LedgerKept, PTL

-----------------------------------------------------------------------------
(* Pages                                                                   *)

\* There are finitely many authorizations.
AuthsFinite == IsFiniteSet(DOMAIN auths)

\* A creation adds one.
LEMMA AuthsFiniteNext ==
  ASSUME AuthsFinite, StoreStep
  PROVE  AuthsFinite'
<1>1. CASE UNCHANGED auths
  BY <1>1 DEF AuthsFinite
<1>2. ASSUME NEW p \in Proc, Writes(p), ~UNCHANGED auths
      PROVE  AuthsFinite'
  <2>1. \E k, v : auths' = Assign(auths, k, v)
    BY <1>2 DEF Writes, CreateResident, UpdateResident, ArchiveResident, CreateParkingArea,
       UpdateParkingArea, ArchiveParkingArea, CreateAuthorization, UpdateAuthorization,
       ArchiveAuthorization, RevokeAuthorization, EnterVehicle, ExitVehicle, Archived
  <2>2. PICK k : DOMAIN auths' = DOMAIN auths \cup {k}
    BY <2>1 DEF Assign
  <2> QED
    BY <2>2, FS_AddElement DEF AuthsFinite
<1> QED
  BY <1>1, <1>2, StillOrChanged DEF Maps

\* There are finitely many authorizations in every state of the service.
LEMMA FiniteAuths == Spec => []AuthsFinite
<1>1. Init => AuthsFinite
  BY FS_EmptySet DEF Init, StoreInit, EmptyMap, AuthsFinite
<1>2. TypeOK /\ AuthsFinite /\ [Next]_vars => AuthsFinite'
  BY AuthsFiniteNext, StepCases
<1> QED
  BY <1>1, <1>2, TypeCorrect, PTL DEF Spec

\* The cardinality of the library of sequences is that of finite sets.
LEMMA CountsAlike == \A S : Ext!Cardinality(S) = Cardinality(S)
BY DEF Ext!Cardinality, Cardinality

\* An order of the rows has each of them at one place.
LEMMA OrderOf ==
  ASSUME NEW S, IsFiniteSet(S), NEW s \in Ext!SetToSeqs(S)
  PROVE  /\ Cardinality(S) \in Nat /\ Len(s) = Cardinality(S)
         /\ s \in Seq(S) /\ s \in [1..Len(s) -> S]
         /\ \A i, j \in 1..Len(s) : i # j => s[i] # s[j]
<1>1. Cardinality(S) \in Nat
  BY FS_CardinalityType
<1>2. /\ s \in [1..Cardinality(S) -> S]
      /\ \A i, j \in 1..Cardinality(S) : i # j => s[i] # s[j]
  BY CountsAlike DEF Ext!SetToSeqs
<1>3. s \in Seq(S)
  BY <1>1, <1>2, SeqDef
<1>4. Len(s) = Cardinality(S)
  BY <1>1, <1>2, <1>3, LenProperties
<1> QED
  BY <1>1, <1>2, <1>3, <1>4

\* A page has the rows from its offset on, as many as its limit allows.
LEMMA PageRows ==
  ASSUME NEW S, NEW s \in Seq(S), NEW limit \in Nat, NEW offset \in Nat
  PROVE  LET page == [limit |-> limit, offset |-> offset]
             left == Len(s) - offset
         IN /\ Len(pageOf(s, page)) = IF left <= 0 THEN 0 ELSE IF left < limit THEN left ELSE limit
            /\ \A i \in 1..Len(s) : offset < i /\ i <= offset + limit =>
                 \E j \in 1..Len(pageOf(s, page)) : pageOf(s, page)[j] = s[i]
            /\ \A j \in 1..Len(pageOf(s, page)) : pageOf(s, page)[j] \in S
<1> DEFINE page == [limit |-> limit, offset |-> offset]
           last == IF offset + limit > Len(s) THEN Len(s) ELSE offset + limit
           left == Len(s) - offset
<1>1. Len(s) \in Nat /\ s \in [1..Len(s) -> S]
  BY LenProperties
<1>2. pageOf(s, page) = SubSeq(s, offset + 1, last)
  BY DEF pageOf
<1>3. last \in Int /\ offset + 1 \in Int /\ \A i \in (offset + 1)..last : s[i] \in S
  BY <1>1
<1>4. /\ SubSeq(s, offset + 1, last) \in Seq(S)
      /\ Len(SubSeq(s, offset + 1, last)) =
           IF offset + 1 <= last THEN last - (offset + 1) + 1 ELSE 0
      /\ \A i \in 1..(last - (offset + 1) + 1) :
           SubSeq(s, offset + 1, last)[i] = s[(offset + 1) + i - 1]
  BY <1>3, SubSeqProperties
<1> HIDE DEF page
<1>5. Len(pageOf(s, page)) = IF left <= 0 THEN 0 ELSE IF left < limit THEN left ELSE limit
  BY <1>1, <1>2, <1>4
<1>6. ASSUME NEW i \in 1..Len(s), offset < i, i <= offset + limit
      PROVE  \E j \in 1..Len(pageOf(s, page)) : pageOf(s, page)[j] = s[i]
  <2> DEFINE j == i - offset
  <2>1. j \in 1..Len(pageOf(s, page))
    <3> DEFINE n == Len(s)
               m == Len(pageOf(s, page))
    <3>1. n \in Nat /\ i \in 1..n
      BY <1>1, <1>6
    <3>2. m = IF n - offset <= 0 THEN 0 ELSE IF n - offset < limit THEN n - offset ELSE limit
      BY <1>5
    <3> HIDE DEF n, m
    <3>3. j \in 1..m
      BY <3>1, <3>2, <1>6
    <3> QED
      BY <3>3 DEF m
  <2>2. j \in 1..(last - (offset + 1) + 1) /\ (offset + 1) + j - 1 = i
    BY <1>1, <1>6
  <2> HIDE DEF j, last
  <2>3. pageOf(s, page)[j] = s[(offset + 1) + j - 1]
    BY <1>2, <1>4, <2>2
  <2>4. pageOf(s, page)[j] = s[i]
    BY <2>2, <2>3
  <2> QED
    BY <2>1, <2>4
<1>7. \A j \in 1..Len(pageOf(s, page)) : pageOf(s, page)[j] \in S
  BY <1>2, <1>4, ElementOfSeq
<1> QED
  BY <1>5, <1>6, <1>7 DEF page

\* What is answered to a request for a page.
LEMMA AnswerOf ==
  ASSUME NEW S, IsFiniteSet(S), NEW key, NEW limit \in 1..MaxLimit, NEW offset \in Nat,
         NEW r \in List(S, key, limit, offset)
  PROVE  /\ Cardinality(S) \in Nat /\ r.total = Cardinality(S)
         /\ r.size = limit /\ r.page = pageNo(limit, offset)
         /\ Len(r.items) = LET left == Cardinality(S) - offset IN
                           IF left <= 0 THEN 0 ELSE IF left < limit THEN left ELSE limit
<1>1. normPage(limit, offset) = [limit |-> limit, offset |-> offset]
  BY DEF normPage
<1>2. PICK s \in Descending(S, key) :
        r = paginate(pageOf(s, [limit |-> limit, offset |-> offset]), Len(s), limit, offset)
  BY <1>1 DEF List
<1>3. Cardinality(S) \in Nat /\ Len(s) = Cardinality(S) /\ s \in Seq(S)
  BY OrderOf DEF Descending
<1>4. limit \in Nat
  BY ListAssumption
<1>5. Len(pageOf(s, [limit |-> limit, offset |-> offset])) =
        LET left == Cardinality(S) - offset IN
        IF left <= 0 THEN 0 ELSE IF left < limit THEN left ELSE limit
  BY <1>3, <1>4, PageRows
<1>6. /\ r.items = pageOf(s, [limit |-> limit, offset |-> offset])
      /\ r.total = Len(s) /\ r.size = limit /\ r.page = pageNo(limit, offset)
  BY <1>2 DEF paginate
<1> QED
  BY <1>2, <1>3, <1>5, <1>6

\* PagesTruthful, for any clock and any number of rows.
THEOREM PagesTrue == Spec => []PagesTruthful
<1>1. ASSUME AuthsFinite, NEW limit \in 1..MaxLimit, NEW n \in 1..3,
             NEW r \in ListAuthorizations(NoFilter, limit, (n - 1) * limit, now)
      PROVE  LET before == (r.page - 1) * r.size IN
             /\ r.page = n
             /\ Len(r.items) = IF r.total <= before THEN 0
                               ELSE IF r.total < before + r.size THEN r.total - before
                               ELSE r.size
  <2> DEFINE S == MemoryListed(NoFilter, now)
             offset == (n - 1) * limit
  <2>1. limit \in Nat /\ limit > 0 /\ MaxLimit \in Nat
    BY ListAssumption
  <2>2. offset \in Nat
    BY <2>1
  <2>3. pageNo(limit, offset) = n
    <3>1. pageNo(limit, offset) = offset \div limit + 1
      BY <2>1, <2>2 DEF pageNo, Quotient
    <3>2. CASE n = 1
      BY <2>1, <3>1, <3>2
    <3>3. CASE n = 2
      <4>1. offset = limit
        BY <2>1, <3>3
      <4>2. limit \div limit = 1
        BY <2>1
      <4> QED
        BY <3>1, <3>3, <4>1, <4>2
    <3>4. CASE n = 3
      <4>1. offset = 2 * limit
        BY <2>1, <3>4
      <4>2. (2 * limit) \div limit = 2
        BY <2>1
      <4> QED
        BY <3>1, <3>4, <4>1, <4>2
    <3> QED
      BY <3>2, <3>3, <3>4
  <2>4. IsFiniteSet(S)
    BY <1>1, FS_Subset DEF MemoryListed, AuthsFinite
  <2>5. r \in List(S, [x \in DOMAIN auths |-> auths[x].start], limit, offset)
    BY <1>1 DEF ListAuthorizations
  <2> HIDE DEF S, offset
  <2>6. /\ Cardinality(S) \in Nat /\ r.total = Cardinality(S)
        /\ r.size = limit /\ r.page = n
        /\ Len(r.items) = LET left == Cardinality(S) - offset IN
                          IF left <= 0 THEN 0 ELSE IF left < limit THEN left ELSE limit
    BY <2>2, <2>3, <2>4, <2>5, AnswerOf
  <2>7. (r.page - 1) * r.size = offset
    BY <2>6, Zenon DEF offset
  <2> QED
    BY <2>1, <2>2, <2>6, <2>7
<1>2. AuthsFinite => PagesTruthful
  BY <1>1 DEF PagesTruthful
<1> QED
  BY <1>2, FiniteAuths, PTL

-----------------------------------------------------------------------------
(* The two stores                                                          *)

\* For a query without an instant or an end, a row that has a type matches in
\* the one store if it does in the other, unless it is the pending ones that
\* are asked for, or a building with an archived resident.
LEMMA AlikeRow ==
  ASSUME NEW a, a.status \in AuthStatus, NEW f, f.validOn = None, f.endingBefore = None,
         f.status \in (ShownStatus \cup {None}) \ {"pending"},
         \/ f.building = None
         \/ \A x \in DOMAIN residents : BuildingOf[x] = f.building => ~residents[x].archived
  PROVE  MemoryMatches(a, f) <=> PgMatches(a, f)
<1> DEFINE Housed == f.building # None =>
             a.resident \in DOMAIN residents /\ BuildingOf[a.resident] = f.building
<1>1. MemoryMatches(a, f) <=>
        Selected(a, f) /\ f.status \in {None, deriveStatus(a, f.validOnNow)} /\ Housed
  BY DEF MemoryMatches, Live
<1>2. PgMatches(a, f) <=> Selected(a, f) /\ PgStatus(a, f) /\ Housed
  BY DEF PgMatches
<1> HIDE DEF Housed
<1>3. CASE f.status = "expired"
  BY <1>1, <1>2, <1>3, ListAssumption DEF deriveStatus, PgStatus, AuthStatus
<1>4. CASE f.status # "expired"
  BY <1>1, <1>2, <1>4, ListAssumption DEF deriveStatus, PgStatus, AuthStatus, ShownStatus
<1> QED
  BY <1>3, <1>4

\* A page that begins at the first row, or at any other, has a row if the list
\* has.
LEMMA PageOfRows ==
  ASSUME NEW S, NEW s \in Seq(S), NEW limit \in Int, NEW offset \in Nat,
         offset = 0 \/ offset < Len(s), pageOf(s, normPage(limit, offset)) = <<>>
  PROVE  Len(s) = 0
<1> DEFINE l == IF limit \in 1..MaxLimit THEN limit ELSE DefaultLimit
<1>1. l \in Nat /\ l > 0
  BY ListAssumption
<1>2. normPage(limit, offset) = [limit |-> l, offset |-> offset]
  BY DEF normPage
<1> HIDE DEF l
<1>3. Len(s) \in Nat
  BY LenProperties
<1>4. Len(pageOf(s, [limit |-> l, offset |-> offset])) =
        LET left == Len(s) - offset IN IF left <= 0 THEN 0 ELSE IF left < l THEN left ELSE l
  BY <1>1, PageRows
<1>5. Len(pageOf(s, [limit |-> l, offset |-> offset])) = 0
  BY <1>2
<1> QED
  BY <1>1, <1>3, <1>4, <1>5

\* An answer without rows has the total 0 in either store, if it is not a page
\* past the last row that is asked for.
LEMMA PageAlike ==
  ASSUME NEW S, IsFiniteSet(S), NEW key, NEW limit \in Int, NEW offset \in Nat,
         offset = 0 \/ offset < Cardinality(S)
  PROVE  List(S, key, limit, offset) = PgList(S, key, limit, offset)
<1> DEFINE L == List(S, key, limit, offset)
           F(r) == IF r.items = <<>> THEN [r EXCEPT !.total = 0] ELSE r
<1>1. ASSUME NEW r \in L
      PROVE  F(r) = r
  <2>1. PICK s \in Descending(S, key) :
          r = paginate(pageOf(s, normPage(limit, offset)), Len(s), limit, offset)
    BY DEF List
  <2>2. Len(s) = Cardinality(S) /\ s \in Seq(S)
    BY OrderOf DEF Descending
  <2>3. /\ r = [items |-> r.items, total |-> r.total, page |-> r.page, size |-> r.size]
        /\ r.items = pageOf(s, normPage(limit, offset)) /\ r.total = Len(s)
    BY <2>1 DEF paginate
  <2>4. r.items = <<>> => r.total = 0
    BY <2>2, <2>3, PageOfRows
  <2> QED
    BY <2>3, <2>4
<1>2. PgList(S, key, limit, offset) = {F(r) : r \in L}
  BY DEF PgList
<1> HIDE DEF L, F
<1>3. PgList(S, key, limit, offset) = L
  BY <1>1, <1>2
<1> QED
  BY <1>3 DEF L

\* StoresAgree, for any clock and any number of rows, buildings and pages.
THEOREM StoresAlike == Spec => []StoresAgree
<1>1. ASSUME TypeOK, AuthsFinite, NEW s \in (ShownStatus \cup {None}) \ {"pending"},
             NEW d \in BOOLEAN, NEW p \in Plate \cup {None}, NEW a \in AreaID \cup {None},
             NEW b \in FullBuildings \cup {None}
      PROVE  LET q == [NoFilter EXCEPT !.status = s, !.today = d, !.plate = p, !.area = a,
                                       !.building = b]
                 n == Cardinality(MemoryListed(q, now))
             IN /\ MemoryListed(q, now) = PgListed(q, now)
                /\ \A limit \in 0..(MaxLimit + 1) : \A offset \in 0..n :
                     offset = 0 \/ offset < n =>
                         ListAuthorizations(q, limit, offset, now) =
                             PgListAuthorizations(q, limit, offset, now)
  <2> DEFINE q == [NoFilter EXCEPT !.status = s, !.today = d, !.plate = p, !.area = a,
                                   !.building = b]
             f == AuthFilter(q, now)
             S == MemoryListed(q, now)
             key == [x \in DOMAIN auths |-> auths[x].start]
  <2>1. f.building = b /\ f.validOn = None /\ f.endingBefore = None /\ f.status = s
    BY DEF AuthFilter, NoFilter
  <2>2. S = {x \in DOMAIN auths : MemoryMatches(auths[x], f)}
    BY DEF MemoryListed
  <2>3. PgListed(q, now) = {x \in DOMAIN auths : PgMatches(auths[x], f)}
    BY DEF PgListed
  <2>4. \A limit, offset :
          /\ ListAuthorizations(q, limit, offset, now) = List(S, key, limit, offset)
          /\ PgListAuthorizations(q, limit, offset, now) =
               PgList(PgListed(q, now), key, limit, offset)
    BY DEF ListAuthorizations, PgListAuthorizations
  <2> HIDE DEF q, f, S, key
  <2>5. \/ b = None
        \/ \A x \in DOMAIN residents : BuildingOf[x] = b => ~residents[x].archived
    BY DEF FullBuildings
  <2>6. ASSUME NEW x \in DOMAIN auths
        PROVE  MemoryMatches(auths[x], f) <=> PgMatches(auths[x], f)
    <3>1. auths[x].status \in AuthStatus
      BY <1>1 DEF TypeOK, StoreTypeOK, Authorization
    <3> QED
      BY <2>1, <2>5, <3>1, AlikeRow
  <2>7. S = PgListed(q, now)
    BY <2>2, <2>3, <2>6
  <2>8. IsFiniteSet(S) /\ Cardinality(S) \in Nat
    BY <1>1, <2>2, FS_Subset, FS_CardinalityType DEF AuthsFinite
  <2>9. ASSUME NEW limit \in 0..(MaxLimit + 1), NEW offset \in 0..Cardinality(S),
               offset = 0 \/ offset < Cardinality(S)
        PROVE  ListAuthorizations(q, limit, offset, now) =
                 PgListAuthorizations(q, limit, offset, now)
    <3>1. limit \in Int /\ offset \in Nat
      BY <2>8
    <3>2. List(S, key, limit, offset) = PgList(S, key, limit, offset)
      BY <2>8, <2>9, <3>1, PageAlike
    <3> QED
      BY <2>4, <2>7, <3>2
  <2> QED
    BY <2>7, <2>9 DEF q, S
<1>2. TypeOK /\ AuthsFinite => StoresAgree
  BY <1>1 DEF StoresAgree
<1> QED
  BY <1>2, TypeCorrect, FiniteAuths, PTL

-----------------------------------------------------------------------------
(* Walks                                                                   *)

\* The rows of S that come before x where the key falls.
Higher(S, key, x) == {y \in S : key[y] > key[x]}

Untied(S, key) == \A x, y \in S : key[x] = key[y] => x = y

\* In a list without ties each row has a place, and those before it are the
\* rows with a higher key.
LEMMA RankOf ==
  ASSUME NEW S, IsFiniteSet(S), NEW key, \A x \in S : key[x] \in Nat, Untied(S, key),
         NEW s \in Descending(S, key), NEW x \in S
  PROVE  \E i \in 1..Len(s) : s[i] = x /\ Cardinality(Higher(S, key, x)) = i - 1
<1>1. /\ Cardinality(S) \in Nat /\ Len(s) = Cardinality(S) /\ s \in [1..Len(s) -> S]
      /\ \A j, k \in 1..Len(s) : j # k => s[j] # s[k]
  BY OrderOf DEF Descending
<1>2. \A j, k \in 1..Len(s) : j < k => key[s[j]] >= key[s[k]]
  BY DEF Descending
<1> DEFINE n == Len(s)
<1>3. n \in Nat /\ IsFiniteSet(1..n) /\ Cardinality(1..n) = n
  BY <1>1, FS_Interval
<1>4. s \in Injection(1..n, S)
  BY <1>1 DEF Injection, IsInjective
<1>5. s \in Surjection(1..n, S)
  BY <1>1, <1>3, <1>4, FS_Injection
<1>6. PICK i \in 1..n : s[i] = x
  BY <1>5 DEF Surjection
<1> DEFINE H == Higher(S, key, x)
           f == [j \in 1..(i - 1) |-> s[j]]
<1>7. \A j \in 1..(i - 1) : j \in 1..n /\ j < i
  BY <1>3
<1>8. \A j \in 1..(i - 1) : s[j] \in H
  <2> TAKE j \in 1..(i - 1)
  <2>1. s[j] \in S /\ s[j] # x /\ key[s[j]] >= key[x]
    BY <1>1, <1>2, <1>6, <1>7
  <2>2. key[s[j]] # key[x]
    BY <2>1 DEF Untied
  <2>3. key[s[j]] > key[x]
    BY <2>1, <2>2
  <2> QED
    BY <2>1, <2>3 DEF Higher
<1>9. ASSUME NEW y \in H
      PROVE  \E j \in 1..(i - 1) : s[j] = y
  <2>1. y \in S /\ key[y] > key[x]
    BY <1>9 DEF Higher
  <2>2. PICK j \in 1..n : s[j] = y
    BY <1>5, <2>1 DEF Surjection
  <2>3. ~(i < j) /\ i # j
    BY <1>2, <1>6, <2>1, <2>2
  <2>4. j \in 1..(i - 1)
    BY <1>3, <2>3
  <2> QED
    BY <2>2, <2>4
<1>10. f \in Bijection(1..(i - 1), H)
  <2>1. f \in [1..(i - 1) -> H]
    BY <1>8
  <2>2. IsInjective(f)
    BY <1>1, <1>7 DEF IsInjective
  <2>3. \A y \in H : \E j \in 1..(i - 1) : f[j] = y
    BY <1>9
  <2> HIDE DEF f, H
  <2> QED
    BY <2>1, <2>2, <2>3 DEF Bijection, Injection, Surjection
<1>11. i - 1 \in Nat /\ IsFiniteSet(1..(i - 1)) /\ Cardinality(1..(i - 1)) = i - 1
  <2>1. i - 1 \in Nat /\ 1 \in Int /\ i - 1 \in Int
    BY <1>3
  <2>2. /\ IsFiniteSet(1..(i - 1))
        /\ Cardinality(1..(i - 1)) = IF 1 > i - 1 THEN 0 ELSE (i - 1) - 1 + 1
    BY <2>1, FS_Interval
  <2> QED
    BY <2>1, <2>2
<1>12. Cardinality(H) = i - 1
  <2> HIDE DEF f, H
  <2> QED
    BY <1>10, <1>11, FS_Bijection DEF ExistsBijection
<1> QED
  BY <1>6, <1>12

\* A page finds what is on it; what is not on it has at least as many rows
\* before it as the next page skips.
LEMMA PageFinds ==
  ASSUME NEW S, IsFiniteSet(S), NEW key, \A x \in S : key[x] \in Nat, Untied(S, key),
         NEW limit \in 1..MaxLimit, NEW offset \in Nat, NEW r \in List(S, key, limit, offset),
         NEW x \in S, Cardinality(Higher(S, key, x)) >= offset
  PROVE  /\ r.size = limit /\ r.total \in Nat
         /\ \/ \E j \in 1..Len(r.items) : r.items[j] = x
            \/ /\ Cardinality(Higher(S, key, x)) >= offset + limit
               /\ r.total > offset + limit
<1> DEFINE page == [limit |-> limit, offset |-> offset]
<1>1. normPage(limit, offset) = page
  BY DEF normPage
<1>2. PICK s \in Descending(S, key) : r = paginate(pageOf(s, page), Len(s), limit, offset)
  BY <1>1 DEF List
<1>3. r.size = limit /\ r.total = Len(s) /\ r.items = pageOf(s, page)
  BY <1>2 DEF paginate
<1>4. Len(s) \in Nat /\ s \in Seq(S)
  BY OrderOf, LenProperties DEF Descending
<1>5. limit \in Nat
  BY ListAssumption
<1>6. PICK i \in 1..Len(s) : s[i] = x /\ Cardinality(Higher(S, key, x)) = i - 1
  BY RankOf
<1>7. offset < i
  BY <1>4, <1>6
<1>8. CASE i <= offset + limit
  <2>1. \E j \in 1..Len(pageOf(s, page)) : pageOf(s, page)[j] = s[i]
    BY <1>4, <1>5, <1>7, <1>8, PageRows
  <2> QED
    BY <1>3, <1>4, <1>6, <2>1
<1>9. CASE ~(i <= offset + limit)
  BY <1>3, <1>4, <1>5, <1>6, <1>9
<1> QED
  BY <1>8, <1>9

\* The rows of a walk's list are finitely many, and their keys are times.
RowsGood == \A w : IsFiniteSet(Rows(w)) /\ \A x \in Rows(w) : Key(w, x) \in Nat

\* Rows are in the maps, which are finite, and have the types of their tables.
LEMMA RowsAreGood == TypeOK /\ RecordsFinite /\ AuthsFinite => RowsGood
<1> SUFFICES ASSUME TypeOK, RecordsFinite, AuthsFinite, NEW w
             PROVE  IsFiniteSet(Rows(w)) /\ \A x \in Rows(w) : Key(w, x) \in Nat
  BY DEF RowsGood
<1>1. Time \subseteq Nat
  BY TimeAssumption DEF Time
<1>2. CASE w.list = "records"
  <2>1. Rows(w) \subseteq DOMAIN records
    BY <1>2 DEF Rows, RecordsListed
  <2>2. \A x \in DOMAIN records : records[x].entry \in Nat
    BY <1>1 DEF TypeOK, StoreTypeOK, EntryExitRecord
  <2> QED
    BY <1>2, <2>1, <2>2, FS_Subset DEF RecordsFinite, Key
<1>3. CASE w.list # "records"
  <2>1. Rows(w) \subseteq DOMAIN auths
    BY <1>3 DEF Rows, MemoryListed
  <2>2. \A x \in DOMAIN auths : auths[x].start \in Nat
    BY <1>1 DEF TypeOK, StoreTypeOK, Authorization
  <2> QED
    BY <1>3, <2>1, <2>2, FS_Subset DEF AuthsFinite, Key
<1> QED
  BY <1>2, <1>3

\* A step leaves the keys of the rows as they are.
KeysKept == \A w : \A x \in Rows(w) : Key(w, x)' = Key(w, x)

\* An exit leaves the entry time of its record, and with readings that differ
\* no write changes the window of an authorization.
LEMMA KeysNext ==
  ASSUME KnownTypes, StampsFresh, FreshIDs, StoreStep
  PROVE  KeysKept
<1>1. \A x \in DOMAIN records : records'[x].entry = records[x].entry
  <2>1. \A x \in DOMAIN records : records[x] \in EntryExitRecord
    BY DEF KnownTypes, StoreTypeOK
  <2>2. \A x \in DOMAIN records : \A e :
          [records[x] EXCEPT !.status = "exited", !.exit = e].entry = records[x].entry
    BY <2>1 DEF EntryExitRecord
  <2>3. KeepsHistory
    BY HistoryNext
  <2>4. ASSUME NEW x \in DOMAIN records
        PROVE  records'[x].entry = records[x].entry
    <3>1. \/ records'[x] = records[x]
          \/ records'[x] = [records[x] EXCEPT !.status = "exited", !.exit = records'[x].exit]
      BY <2>3 DEF KeepsHistory
    <3> QED
      BY <2>2, <3>1
  <2> QED
    BY <2>4
<1>2. \A x \in DOMAIN auths : auths'[x].start = auths[x].start
  <2>1. CASE UNCHANGED auths
    BY <2>1
  <2>2. ASSUME NEW p \in Proc, Writes(p)
        PROVE  \A x \in DOMAIN auths : auths'[x].start = auths[x].start
    BY <2>1, <2>2, AuthWrites DEF Continues, Assign
  <2> QED
    BY <2>1, <2>2, StillOrChanged DEF Maps
<1>3. \A w : \A x \in Rows(w) :
        IF w.list = "records" THEN x \in DOMAIN records ELSE x \in DOMAIN auths
  BY DEF Rows, RecordsListed, MemoryListed
<1> QED
  BY <1>1, <1>2, <1>3 DEF KeysKept, Key

\* A walk has all its fields, and asks for pages that the store grants.
WalkShape(w) ==
  /\ DOMAIN w = DOMAIN NoWalk
  /\ w.phase \in {"idle", "ask", "list", "done"}
  /\ w.phase \in {"ask", "list"} => w.limit \in 1..MaxLimit
  /\ w.offset \in Nat

\* The rows that come before x in the list of the walk.
AheadOf(w, x) == {y \in Rows(w) : Key(w, y) > Key(w, x)}

\* A row that stayed and is not found is beyond the pages that were read.
OnCourse(w) ==
  /\ w.stayed \subseteq Rows(w)
  /\ ~w.left /\ ~w.tied =>
       \A x \in w.stayed : x \in w.found \/ Cardinality(AheadOf(w, x)) >= w.offset

WalkInv ==
  /\ WalkShape(walk)
  /\ walk.phase \in {"ask", "list"} => OnCourse(walk)
  /\ WalkFindsAll

\* What Watched makes of the walk.
LEMMA WatchedFields ==
  ASSUME NEW w, w.phase \in {"ask", "list"}, NEW v, DOMAIN v = DOMAIN NoWalk,
         walk' = Watched(w, v)
  PROVE  /\ DOMAIN walk' = DOMAIN NoWalk
         /\ walk'.phase = v.phase /\ walk'.list = v.list /\ walk'.q = v.q
         /\ walk'.limit = v.limit /\ walk'.offset = v.offset /\ walk'.t = v.t
         /\ walk'.found = v.found /\ walk'.tied = v.tied
         /\ walk'.stayed = v.stayed \cap Rows(v)'
         /\ ~walk'.left => ~v.left /\ Rows(w) \subseteq Rows(v)'
BY DEF Watched, NoWalk

\* A step of others, of the clock, or of the client keeps a walk on its course
\* if the client does not go past a row that it has not found: rows that are
\* added come before or after, but none of those before it goes away.
LEMMA Carried ==
  ASSUME RowsGood, RowsGood', KeysKept,
         NEW w, WalkShape(w), w.phase \in {"ask", "list"}, w.stayed \subseteq Rows(w),
         NEW v, WalkShape(v), v.list = w.list, v.stayed = w.stayed, v.left = w.left,
         ~w.left /\ ~v.tied =>
           \A x \in w.stayed :
             x \in v.found \/ (v.phase # "done" /\ Cardinality(AheadOf(w, x)) >= v.offset),
         walk' = Watched(w, v)
  PROVE  WalkInv'
<1>1. /\ DOMAIN walk' = DOMAIN NoWalk
      /\ walk'.phase = v.phase /\ walk'.list = v.list /\ walk'.q = v.q
      /\ walk'.limit = v.limit /\ walk'.offset = v.offset /\ walk'.t = v.t
      /\ walk'.found = v.found /\ walk'.tied = v.tied
      /\ walk'.stayed = v.stayed \cap Rows(v)'
      /\ ~walk'.left => ~v.left /\ Rows(w) \subseteq Rows(v)'
  BY WatchedFields DEF WalkShape
<1>2. WalkShape(walk)'
  BY <1>1 DEF WalkShape
<1>3. Rows(walk)' = Rows(v)' /\ \A x : AheadOf(walk, x)' = AheadOf(v, x)'
  BY <1>1 DEF Rows, RecordsListed, MemoryListed, Instant, AheadOf, Key
<1>4. ASSUME ~walk'.left, ~walk'.tied, NEW x \in walk'.stayed, x \notin walk'.found
      PROVE  v.phase # "done" /\ Cardinality(AheadOf(walk, x)') >= walk'.offset
  <2>1. /\ Rows(w) \subseteq Rows(v)' /\ x \in Rows(w)
        /\ v.phase # "done" /\ Cardinality(AheadOf(w, x)) >= v.offset
    BY <1>1, <1>4
  <2>2. \A y \in Rows(w) : Key(v, y)' = Key(w, y)
    <3>1. \A y : Key(v, y)' = Key(w, y)'
      BY DEF Key
    <3> QED
      BY <3>1 DEF KeysKept
  <2>3. AheadOf(w, x) \subseteq AheadOf(v, x)'
    BY <2>1, <2>2 DEF AheadOf
  <2>4. IsFiniteSet(AheadOf(v, x)')
    BY FS_Subset DEF RowsGood, AheadOf
  <2>5. IsFiniteSet(AheadOf(w, x))
    BY <2>3, <2>4, FS_Subset
  <2>6. /\ Cardinality(AheadOf(v, x)') \in Nat /\ Cardinality(AheadOf(w, x)) \in Nat
        /\ Cardinality(AheadOf(w, x)) <= Cardinality(AheadOf(v, x)')
    BY <2>3, <2>4, <2>5, FS_Subset, FS_CardinalityType
  <2>7. v.offset \in Nat
    BY DEF WalkShape
  <2> QED
    BY <1>1, <1>3, <2>1, <2>6, <2>7
<1>5. OnCourse(walk)'
  BY <1>1, <1>3, <1>4 DEF OnCourse
<1>6. WalkFindsAll'
  BY <1>1, <1>4 DEF WalkFindsAll
<1> QED
  BY <1>2, <1>5, <1>6 DEF WalkInv

\* The client takes up a list from its beginning: nothing is behind it.
LEMMA StartOnCourse ==
  ASSUME RowsGood, StartWalk
  PROVE  WalkInv'
<1>0. PICK limit \in WalkLimits :
        \E w \in {[NoWalk EXCEPT !.list = "records", !.limit = limit]} \cup
                 {[NoWalk EXCEPT !.list = "authorizations", !.q = q, !.limit = limit] :
                     q \in WalkQueries} :
          walk' = [w EXCEPT !.phase = "ask", !.stayed = Rows(w)]
  BY DEF StartWalk
<1>1. ASSUME NEW w \in {[NoWalk EXCEPT !.list = "records", !.limit = limit]} \cup
                      {[NoWalk EXCEPT !.list = "authorizations", !.q = q, !.limit = limit] :
                          q \in WalkQueries}
      PROVE  /\ DOMAIN w = DOMAIN NoWalk /\ w.limit = limit /\ w.offset = 0
             /\ w.phase = "idle" /\ w.found = {}
  BY DEF NoWalk
<1>2. PICK w : /\ DOMAIN w = DOMAIN NoWalk /\ w.limit = limit /\ w.offset = 0
               /\ w.phase = "idle" /\ w.found = {}
               /\ walk' = [w EXCEPT !.phase = "ask", !.stayed = Rows(w)]
  BY <1>0, <1>1
<1> DEFINE v == walk'
<1>3. /\ DOMAIN v = DOMAIN NoWalk /\ v.limit = limit /\ v.offset = 0 /\ v.phase = "ask"
      /\ v.list = w.list /\ v.q = w.q /\ v.found = {} /\ v.stayed = Rows(w)
  BY <1>2 DEF NoWalk
<1>4. limit \in 1..MaxLimit
  BY WalkAssumption
<1>5. UNCHANGED <<records, auths, residents, now>>
  BY DEF StartWalk, vars
<1>6. Rows(walk)' = Rows(w) /\ \A x : AheadOf(walk, x)' = AheadOf(w, x)
  BY <1>2, <1>3, <1>5
  DEF Rows, RecordsListed, MemoryListed, MemoryMatches, Live, Instant, AheadOf, Key
<1>7. \A x \in Rows(w) : Cardinality(AheadOf(w, x)) >= 0
  <2> TAKE x \in Rows(w)
  <2>1. IsFiniteSet(AheadOf(w, x))
    BY FS_Subset DEF RowsGood, AheadOf
  <2> QED
    BY <2>1, FS_CardinalityType
<1>8. WalkShape(walk)'
  BY <1>3, <1>4 DEF WalkShape
<1>9. OnCourse(walk)'
  BY <1>3, <1>6, <1>7 DEF OnCourse
<1> QED
  BY <1>3, <1>8, <1>9 DEF WalkInv, WalkFindsAll

\* The list of a walk, and the keys it is sorted by.
KeyOf(w) == IF w.list = "records" THEN [r \in DOMAIN records |-> records[r].entry]
            ELSE [x \in DOMAIN auths |-> auths[x].start]

\* A page of the walk is one of the list of its rows.
LEMMA PagesOf ==
  ASSUME NEW w, w.phase = "list"
  PROVE  /\ Pages(w) = List(Rows(w), KeyOf(w), w.limit, w.offset)
         /\ \A x \in Rows(w) : KeyOf(w)[x] = Key(w, x)
<1>1. CASE w.list = "records"
  <2>1. \A x \in Rows(w) : x \in DOMAIN records
    BY <1>1 DEF Rows, RecordsListed
  <2> QED
    BY <1>1, <2>1 DEF Pages, ListRecords, Rows, KeyOf, Key
<1>2. CASE w.list # "records"
  <2>1. \A x \in Rows(w) : x \in DOMAIN auths
    BY <1>2 DEF Rows, MemoryListed
  <2> QED
    BY <1>2, <2>1 DEF Pages, ListAuthorizations, Rows, Instant, KeyOf, Key
<1> QED
  BY <1>1, <1>2

\* The client reads a page: a row that is not on it and was not on an earlier
\* one is on a later one, so that the client does not stop.
LEMMA ReadOnCourse ==
  ASSUME RowsGood, RowsGood', WalkInv, ReadPage
  PROVE  WalkInv'
<1>1. PICK w \in {walk}, r \in Pages(walk) :
        \E v \in {[w EXCEPT !.found = @ \cup {r.items[i] : i \in 1..Len(r.items)},
                            !.tied = @ \/ Tied(w),
                            !.offset = @ + r.size,
                            !.phase = IF w.offset + r.size >= r.total THEN "done" ELSE "ask"]} :
          walk' = Watched(w, v)
  BY DEF ReadPage
<1>2. w = walk /\ w.phase = "list" /\ WalkShape(w) /\ OnCourse(w)
  BY <1>1 DEF ReadPage, WalkInv
<1> DEFINE v == [w EXCEPT !.found = @ \cup {r.items[i] : i \in 1..Len(r.items)},
                          !.tied = @ \/ Tied(w),
                          !.offset = @ + r.size,
                          !.phase = IF w.offset + r.size >= r.total THEN "done" ELSE "ask"]
<1>3. walk' = Watched(w, v)
  BY <1>1
<1> DEFINE S == Rows(w)
           key == KeyOf(w)
<1>4. r \in List(S, key, w.limit, w.offset) /\ \A x \in S : key[x] = Key(w, x)
  BY <1>2, PagesOf
<1>5. IsFiniteSet(S) /\ \A x \in S : key[x] \in Nat
  BY <1>4 DEF RowsGood
<1>6. w.limit \in 1..MaxLimit /\ w.limit \in Nat /\ w.offset \in Nat
  BY <1>2, ListAssumption DEF WalkShape
<1>7. r.size = w.limit /\ r.total \in Nat
  BY <1>5, <1>4, <1>6, AnswerOf
<1>8. /\ DOMAIN v = DOMAIN NoWalk /\ v.list = w.list /\ v.stayed = w.stayed /\ v.left = w.left
      /\ v.found = w.found \cup {r.items[i] : i \in 1..Len(r.items)}
      /\ v.offset = w.offset + r.size /\ v.limit = w.limit
      /\ v.phase = IF w.offset + r.size >= r.total THEN "done" ELSE "ask"
      /\ v.tied = (w.tied \/ Tied(w))
  BY <1>2 DEF WalkShape, NoWalk
<1>9. WalkShape(v)
  BY <1>6, <1>7, <1>8 DEF WalkShape
<1> HIDE DEF v, S, key
<1>10. ASSUME ~w.left, ~v.tied, NEW x \in w.stayed, x \notin v.found
       PROVE  v.phase # "done" /\ Cardinality(AheadOf(w, x)) >= v.offset
  <2>1. ~w.tied /\ ~Tied(w)
    BY <1>8, <1>10
  <2>2. x \in S /\ Cardinality(AheadOf(w, x)) >= w.offset
    BY <1>2, <1>8, <1>10, <2>1 DEF OnCourse, S
  <2>3. AheadOf(w, x) = Higher(S, key, x)
    BY <1>4, <2>2 DEF AheadOf, Higher, S
  <2>4. Untied(S, key)
    BY <1>4, <2>1 DEF Tied, Untied, S
  <2>5. \/ \E j \in 1..Len(r.items) : r.items[j] = x
        \/ /\ Cardinality(Higher(S, key, x)) >= w.offset + w.limit
           /\ r.total > w.offset + w.limit
    BY <1>4, <1>5, <1>6, <2>2, <2>3, <2>4, PageFinds
  <2>6. ~ \E j \in 1..Len(r.items) : r.items[j] = x
    BY <1>8, <1>10
  <2> QED
    BY <1>6, <1>7, <1>8, <2>3, <2>5, <2>6
<1>11. KeysKept
  BY DEF ReadPage, vars, KeysKept, Key
<1> QED
  BY <1>2, <1>3, <1>8, <1>9, <1>10, <1>11, Carried DEF OnCourse

\* A step of the walk is one of the service, as an answer to the client is no
\* more to the service than the time that passes.
LEMMA WalkSteps == ~CoarseClock /\ [WalkNext]_walkVars => [Next]_vars
<1>1. ~CoarseClock /\ AskPage => Tick \/ UNCHANGED vars
  BY DEF AskPage, ReadClock, Tick, storeVars, vars
<1> QED
  BY <1>1 DEF WalkNext, StartWalk, ReadPage, walkVars, vars, Next

\* Every step keeps the walk on its course.
LEMMA WalkOnCourse ==
  ASSUME RowsGood, RowsGood', KeysKept, WalkInv, [WalkNext]_walkVars
  PROVE  WalkInv'
<1>1. ASSUME NEW w, w = walk, NEW v, v.list = w.list, v.stayed = w.stayed, v.left = w.left,
             v.tied = w.tied, v.found = w.found, v.offset = w.offset, v.phase # "done",
             WalkShape(v), w.phase \in {"ask", "list"}, walk' = Watched(w, v)
      PROVE  WalkInv'
  <2>1. WalkShape(w) /\ OnCourse(w)
    BY <1>1 DEF WalkInv
  <2> QED
    BY <1>1, <2>1, Carried DEF OnCourse
<1>2. CASE UNCHANGED walk /\ walk.phase \notin {"ask", "list"}
  BY <1>2 DEF WalkInv, WalkShape, WalkFindsAll, NoWalk
<1>3. ASSUME NEW w, w = walk, walk' = Watched(w, w)
      PROVE  WalkInv'
  <2>1. CASE w.phase \in {"ask", "list"}
    <3>1. WalkShape(w)
      BY <1>3 DEF WalkInv
    <3> QED
      BY <1>1, <1>3, <2>1, <3>1
  <2>2. CASE w.phase \notin {"ask", "list"}
    BY <1>2, <1>3, <2>2 DEF Watched
  <2> QED
    BY <2>1, <2>2
<1>4. CASE AskPage
  <2>1. PICK w \in {walk}, v \in {[walk EXCEPT !.phase = "list", !.t = now]} :
          walk' = Watched(w, v)
    BY <1>4 DEF AskPage
  <2>2. w = walk /\ w.phase = "ask" /\ WalkShape(w)
    BY <1>4, <2>1 DEF AskPage, WalkInv
  <2>3. /\ v.list = w.list /\ v.stayed = w.stayed /\ v.left = w.left
        /\ v.tied = w.tied /\ v.found = w.found /\ v.offset = w.offset
        /\ v.phase = "list" /\ v.limit = w.limit /\ DOMAIN v = DOMAIN w
    BY <2>1, <2>2 DEF WalkShape, NoWalk
  <2>4. WalkShape(v)
    BY <2>2, <2>3 DEF WalkShape
  <2> QED
    BY <1>1, <2>1, <2>2, <2>3, <2>4
<1>5. CASE UNCHANGED walkVars
  BY <1>5 DEF walkVars, vars, WalkInv, WalkShape, OnCourse, WalkFindsAll, Rows, Instant, Key,
     AheadOf, RecordsListed, MemoryListed, MemoryMatches, Live
<1>6. CASE Next /\ \E w \in {walk} : walk' = Watched(w, w)
  BY <1>3, <1>6
<1> QED
  BY <1>4, <1>5, <1>6, StartOnCourse, ReadOnCourse DEF WalkNext

\* WalkFindsAll, for a clock whose readings differ, any number of rows, any
\* queries and any limits that the store grants: a client that goes from page
\* to page misses no row that was in the list all along, unless a row left
\* the list or two of its rows had the same time.
THEOREM WalksFindAll ==
  ASSUME ~CoarseClock
  PROVE  WalkSpec => []WalkFindsAll
<1>0. [WalkNext]_walkVars => [Next]_vars
  BY WalkSteps
<1>1. WalkSpec => Spec
  BY <1>0, PTL DEF WalkSpec, WalkInit, Spec
<1>2. WalkInit => WalkInv
  BY DEF WalkInit, NoWalk, WalkInv, WalkShape, WalkFindsAll
<1>3. TypeOK /\ StampsFresh /\ FreshIDs /\ [WalkNext]_walkVars => KeysKept
  BY <1>0, StepCases, KeysNext
<1>4. WalkInv => WalkFindsAll
  BY DEF WalkInv
<1> QED
  BY <1>1, <1>2, <1>3, <1>4, WalkOnCourse, RowsAreGood, TypeCorrect, FiniteRecords,
     FiniteAuths, FreshStamps, IDsFresh, PTL DEF WalkSpec
=============================================================================
