--------------------------- MODULE PostgresProofs ---------------------------
(***************************************************************************)
(* Proofs about the service over PostgreSQL that hold for every clock.     *)
(*                                                                         *)
(* A transaction decides by its snapshot and by the rows it has locked,    *)
(* while other requests go on.  PgInv says what of this is still true of   *)
(* the rows of this very instant; with it, a commit is a write as the      *)
(* memory store makes it (StoreStep), and what was proved of such writes   *)
(* holds here too.                                                         *)
(***************************************************************************)
EXTENDS PostgresProperties, ParkingInvariantProofs

-----------------------------------------------------------------------------
(* The invariant                                                           *)

\* The transactions that lock the authorization they are about.
Gated == {"EnterVehicle", "ExitVehicle", "RevokeAuthorization"}

Rows == ResidentID \cup AreaID \cup AuthID

Transaction ==
  [stale : SUBSET Rows, holds : SUBSET Rows, seen : Nat, doomed : BOOLEAN]

\* What is known of a request, in the phases that PostgreSQL adds too.
PgRequestOK(r) ==
  \/ RequestOK(r)
  \/ r.phase = "reply" /\ r.op \in ServiceOps /\ r.in = "ErrInternal"
  \/ r.phase = "lock" /\ r.op \in Gated /\ StoringOK(r) /\ r.cur \in Authorization \cup {None}
  \/ r.phase = "area" /\ r.op = "EnterVehicle" /\ StoringOK(r) /\ r.cur \in Authorization \ {None}
  \/ r.phase = "commit" /\ r.op = "CreateAuthorization" /\ StoringOK(r)
  \/ r.phase = "commit" /\ r.op \in Gated /\ StoringOK(r) /\ r.cur \in Authorization \ {None}
  \/ r.phase = "reread" /\ r.op \in {"ExitVehicle", "RevokeAuthorization"}

\* The rows that the transaction of request r has locked.
Locks(r) ==
  IF r.phase \notin {"area", "commit"} \/ r.op \notin Gated THEN {}
  ELSE IF r.phase = "commit" /\ r.op = "EnterVehicle" THEN {r.id, r.cur.area}
  ELSE {r.id}

\* The transaction of goroutine p is open only while InTx says so, and holds
\* the locks its phase has come to.
Shape(p) ==
  /\ tx[p] \in Transaction
  /\ ~InTx(p) => tx[p] = NoTx
  /\ tx[p].holds = Locks(req[p])

\* The transaction has found its authorization.
Found(p) == InTx(p) /\ req[p].op \in Gated /\ req[p].cur # None

\* The copy of the authorization that the transaction decides by is the row
\* itself, unless others have changed it since.
Snapshot(p) ==
  Found(p) /\ req[p].id \notin tx[p].stale =>
    /\ req[p].id \in DOMAIN auths
    /\ auths[req[p].id] = req[p].cur
    /\ ~req[p].cur.archived

\* Once the transaction has locked the authorization, nobody changes it, and
\* what was decided by it is true still.
Decided(p) ==
  req[p].phase \in {"area", "commit"} /\ req[p].op \in Gated =>
    /\ req[p].id \notin tx[p].stale
    /\ req[p].op = "EnterVehicle" =>
         req[p].cur.status = "pending" /\ InWindow(req[p].cur, req[p].t)
    /\ req[p].op = "ExitVehicle" =>
         req[p].cur.status = "active" /\ EnteredRecords(req[p].id) # {}
    /\ req[p].op = "RevokeAuthorization" => req[p].cur.status = "pending"

\* An entry that can still commit has counted every vehicle in the area, and
\* nobody changes the area once it is locked.
Counted(p) ==
  Found(p) /\ req[p].op = "EnterVehicle" =>
    /\ ~tx[p].doomed => Occupied(req[p].cur.area) <= tx[p].seen
    /\ req[p].phase = "commit" =>
         /\ Live(areas, req[p].cur.area)
         /\ tx[p].seen < areas[req[p].cur.area].capacity

\* The area of a creation that is to commit is there.
AreaThere(p) ==
  At(p, "CreateAuthorization", "commit") => req[p].in.area \in DOMAIN areas

Sound(p) == Shape(p) /\ Snapshot(p) /\ Decided(p) /\ Counted(p) /\ AreaThere(p)

\* No two transactions hold the lock of one row.
Apart == \A p, q \in Proc : p # q => tx[p].holds \cap tx[q].holds = {}

PgTypes ==
  /\ StoreTypeOK
  /\ now \in Time \ {ZeroTime}
  /\ DOMAIN req = Proc
  /\ DOMAIN tx = Proc
  /\ \A p \in Proc : PgRequestOK(req[p])

PgInv ==
  /\ PgTypes /\ Apart /\ RecordsFinite /\ FreshIDs
  /\ \A p \in Proc : Sound(p)

-----------------------------------------------------------------------------
(* The steps of the service over PostgreSQL                                *)

\* Goroutine p ends without a transaction, and no other transaction changes.
TxClosed(p) ==
  /\ DOMAIN tx' = Proc /\ tx'[p] = NoTx
  /\ \A q \in Proc : q # p => tx'[q] = tx[q]

HasStatus(x, s) == x \in DOMAIN auths /\ auths[x].status = s

\* That a vehicle has entered or left already is said of an authorization
\* that has been used.
Answers(p) ==
  req'[p].phase = "reply" =>
    /\ req'[p].in = "ErrAlreadyEntered" => HasStatus(req'[p].id, "active")
    /\ req'[p].in = "ErrAlreadyExited" => HasStatus(req'[p].id, "completed")

\* The change of the request is made, and its audit entry is still to come.
Announced(r) == r.phase \in {"audit", "reread"}
Entry(r) == <<AuditAction(r.op), r.id>>

\* Goroutine p logs nothing but the change it has announced, and announces
\* no other.
Discreet(p) ==
  /\ \A e \in logs' : e \in logs \/ (Announced(req[p]) /\ e = Entry(req[p]))
  /\ Announced(req'[p]) => Announced(req[p]) /\ Entry(req'[p]) = Entry(req[p])

\* Goroutine p moves outside of transactions, or leaves one without a change.
Outer(p) ==
  /\ Alone(p) /\ TxClosed(p)
  /\ PgRequestOK(req'[p]) /\ ~InTx(p)'
  /\ Passes(p) \/ Stamps(p)
  /\ Answers(p) /\ Discreet(p)

\* Goroutine p goes on in a transaction, or begins one.
Inner(p) ==
  /\ Alone(p) /\ Keeps(p) /\ UNCHANGED logs
  /\ PgRequestOK(req'[p]) /\ InTx(p)'
  /\ DOMAIN tx' = Proc /\ \A q \in Proc : q # p => tx'[q] = tx[q]
  /\ \A q \in Proc : q # p => tx'[p].holds \cap tx[q].holds = {}
  /\ Sound(p)'
  /\ req[p].op = "CreateAuthorization" => ~Conflicts(req[p].in)

\* No other transaction holds the row of the request.
Exclusive(p) == \A q \in Proc : q # p => req[p].id \notin tx[q].holds

\* What a change does to the transactions, and what its commit depends on.
Marks(p) ==
  \/ req[p].op \in {"CreateResident", "CreateParkingArea"} /\ UNCHANGED tx
  \/ /\ req[p].op = "CreateAuthorization" /\ req[p].phase = "commit" /\ ~tx[p].doomed
     /\ Written(p, req[p].id, RivalCreations(p))
  \/ /\ req[p].op = "EnterVehicle" /\ Exclusive(p)
     /\ NoOpenRecord(req[p].id) /\ auths[req[p].id] = req[p].cur
     /\ Written(p, req[p].id, RivalEntries(p))
  \/ /\ req[p].op \notin {"CreateResident", "CreateParkingArea",
                           "CreateAuthorization", "EnterVehicle"}
     /\ Exclusive(p)
     /\ Written(p, req[p].id, {})

\* Goroutine p changes a row: an autocommitted statement, or a commit.
Alters(p) ==
  /\ Alone(p) /\ Changes(p) /\ Writes(p) /\ UNCHANGED logs
  /\ PgRequestOK(req'[p]) /\ Announced(req'[p]) /\ req'[p].op = req[p].op
  /\ CASE req[p].op = "EnterVehicle" -> EnterVehicle(req[p].id, req[p].t, req'[p].id)
       [] req[p].op = "ExitVehicle" -> ExitVehicle(req[p].id, req[p].t, req'[p].id)
       [] OTHER -> req'[p].id = req[p].id
  /\ Marks(p)

\* Time passes, nothing happens, or the program starts again.
Pauses ==
  /\ UNCHANGED Maps /\ UNCHANGED logs
  /\ now' = now \/ (now < MaxTime /\ now' = now + 1)
  /\ \/ UNCHANGED <<req, tx>>
     \/ req' = [p \in Proc |-> Idle] /\ tx' = [p \in Proc |-> NoTx]

-----------------------------------------------------------------------------
(* Requests                                                                *)

\* The request of a transaction is one that RequestOK does not know.
LEMMA PhasesOK ==
  ASSUME NEW r, PgRequestOK(r)
  PROVE  /\ r.phase \in {"idle", "get", "clock", "store", "audit"} => RequestOK(r)
         /\ r.phase # "idle" => r.op \in ServiceOps
         /\ Storing(r) => StoringOK(r)
         /\ r.phase \in {"lock", "area", "commit"} => r.op \in Gated \cup {"CreateAuthorization"}
         /\ r.phase = "lock" => r.op \in Gated /\ r.cur \in Authorization \cup {None}
         /\ r.phase \in {"area", "commit"} /\ r.op \in Gated =>
              r.cur \in Authorization \ {None}
         /\ r.phase = "area" => r.op = "EnterVehicle"
         /\ r.phase = "reread" => r.op \in {"ExitVehicle", "RevokeAuthorization"}
         /\ r.phase = "reply" => r.in \in Error \cup {"ErrInternal"}
BY DEF PgRequestOK, RequestOK, Storing, StoringOK, Gated, ServiceOps

\* A goroutine that is outside of transactions is sound.
LEMMA OutsideSound ==
  ASSUME NEW p \in Proc, ~InTx(p)', tx'[p] = NoTx
  PROVE  Sound(p)'
<1>1. NoTx \in Transaction
  BY DEF NoTx, Transaction
<1>2. NoTx.holds = {}
  BY DEF NoTx
<1>3. Locks(req'[p]) = {}
  BY DEF InTx, Locks
<1> QED
  BY <1>1, <1>2, <1>3
  DEF InTx, Sound, Shape, Snapshot, Decided, Counted, AreaThere, Found, At, Locks

\* The types of the requests give those that proofs about stores need.
LEMMA PgKnownTypes == PgTypes => KnownTypes
BY PhasesOK DEF PgTypes, KnownTypes

\* A step of one goroutine keeps the types of the requests.
LEMMA PgTypesNext ==
  ASSUME PgTypes, StoreTypeOK', now' \in Time \ {ZeroTime}, DOMAIN req' = Proc, DOMAIN tx' = Proc,
         NEW p \in Proc, Alone(p), PgRequestOK(req'[p])
  PROVE  PgTypes'
<1>1. \A q \in Proc : PgRequestOK(req'[q])
  BY DEF PgTypes, Alone
<1> QED
  BY <1>1, Zenon DEF PgTypes

-----------------------------------------------------------------------------
(* What the others may count on                                            *)

\* A step of another goroutine spares the transaction of goroutine q: what
\* q has locked does not change, a row that changes is noted as stale, and an
\* area that another vehicle enters dooms the entry that has not counted it.
Spares(q) ==
  /\ tx'[q] \in Transaction
  /\ tx'[q].holds = tx[q].holds /\ tx'[q].seen = tx[q].seen
  /\ tx[q].stale \subseteq tx'[q].stale /\ (tx[q].doomed => tx'[q].doomed)
  /\ ~InTx(q) => tx'[q] = tx[q]
  /\ InTx(q) => \A x \in DOMAIN auths :
                  x \in DOMAIN auths' /\ (x \notin tx'[q].stale => auths'[x] = auths[x])
  /\ \A x \in DOMAIN areas : x \in DOMAIN areas'
  /\ \A x \in tx[q].holds :
       /\ x \in DOMAIN auths =>
            auths'[x] = auths[x] /\ (x \in tx'[q].stale => x \in tx[q].stale)
       /\ x \in DOMAIN areas => areas'[x] = areas[x]
       /\ EnteredRecords(x) # {} => EnteredRecords(x)' # {}
  /\ Found(q) /\ req[q].op = "EnterVehicle" /\ ~tx'[q].doomed =>
       \A a : a = req[q].cur.area => Occupied(a)' <= Occupied(a)

\* A transaction that is spared stays sound.
LEMMA SoundKept ==
  ASSUME PgTypes, RecordsFinite, RecordsFinite', NEW q \in Proc, Sound(q),
         req'[q] = req[q], Spares(q)
  PROVE  Sound(q)'
<1>1. Shape(q)'
  BY DEF Sound, Shape, Spares, InTx
<1>2. Snapshot(q)'
  BY DEF Sound, Snapshot, Spares, Found, InTx
<1>3. Decided(q)'
  <2>1. SUFFICES ASSUME req[q].phase \in {"area", "commit"}, req[q].op \in Gated
                 PROVE  req[q].id \notin tx'[q].stale /\
                        (EnteredRecords(req[q].id) # {} => EnteredRecords(req[q].id)' # {})
    BY DEF Sound, Decided, InWindow
  <2>2. req[q].cur # None
    BY <2>1, PhasesOK DEF PgTypes
  <2>3. req[q].id \notin tx[q].stale /\ req[q].id \in tx[q].holds
    BY <2>1 DEF Sound, Shape, Locks, Decided
  <2>4. req[q].id \in DOMAIN auths
    BY <2>1, <2>2, <2>3 DEF Sound, Snapshot, Found, InTx
  <2> QED
    BY <2>3, <2>4 DEF Spares
<1>4. Counted(q)'
  <2>1. SUFFICES ASSUME Found(q), req[q].op = "EnterVehicle"
                 PROVE  Counted(q)'
    BY DEF Counted, Found, InTx
  <2> DEFINE area == req[q].cur.area
  <2>2. ~tx'[q].doomed => Occupied(area)' <= tx[q].seen
    <3>1. Occupied(area) \in Nat /\ Occupied(area)' \in Nat /\ tx[q].seen \in Nat
      <4>1. Occupied(area) \in Nat
        BY OccupiedNat
      <4>2. Inside(area)' \subseteq DOMAIN records'
        BY DEF Inside
      <4>3. Occupied(area)' \in Nat
        BY <4>2, FS_Subset, FS_CardinalityType DEF RecordsFinite, Occupied
      <4> QED
        BY <4>1, <4>3 DEF Sound, Shape, Transaction
    <3> QED
      BY <2>1, <3>1 DEF Spares, Sound, Counted
  <2>3. req[q].phase = "commit" => Live(areas', area) /\ tx[q].seen < areas'[area].capacity
    <3>1. req[q].phase = "commit" =>
            /\ area \in tx[q].holds /\ area \in DOMAIN areas
            /\ Live(areas, area) /\ tx[q].seen < areas[area].capacity
      BY <2>1 DEF Sound, Shape, Locks, Counted, Live, Gated
    <3> QED
      BY <3>1 DEF Spares, Live
  <2> QED
    BY <2>2, <2>3 DEF Counted, Found, InTx, Spares
<1>5. AreaThere(q)'
  BY DEF Sound, AreaThere, At, Spares
<1> QED
  BY <1>1, <1>2, <1>3, <1>4, <1>5 DEF Sound

\* A step that changes no row and leaves a transaction alone spares it.
LEMMA QuietSpares ==
  ASSUME UNCHANGED <<auths, records>>,
         \A x \in DOMAIN areas : x \in DOMAIN areas' /\ areas'[x] = areas[x],
         RecordsFinite, NEW q \in Proc, Shape(q), tx'[q] = tx[q]
  PROVE  Spares(q)
<1>1. \A a : Occupied(a)' = Occupied(a) /\ Occupied(a) \in Nat
  BY OccupiedNat DEF Occupied, Inside
<1>2. \A x : EnteredRecords(x)' = EnteredRecords(x)
  BY DEF EnteredRecords
<1> QED
  BY <1>1, <1>2 DEF Spares, Shape

\* What a commit of row leaves of the other transactions.
LEMMA WrittenTx ==
  ASSUME DOMAIN tx = Proc, NEW p \in Proc, NEW row \in Rows, NEW rivals, Written(p, row, rivals),
         NEW q \in Proc, Shape(q), q # p
  PROVE  /\ DOMAIN tx' = Proc /\ tx'[p] = NoTx
         /\ tx'[q] \in Transaction
         /\ tx'[q].holds = tx[q].holds /\ tx'[q].seen = tx[q].seen
         /\ ~InTx(q) => tx'[q] = tx[q]
         /\ InTx(q) => /\ tx'[q].stale = tx[q].stale \cup {row}
                       /\ tx'[q].doomed <=> tx[q].doomed \/ q \in rivals
<1> DEFINE new == [tx[q] EXCEPT !.stale = @ \cup {row}, !.doomed = @ \/ q \in rivals]
<1>1. tx[q] \in Transaction
  BY DEF Shape
<1>2. tx'[q] = IF ~InTx(q) THEN tx[q] ELSE new
  BY DEF Written, Isolation
<1>3. DOMAIN tx' = Proc /\ tx'[p] = NoTx
  BY DEF Written
<1>4. /\ new \in Transaction
      /\ new.holds = tx[q].holds /\ new.seen = tx[q].seen
      /\ new.stale = tx[q].stale \cup {row}
      /\ new.doomed <=> (tx[q].doomed \/ q \in rivals)
  BY <1>1 DEF Transaction
<1> HIDE DEF new
<1>5. CASE InTx(q)
  <2>1. tx'[q] = new
    BY <1>2, <1>5
  <2> QED
    BY <1>3, <1>4, <1>5, <2>1, Zenon
<1>6. CASE ~InTx(q)
  BY <1>1, <1>2, <1>3, <1>6
<1> QED
  BY <1>5, <1>6

\* A commit of row spares a transaction that does not hold it, whether the row
\* was there or not.
LEMMA WrittenSpares ==
  ASSUME DOMAIN tx = Proc, NEW p \in Proc, NEW row \in Rows, NEW rivals, Written(p, row, rivals),
         NEW q \in Proc, q # p, Shape(q),
         \A x \in DOMAIN auths : x \in DOMAIN auths' /\ (x # row => auths'[x] = auths[x]),
         \A x \in DOMAIN areas : x \in DOMAIN areas' /\ (x # row => areas'[x] = areas[x]),
         row \in tx[q].holds => row \notin DOMAIN auths /\ UNCHANGED areas,
         \A x \in tx[q].holds : EnteredRecords(x) # {} => EnteredRecords(x)' # {},
         Found(q) /\ req[q].op = "EnterVehicle" /\ q \notin rivals =>
           \A a : a = req[q].cur.area => Occupied(a)' <= Occupied(a)
  PROVE  Spares(q)
<1>1. CASE InTx(q)
  <2>1. /\ tx'[q] \in Transaction
        /\ tx'[q].holds = tx[q].holds /\ tx'[q].seen = tx[q].seen
        /\ tx'[q].stale = tx[q].stale \cup {row}
        /\ tx'[q].doomed <=> tx[q].doomed \/ q \in rivals
    BY <1>1, WrittenTx
  <2>2. /\ tx[q].stale \subseteq tx'[q].stale /\ (tx[q].doomed => tx'[q].doomed)
        /\ \A x : x \in tx'[q].stale <=> x \in tx[q].stale \/ x = row
    BY <2>1
  <2> QED
    BY <1>1, <2>1, <2>2 DEF Spares
<1>2. CASE ~InTx(q)
  <2>1. tx'[q] = tx[q] /\ tx[q].holds = {}
    BY <1>2, WrittenTx DEF Shape, NoTx
  <2> QED
    BY <1>2, <2>1 DEF Spares, Shape, Found
<1> QED
  BY <1>1, <1>2

\* A row that is written is one of its table.
LEMMA WriterRow ==
  ASSUME PgTypes, NEW p \in Proc, Storing(req[p])
  PROVE  StoringOK(req[p]) /\ req[p].id \in Rows
<1>1. StoringOK(req[p])
  BY PhasesOK DEF PgTypes
<1> QED
  BY <1>1 DEF StoringOK, ServiceOps, Rows

\* A change of goroutine p spares the transactions of the others.
LEMMA AltersSpares ==
  ASSUME PgInv, NEW p \in Proc, Alters(p), NEW q \in Proc, q # p
  PROVE  Spares(q)
<1> DEFINE id == req[p].id
<1>0. /\ DOMAIN tx = Proc /\ Shape(q) /\ RecordsFinite /\ StoreTypeOK /\ FreshIDs
      /\ Writes(p) /\ id \in Rows
  BY WriterRow DEF PgInv, PgTypes, Sound, Alters, Writes
<1>1. /\ \A x \in DOMAIN auths : x \in DOMAIN auths' /\ (x # id => auths'[x] = auths[x])
      /\ \A x \in DOMAIN areas : x \in DOMAIN areas' /\ (x # id => areas'[x] = areas[x])
  <2>1. \A m, k, v : \A x \in DOMAIN m :
          x \in DOMAIN Assign(m, k, v) /\ (x # k => Assign(m, k, v)[x] = m[x])
    BY DEF Assign
  <2>2. \/ UNCHANGED <<areas, auths>>
        \/ UNCHANGED auths /\ \E v : areas' = Assign(areas, id, v)
        \/ UNCHANGED areas /\ \E v : auths' = Assign(auths, id, v)
    BY <1>0, RowWrites
  <2> QED
    BY <2>1, <2>2
<1>2. UNCHANGED records => /\ \A x : EnteredRecords(x)' = EnteredRecords(x)
                           /\ \A a : Occupied(a)' <= Occupied(a)
  <2>1. ASSUME UNCHANGED records, NEW a
        PROVE  Occupied(a)' <= Occupied(a)
    <3>1. Occupied(a)' = Occupied(a) /\ Occupied(a) \in Nat
      BY <1>0, <2>1, OccupiedNat DEF Occupied, Inside
    <3> QED
      BY <3>1
  <2> QED
    BY <2>1 DEF EnteredRecords
<1>3. CASE req[p].op \in {"CreateResident", "CreateParkingArea"} /\ UNCHANGED tx
  <2>1. UNCHANGED <<auths, records>>
    BY <1>0, <1>3 DEF Writes, CreateResident, CreateParkingArea
  <2>2. \A x \in DOMAIN areas : areas'[x] = areas[x]
    BY <1>0, <1>3 DEF Writes, CreateResident, CreateParkingArea, Assign
  <2> QED
    BY <1>0, <1>1, <1>3, <2>1, <2>2, QuietSpares
<1>4. CASE req[p].op = "CreateAuthorization" /\ Written(p, id, RivalCreations(p))
  <2>1. UNCHANGED <<areas, records>> /\ id \notin DOMAIN auths
    BY <1>0, <1>4 DEF Writes, CreateAuthorization, FreshIDs, Creates
  <2> QED
    BY <1>0, <1>1, <1>2, <1>4, <2>1, WrittenSpares
<1>5. CASE /\ req[p].op = "EnterVehicle" /\ Exclusive(p)
           /\ auths[id] = req[p].cur /\ Written(p, id, RivalEntries(p))
  <2>1. PICK rec, t : EnterVehicle(id, t, rec)
    BY <1>0, <1>5 DEF Writes
  <2>2. \A x : EnteredRecords(x) \subseteq EnteredRecords(x)'
    BY <2>1 DEF EnterVehicle, Assign, EnteredRecords
  <2>3. ASSUME Found(q), req[q].op = "EnterVehicle", q \notin RivalEntries(p), NEW a, a = req[q].cur.area
        PROVE  Occupied(a)' <= Occupied(a)
    <3>1. a # auths[id].area
      BY <1>5, <2>3 DEF RivalEntries, Found
    <3>2. Occupied(a) \in Nat
      BY <1>0, OccupiedNat
    <3>3. Occupied(a)' = Occupied(a)
      BY <1>0, <2>1, <3>1, EntryCounts
    <3> QED
      BY <3>2, <3>3
  <2>4. \A x \in tx[q].holds : EnteredRecords(x) # {} => EnteredRecords(x)' # {}
    BY <2>2
  <2>5. id \notin tx[q].holds
    BY <1>5 DEF Exclusive
  <2>6. Found(q) /\ req[q].op = "EnterVehicle" /\ q \notin RivalEntries(p) =>
          \A a : a = req[q].cur.area => Occupied(a)' <= Occupied(a)
    BY <2>3
  <2> HIDE DEF id
  <2> QED
    BY <1>0, <1>1, <1>5, <2>4, <2>5, <2>6, WrittenSpares
<1>6. CASE Exclusive(p) /\ Written(p, id, {}) /\ req[p].op = "ExitVehicle"
  <2>1. PICK rec, t : ExitVehicle(id, t, rec)
    BY <1>0, <1>6 DEF Writes
  <2>2. \A x : x # id => EnteredRecords(x) \subseteq EnteredRecords(x)'
    BY <2>1 DEF ExitVehicle, Assign, EnteredRecords
  <2>3. \A x \in tx[q].holds : EnteredRecords(x) # {} => EnteredRecords(x)' # {}
    BY <1>6, <2>2 DEF Exclusive
  <2>4. \A a : Occupied(a)' <= Occupied(a)
    <3> TAKE a
    <3>1. Occupied(a)' = Occupied(a) - 1 \/ Occupied(a)' = Occupied(a)
      BY <1>0, <2>1, ExitCounts
    <3>2. Occupied(a) \in Nat
      BY <1>0, OccupiedNat
    <3> QED
      BY <3>1, <3>2
  <2>5. id \notin tx[q].holds
    BY <1>6 DEF Exclusive
  <2> HIDE DEF id
  <2> QED
    BY <1>0, <1>1, <1>6, <2>3, <2>4, <2>5, WrittenSpares
<1>7. CASE /\ req[p].op \notin {"CreateResident", "CreateParkingArea", "CreateAuthorization",
                                "EnterVehicle", "ExitVehicle"}
           /\ Exclusive(p) /\ Written(p, id, {})
  <2>1. UNCHANGED records
    BY <1>0, <1>7 DEF Writes, UpdateResident, ArchiveResident, UpdateParkingArea,
       ArchiveParkingArea, UpdateAuthorization, ArchiveAuthorization, RevokeAuthorization
  <2>2. id \notin tx[q].holds
    BY <1>7 DEF Exclusive
  <2>3. \A x \in tx[q].holds : EnteredRecords(x) # {} => EnteredRecords(x)' # {}
    BY <1>2, <2>1
  <2>4. \A a : Occupied(a)' <= Occupied(a)
    BY <1>2, <2>1
  <2> HIDE DEF id
  <2> QED
    BY <1>0, <1>1, <1>7, <2>2, <2>3, <2>4, WrittenSpares
<1> QED
  BY <1>3, <1>4, <1>5, <1>6, <1>7 DEF Alters, Marks

\* The kinds of steps of the service over PostgreSQL.
PgStoreStep == Pauses \/ \E p \in Proc : Outer(p) \/ Inner(p) \/ Alters(p)

\* Each is a step of a store: what the memory store does in one critical
\* section happens at the commit.
LEMMA PgIsStore ==
  ASSUME PgTypes, PgStoreStep
  PROVE  StoreStep
<1> KnownTypes
  BY PgKnownTypes
<1>1. CASE Pauses
  <2>1. now' \in Nat /\ now' >= now
    BY <1>1, TimeAssumption DEF PgTypes, Time, Pauses
  <2>2. \A p \in Proc : req'[p] = req[p] \/ ~Storing(req'[p])
    BY <1>1 DEF Pauses, Storing, Idle, Request
  <2> QED
    BY <1>1, <2>1, <2>2 DEF Pauses, Rests, StoreStep
<1>2. ASSUME NEW p \in Proc, Outer(p)
      PROVE  StoreStep
  BY <1>2, PassesRests DEF Outer, StoreStep, Moves
<1>3. ASSUME NEW p \in Proc, Inner(p) \/ Alters(p)
      PROVE  StoreStep
  BY <1>3 DEF Inner, Alters, StoreStep, Moves
<1> QED
  BY <1>1, <1>2, <1>3 DEF PgStoreStep

\* What a step leaves of the types.
LEMMA PgTypesKept ==
  ASSUME PgTypes, PgStoreStep, DOMAIN req' = Proc
  PROVE  PgTypes'
<1>1. CASE Pauses
  <2>1. now' \in Time \ {ZeroTime}
    BY <1>1, ClockType DEF PgTypes, Pauses
  <2>2. \A p \in Proc : PgRequestOK(req'[p])
    BY <1>1, IdleOK DEF PgTypes, Pauses, PgRequestOK
  <2>3. DOMAIN tx' = Proc
    BY <1>1 DEF PgTypes, Pauses
  <2>4. StoreTypeOK'
    BY <1>1 DEF PgTypes, Pauses, Maps, StoreTypeOK
  <2> QED
    BY <2>1, <2>2, <2>3, <2>4, Zenon DEF PgTypes
<1>2. ASSUME NEW p \in Proc, Outer(p) \/ Inner(p)
      PROVE  PgTypes'
  <2>1. Alone(p) /\ PgRequestOK(req'[p]) /\ DOMAIN tx' = Proc
    BY <1>2 DEF Outer, Inner, TxClosed
  <2>2. StoreTypeOK'
    BY <1>2 DEF Outer, Inner, Passes, Stamps, Keeps, Maps, PgTypes, StoreTypeOK
  <2>3. now' \in Time \ {ZeroTime}
    BY <1>2, ClockType DEF Outer, Inner, Passes, Stamps, Keeps, PgTypes
  <2> QED
    BY <2>1, <2>2, <2>3, PgTypesNext
<1>3. ASSUME NEW p \in Proc, Alters(p)
      PROVE  PgTypes'
  <2>1. Alone(p) /\ PgRequestOK(req'[p]) /\ Writes(p) /\ now' = now
    BY <1>3 DEF Alters, Changes
  <2>2. StoreTypeOK'
    BY <2>1, PgKnownTypes, WritesType
  <2>3. DOMAIN tx' = Proc
    BY <1>3 DEF Alters, Marks, Written, PgTypes
  <2> QED
    BY <2>1, <2>2, <2>3, PgTypesNext DEF PgTypes
<1> QED
  BY <1>1, <1>2, <1>3 DEF PgStoreStep

\* A change of goroutine p ends its transaction.
LEMMA AltersClosed ==
  ASSUME PgInv, NEW p \in Proc, Alters(p)
  PROVE  ~InTx(p)' /\ tx'[p] = NoTx
<1>1. ~InTx(p)'
  BY DEF Alters, Announced, InTx
<1>2. req[p].op \in {"CreateResident", "CreateParkingArea"} => tx[p] = NoTx
  <2>1. PgRequestOK(req[p]) /\ Shape(p)
    BY DEF PgInv, PgTypes, Sound
  <2> QED
    BY <2>1, PhasesOK DEF InTx, Shape, Gated
<1> QED
  BY <1>1, <1>2 DEF Alters, Marks, Written

\* PgInv is kept: each transaction stays sound whatever the others do.
LEMMA PgInvKept ==
  ASSUME PgInv, PgStoreStep, DOMAIN req' = Proc
  PROVE  PgInv'
<1>1. PgTypes' /\ StoreStep
  BY PgTypesKept, PgIsStore DEF PgInv
<1>2. RecordsFinite' /\ FreshIDs'
  BY <1>1, PgKnownTypes, FiniteNext, FreshIDsNext DEF PgInv
<1>3. CASE Pauses /\ UNCHANGED <<req, tx>>
  <2>1. ASSUME NEW q \in Proc
        PROVE  Sound(q)'
    <3>1. Sound(q) /\ UNCHANGED <<auths, areas, records>>
      BY <1>3 DEF PgInv, Pauses, Maps
    <3> QED
      BY <1>2, <1>3, <3>1, QuietSpares, SoundKept DEF PgInv, Sound
  <2>2. Apart'
    BY <1>3 DEF PgInv, Apart
  <2> QED
    BY <1>1, <1>2, <2>1, <2>2 DEF PgInv
<1>4. CASE Pauses /\ req' = [p \in Proc |-> Idle] /\ tx' = [p \in Proc |-> NoTx]
  <2>1. \A q \in Proc : ~InTx(q)' /\ tx'[q] = NoTx
    BY <1>4 DEF InTx, Idle, Request
  <2>2. \A q \in Proc : Sound(q)'
    BY <2>1, OutsideSound
  <2>3. Apart'
    BY <1>4 DEF Apart, NoTx
  <2> QED
    BY <1>1, <1>2, <2>2, <2>3 DEF PgInv
<1>5. ASSUME NEW p \in Proc, Alone(p), Sound(p)', \A q \in Proc : q # p => Spares(q),
             \A q \in Proc : q # p => tx'[p].holds \cap tx[q].holds = {}
      PROVE  PgInv'
  <2>1. \A q \in Proc : Sound(q)'
    BY <1>2, <1>5, SoundKept DEF PgInv, Alone
  <2>2. \A q \in Proc : q # p => tx'[q].holds = tx[q].holds
    BY <1>5 DEF Spares
  <2>3. Apart'
    BY <1>5, <2>2 DEF PgInv, Apart
  <2> QED
    BY <1>1, <1>2, <2>1, <2>3 DEF PgInv
<1>6. ASSUME NEW p \in Proc, Outer(p)
      PROVE  PgInv'
  <2>1. Sound(p)' /\ tx'[p].holds = {}
    BY <1>6, OutsideSound DEF Outer, TxClosed, NoTx
  <2>2. UNCHANGED <<auths, areas, records>> /\ \A q \in Proc : q # p => tx'[q] = tx[q]
    BY <1>6 DEF Outer, TxClosed, Passes, Stamps, Maps
  <2>3. \A q \in Proc : q # p => Spares(q)
    BY <2>2, QuietSpares DEF PgInv, Sound
  <2> QED
    BY <1>5, <1>6, <2>1, <2>3 DEF Outer
<1>7. ASSUME NEW p \in Proc, Inner(p)
      PROVE  PgInv'
  <2>1. UNCHANGED <<auths, areas, records>> /\ \A q \in Proc : q # p => tx'[q] = tx[q]
    BY <1>7 DEF Inner, Keeps, Maps
  <2>2. \A q \in Proc : q # p => Spares(q)
    BY <2>1, QuietSpares DEF PgInv, Sound
  <2> QED
    BY <1>5, <1>7, <2>2 DEF Inner
<1>8. ASSUME NEW p \in Proc, Alters(p)
      PROVE  PgInv'
  <2>1. Sound(p)' /\ tx'[p].holds = {}
    BY <1>8, AltersClosed, OutsideSound DEF NoTx
  <2>2. \A q \in Proc : q # p => Spares(q)
    BY <1>8, AltersSpares
  <2> QED
    BY <1>5, <1>8, <2>1, <2>2 DEF Alters
<1> QED
  BY <1>3, <1>4, <1>6, <1>7, <1>8 DEF PgStoreStep, Pauses

-----------------------------------------------------------------------------
(* Every step is of one of these kinds                                     *)

\* A transaction that is rolled back, and any request that is refused.
LEMMA RollbackOuter ==
  ASSUME PgInv, NEW p \in Proc, NEW err \in Error \cup {"nil", "ErrInternal"},
         Rollback(p, err), req[p].phase # "idle",
         err = "ErrAlreadyEntered" => HasStatus(req[p].id, "active"),
         err = "ErrAlreadyExited" => HasStatus(req[p].id, "completed")
  PROVE  Outer(p) /\ DOMAIN req' = Proc
<1> DEFINE r == Request(req[p].op, "reply", req[p].id, ZeroTime, err, None)
<1>0. DOMAIN req = Proc /\ DOMAIN tx = Proc /\ PgRequestOK(req[p])
  BY DEF PgInv, PgTypes
<1>1. DOMAIN req' = Proc /\ \A q \in Proc : req'[q] = IF q = p THEN r ELSE req[q]
  BY <1>0 DEF Rollback, Refuse
<1>2. r.op = req[p].op /\ r.phase = "reply" /\ r.id = req[p].id /\ r.in = err
  BY RequestFields
<1>3. r.op \in ServiceOps /\ err # "nil"
  BY <1>0, <1>2, PhasesOK DEF Rollback, Refuse
<1>4. PgRequestOK(r)
  <2>1. CASE err = "ErrInternal"
    <3> HIDE DEF r
    <3> QED BY <1>2, <1>3, <2>1 DEF PgRequestOK
  <2>2. CASE err # "ErrInternal"
    BY <1>2, <1>3, <2>2, EndPhases DEF PgRequestOK
  <2> QED
    BY <2>1, <2>2
<1> HIDE DEF r
<1>5. Alone(p) /\ req'[p] = r
  BY <1>1 DEF Alone
<1>6. Passes(p)
  BY <1>2, <1>5 DEF Rollback, Refuse, Passes, Storing, Maps, storeVars
<1>7. TxClosed(p)
  BY <1>0 DEF Rollback, TxClosed
<1>8. ~InTx(p)' /\ ~Announced(req'[p]) /\ UNCHANGED logs
  BY <1>2, <1>5 DEF InTx, Announced, Rollback, Refuse, storeVars
<1>9. Answers(p) /\ Discreet(p)
  BY <1>2, <1>5, <1>8 DEF Answers, Discreet
<1> QED
  BY <1>1, <1>4, <1>5, <1>6, <1>7, <1>8, <1>9 DEF Outer

\* No transaction is open outside of the three phases of one.
LEMMA ClosedTx ==
  ASSUME PgInv, NEW p \in Proc, ~InTx(p), UNCHANGED tx
  PROVE  TxClosed(p)
BY DEF PgInv, PgTypes, Sound, Shape, TxClosed

\* A request that stays outside of transactions, as the proofs about the
\* service describe it.
LEMMA ServiceOuter ==
  ASSUME PgInv, NEW p \in Proc, ~InTx(p), UNCHANGED tx,
         NEW r, Becomes(p, r), Calm(p), Outcome(p), ~Storing(req[p])
  PROVE  Outer(p) /\ DOMAIN req' = Proc
<1>1. DOMAIN req' = Proc /\ req'[p] = r /\ RequestOK(r)
  BY DEF Becomes, PgInv, PgTypes
<1>2. TxClosed(p) /\ Alone(p)
  BY ClosedTx DEF Calm
<1>3. PgRequestOK(req'[p]) /\ ~InTx(p)'
  BY <1>1 DEF PgRequestOK, RequestOK, InTx
<1>4. Answers(p)
  <2>1. CASE Refused(p)
    BY <2>1 DEF Refused, Answers, EnterVehicleErr, ExitVehicleErr, HasStatus, Live
  <2>2. CASE Commits(p) \/ Audited(p) \/ GoesOn(p)
    BY <2>2, OutcomePhase DEF Answers
  <2> QED
    BY <2>1, <2>2 DEF Outcome
<1>5. Discreet(p)
  <2>1. ~Commits(p)
    BY DEF Commits, Writes
  <2>2. CASE Audited(p)
    BY <2>2, OutcomePhase DEF Audited, Discreet, Announced, Entry
  <2>3. CASE Refused(p) \/ GoesOn(p)
    BY <2>3, OutcomePhase DEF Refused, GoesOn, Discreet, Announced
  <2> QED
    BY <2>1, <2>2, <2>3 DEF Outcome
<1> QED
  BY <1>1, <1>2, <1>3, <1>4, <1>5 DEF Outer, Calm

\* A goroutine that takes up a request.
LEMMA PgAcceptOuter ==
  ASSUME PgInv, NEW p \in Proc, Accept(p), UNCHANGED tx
  PROVE  Outer(p) /\ DOMAIN req' = Proc
<1>1. req[p] = Idle
  BY DEF Accept, CallCreateResident, CallUpdateResident, CallArchiveResident,
     CallCreateParkingArea, CallUpdateParkingArea, CallArchiveParkingArea,
     CallCreateAuthorization, RejectCreateAuthorization, CallUpdateAuthorization,
     CallArchiveAuthorization, CallRevoke, CallEnterVehicle, CallExitVehicle,
     Call, CallUpdate
<1>2. ~InTx(p) /\ ~Storing(req[p])
  BY <1>1, RequestFields DEF InTx, Storing, Idle
<1>3. Served(p)
  BY <1>1, IdleOK DEF Served, PgInv, PgTypes
<1> QED
  BY <1>2, <1>3, AcceptBecomes, AcceptCalm, AcceptOutcome, ServiceOuter

\* A goroutine before and after its calls of the store.
LEMMA PgServiceOuter ==
  ASSUME PgInv, NEW p \in Proc, PgServiceStep(p)
  PROVE  Outer(p) /\ DOMAIN req' = Proc
<1>1. req[p].phase \in {"get", "clock", "audit", "reply"} /\ UNCHANGED tx
  BY DEF PgServiceStep, GetUpdateResident, GetUpdateParkingArea, GetUpdateAuthorization,
     Stamp, StampUpdateAuthorization, Audit, Reply, At
<1>2. ~InTx(p) /\ ~Storing(req[p])
  BY <1>1 DEF InTx, Storing
<1>3. CASE Reply(p)
  <2>1. DOMAIN req' = Proc /\ req'[p] = Idle /\ Alone(p) /\ UNCHANGED now /\ UNCHANGED logs
    BY <1>3 DEF Reply, Alone, PgInv, PgTypes
  <2>2. req'[p].phase = "idle"
    BY <2>1, RequestFields DEF Idle
  <2>3. TxClosed(p) /\ PgRequestOK(req'[p])
    BY <1>1, <1>2, <2>1, ClosedTx, IdleOK DEF PgRequestOK
  <2>4. Passes(p)
    BY <1>3, <2>1, <2>2 DEF Reply, Passes, Storing, Maps
  <2> QED
    BY <2>1, <2>2, <2>3, <2>4 DEF Outer, Answers, Discreet, Announced, InTx
<1>4. CASE ~Reply(p)
  <2>1. Service(p) /\ req[p].phase \in {"get", "clock", "audit"}
    BY <1>4 DEF PgServiceStep, Service, GetUpdateResident, GetUpdateParkingArea,
       GetUpdateAuthorization, Stamp, StampUpdateAuthorization, Audit, At
  <2>2. Served(p)
    BY <2>1, PhasesOK DEF Served, PgInv, PgTypes
  <2> QED
    BY <1>1, <1>2, <2>1, <2>2, ServiceBecomes, ServiceCalm, ServiceOutcome, ServiceOuter
<1> QED
  BY <1>3, <1>4

\* A goroutine that goes on to a phase of a transaction.
LEMMA GoKeeps ==
  ASSUME PgInv, NEW p \in Proc, Storing(req[p]), req[p].op \in Gated \cup {"CreateAuthorization"},
         NEW phase \in {"lock", "area", "commit"}, NEW cur,
         Go(p, phase, req[p].id, cur), UNCHANGED storeVars
  PROVE  /\ Alone(p) /\ Keeps(p) /\ UNCHANGED logs /\ DOMAIN req' = Proc
         /\ InTx(p)' /\ StoringOK(req'[p])
         /\ req'[p].phase = phase /\ req'[p].op = req[p].op /\ req'[p].id = req[p].id
         /\ req'[p].t = req[p].t /\ req'[p].in = req[p].in /\ req'[p].cur = cur
<1> DEFINE r == Request(req[p].op, phase, req[p].id, req[p].t, req[p].in, cur)
<1>0. DOMAIN req = Proc /\ StoringOK(req[p])
  BY WriterRow DEF PgInv, PgTypes
<1>1. DOMAIN req' = Proc /\ \A q \in Proc : req'[q] = IF q = p THEN r ELSE req[q]
  BY <1>0 DEF Go
<1>2. /\ r.phase = phase /\ r.op = req[p].op /\ r.id = req[p].id
      /\ r.t = req[p].t /\ r.in = req[p].in /\ r.cur = cur
  BY RequestFields
<1> HIDE DEF r
<1>3. StoringOK(r)
  BY <1>0, <1>2 DEF StoringOK, Gated
<1>4. InTx(p)' /\ Storing(req'[p])
  BY <1>1, <1>2 DEF InTx, Storing
<1>5. Keeps(p)
  BY <1>1, <1>2, <1>4 DEF Keeps, Maps, storeVars, Go, Gated, Updates
<1> QED
  BY <1>1, <1>2, <1>3, <1>4, <1>5 DEF Alone, storeVars

\* A creation whose checks have been passed.
LEMMA BeginCreateInner ==
  ASSUME PgInv, NEW p \in Proc, At(p, "CreateAuthorization", "store"),
         PgCreateErr(req[p].in) = "nil", Go(p, "commit", req[p].id, None),
         UNCHANGED <<storeVars, tx>>
  PROVE  Inner(p) /\ DOMAIN req' = Proc
<1>1. Storing(req[p]) /\ req[p].op = "CreateAuthorization" /\ ~InTx(p)
  BY DEF At, Storing, InTx
<1>2. /\ Alone(p) /\ Keeps(p) /\ UNCHANGED logs /\ DOMAIN req' = Proc
      /\ InTx(p)' /\ StoringOK(req'[p])
      /\ req'[p].phase = "commit" /\ req'[p].op = "CreateAuthorization"
      /\ req'[p].in = req[p].in
  BY <1>1, GoKeeps
<1>3. PgRequestOK(req'[p])
  BY <1>2 DEF PgRequestOK
<1>4. tx'[p] = NoTx /\ NoTx \in Transaction /\ NoTx.holds = {}
  BY <1>1 DEF PgInv, Sound, Shape, NoTx, Transaction
<1>5. req[p].in.area \in DOMAIN areas /\ ~Conflicts(req[p].in)
  BY DEF PgCreateErr
<1>6. Sound(p)'
  BY <1>2, <1>4, <1>5
  DEF Sound, Shape, Snapshot, Decided, Counted, AreaThere, Found, At, Locks, Gated, Keeps, Maps
<1>7. DOMAIN tx' = Proc
  BY DEF PgInv, PgTypes
<1> QED
  BY <1>2, <1>3, <1>4, <1>5, <1>6, <1>7 DEF Inner

\* A transaction that takes its snapshot.
LEMMA BeginInner ==
  ASSUME PgInv, NEW p \in Proc, Begin(p)
  PROVE  Inner(p) /\ DOMAIN req' = Proc
<1> DEFINE id == req[p].id
           live == Live(auths, id)
           row == IF live THEN auths[id] ELSE None
           seen == IF live THEN Occupied(row.area) ELSE 0
<1>1. Storing(req[p]) /\ req[p].op \in Gated /\ ~InTx(p)
  BY DEF Begin, Storing, InTx, Gated
<1>2. /\ Alone(p) /\ Keeps(p) /\ UNCHANGED logs /\ DOMAIN req' = Proc
      /\ InTx(p)' /\ StoringOK(req'[p])
      /\ req'[p].phase = "lock" /\ req'[p].op = req[p].op /\ req'[p].id = id
      /\ req'[p].cur = row
  BY <1>1, GoKeeps DEF Begin
<1>3. /\ live => row = auths[id] /\ row \in Authorization /\ id \in DOMAIN auths /\ ~row.archived
      /\ ~live => row = None
  BY DEF PgInv, PgTypes, StoreTypeOK, Live
<1>4. seen \in Nat
  BY OccupiedNat DEF PgInv
<1>5. tx[p] = NoTx /\ DOMAIN tx = Proc /\ tx' = [tx EXCEPT ![p].seen = seen]
  BY <1>1 DEF PgInv, PgTypes, Sound, Shape, Begin
<1> HIDE DEF row, seen
<1>6. /\ tx'[p] = [NoTx EXCEPT !.seen = seen] /\ DOMAIN tx' = Proc
      /\ \A q \in Proc : q # p => tx'[q] = tx[q]
  BY <1>5
<1>7. /\ tx'[p] \in Transaction /\ tx'[p].holds = {} /\ tx'[p].stale = {}
      /\ tx'[p].seen = seen
  BY <1>4, <1>6 DEF NoTx, Transaction
<1>8. PgRequestOK(req'[p])
  BY <1>1, <1>2, <1>3 DEF PgRequestOK
<1>9. Shape(p)' /\ Decided(p)' /\ AreaThere(p)'
  BY <1>1, <1>2, <1>7 DEF Shape, Decided, AreaThere, At, Locks, Gated
<1>10. Snapshot(p)'
  BY <1>2, <1>3 DEF Snapshot, Found, Keeps, Maps
<1>11. Counted(p)'
  <2>1. \A a : Occupied(a)' = Occupied(a) /\ Occupied(a) \in Nat
    BY <1>2, OccupiedNat DEF Keeps, Maps, Occupied, Inside, PgInv
  <2>2. req'[p].cur # None => seen = Occupied(req'[p].cur.area)
    BY <1>2, <1>3 DEF seen
  <2>3. \A a : req'[p].cur # None /\ a = req'[p].cur.area => Occupied(a)' <= seen
    BY <2>1, <2>2
  <2> QED
    BY <1>2, <1>7, <2>3 DEF Counted, Found
<1> QED
  BY <1>1, <1>2, <1>6, <1>7, <1>8, <1>9, <1>10, <1>11 DEF Inner, Sound, Gated

\* A transaction that has locked its authorization.
LEMMA LockInner ==
  ASSUME PgInv, NEW p \in Proc, req[p].phase = "lock",
         req[p].cur # None => ~Held(req[p].id), LockErr(p) = "nil",
         Go(p, IF req[p].op = "EnterVehicle" THEN "area" ELSE "commit", req[p].id, req[p].cur),
         tx' = [tx EXCEPT ![p].holds = {req[p].id}], UNCHANGED storeVars
  PROVE  Inner(p) /\ DOMAIN req' = Proc
<1> DEFINE id == req[p].id
           phase == IF req[p].op = "EnterVehicle" THEN "area" ELSE "commit"
<1>1. Storing(req[p]) /\ req[p].op \in Gated /\ req[p].cur \in Authorization \cup {None}
  BY PhasesOK DEF PgInv, PgTypes, Storing
<1>2. /\ Alone(p) /\ Keeps(p) /\ UNCHANGED logs /\ DOMAIN req' = Proc
      /\ InTx(p)' /\ StoringOK(req'[p])
      /\ req'[p].phase = phase /\ req'[p].op = req[p].op /\ req'[p].id = id
      /\ req'[p].t = req[p].t /\ req'[p].cur = req[p].cur
  BY <1>1, GoKeeps
<1>3. req[p].cur # None /\ id \notin tx[p].stale /\ LockedErr(p) = "nil"
  BY DEF LockErr
<1>4. Found(p) /\ Sound(p) /\ DOMAIN tx = Proc /\ id \in AuthID
  BY <1>1, <1>3, WriterRow DEF Found, InTx, PgInv, PgTypes, StoringOK, Gated
<1>5. /\ tx'[p] = [tx[p] EXCEPT !.holds = {id}] /\ DOMAIN tx' = Proc
      /\ \A q \in Proc : q # p => tx'[q] = tx[q]
  BY <1>4
<1>6. /\ tx'[p] \in Transaction /\ tx'[p].holds = {id} /\ tx'[p].stale = tx[p].stale
      /\ tx'[p].seen = tx[p].seen /\ tx'[p].doomed = tx[p].doomed
  BY <1>4, <1>5 DEF Sound, Shape, Transaction, Rows
<1>7. PgRequestOK(req'[p])
  BY <1>1, <1>2, <1>3 DEF PgRequestOK
<1>8. Shape(p)' /\ AreaThere(p)'
  BY <1>1, <1>2, <1>6 DEF Shape, AreaThere, At, Locks, Gated
<1>9. Snapshot(p)'
  BY <1>2, <1>4, <1>6 DEF Sound, Snapshot, Found, Keeps, Maps
<1>10. Decided(p)'
  <2>1. records' = records
    BY <1>2 DEF Keeps, Maps
  <2>2. /\ req[p].op = "EnterVehicle" => req[p].cur.status = "pending" /\ InWindow(req[p].cur, req[p].t)
        /\ req[p].op = "ExitVehicle" => req[p].cur.status = "active" /\ EnteredRecords(id) # {}
        /\ req[p].op = "RevokeAuthorization" => req[p].cur.status = "pending"
    BY <1>3 DEF LockedErr
  <2> QED
    BY <1>2, <1>3, <1>6, <2>1, <2>2 DEF Decided, InWindow, EnteredRecords
<1>11. Counted(p)'
  <2>1. \A a : Occupied(a)' = Occupied(a)
    BY <1>2 DEF Keeps, Maps, Occupied, Inside
  <2> QED
    BY <1>2, <1>4, <1>6, <2>1 DEF Sound, Counted, Found
<1>12. \A q \in Proc : q # p => tx'[p].holds \cap tx[q].holds = {}
  BY <1>3, <1>6 DEF Held
<1> QED
  BY <1>1, <1>2, <1>5, <1>7, <1>8, <1>9, <1>10, <1>11, <1>12 DEF Inner, Sound, Gated

\* An entry that has locked its area too.
LEMMA LockAreaInner ==
  ASSUME PgInv, NEW p \in Proc, req[p].phase = "area", ~Held(req[p].cur.area),
         LockAreaErr(p) = "nil", Go(p, "commit", req[p].id, req[p].cur),
         tx' = [tx EXCEPT ![p].holds = @ \cup {req[p].cur.area}], UNCHANGED storeVars
  PROVE  Inner(p) /\ DOMAIN req' = Proc
<1> DEFINE id == req[p].id
           area == req[p].cur.area
<1>1. Storing(req[p]) /\ req[p].op = "EnterVehicle" /\ req[p].cur \in Authorization \ {None}
  BY PhasesOK DEF PgInv, PgTypes, Storing, Gated
<1>2. /\ Alone(p) /\ Keeps(p) /\ UNCHANGED logs /\ DOMAIN req' = Proc
      /\ InTx(p)' /\ StoringOK(req'[p])
      /\ req'[p].phase = "commit" /\ req'[p].op = req[p].op /\ req'[p].id = id
      /\ req'[p].t = req[p].t /\ req'[p].cur = req[p].cur
  BY <1>1, GoKeeps DEF Gated
<1>3. Live(areas, area) /\ ~(tx[p].seen >= areas[area].capacity)
  BY DEF LockAreaErr
<1>4. Found(p) /\ Sound(p) /\ DOMAIN tx = Proc /\ area \in AreaID
  BY <1>1 DEF Found, InTx, PgInv, PgTypes, Gated, Authorization
<1>5. /\ tx'[p] = [tx[p] EXCEPT !.holds = @ \cup {area}] /\ DOMAIN tx' = Proc
      /\ \A q \in Proc : q # p => tx'[q] = tx[q]
  BY <1>4
<1>6. /\ tx'[p] \in Transaction /\ tx'[p].holds = tx[p].holds \cup {area}
      /\ tx'[p].stale = tx[p].stale
      /\ tx'[p].seen = tx[p].seen /\ tx'[p].doomed = tx[p].doomed
  BY <1>4, <1>5 DEF Sound, Shape, Transaction, Rows
<1>7. PgRequestOK(req'[p])
  BY <1>1, <1>2 DEF PgRequestOK, Gated
<1>8. tx[p].holds = {id}
  BY <1>1, <1>4 DEF Sound, Shape, Locks, Gated
<1>9. Shape(p)' /\ AreaThere(p)'
  BY <1>1, <1>2, <1>6, <1>8 DEF Shape, AreaThere, At, Locks, Gated
<1>10. Snapshot(p)'
  BY <1>2, <1>4, <1>6 DEF Sound, Snapshot, Found, Keeps, Maps
<1>11. Decided(p)'
  BY <1>1, <1>2, <1>4, <1>6 DEF Sound, Decided, InWindow, Gated
<1>12. Counted(p)'
  <2>1. \A a : Occupied(a)' = Occupied(a)
    BY <1>2 DEF Keeps, Maps, Occupied, Inside
  <2>2. tx[p].seen \in Nat /\ areas[area].capacity \in Nat /\ areas' = areas
    BY <1>2, <1>3, <1>4 DEF Sound, Shape, Transaction, Live, PgInv, PgTypes, StoreTypeOK,
       ParkingArea, Keeps, Maps
  <2>3. tx[p].seen < areas[area].capacity
    BY <1>3, <2>2
  <2> QED
    BY <1>2, <1>3, <1>4, <1>6, <2>1, <2>2, <2>3 DEF Sound, Counted, Found
<1>13. \A q \in Proc : q # p => tx'[p].holds \cap tx[q].holds = {}
  BY <1>6 DEF Held, PgInv, Apart
<1> QED
  BY <1>1, <1>2, <1>5, <1>7, <1>9, <1>10, <1>11, <1>12, <1>13 DEF Inner, Sound

\* No write touches the audit log.
LEMMA WritesNoLog ==
  ASSUME NEW p \in Proc, Writes(p)
  PROVE  UNCHANGED logs
BY DEF Writes, CreateResident, UpdateResident, ArchiveResident, CreateParkingArea,
       UpdateParkingArea, ArchiveParkingArea, CreateAuthorization, UpdateAuthorization,
       ArchiveAuthorization, RevokeAuthorization, EnterVehicle, ExitVehicle

\* A write that is carried out, and whose request goes on to its audit entry
\* or reads its row again.
LEMMA WriteAlters ==
  ASSUME PgInv, NEW p \in Proc, Writes(p), Marks(p), UNCHANGED now,
         NEW phase \in {"audit", "reread"}, NEW x, NEW t, NEW in,
         req' = [req EXCEPT ![p] = Request(req[p].op, phase, x, t, in, None)],
         phase = "reread" => req[p].op \in {"ExitVehicle", "RevokeAuthorization"},
         CASE req[p].op = "EnterVehicle" -> EnterVehicle(req[p].id, req[p].t, x)
           [] req[p].op = "ExitVehicle" -> ExitVehicle(req[p].id, req[p].t, x)
           [] OTHER -> x = req[p].id
  PROVE  Alters(p) /\ DOMAIN req' = Proc
<1> DEFINE r == Request(req[p].op, phase, x, t, in, None)
<1>1. DOMAIN req' = Proc /\ \A q \in Proc : req'[q] = IF q = p THEN r ELSE req[q]
  BY DEF PgInv, PgTypes
<1>2. r.op = req[p].op /\ r.phase = phase /\ r.id = x /\ r # Idle
  BY RequestFields, NotIdle
<1> HIDE DEF r
<1>3. req[p].op \in ServiceOps
  BY PhasesOK DEF PgInv, PgTypes, Writes, Storing
<1>4. PgRequestOK(r)
  BY <1>2, <1>3 DEF PgRequestOK, RequestOK
<1>5. Changes(p) /\ Announced(r)
  BY <1>1, <1>2 DEF Changes, Storing, Announced
<1> QED
  BY <1>1, <1>2, <1>4, <1>5, WritesNoLog DEF Alters, Alone

\* The creation of a resident or an area.
LEMMA PgCreateAlters ==
  ASSUME PgInv, NEW p \in Proc, PgCreateResident(p) \/ PgCreateParkingArea(p)
  PROVE  Alters(p) /\ DOMAIN req' = Proc
<1>1. /\ req[p].op \in {"CreateResident", "CreateParkingArea"} /\ UNCHANGED tx
      /\ Writes(p) /\ Commit(p, req[p].id)
  BY DEF PgCreateResident, PgCreateParkingArea, DoCreateResident, DoCreateParkingArea,
     At, Writes, Storing
<1>2. Marks(p)
  BY <1>1 DEF Marks
<1> QED
  BY <1>1, <1>2, WriteAlters DEF Commit

PgAutocommitted(p) ==
  \/ PgUpdateResident(p) \/ PgUpdateParkingArea(p) \/ PgUpdateAuthorization(p)
  \/ PgArchiveResident(p) \/ PgArchiveParkingArea(p) \/ PgArchiveAuthorization(p)

\* A statement on the row of the request writes it as the memory store would,
\* or is refused.
LEMMA AutocommitCases ==
  ASSUME NEW p \in Proc, PgAutocommitted(p)
  PROVE  /\ req[p].phase = "store"
         /\ req[p].op \notin {"CreateResident", "CreateParkingArea", "CreateAuthorization",
                              "EnterVehicle", "ExitVehicle"}
         /\ ~Held(req[p].id)
         /\ \/ Writes(p) /\ Commit(p, req[p].id) /\ Written(p, req[p].id, {})
            \/ \E err \in (Error \cup {"nil", "ErrInternal"})
                            \ {"ErrAlreadyEntered", "ErrAlreadyExited"} : Rollback(p, err)
<1>0. /\ \A m, id, row : PgUpdateErr(m, id, row) = "nil" => UpdateErr(m, id, row) = "nil"
      /\ \A m, id, row : PgUpdateErr(m, id, row) \in {"nil", "ErrConcurrentModify"}
      /\ \A m, id : ArchiveErr(m, id) \in {"nil", "ErrNotFound"}
      /\ {"nil", "ErrConcurrentModify", "ErrNotFound", "ErrInternal"} \subseteq
           (Error \cup {"nil", "ErrInternal"}) \ {"ErrAlreadyEntered", "ErrAlreadyExited"}
  BY DEF PgUpdateErr, UpdateErr, ArchiveErr, Error
<1>1. CASE PgUpdateResident(p)
  BY <1>0, <1>1 DEF PgUpdateResident, At, Autocommit, Writes, Storing
<1>2. CASE PgUpdateParkingArea(p)
  BY <1>0, <1>2 DEF PgUpdateParkingArea, At, Autocommit, Writes, Storing
<1>3. CASE PgUpdateAuthorization(p)
  BY <1>0, <1>3 DEF PgUpdateAuthorization, PgUpdateAuthorizationErr, At, Autocommit, Writes, Storing
<1>4. CASE PgArchiveResident(p)
  BY <1>0, <1>4 DEF PgArchiveResident, At, Autocommit, Writes, Storing
<1>5. CASE PgArchiveParkingArea(p)
  BY <1>0, <1>5 DEF PgArchiveParkingArea, At, Autocommit, Writes, Storing
<1>6. CASE PgArchiveAuthorization(p)
  BY <1>0, <1>6 DEF PgArchiveAuthorization, At, Autocommit, Writes, Storing
<1> QED
  BY <1>1, <1>2, <1>3, <1>4, <1>5, <1>6 DEF PgAutocommitted

\* A request whose statement is autocommitted.
LEMMA AutocommitMoves ==
  ASSUME PgInv, NEW p \in Proc, PgAutocommitted(p)
  PROVE  (Alters(p) \/ Outer(p)) /\ DOMAIN req' = Proc
<1>1. CASE Writes(p) /\ Commit(p, req[p].id) /\ Written(p, req[p].id, {})
  <2>1. Marks(p)
    BY <1>1, AutocommitCases DEF Marks, Exclusive, Held
  <2> QED
    BY <1>1, <2>1, AutocommitCases, WriteAlters DEF Commit
<1>2. ASSUME NEW err \in (Error \cup {"nil", "ErrInternal"})
                            \ {"ErrAlreadyEntered", "ErrAlreadyExited"}, Rollback(p, err)
      PROVE  Outer(p) /\ DOMAIN req' = Proc
  BY <1>2, AutocommitCases, RollbackOuter
<1> QED
  BY <1>1, <1>2, AutocommitCases

\* A transaction that has come to its commit and is not doomed decided
\* right: the memory store would make the same change at this instant, and
\* nobody else has the authorization locked.
LEMMA CommitReady ==
  ASSUME PgInv, NEW p \in Proc, req[p].phase = "commit", req[p].op \in Gated
  PROVE  LET id == req[p].id  t == req[p].t IN
         /\ id \in DOMAIN auths /\ auths[id] = req[p].cur /\ Exclusive(p)
         /\ req[p].op = "EnterVehicle" /\ ~tx[p].doomed => EnterVehicleErr(id, t) = "nil"
         /\ req[p].op = "ExitVehicle" => ExitVehicleErr(id) = "nil"
         /\ req[p].op = "RevokeAuthorization" => RevokeAuthorizationErr(id) = "nil"
<1> DEFINE id == req[p].id
           t == req[p].t
           area == req[p].cur.area
<1>1. Found(p) /\ Sound(p)
  BY PhasesOK DEF PgInv, PgTypes, Found, InTx
<1>2. /\ id \notin tx[p].stale
      /\ id \in DOMAIN auths /\ auths[id] = req[p].cur /\ ~req[p].cur.archived
  BY <1>1 DEF Sound, Decided, Snapshot
<1>3. Exclusive(p)
  BY <1>1 DEF Sound, Shape, Locks, PgInv, Apart, Exclusive
<1>4. ASSUME req[p].op = "EnterVehicle", ~tx[p].doomed
      PROVE  EnterVehicleErr(id, t) = "nil"
  <2>1. Live(areas, area) /\ Occupied(area) <= tx[p].seen /\ tx[p].seen < areas[area].capacity
    BY <1>1, <1>4 DEF Sound, Counted
  <2>2. Occupied(area) \in Nat /\ tx[p].seen \in Nat /\ areas[area].capacity \in Nat
    BY <1>1, <2>1, OccupiedNat
    DEF Sound, Shape, Transaction, PgInv, PgTypes, StoreTypeOK, ParkingArea, Live
  <2>3. ~Full(area)
    BY <2>1, <2>2 DEF Full
  <2>4. req[p].cur.status = "pending" /\ InWindow(req[p].cur, t)
    BY <1>1, <1>4 DEF Sound, Decided
  <2> QED
    BY <1>2, <2>1, <2>3, <2>4 DEF EnterVehicleErr, Live
<1>5. req[p].op = "ExitVehicle" => ExitVehicleErr(id) = "nil"
  BY <1>1, <1>2 DEF Sound, Decided, ExitVehicleErr, Live
<1>6. req[p].op = "RevokeAuthorization" => RevokeAuthorizationErr(id) = "nil"
  BY <1>1, <1>2 DEF Sound, Decided, RevokeAuthorizationErr, Live
<1> QED
  BY <1>2, <1>3, <1>4, <1>5, <1>6

\* The commit of a creation.
LEMMA CommitCreateAlters ==
  ASSUME PgInv, NEW p \in Proc, CommitCreate(p)
  PROVE  Alters(p) /\ DOMAIN req' = Proc
<1>1. /\ req[p].op = "CreateAuthorization" /\ req[p].phase = "commit"
      /\ CreateAuthorization(req[p].id, req[p].in) /\ Commit(p, req[p].id)
  BY DEF CommitCreate, At
<1>2. req[p].in.area \in DOMAIN areas
  BY <1>1 DEF PgInv, Sound, AreaThere, At
<1>3. Writes(p) /\ Marks(p)
  BY <1>1, <1>2 DEF Writes, Storing, Marks, CommitCreate
<1> QED
  BY <1>1, <1>3, WriteAlters DEF Commit

\* The commit of an entry.
LEMMA CommitEnterAlters ==
  ASSUME PgInv, NEW p \in Proc, CommitEnter(p)
  PROVE  Alters(p) /\ DOMAIN req' = Proc
<1>1. req[p].op = "EnterVehicle" /\ req[p].phase = "commit" /\ ~tx[p].doomed
  BY DEF CommitEnter, At
<1>2. PICK rec \in RecordID : EnterVehicle(req[p].id, req[p].t, rec) /\ Commit(p, rec)
  BY DEF CommitEnter
<1>3. Writes(p)
  BY <1>1, <1>2, CommitReady DEF Writes, Storing, Gated
<1>4. Marks(p)
  BY <1>1, CommitReady DEF Marks, CommitEnter, Gated
<1> QED
  BY <1>1, <1>2, <1>3, <1>4, WriteAlters DEF Commit

\* The commit of an exit or a revocation, whose row is then read again.
LEMMA CommitOthersAlter ==
  ASSUME PgInv, NEW p \in Proc, CommitExit(p) \/ CommitRevoke(p)
  PROVE  Alters(p) /\ DOMAIN req' = Proc
<1>1. /\ req[p].op \in {"ExitVehicle", "RevokeAuthorization"} /\ req[p].phase = "commit"
      /\ Written(p, req[p].id, {})
  BY DEF CommitExit, CommitRevoke, At
<1>2. Marks(p)
  BY <1>1, CommitReady DEF Marks, Gated
<1>3. CASE CommitExit(p)
  <2>1. PICK rec \in RecordID : ExitVehicle(req[p].id, req[p].t, rec) /\ Go(p, "reread", rec, None)
    BY <1>3 DEF CommitExit
  <2>2. Writes(p) /\ req[p].op = "ExitVehicle"
    BY <1>1, <1>3, <2>1, CommitReady DEF Writes, Storing, Gated, CommitExit, At
  <2> QED
    BY <1>2, <2>1, <2>2, WriteAlters DEF Go
<1>4. CASE CommitRevoke(p)
  <2>1. /\ req[p].op = "RevokeAuthorization"
        /\ RevokeAuthorization(req[p].id, req[p].t) /\ Go(p, "reread", req[p].id, None)
    BY <1>4 DEF CommitRevoke, At
  <2>2. Writes(p)
    BY <1>1, <2>1, CommitReady DEF Writes, Storing, Gated
  <2> QED
    BY <1>2, <2>1, <2>2, WriteAlters DEF Go
<1> QED
  BY <1>3, <1>4

\* The statements of a transaction: it goes on, or is rolled back.
LEMMA StatementMoves ==
  ASSUME PgInv, NEW p \in Proc, BeginCreate(p) \/ Begin(p) \/ Lock(p) \/ LockArea(p) \/ CommitRefused(p)
  PROVE  (Inner(p) \/ Outer(p)) /\ DOMAIN req' = Proc
<1>1. CASE BeginCreate(p)
  <2> DEFINE err == PgCreateErr(req[p].in)
  <2>1. req[p].phase = "store"
    BY <1>1 DEF BeginCreate, At
  <2>2. err \in (Error \cup {"nil"}) \ {"ErrAlreadyEntered", "ErrAlreadyExited"}
    BY DEF PgCreateErr, Error
  <2>3. Rollback(p, err) => Outer(p) /\ DOMAIN req' = Proc
    <3> HIDE DEF err
    <3> QED BY <2>1, <2>2, RollbackOuter
  <2> QED
    BY <1>1, <2>3, BeginCreateInner DEF BeginCreate
<1>2. CASE Begin(p)
  BY <1>2, BeginInner
<1>3. CASE Lock(p)
  <2> DEFINE err == LockErr(p)
  <2>1. req[p].phase = "lock" /\ req[p].op \in Gated
    BY <1>3, PhasesOK DEF Lock, PgInv, PgTypes
  <2>2. err \in Error \cup {"nil", "ErrInternal"}
    BY <2>1 DEF LockErr, LockedErr, Error, Gated
  <2>3. /\ err = "ErrAlreadyEntered" => HasStatus(req[p].id, "active")
        /\ err = "ErrAlreadyExited" => HasStatus(req[p].id, "completed")
    <3>1. req[p].cur # None /\ req[p].id \notin tx[p].stale => HasStatus(req[p].id, req[p].cur.status)
      BY <2>1 DEF PgInv, Sound, Snapshot, Found, InTx, HasStatus
    <3>2. err \in {"ErrAlreadyEntered", "ErrAlreadyExited"} =>
            /\ req[p].cur # None /\ req[p].id \notin tx[p].stale
            /\ req[p].cur.status = IF err = "ErrAlreadyEntered" THEN "active" ELSE "completed"
      BY <2>1 DEF LockErr, LockedErr, Gated
    <3> QED
      BY <3>1, <3>2
  <2>4. Rollback(p, err) => Outer(p) /\ DOMAIN req' = Proc
    <3> HIDE DEF err
    <3> QED BY <2>1, <2>2, <2>3, RollbackOuter
  <2> QED
    BY <1>3, <2>1, <2>4, LockInner DEF Lock
<1>4. CASE LockArea(p)
  <2> DEFINE err == LockAreaErr(p)
  <2>1. req[p].phase = "area"
    BY <1>4 DEF LockArea
  <2>2. err \in (Error \cup {"nil", "ErrInternal"}) \ {"ErrAlreadyEntered", "ErrAlreadyExited"}
    BY DEF LockAreaErr, Error
  <2>3. Rollback(p, err) => Outer(p) /\ DOMAIN req' = Proc
    <3> HIDE DEF err
    <3> QED BY <2>1, <2>2, RollbackOuter
  <2> QED
    BY <1>4, <2>1, <2>3, LockAreaInner DEF LockArea
<1>5. CASE CommitRefused(p)
  BY <1>5, RollbackOuter DEF CommitRefused
<1> QED
  BY <1>1, <1>2, <1>3, <1>4, <1>5

\* A committed row is read again, and the audit entry is next, or the request
\* fails without one.
LEMMA RereadOuter ==
  ASSUME PgInv, NEW p \in Proc, Reread(p)
  PROVE  Outer(p) /\ DOMAIN req' = Proc
<1>1. req[p].phase = "reread" /\ req[p].op \in ServiceOps
  BY PhasesOK DEF Reread, PgInv, PgTypes
<1>2. CASE Rollback(p, "ErrNotFound")
  BY <1>1, <1>2, RollbackOuter DEF Error
<1>3. CASE Commit(p, req[p].id) /\ UNCHANGED <<storeVars, tx>>
  <2> DEFINE r == Request(req[p].op, "audit", req[p].id, ZeroTime, None, None)
  <2>1. DOMAIN req' = Proc /\ \A q \in Proc : req'[q] = IF q = p THEN r ELSE req[q]
    BY <1>3 DEF Commit, PgInv, PgTypes
  <2>2. r.op = req[p].op /\ r.phase = "audit" /\ r.id = req[p].id /\ r # Idle
    BY RequestFields, NotIdle
  <2> HIDE DEF r
  <2>3. PgRequestOK(r)
    BY <1>1, <2>2 DEF PgRequestOK, RequestOK
  <2>4. TxClosed(p)
    BY <1>1, <1>3, ClosedTx DEF InTx
  <2>5. Alone(p) /\ Passes(p) /\ ~InTx(p)'
    BY <1>3, <2>1, <2>2 DEF Alone, Passes, Storing, Maps, storeVars, Commit, InTx
  <2>6. Answers(p) /\ Discreet(p)
    BY <1>1, <1>3, <2>1, <2>2 DEF Answers, Discreet, Announced, Entry, storeVars
  <2> QED
    BY <2>1, <2>3, <2>4, <2>5, <2>6 DEF Outer
<1> QED
  BY <1>2, <1>3 DEF Reread

\* A request that fails on the way, or whose audit entry is dropped.
LEMMA FaultOuter ==
  ASSUME PgInv, NEW p \in Proc, Fail(p) \/ DropAudit(p)
  PROVE  Outer(p) /\ DOMAIN req' = Proc
<1>1. CASE Fail(p)
  BY <1>1, RollbackOuter DEF Fail
<1>2. CASE DropAudit(p)
  <2>1. DOMAIN req' = Proc /\ \A q \in Proc : req'[q] = IF q = p THEN Idle ELSE req[q]
    BY <1>2 DEF DropAudit, PgInv, PgTypes
  <2>2. Idle.phase = "idle"
    BY RequestFields DEF Idle
  <2>3. TxClosed(p)
    BY <1>2, ClosedTx DEF DropAudit, InTx
  <2>4. Alone(p) /\ Passes(p) /\ ~InTx(p)'
    BY <1>2, <2>1, <2>2 DEF DropAudit, Alone, Passes, Storing, Maps, storeVars, InTx
  <2>5. Answers(p) /\ Discreet(p)
    BY <1>2, <2>1, <2>2 DEF DropAudit, Answers, Discreet, Announced, storeVars
  <2> QED
    BY <2>1, <2>3, <2>4, <2>5, IdleOK DEF Outer, PgRequestOK
<1> QED
  BY <1>1, <1>2

\* A step of one goroutine, its faults included, is of one of these kinds.
LEMMA GoroutineMoves ==
  ASSUME PgInv, NEW p \in Proc,
         (Accept(p) /\ UNCHANGED tx) \/ PgServe(p) \/ Fail(p) \/ DropAudit(p)
  PROVE  (Outer(p) \/ Inner(p) \/ Alters(p)) /\ DOMAIN req' = Proc
<1>1. CASE (Accept(p) /\ UNCHANGED tx) \/ PgServe(p)
  BY <1>1, PgAcceptOuter, PgServiceOuter, PgCreateAlters, AutocommitMoves, StatementMoves,
     CommitCreateAlters, CommitEnterAlters, CommitOthersAlter, RereadOuter
  DEF PgServe, PgAutocommitted
<1>2. CASE Fail(p) \/ DropAudit(p)
  BY <1>2, FaultOuter
<1> QED
  BY <1>1, <1>2

\* Every step of the service over PostgreSQL is of one of these kinds.
LEMMA PgCases ==
  ASSUME PgInv, [PgNext]_pgVars
  PROVE  PgStoreStep /\ DOMAIN req' = Proc
<1>0. DOMAIN req = Proc
  BY DEF PgInv, PgTypes
<1>1. ASSUME NEW p \in Proc,
             (Accept(p) /\ UNCHANGED tx) \/ PgServe(p) \/ Fail(p) \/ DropAudit(p)
      PROVE  PgStoreStep /\ DOMAIN req' = Proc
  BY <1>1, GoroutineMoves DEF PgStoreStep
<1>2. CASE Crash
  BY <1>2 DEF Crash, PgStoreStep, Pauses, storeVars, Maps
<1>3. CASE ((Tick \/ ClockExhausted) /\ UNCHANGED tx) \/ UNCHANGED pgVars
  BY <1>0, <1>3 DEF Tick, ClockExhausted, pgVars, vars, PgStoreStep, Pauses, Maps
<1> QED
  BY <1>1, <1>2, <1>3 DEF PgNext, PgStep, PgFault

-----------------------------------------------------------------------------
(* The invariant holds                                                     *)

\* The program starts over an empty database or over one that has residents
\* and areas.
PgBegins == PgInit \/ PgStarted

\* How either database looks.
LEMMA PgBegun ==
  ASSUME PgBegins
  PROVE  /\ auths = EmptyMap /\ records = EmptyMap
         /\ req = [p \in Proc |-> Idle] /\ tx = [p \in Proc |-> NoTx]
         /\ StoreTypeOK /\ now \in Time \ {ZeroTime}
<1>1. now \in Time \ {ZeroTime}
  BY TimeAssumption DEF PgBegins, PgInit, Init, PgStarted, Time, ZeroTime
<1>2. StoreTypeOK
  <2>1. CASE PgInit
    BY <2>1 DEF PgInit, Init, StoreInit, EmptyMap, StoreTypeOK
  <2>2. CASE PgStarted
    <3>1. 1 \in Time
      BY <1>1, TimeAssumption DEF Time, ZeroTime
    <3>2. /\ [status |-> "active", archived |-> FALSE, updatedAt |-> 1] \in Resident
          /\ [capacity |-> 1, archived |-> FALSE, updatedAt |-> 1] \in ParkingArea
      BY <3>1 DEF Resident, ResidentStatus, ParkingArea
    <3> QED
      BY <2>2, <3>2 DEF PgStarted, EmptyMap, StoreTypeOK
  <2> QED
    BY <2>1, <2>2 DEF PgBegins
<1> QED
  BY <1>1, <1>2 DEF PgBegins, PgInit, Init, StoreInit, PgStarted

\* With no transaction open there is nothing that could be unsound.
LEMMA PgInvInit == PgBegins => PgInv
<1> SUFFICES ASSUME PgBegins
             PROVE  PgInv
  OBVIOUS
<1>1. /\ auths = EmptyMap /\ records = EmptyMap
      /\ req = [p \in Proc |-> Idle] /\ tx = [p \in Proc |-> NoTx]
      /\ StoreTypeOK /\ now \in Time \ {ZeroTime}
  BY PgBegun
<1>2. Idle.phase = "idle"
  BY RequestFields DEF Idle
<1>3. PgTypes
  BY <1>1, IdleOK DEF PgTypes, PgRequestOK
<1>4. RecordsFinite /\ Apart /\ FreshIDs
  BY <1>1, <1>2, FiniteInit DEF Apart, FreshIDs, Creates, Storing, NoTx
<1>5. NoTx \in Transaction /\ NoTx.holds = {}
  BY DEF NoTx, Transaction
<1>6. \A p \in Proc : Sound(p)
  BY <1>1, <1>2, <1>5
  DEF Sound, Shape, Snapshot, Decided, Counted, AreaThere, Found, At, InTx, Locks
<1> QED
  BY <1>3, <1>4, <1>6 DEF PgInv

\* A step keeps PgInv and is a step of the store.
LEMMA PgInvNext ==
  ASSUME PgInv, [PgNext]_pgVars
  PROVE  PgInv' /\ KnownTypes /\ StoreStep
<1>1. PgStoreStep /\ DOMAIN req' = Proc
  BY PgCases
<1> QED
  BY <1>1, PgInvKept, PgIsStore, PgKnownTypes DEF PgInv

\* PgInv holds in every state of the service over PostgreSQL.
LEMMA PgInvariant == PgSpec \/ PgStartedSpec => []PgInv
<1>1. PgInit \/ PgStarted => PgInv
  BY PgInvInit DEF PgBegins
<1>2. PgInv /\ [PgNext]_pgVars => PgInv'
  BY PgInvNext
<1> QED
  BY <1>1, <1>2, PTL DEF PgSpec, PgStartedSpec

-----------------------------------------------------------------------------
(* What holds for every clock                                              *)

\* PgTypeOK: a request in a transaction carries what the rest of it needs,
\* and a lock is held by one transaction, while its request needs it.
THEOREM PgTyped == PgSpec \/ PgStartedSpec => []PgTypeOK
<1>1. ASSUME PgInv, NEW p \in Proc
      PROVE  TxOK(p) /\ (req[p].phase = "reply" => req[p].in \in Error \cup {"ErrInternal"})
  <2>1. Shape(p) /\ PgRequestOK(req[p])
    BY <1>1 DEF PgInv, PgTypes, Sound
  <2>2. tx[p].seen \in Nat
    BY <2>1 DEF Shape, Transaction
  <2>3. \A q \in Proc \ {p} : tx[p].holds \cap tx[q].holds = {}
    BY <1>1 DEF PgInv, Apart
  <2>4. InTx(p) /\ req[p].op # "CreateAuthorization" => req[p].op \in Gated
    BY <2>1, PhasesOK DEF InTx
  <2>5. InTx(p) /\ req[p].op # "CreateAuthorization" => req[p].cur \in Authorization \cup {None}
    BY <2>1, <2>4, PhasesOK DEF InTx
  <2>6. TxOK(p)
    BY <2>1, <2>2, <2>3, <2>4, <2>5 DEF TxOK, Shape, Locks, InTx
  <2> QED
    BY <2>1, <2>6, PhasesOK
<1>2. PgInv => PgTypeOK
  BY <1>1 DEF PgTypeOK, PgInv, PgTypes
<1> QED
  BY <1>2, PgInvariant, PTL

\* RecordHistory over PostgreSQL: no record vanishes, and one changes once,
\* when the exit closes it, however many transactions run side by side.
THEOREM PgHistoryKept == PgSpec \/ PgStartedSpec => RecordHistory
<1>1. PgInv /\ [PgNext]_pgVars => [KeepsHistory]_vars
  BY PgInvNext, HistoryNext
<1> QED
  BY <1>1, PgInvariant, PTL DEF PgSpec, PgStartedSpec, RecordHistory

\* ArchivedFinal over PostgreSQL: a statement finds the row live under its
\* lock, and a transaction that had it live before has locked it since.
THEOREM PgArchivedKept == PgSpec \/ PgStartedSpec => ArchivedFinal
<1>1. PgInv /\ [PgNext]_pgVars => [KeepsAllArchived]_vars
  BY PgInvNext, ArchivedNext DEF PgInv
<1> QED
  BY <1>1, PgInvariant, PTL DEF PgSpec, PgStartedSpec, ArchivedFinal

\* EntryRespectsCapacity over PostgreSQL: of two entries that have counted the
\* same vehicles the second to commit is aborted, and the area cannot be
\* changed or archived between its lock and the commit.
THEOREM PgEntriesFit == PgSpec \/ PgStartedSpec => EntryRespectsCapacity
<1>1. PgInv /\ [PgNext]_pgVars => [EntersWithinCapacity]_vars
  BY PgInvNext, EntriesNext DEF PgInv
<1> QED
  BY <1>1, PgInvariant, PTL DEF PgSpec, PgStartedSpec, EntryRespectsCapacity

\* The windows in the rows and in flight are bounded.
LEMMA PgWindowsInv == PgSpec \/ PgStartedSpec => []WindowsInv
<1>1. PgInit \/ PgStarted => WindowsInv
  BY PgBegun, WindowsInit DEF PgBegins
<1>2. PgInv /\ WindowsInv /\ [PgNext]_pgVars => WindowsInv'
  BY PgInvNext, WindowsNext
<1> QED
  BY <1>1, <1>2, PgInvariant, PTL DEF PgSpec, PgStartedSpec

\* WindowsBounded over PostgreSQL.
THEOREM PgBoundedWindows == PgSpec \/ PgStartedSpec => []WindowsBounded
<1>1. WindowsInv => WindowsBounded
  BY DEF WindowsInv, WindowsBounded, Bounded
<1> QED
  BY <1>1, PgWindowsInv, PTL

\* Two open records of one authorization are one.
OpenOnce ==
  \A r, s \in DOMAIN records :
    /\ records[r].status = "entered" /\ records[s].status = "entered"
    /\ records[r].auth = records[s].auth
    => r = s

\* An entry opens a record only where none is open, and nothing else opens
\* one.
LEMMA OpenOnceNext ==
  ASSUME PgInv, OpenOnce, PgStoreStep
  PROVE  OpenOnce'
<1>1. CASE UNCHANGED records
  BY <1>1 DEF OpenOnce
<1>2. ASSUME NEW p \in Proc, Alters(p), req[p].op = "EnterVehicle"
      PROVE  OpenOnce'
  <2> DEFINE id == req[p].id
             new(t) == [auth |-> id, plate |-> auths[id].plate, area |-> auths[id].area,
                        entry |-> t, exit |-> ZeroTime, status |-> "entered"]
  <2>1. EnteredRecords(id) = {}
    BY <1>2 DEF Alters, Marks, NoOpenRecord
  <2>2. PICK rec, t : EnterVehicle(id, t, rec)
    BY <1>2 DEF Alters
  <2>3. /\ DOMAIN records' = DOMAIN records \cup {rec}
        /\ records'[rec].auth = id
        /\ \A r \in DOMAIN records : r # rec /\ records'[r] = records[r]
    BY <2>2 DEF EnterVehicle, Assign
  <2> QED
    BY <2>1, <2>3 DEF OpenOnce, EnteredRecords
<1>3. ASSUME NEW id, NEW t, NEW rec, ExitVehicle(id, t, rec)
      PROVE  OpenOnce'
  <2>1. KeepsHistory
    BY PgIsStore, PgKnownTypes, HistoryNext DEF PgInv
  <2>2. DOMAIN records' = DOMAIN records
    BY <1>3 DEF ExitVehicle, EnteredRecords, Assign
  <2>3. \A r \in DOMAIN records :
          records'[r].status = "entered" => records'[r] = records[r]
    <3> TAKE r \in DOMAIN records
    <3>1. records[r] \in EntryExitRecord
      BY DEF PgInv, PgTypes, StoreTypeOK
    <3>2. \A e : [records[r] EXCEPT !.status = "exited", !.exit = e].status = "exited"
      BY <3>1 DEF EntryExitRecord
    <3> QED
      BY <2>1, <3>2 DEF KeepsHistory
  <2> QED
    BY <2>2, <2>3 DEF OpenOnce
<1>4. ASSUME NEW p \in Proc, Alters(p), req[p].op # "EnterVehicle"
      PROVE  OpenOnce'
  <2>1. UNCHANGED records \/ \E rec : ExitVehicle(req[p].id, req[p].t, rec)
    BY <1>4 DEF Alters, Writes, CreateResident, UpdateResident, ArchiveResident,
       CreateParkingArea, UpdateParkingArea, ArchiveParkingArea, CreateAuthorization,
       UpdateAuthorization, ArchiveAuthorization, RevokeAuthorization
  <2> QED
    BY <1>1, <1>3, <2>1
<1> QED
  BY <1>1, <1>2, <1>4 DEF PgStoreStep, Pauses, Outer, Inner, Passes, Stamps, Keeps, Maps

\* OneOpenRecord: the unique index on open records holds even where the
\* status of the authorization has lost track of its vehicle.
THEOREM OpenRecordUnique == PgSpec \/ PgStartedSpec => []OneOpenRecord
<1>1. PgInit \/ PgStarted => OpenOnce
  BY PgBegun DEF PgBegins, EmptyMap, OpenOnce
<1>2. PgInv /\ OpenOnce /\ [PgNext]_pgVars => OpenOnce'
  BY PgCases, OpenOnceNext
<1>3. OpenOnce => OneOpenRecord
  <2> SUFFICES ASSUME OpenOnce, NEW x \in AuthID
               PROVE  Cardinality(EnteredRecords(x)) <= 1
    BY DEF OneOpenRecord
  <2>1. CASE EnteredRecords(x) = {}
    BY <2>1, FS_EmptySet
  <2>2. CASE EnteredRecords(x) # {}
    <3>1. PICK r : r \in EnteredRecords(x)
      BY <2>2
    <3>2. EnteredRecords(x) = {r}
      BY <3>1 DEF OpenOnce, EnteredRecords
    <3> QED
      BY <3>2, FS_Singleton
  <2> QED
    BY <2>1, <2>2
<1> QED
  BY <1>1, <1>2, <1>3, PgInvariant, PTL DEF PgSpec, PgStartedSpec

\* The statuses by which the gate decides are backed by records.
LEMMA PgBacked == PgSpec \/ PgStartedSpec => []StatusesBacked
<1>1. PgInit \/ PgStarted => StatusesBacked
  BY PgBegun, BackedInit DEF PgBegins
<1>2. PgInv /\ WindowsInv /\ StatusesBacked /\ [PgNext]_pgVars => StatusesBacked'
  BY PgInvNext, BackedNext
<1> QED
  BY <1>1, <1>2, PgInvariant, PgWindowsInv, PTL DEF PgSpec, PgStartedSpec

\* What is told in the words of the gate is true, and stays so.
LEMMA PgToldTrue ==
  ASSUME PgInv, StatusesBacked, RefusalsTruthful, PgStoreStep
  PROVE  RefusalsTruthful'
<1> DEFINE True(r) == r.phase = "reply" =>
             /\ r.in = "ErrAlreadyEntered" => Visited(records', r.id)
             /\ r.in = "ErrAlreadyExited" => Departed(records', r.id)
<1>1. \A x : (Visited(records, x) => Visited(records', x)) /\ (Departed(records, x) => Departed(records', x))
  BY VisitsStay, PgIsStore, PgKnownTypes DEF PgInv
<1>2. \A q \in Proc : True(req[q])
  BY <1>1 DEF RefusalsTruthful, Visited, Departed
<1>3. CASE Pauses
  <2>1. \A q \in Proc : True(Idle)
    BY RequestFields DEF Idle
  <2> HIDE DEF True
  <2>2. \A q \in Proc : True(req'[q])
    BY <1>2, <1>3, <2>1 DEF Pauses
  <2> USE DEF True
  <2> QED
    BY <2>2 DEF RefusalsTruthful, Visited, Departed
<1>4. ASSUME NEW p \in Proc, Outer(p) \/ Inner(p) \/ Alters(p)
      PROVE  RefusalsTruthful'
  <2>1. True(req'[p])
    <3>1. CASE Outer(p)
      BY <1>1, <3>1 DEF Outer, Answers, HasStatus, StatusesBacked
    <3>2. CASE Inner(p) \/ Alters(p)
      BY <3>2 DEF Inner, Alters, InTx, Announced
    <3> QED
      BY <1>4, <3>1, <3>2
  <2>2. Alone(p)
    BY <1>4 DEF Outer, Inner, Alters
  <2>3. \A q \in Proc : True(req'[q])
    BY <1>2, <2>1, <2>2 DEF Alone
  <2> QED
    BY <2>3 DEF RefusalsTruthful, Visited, Departed
<1> QED
  BY <1>3, <1>4 DEF PgStoreStep

\* RefusalsTruthful over PostgreSQL: the refusal is decided by a row that is
\* locked and has not changed since the snapshot, a status that a record
\* backs; and no record is ever lost.
THEOREM PgTruthTold == PgSpec \/ PgStartedSpec => []RefusalsTruthful
<1>1. PgInit \/ PgStarted => RefusalsTruthful
  BY PgBegun, RequestFields DEF PgBegins, RefusalsTruthful, Idle
<1>2. PgInv /\ StatusesBacked /\ RefusalsTruthful /\ [PgNext]_pgVars => RefusalsTruthful'
  BY PgCases, PgToldTrue
<1> QED
  BY <1>1, <1>2, PgInvariant, PgBacked, PTL DEF PgSpec, PgStartedSpec
=============================================================================
