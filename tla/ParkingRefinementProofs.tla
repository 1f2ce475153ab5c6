----------------------- MODULE ParkingRefinementProofs -----------------------
(***************************************************************************)
(* Proof that the service, with a clock whose readings differ, implements  *)
(* ParkingLot: every write to the maps is an operation of the lot, or does *)
(* not concern it, and all other steps stutter.                            *)
(***************************************************************************)
EXTENDS ParkingFineProofs, ParkingRefinement

-----------------------------------------------------------------------------
(* What an assignment to a map is for the lot                              *)

\* An assignment to the authorizations, as the lot sees it.
LEMMA BookingsAssign ==
  ASSUME NEW k, NEW v, auths' = Assign(auths, k, v)
  PROVE  /\ DOMAIN Bookings' = DOMAIN Bookings \cup {k}
         /\ Bookings'[k] = BookingOf(v)
         /\ \A x \in DOMAIN Bookings : x # k => Bookings'[x] = Bookings[x]
         /\ k \in DOMAIN auths => Bookings' = [Bookings EXCEPT ![k] = BookingOf(v)]
BY DEF Bookings, Assign

\* An assignment to the areas, as the lot sees it.
LEMMA LotsAssign ==
  ASSUME NEW k, NEW v, areas' = Assign(areas, k, v)
  PROVE  /\ DOMAIN Lots' = DOMAIN Lots \cup {k}
         /\ Lots'[k] = LotOf(v)
         /\ \A x \in DOMAIN Lots : x # k => Lots'[x] = Lots[x]
         /\ k \in DOMAIN areas => Lots' = [Lots EXCEPT ![k] = LotOf(v)]
BY DEF Lots, Assign

\* An assignment to the records, as the lot sees it.
LEMMA VisitsAssign ==
  ASSUME NEW k, NEW v, records' = Assign(records, k, v)
  PROVE  /\ DOMAIN Visits' = DOMAIN Visits \cup {k}
         /\ Visits'[k] = VisitOf(v)
         /\ \A x \in DOMAIN Visits : x # k => Visits'[x] = Visits[x]
         /\ k \in DOMAIN records => Visits' = [Visits EXCEPT ![k] = VisitOf(v)]
BY DEF Visits, Assign

\* What archiving and a change of status do to a booking.
LEMMA BookingRow ==
  ASSUME NEW a \in Authorization, NEW s, NEW t
  PROVE  /\ BookingOf([a EXCEPT !.archived = TRUE, !.updatedAt = t])
              = [BookingOf(a) EXCEPT !.withdrawn = TRUE]
         /\ BookingOf([a EXCEPT !.status = s, !.updatedAt = t])
              = [BookingOf(a) EXCEPT !.state = s]
<1> DEFINE gone == [a EXCEPT !.archived = TRUE, !.updatedAt = t]
           moved == [a EXCEPT !.status = s, !.updatedAt = t]
<1>1. /\ gone.plate = a.plate /\ gone.area = a.area /\ gone.start = a.start
      /\ gone.end = a.end /\ gone.status = a.status /\ gone.archived = TRUE
  BY DEF Authorization
<1>2. /\ moved.plate = a.plate /\ moved.area = a.area /\ moved.start = a.start
      /\ moved.end = a.end /\ moved.status = s /\ moved.archived = a.archived
  BY DEF Authorization
<1>3. BookingOf(gone) = [BookingOf(a) EXCEPT !.withdrawn = TRUE]
  <2> DEFINE b(w) == [plate |-> a.plate, lot |-> a.area, start |-> a.start,
                      end |-> a.end, state |-> a.status, withdrawn |-> w]
  <2>1. \A w : [BookingOf(a) EXCEPT !.withdrawn = w] = b(w)
    BY DEF BookingOf
  <2> HIDE DEF gone
  <2>2. BookingOf(gone) = b(TRUE)
    BY <1>1, Zenon DEF BookingOf
  <2> QED
    BY <2>1, <2>2, Zenon
<1>4. BookingOf(moved) = [BookingOf(a) EXCEPT !.state = s]
  BY <1>2 DEF BookingOf
<1> QED
  BY <1>3, <1>4

\* The maps the lot sees stay if those of the store stay.
LEMMA SameMaps ==
  /\ UNCHANGED auths => UNCHANGED Bookings
  /\ UNCHANGED areas => UNCHANGED Lots
  /\ UNCHANGED records => UNCHANGED Visits
BY DEF Bookings, Lots, Visits

\* What archiving does to a lot.
LEMMA LotRow ==
  ASSUME NEW a \in ParkingArea, NEW t
  PROVE  LotOf([a EXCEPT !.archived = TRUE, !.updatedAt = t])
           = [LotOf(a) EXCEPT !.closed = TRUE]
<1> DEFINE row == [a EXCEPT !.archived = TRUE, !.updatedAt = t]
<1>1. \A c : [LotOf(a) EXCEPT !.closed = c] = [capacity |-> a.capacity, closed |-> c]
  BY DEF LotOf
<1>2. row.capacity = a.capacity /\ row.archived = TRUE
  BY DEF ParkingArea
<1> HIDE DEF row
<1>3. LotOf(row) = [capacity |-> a.capacity, closed |-> TRUE]
  BY <1>2, Zenon DEF LotOf
<1>4. LotOf(row) = [LotOf(a) EXCEPT !.closed = TRUE]
  BY <1>1, <1>3, Zenon
<1> QED
  BY <1>4 DEF row

\* What an exit does to a visit.
LEMMA VisitRow ==
  ASSUME NEW r \in EntryExitRecord, NEW t
  PROVE  VisitOf([r EXCEPT !.exit = t, !.status = "exited"])
           = [VisitOf(r) EXCEPT !.left = TRUE]
<1> DEFINE row == [r EXCEPT !.exit = t, !.status = "exited"]
           v(l) == [booking |-> r.auth, lot |-> r.area, at |-> r.entry, left |-> l]
<1>1. \A l : [VisitOf(r) EXCEPT !.left = l] = v(l)
  BY DEF VisitOf
<1>2. row.auth = r.auth /\ row.area = r.area /\ row.entry = r.entry /\ row.status = "exited"
  BY DEF EntryExitRecord
<1> HIDE DEF row
<1>3. VisitOf(row) = v(TRUE)
  BY <1>2 DEF VisitOf
<1>4. VisitOf(row) = [VisitOf(r) EXCEPT !.left = TRUE]
  BY <1>1, <1>3, Zenon
<1> QED
  BY <1>4 DEF row

\* The lot counts as the service does.
LEMMA SameCardinality == \A S : Abstract!Cardinality(S) = Cardinality(S)
BY DEF Abstract!Cardinality, Cardinality

-----------------------------------------------------------------------------
(* The operations of the lot                                               *)

\* CreateParkingArea opens a lot.
LEMMA OpensLot ==
  ASSUME KnownTypes, NEW p \in Proc, Writes(p), req[p].op = "CreateParkingArea"
  PROVE  Abstract!OpenLot(req[p].id)
<1> DEFINE row == req[p].in
<1>1. row \in ParkingArea /\ ~row.archived
  BY DEF KnownTypes, StoringOK, Writes
<1>2. CreateParkingArea(req[p].id, row)
  BY DEF Writes
<1>3. LotOf(row).capacity \in Nat /\ ~LotOf(row).closed
  BY <1>1 DEF LotOf, ParkingArea
<1> QED
  BY <1>2, <1>3, LotsAssign, SameMaps
  DEF CreateParkingArea, Abstract!OpenLot, Abstract!Adds, Lots

\* ArchiveParkingArea closes it.
LEMMA ClosesLot ==
  ASSUME KnownTypes, NEW p \in Proc, Writes(p), req[p].op = "ArchiveParkingArea"
  PROVE  Abstract!CloseLot(req[p].id)
<1> DEFINE id == req[p].id
           row == [areas[id] EXCEPT !.archived = TRUE, !.updatedAt = req[p].t]
<1>1. /\ id \in DOMAIN areas /\ ~areas[id].archived /\ areas[id] \in ParkingArea
      /\ areas' = Assign(areas, id, row) /\ UNCHANGED <<auths, records>>
  BY DEF Writes, ArchiveErr, Live, ArchiveParkingArea, Archived, KnownTypes, StoreTypeOK
<1>2. LotOf(row) = [LotOf(areas[id]) EXCEPT !.closed = TRUE]
  BY <1>1, LotRow
<1>3. Lots[id] = LotOf(areas[id]) /\ id \in DOMAIN Lots /\ ~Lots[id].closed
  BY <1>1 DEF Lots, LotOf
<1>4. Lots' = [Lots EXCEPT ![id] = LotOf(row)]
  <2> HIDE DEF row
  <2> QED BY <1>1, LotsAssign
<1>5. Lots' = [Lots EXCEPT ![id].closed = TRUE]
  BY <1>2, <1>3, <1>4
<1> QED
  BY <1>1, <1>3, <1>5, SameMaps DEF Abstract!CloseLot

\* CreateAuthorization books.
LEMMA Books ==
  ASSUME KnownTypes, FreshIDs, WindowsInv,
         NEW p \in Proc, Writes(p), NoConflict(p), req[p].op = "CreateAuthorization"
  PROVE  Abstract!Book(req[p].id)
<1> DEFINE id == req[p].id
           row == req[p].in
           b == BookingOf(row)
<1>1. /\ row \in Authorization /\ ~row.archived
      /\ row.status = "pending" /\ row.start < row.end
      /\ id \notin DOMAIN auths
  BY DEF KnownTypes, StoringOK, Writes, FreshIDs, WindowsInv, Creates, NewBooking, Bounded
<1>2. /\ row.area \in DOMAIN areas /\ ~Conflicts(row)
      /\ auths' = Assign(auths, id, row) /\ UNCHANGED <<areas, records>>
  BY DEF Writes, NoConflict, CreateAuthorization
<1>3. /\ b.state = "pending" /\ ~b.withdrawn /\ b.start = row.start /\ b.end = row.end
      /\ b.plate = row.plate /\ b.lot \in DOMAIN Lots
  BY <1>1, <1>2 DEF BookingOf, Lots
<1>4. ASSUME NEW x \in DOMAIN Bookings, Bookings[x].plate = b.plate,
             Abstract!Claims(Bookings[x])
      PROVE  ~Abstract!Meets(Bookings[x], b)
  <2>1. /\ x \in DOMAIN auths /\ auths[x].plate = row.plate /\ InForce(auths[x])
        /\ Bookings[x].start = auths[x].start /\ Bookings[x].end = auths[x].end
    BY <1>3, <1>4 DEF Bookings, BookingOf, Abstract!Claims, InForce
  <2> QED
    BY <1>2, <1>3, <2>1 DEF Conflicts, Overlap, Abstract!Meets
<1>5. /\ DOMAIN Bookings' = DOMAIN Bookings \cup {id} /\ Bookings'[id] = b
      /\ \A x \in DOMAIN Bookings : Bookings'[x] = Bookings[x]
      /\ id \notin DOMAIN Bookings
  <2>1. id \notin DOMAIN Bookings
    BY <1>1 DEF Bookings
  <2>2. auths' = Assign(auths, id, row)
    BY <1>2
  <2> HIDE DEF id, row
  <2>3. /\ DOMAIN Bookings' = DOMAIN Bookings \cup {id} /\ Bookings'[id] = b
        /\ \A x \in DOMAIN Bookings : x # id => Bookings'[x] = Bookings[x]
    BY <2>2, BookingsAssign
  <2> QED
    BY <2>1, <2>3
<1> HIDE DEF b
<1> QED
  BY <1>1, <1>2, <1>3, <1>4, <1>5, SameMaps DEF Abstract!Book, Abstract!Adds

\* A change of status, as the lot sees it.
LEMMA StatusMoves ==
  ASSUME KnownTypes, NEW id, id \in DOMAIN auths, ~auths[id].archived, NEW s, NEW t,
         auths' = Assign(auths, id, [auths[id] EXCEPT !.status = s, !.updatedAt = t])
  PROVE  Abstract!Moves(id, auths[id].status, s)
<1> DEFINE row == [auths[id] EXCEPT !.status = s, !.updatedAt = t]
<1>0. id \in DOMAIN auths /\ auths' = Assign(auths, id, row)
  OBVIOUS
<1>1. BookingOf(row) = [BookingOf(auths[id]) EXCEPT !.state = s]
  <2>1. auths[id] \in Authorization
    BY DEF KnownTypes, StoreTypeOK
  <2> QED
    BY <2>1, BookingRow
<1>2. /\ id \in DOMAIN Bookings /\ Bookings[id] = BookingOf(auths[id])
      /\ ~Bookings[id].withdrawn /\ Bookings[id].state = auths[id].status
  BY DEF Bookings, BookingOf
<1>3. Bookings' = [Bookings EXCEPT ![id] = BookingOf(row)]
  <2> HIDE DEF row
  <2> QED BY <1>0, BookingsAssign
<1> QED
  BY <1>1, <1>2, <1>3 DEF Abstract!Moves

\* RevokeAuthorization revokes.
LEMMA Revokes ==
  ASSUME KnownTypes, NEW p \in Proc, Writes(p), req[p].op = "RevokeAuthorization"
  PROVE  Abstract!Revoke(req[p].id)
BY StatusMoves, SameMaps
DEF Writes, RevokeAuthorizationErr, RevokeAuthorization, Live, Abstract!Revoke

\* ArchiveAuthorization withdraws.
LEMMA Withdraws ==
  ASSUME KnownTypes, NEW p \in Proc, Writes(p), req[p].op = "ArchiveAuthorization"
  PROVE  Abstract!Withdraw(req[p].id)
<1> DEFINE id == req[p].id
           row == [auths[id] EXCEPT !.archived = TRUE, !.updatedAt = req[p].t]
<1>1. /\ id \in DOMAIN auths /\ ~auths[id].archived
      /\ auths' = Assign(auths, id, row) /\ UNCHANGED <<areas, records>>
  BY DEF Writes, ArchiveErr, Live, ArchiveAuthorization, Archived
<1>2. BookingOf(row) = [BookingOf(auths[id]) EXCEPT !.withdrawn = TRUE]
  BY <1>1, BookingRow DEF KnownTypes, StoreTypeOK
<1>3. /\ id \in DOMAIN Bookings /\ Bookings[id] = BookingOf(auths[id])
      /\ ~Bookings[id].withdrawn
  BY <1>1 DEF Bookings, BookingOf
<1>4. Bookings' = [Bookings EXCEPT ![id] = BookingOf(row)]
  <2> HIDE DEF row
  <2> QED BY <1>1, BookingsAssign
<1> QED
  BY <1>1, <1>2, <1>3, <1>4, SameMaps DEF Abstract!Withdraw

\* EnterVehicle lets a vehicle in.
LEMMA Enters ==
  ASSUME KnownTypes, RecordsFinite, NEW id \in AuthID, NEW t, NEW rec,
         EnterVehicleErr(id, t) = "nil", EnterVehicle(id, t, rec)
  PROVE  Abstract!Enter(id, rec, t)
<1> DEFINE a == auths[id].area
           new == [auth |-> id, plate |-> auths[id].plate, area |-> a,
                   entry |-> t, exit |-> ZeroTime, status |-> "entered"]
<1>1. /\ id \in DOMAIN auths /\ ~auths[id].archived /\ auths[id].status = "pending"
      /\ InWindow(auths[id], t) /\ Live(areas, a) /\ ~Full(a)
  BY DEF EnterVehicleErr, Live
<1>2. /\ auths' = Assign(auths, id, [auths[id] EXCEPT !.status = "active", !.updatedAt = t])
      /\ records' = Assign(records, rec, new) /\ rec \notin DOMAIN records
      /\ UNCHANGED areas
  BY DEF EnterVehicle
<1>3. Abstract!Moves(id, "pending", "active")
  BY <1>1, <1>2, StatusMoves
<1>4. /\ Bookings[id].lot = a /\ Bookings[id].start <= t /\ t < Bookings[id].end
      /\ a \in DOMAIN Lots /\ ~Lots[a].closed /\ Lots[a].capacity = areas[a].capacity
  BY <1>1 DEF Bookings, BookingOf, Lots, LotOf, InWindow, Live
<1>5. Abstract!Taken(a) = Inside(a)
  BY DEF Abstract!Taken, Inside, Visits, VisitOf, KnownTypes, StoreTypeOK,
         EntryExitRecord, RecordStatus
<1>6. VisitOf(new) = [booking |-> id, lot |-> a, at |-> t, left |-> FALSE]
  BY DEF VisitOf
<1>7. Abstract!Adds(Visits', Visits, rec) /\ Visits'[rec] = VisitOf(new)
  <2>1. rec \notin DOMAIN Visits
    BY <1>2 DEF Visits
  <2> HIDE DEF new
  <2> QED
    BY <1>2, <2>1, VisitsAssign DEF Abstract!Adds
<1>8. Abstract!Cardinality(Abstract!Taken(a)) < Lots[a].capacity
  <2>1. Occupied(a) \in Nat /\ areas[a].capacity \in Nat
    BY <1>1, OccupiedNat DEF Live, KnownTypes, StoreTypeOK, ParkingArea
  <2>2. Abstract!Cardinality(Abstract!Taken(a)) = Occupied(a)
    BY <1>5, SameCardinality DEF Occupied
  <2> QED
    BY <1>1, <1>4, <2>1, <2>2 DEF Full
<1> HIDE DEF new
<1> QED
  BY <1>2, <1>3, <1>4, <1>6, <1>7, <1>8, SameMaps DEF Abstract!Enter

\* ExitVehicle lets it out.
LEMMA Leaves ==
  ASSUME KnownTypes, NEW id \in AuthID, NEW t, NEW rec,
         ExitVehicleErr(id) = "nil", ExitVehicle(id, t, rec)
  PROVE  Abstract!Leave(id, rec)
<1> DEFINE new == [records[rec] EXCEPT !.exit = t, !.status = "exited"]
<1>1. id \in DOMAIN auths /\ ~auths[id].archived /\ auths[id].status = "active"
  BY DEF ExitVehicleErr, Live
<1>2. /\ rec \in DOMAIN records /\ records[rec] \in EntryExitRecord
      /\ records[rec].auth = id /\ records[rec].status = "entered"
      /\ records' = Assign(records, rec, new)
      /\ auths' = Assign(auths, id, [auths[id] EXCEPT !.status = "completed", !.updatedAt = t])
      /\ UNCHANGED areas
  BY DEF ExitVehicle, EnteredRecords, KnownTypes, StoreTypeOK
<1>3. Abstract!Moves(id, "active", "completed")
  BY <1>1, <1>2, StatusMoves
<1>4. VisitOf(new) = [VisitOf(records[rec]) EXCEPT !.left = TRUE]
  BY <1>2, VisitRow
<1>5. /\ rec \in DOMAIN Visits /\ Visits[rec] = VisitOf(records[rec])
      /\ Visits[rec].booking = id /\ ~Visits[rec].left
  BY <1>2 DEF Visits, VisitOf
<1>6. Visits' = [Visits EXCEPT ![rec] = VisitOf(new)]
  <2> HIDE DEF new
  <2> QED BY <1>2, VisitsAssign
<1> QED
  BY <1>2, <1>3, <1>4, <1>5, <1>6, SameMaps DEF Abstract!Leave

-----------------------------------------------------------------------------
(* The refinement                                                          *)

\* Every write to the maps that is careful is an operation of the lot, or
\* none of it.
LEMMA WritesAreLotSteps ==
  ASSUME KnownTypes, StampsFresh, FreshIDs, WindowsInv, RecordsFinite,
         NEW p \in Proc, Writes(p), NoConflict(p)
  PROVE  [Abstract!LotNext]_<<Bookings, Visits, Lots>>
<1>0. req[p].op \notin Updates
  BY NoUpdate
<1>1. StoringOK(req[p])
  BY DEF KnownTypes, Writes
<1>2. CASE req[p].op \in {"CreateResident", "ArchiveResident"}
  BY <1>2, SameMaps DEF Writes, CreateResident, ArchiveResident
<1>3. CASE req[p].op = "CreateParkingArea"
  BY <1>1, <1>3, OpensLot DEF StoringOK, Abstract!LotNext
<1>4. CASE req[p].op = "ArchiveParkingArea"
  BY <1>1, <1>4, ClosesLot DEF StoringOK, Abstract!LotNext
<1>5. CASE req[p].op = "CreateAuthorization"
  BY <1>1, <1>5, Books DEF StoringOK, Abstract!LotNext
<1>6. CASE req[p].op = "ArchiveAuthorization"
  BY <1>1, <1>6, Withdraws DEF StoringOK, Abstract!LotNext
<1>7. CASE req[p].op = "RevokeAuthorization"
  BY <1>1, <1>7, Revokes DEF StoringOK, Abstract!LotNext
<1>8. CASE req[p].op = "EnterVehicle"
  <2>1. req[p].id \in AuthID /\ req[p].t \in Time
    BY <1>1, <1>8 DEF StoringOK
  <2>2. PICK rec \in RecordID : Abstract!Enter(req[p].id, rec, req[p].t)
    BY <1>8, <2>1, Enters DEF Writes
  <2> QED
    BY <2>1, <2>2 DEF Abstract!LotNext
<1>9. CASE req[p].op = "ExitVehicle"
  <2>1. req[p].id \in AuthID
    BY <1>1, <1>9 DEF StoringOK
  <2>2. PICK rec \in RecordID : Abstract!Leave(req[p].id, rec)
    BY <1>9, <2>1, Leaves DEF Writes
  <2> QED
    BY <2>1, <2>2 DEF Abstract!LotNext
<1> QED
  BY <1>0, <1>2, <1>3, <1>4, <1>5, <1>6, <1>7, <1>8, <1>9 DEF Writes, Updates

\* Every careful step of the store is one of the lot.
LEMMA LotNextStep ==
  ASSUME KnownTypes, StampsFresh, FreshIDs, WindowsInv, RecordsFinite, CarefulStep
  PROVE  [Abstract!LotNext]_<<Bookings, Visits, Lots>>
<1>1. CASE UNCHANGED Maps
  BY <1>1, SameMaps DEF Maps
<1>2. ASSUME NEW p \in Proc, Writes(p), NoConflict(p)
      PROVE  [Abstract!LotNext]_<<Bookings, Visits, Lots>>
  BY <1>2, WritesAreLotSteps
<1> QED
  BY <1>1, <1>2 DEF CarefulStep, Rests, Stamps, Keeps, Changes

\* ImplementsParkingLot, for a clock whose readings differ and any number of
\* requests, authorizations, areas and records: whatever a request read in
\* its earlier steps, its store call decides again on the rows as they are,
\* in the critical section that changes them.
THEOREM ServiceImplementsLot ==
  ASSUME ~CoarseClock
  PROVE  Spec => ImplementsParkingLot
<1>1. Init => Abstract!LotInit
  BY DEF Init, StoreInit, EmptyMap, Abstract!LotInit, Bookings, Visits, Lots
<1>2. TypeOK /\ StampsFresh /\ FreshIDs /\ WindowsInv /\ RecordsFinite /\ [Next]_vars
        => [Abstract!LotNext]_(Abstract!lotVars)
  BY LotNextStep, StepCases DEF Abstract!lotVars
<1> QED
  BY <1>1, <1>2, TypeCorrect, FreshStamps, IDsFresh, WindowsHold, FiniteRecords, PTL
  DEF Spec, ImplementsParkingLot, Abstract!LotSpec
=============================================================================
