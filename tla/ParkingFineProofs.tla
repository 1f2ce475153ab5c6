-------------------------- MODULE ParkingFineProofs --------------------------
(***************************************************************************)
(* Proofs of the safety properties of ParkingService that hold when the    *)
(* readings of the clock differ (~CoarseClock).  The optimistic lock then  *)
(* lets no update through (NoUpdate), so that creations, archivings,       *)
(* revocations, entries and exits are all there is to consider.            *)
(***************************************************************************)
EXTENDS ParkingInvariantProofs

-----------------------------------------------------------------------------
(* The readings of the clock                                               *)

\* No row of m was written at instant t.
NotAt(m, t) == \A x \in DOMAIN m : m[x].updatedAt # t

\* Every row of m was written before instant t.
Before(m, t) == \A x \in DOMAIN m : m[x].updatedAt < t

InStore(p) == Storing(req[p])

\* The readings of the clock that requests hold are past, all different, and
\* none of them is the updated_at of a row.
StampsFresh ==
  /\ Before(residents, now) /\ Before(areas, now) /\ Before(auths, now)
  /\ \A p \in Proc : InStore(p) =>
       /\ req[p].t < now
       /\ NotAt(residents, req[p].t) /\ NotAt(areas, req[p].t) /\ NotAt(auths, req[p].t)
       /\ \A q \in Proc : q # p /\ InStore(q) => req[q].t # req[p].t
       /\ req[p].op \in {"CreateResident", "CreateParkingArea", "CreateAuthorization"} =>
            req[p].in.updatedAt = req[p].t

\* The optimistic lock never lets an update through: the instant it would
\* write is not the updated_at of any row.
LEMMA NoUpdate ==
  ASSUME KnownTypes, StampsFresh, NEW p \in Proc, Writes(p)
  PROVE  req[p].op \notin Updates
<1>1. /\ StoringOK(req[p]) /\ InStore(p)
      /\ NotAt(residents, req[p].t) /\ NotAt(areas, req[p].t) /\ NotAt(auths, req[p].t)
  BY DEF KnownTypes, StampsFresh, Writes, InStore
<1>2. CASE req[p].op = "UpdateResident"
  <2>1. NewResident(req[p]).updatedAt = req[p].t
    BY <1>1, <1>2 DEF StoringOK, InStore, NewResident, Resident
  <2>2. UpdateErr(residents, req[p].id, NewResident(req[p])) = "nil"
    BY <1>2 DEF Writes
  <2> QED
    BY <1>1, <2>1, <2>2 DEF UpdateErr, Live, NotAt
<1>3. CASE req[p].op = "UpdateParkingArea"
  <2>1. NewParkingArea(req[p]).updatedAt = req[p].t
    BY <1>1, <1>3 DEF StoringOK, InStore, NewParkingArea, ParkingArea
  <2>2. UpdateErr(areas, req[p].id, NewParkingArea(req[p])) = "nil"
    BY <1>3 DEF Writes
  <2> QED
    BY <1>1, <2>1, <2>2 DEF UpdateErr, Live, NotAt
<1>4. CASE req[p].op = "UpdateAuthorization"
  <2>1. NewAuthorization(req[p]).updatedAt = req[p].t
    BY <1>1, <1>4 DEF StoringOK, InStore, NewAuthorization, Authorization
  <2>2. UpdateErr(auths, req[p].id, NewAuthorization(req[p])) = "nil"
    BY <1>4 DEF Writes
  <2> QED
    BY <1>1, <2>1, <2>2 DEF UpdateErr, Live, NotAt
<1> QED
  BY <1>2, <1>3, <1>4 DEF Updates

\* A write assigns one row, with the reading of the clock as its updated_at.
LEMMA StampedWrites ==
  ASSUME KnownTypes, StampsFresh, NEW p \in Proc, Writes(p)
  PROVE  LET id == req[p].id IN
         \/ \E v : /\ residents' = Assign(residents, id, v) /\ v.updatedAt = req[p].t
                   /\ UNCHANGED <<areas, auths>>
         \/ \E v : /\ areas' = Assign(areas, id, v) /\ v.updatedAt = req[p].t
                   /\ UNCHANGED <<residents, auths>>
         \/ \E v : /\ auths' = Assign(auths, id, v) /\ v.updatedAt = req[p].t
                   /\ UNCHANGED <<residents, areas>>
<1> DEFINE id == req[p].id
           t == req[p].t
<1>1. req[p].op \notin Updates
  BY NoUpdate
<1>2. req[p].op \in {"CreateResident", "CreateParkingArea", "CreateAuthorization"} =>
        req[p].in.updatedAt = t
  BY DEF StampsFresh, Writes, InStore
<1>3. \A x \in DOMAIN residents :
        [residents[x] EXCEPT !.archived = TRUE, !.updatedAt = t].updatedAt = t
  BY DEF KnownTypes, StoreTypeOK, Resident
<1>4. \A x \in DOMAIN areas :
        [areas[x] EXCEPT !.archived = TRUE, !.updatedAt = t].updatedAt = t
  BY DEF KnownTypes, StoreTypeOK, ParkingArea
<1>5. \A x \in DOMAIN auths :
        /\ [auths[x] EXCEPT !.archived = TRUE, !.updatedAt = t].updatedAt = t
        /\ \A s : [auths[x] EXCEPT !.status = s, !.updatedAt = t].updatedAt = t
  BY DEF KnownTypes, StoreTypeOK, Authorization
<1>6. CASE req[p].op = "CreateResident"
  BY <1>2, <1>6 DEF Writes, CreateResident
<1>7. CASE req[p].op = "CreateParkingArea"
  BY <1>2, <1>7 DEF Writes, CreateParkingArea
<1>8. CASE req[p].op = "CreateAuthorization"
  BY <1>2, <1>8 DEF Writes, CreateAuthorization
<1>9. CASE req[p].op = "ArchiveResident"
  BY <1>3, <1>9 DEF Writes, ArchiveResident, Archived, ArchiveErr, Live
<1>10. CASE req[p].op = "ArchiveParkingArea"
  BY <1>4, <1>10 DEF Writes, ArchiveParkingArea, Archived, ArchiveErr, Live
<1>11. CASE req[p].op = "ArchiveAuthorization"
  BY <1>5, <1>11 DEF Writes, ArchiveAuthorization, Archived, ArchiveErr, Live
<1>12. CASE req[p].op = "RevokeAuthorization"
  BY <1>5, <1>12 DEF Writes, RevokeAuthorization, RevokeAuthorizationErr, Live
<1>13. CASE req[p].op = "EnterVehicle"
  BY <1>5, <1>13 DEF Writes, EnterVehicle, EnterVehicleErr, Live
<1>14. CASE req[p].op = "ExitVehicle"
  BY <1>5, <1>14 DEF Writes, ExitVehicle, ExitVehicleErr, Live
<1> QED
  BY <1>1, <1>6, <1>7, <1>8, <1>9, <1>10, <1>11, <1>12, <1>13, <1>14 DEF Writes, Updates

\* What an assignment stamped t does to Before and NotAt.
LEMMA StampedAssign ==
  ASSUME NEW m, NEW k, NEW v
  PROVE  /\ \A u : Before(m, u) /\ v.updatedAt < u => Before(Assign(m, k, v), u)
         /\ \A u : NotAt(m, u) /\ v.updatedAt # u => NotAt(Assign(m, k, v), u)
BY DEF Before, NotAt, Assign

\* Readings stay fresh: a new one is later than all that were made.
LEMMA StampsNext ==
  ASSUME ~CoarseClock, KnownTypes, StampsFresh, StoreStep
  PROVE  StampsFresh'
<1> now \in Nat
  BY TimeAssumption DEF KnownTypes, Time
<1> /\ \A x \in DOMAIN residents : residents[x].updatedAt \in Nat
    /\ \A x \in DOMAIN areas : areas[x].updatedAt \in Nat
    /\ \A x \in DOMAIN auths : auths[x].updatedAt \in Nat
  BY TimeAssumption
  DEF KnownTypes, StoreTypeOK, Resident, ParkingArea, Authorization, Time
<1> \A p \in Proc : InStore(p) => req[p].t \in Nat
  BY TimeAssumption DEF KnownTypes, StoringOK, InStore, Time
<1>1. CASE Rests
  BY <1>1 DEF Rests, Maps, StampsFresh, Before, NotAt, InStore
<1>2. ASSUME NEW p \in Proc, Alone(p), Keeps(p)
      PROVE  StampsFresh'
  <2>1. \A q \in Proc : /\ InStore(q)' <=> InStore(q)
                        /\ req'[q].t = req[q].t /\ req'[q].op = req[q].op
                        /\ req'[q].in = req[q].in
    BY <1>2 DEF Alone, Keeps, InStore
  <2> QED
    BY <1>2, <2>1 DEF Keeps, Maps, StampsFresh, Before, NotAt
<1>3. ASSUME NEW p \in Proc, Alone(p), Stamps(p)
      PROVE  StampsFresh'
  <2>0. \A q \in Proc : q # p => req'[q] = req[q]
    BY <1>3 DEF Alone
  <2>1. now' = now + 1
    BY <1>3 DEF Stamps, ReadClock
  <2>2. NotAt(residents, now) /\ NotAt(areas, now) /\ NotAt(auths, now)
    BY DEF StampsFresh, Before, NotAt
  <2>3. Before(residents, now + 1) /\ Before(areas, now + 1) /\ Before(auths, now + 1)
    BY DEF StampsFresh, Before
  <2>4. \A q \in Proc : InStore(q) => req[q].t < now + 1 /\ req[q].t # now
    BY DEF StampsFresh
  <2> QED
    BY <1>3, <2>0, <2>1, <2>2, <2>3, <2>4 DEF Stamps, Maps, StampsFresh, InStore
<1>4. ASSUME NEW p \in Proc, Alone(p), Changes(p)
      PROVE  StampsFresh'
  <2>0. \A q \in Proc : q # p => req'[q] = req[q]
    BY <1>4 DEF Alone
  <2>1. /\ InStore(p) /\ req[p].t < now /\ Writes(p)
        /\ \A q \in Proc : q # p /\ InStore(q) => req[p].t # req[q].t
    BY <1>4 DEF Changes, Writes, StampsFresh, InStore
  <2>2. /\ Before(residents', now) /\ Before(areas', now) /\ Before(auths', now)
        /\ \A q \in Proc : q # p /\ InStore(q) =>
             NotAt(residents', req[q].t) /\ NotAt(areas', req[q].t) /\ NotAt(auths', req[q].t)
    BY <2>1, StampedWrites, StampedAssign DEF StampsFresh
  <2> QED
    BY <1>4, <2>0, <2>2 DEF Changes, StampsFresh, InStore
<1> QED
  BY <1>1, <1>2, <1>3, <1>4 DEF StoreStep, Moves

\* A service that starts with readings later than those of its rows.
LEMMA StampsInit ==
  ASSUME Before(residents, now), Before(areas, now), Before(auths, now),
         req = [p \in Proc |-> Idle]
  PROVE  StampsFresh
BY DEF StampsFresh, InStore, Storing, Idle, Request

\* With a clock whose readings differ, the stamps in flight are fresh.
LEMMA FreshStamps ==
  ASSUME ~CoarseClock
  PROVE  Spec => []StampsFresh
<1>1. Init => StampsFresh
  BY StampsInit DEF Init, StoreInit, EmptyMap, Before
<1>2. TypeOK /\ StampsFresh /\ [Next]_vars => StampsFresh'
  BY StampsNext, StepCases
<1> QED
  BY <1>1, <1>2, TypeCorrect, PTL DEF Spec

-----------------------------------------------------------------------------
(* Versions                                                                *)

\* A write stamps its row with a reading that no row has.
LEMMA VersionsNext ==
  ASSUME KnownTypes, StampsFresh, StoreStep
  PROVE  ChangesVersion
<1>1. CASE UNCHANGED Maps
  BY <1>1 DEF Maps, ChangesVersion, Versioned
<1>2. ASSUME NEW p \in Proc, Writes(p)
      PROVE  ChangesVersion
  <2>1. NotAt(residents, req[p].t) /\ NotAt(areas, req[p].t) /\ NotAt(auths, req[p].t)
    BY <1>2 DEF StampsFresh, Writes, InStore
  <2>2. \A m, k, v : NotAt(m, v.updatedAt) => Versioned(m, Assign(m, k, v))
    BY DEF NotAt, Versioned, Assign
  <2>3. \A m : Versioned(m, m)
    BY DEF Versioned
  <2> QED
    BY <1>2, <2>1, <2>2, <2>3, StampedWrites DEF ChangesVersion
<1> QED
  BY <1>1, <1>2, StillOrChanged

\* VersionsDiffer, for a clock whose readings differ: a row that changes
\* changes its updated_at with it.
THEOREM VersionsApart ==
  ASSUME ~CoarseClock
  PROVE  Spec => VersionsDiffer
<1>1. TypeOK /\ StampsFresh /\ [Next]_vars => [ChangesVersion]_vars
  BY VersionsNext, StepCases
<1> QED
  BY <1>1, TypeCorrect, FreshStamps, PTL DEF Spec, VersionsDiffer

-----------------------------------------------------------------------------
(* The life of an authorization                                            *)

\* What may become of the status of an authorization in one step.
Forward == {<<"pending", "active">>, <<"pending", "cancelled">>,
            <<"active", "completed">>}

\* b is what a write makes of authorization a: the booking is the same, it
\* comes into force by no write, and its status moves forward if it moves.
Continues(a, b) ==
  /\ b.plate = a.plate /\ b.area = a.area /\ b.start = a.start /\ b.end = a.end
  /\ InForce(b) => InForce(a)
  /\ b.status = a.status \/ <<a.status, b.status>> \in Forward

\* The rows that writes make of a live authorization.
LEMMA RowContinues ==
  ASSUME NEW a \in Authorization, ~a.archived, NEW t
  PROVE  /\ Continues(a, [a EXCEPT !.archived = TRUE, !.updatedAt = t])
         /\ a.status = "pending" =>
              /\ Continues(a, [a EXCEPT !.status = "cancelled", !.updatedAt = t])
              /\ Continues(a, [a EXCEPT !.status = "active", !.updatedAt = t])
         /\ a.status = "active" =>
              Continues(a, [a EXCEPT !.status = "completed", !.updatedAt = t])
BY DEF Authorization, Continues, InForce, Forward

\* A write leaves the authorizations alone, or creates one, or goes on with
\* one that is there.
LEMMA AuthWrites ==
  ASSUME KnownTypes, StampsFresh, FreshIDs, NEW p \in Proc, Writes(p)
  PROVE  LET id == req[p].id IN
         \/ UNCHANGED auths
         \/ /\ req[p].op = "CreateAuthorization" /\ id \notin DOMAIN auths
            /\ auths' = Assign(auths, id, req[p].in)
         \/ /\ id \in DOMAIN auths
            /\ \E v : Continues(auths[id], v) /\ auths' = Assign(auths, id, v)
<1> DEFINE id == req[p].id
<1>1. req[p].op \notin Updates
  BY NoUpdate
<1>2. \A x \in DOMAIN auths : auths[x] \in Authorization
  BY DEF KnownTypes, StoreTypeOK
<1>3. CASE req[p].op \in {"CreateResident", "CreateParkingArea",
                          "ArchiveResident", "ArchiveParkingArea"}
  BY <1>3 DEF Writes, CreateResident, CreateParkingArea, ArchiveResident, ArchiveParkingArea
<1>4. CASE req[p].op = "CreateAuthorization"
  BY <1>4 DEF Writes, FreshIDs, Creates, CreateAuthorization
<1>5. CASE req[p].op = "ArchiveAuthorization"
  BY <1>2, <1>5, RowContinues DEF Writes, ArchiveAuthorization, Archived, ArchiveErr, Live
<1>6. CASE req[p].op = "RevokeAuthorization"
  BY <1>2, <1>6, RowContinues DEF Writes, RevokeAuthorization, RevokeAuthorizationErr, Live
<1>7. CASE req[p].op = "EnterVehicle"
  BY <1>2, <1>7, RowContinues DEF Writes, EnterVehicle, EnterVehicleErr, Live
<1>8. CASE req[p].op = "ExitVehicle"
  BY <1>2, <1>8, RowContinues DEF Writes, ExitVehicle, ExitVehicleErr, Live
<1> QED
  BY <1>1, <1>3, <1>4, <1>5, <1>6, <1>7, <1>8 DEF Writes, Updates

\* The status of an authorization moves forward.
LEMMA LifecycleNext ==
  ASSUME KnownTypes, StampsFresh, FreshIDs, StoreStep
  PROVE  MovesForward
<1>1. CASE UNCHANGED auths
  BY <1>1 DEF MovesForward
<1>2. ASSUME NEW p \in Proc, Writes(p)
      PROVE  MovesForward
  BY <1>1, <1>2, AuthWrites DEF MovesForward, Continues, Forward, Assign
<1> QED
  BY <1>1, <1>2, StillOrChanged DEF Maps

\* LifecycleSteps, for a clock whose readings differ: the status checks of
\* RevokeAuthorization, EnterVehicle and ExitVehicle are made in the critical
\* section that writes the status.
THEOREM LifecycleForward ==
  ASSUME ~CoarseClock
  PROVE  Spec => LifecycleSteps
<1>1. TypeOK /\ StampsFresh /\ FreshIDs /\ [Next]_vars => [MovesForward]_vars
  BY LifecycleNext, StepCases
<1> QED
  BY <1>1, TypeCorrect, FreshStamps, IDsFresh, PTL DEF Spec, LifecycleSteps

\* A careful step leaves no two authorizations of a plate that overlap.
LEMMA OverlapNext ==
  ASSUME KnownTypes, StampsFresh, FreshIDs, NoOverlap, CarefulStep
  PROVE  NoOverlap'
<1>1. CASE UNCHANGED auths
  BY <1>1 DEF NoOverlap
<1>2. ASSUME NEW id, id \notin DOMAIN auths, NEW row, ~Conflicts(row),
             auths' = Assign(auths, id, row)
      PROVE  NoOverlap'
  <2>1. /\ DOMAIN auths' = DOMAIN auths \cup {id} /\ auths'[id] = row
        /\ \A x \in DOMAIN auths : auths'[x] = auths[x]
    BY <1>2 DEF Assign
  <2>2. \A x \in DOMAIN auths :
          auths[x].plate = row.plate /\ InForce(auths[x]) =>
            ~Overlap(row, auths[x]) /\ ~Overlap(auths[x], row)
    BY <1>2 DEF Conflicts, Overlap
  <2> QED
    BY <2>1, <2>2 DEF NoOverlap
<1>3. ASSUME NEW id \in DOMAIN auths, NEW v, Continues(auths[id], v),
             auths' = Assign(auths, id, v)
      PROVE  NoOverlap'
  <2>1. DOMAIN auths' = DOMAIN auths
    BY <1>3 DEF Assign
  <2>2. \A x \in DOMAIN auths :
          /\ auths'[x].plate = auths[x].plate
          /\ auths'[x].start = auths[x].start /\ auths'[x].end = auths[x].end
          /\ InForce(auths'[x]) => InForce(auths[x])
    BY <1>3 DEF Assign, Continues
  <2> QED
    BY <2>1, <2>2 DEF NoOverlap, Overlap
<1>4. ASSUME NEW p \in Proc, Writes(p), NoConflict(p)
      PROVE  NoOverlap'
  BY <1>1, <1>2, <1>3, <1>4, AuthWrites DEF NoConflict
<1> QED
  BY <1>1, <1>4 DEF CarefulStep, Rests, Stamps, Keeps, Changes, Maps

\* NoOverlap, for a clock whose readings differ and any number of plates,
\* authorizations and requests: CreateAuthorization compares the new window
\* with those of the plate in the critical section that adds it, and no later
\* write moves a window or brings an authorization back into force.
THEOREM WindowsApart ==
  ASSUME ~CoarseClock
  PROVE  Spec => []NoOverlap
<1>1. Init => NoOverlap
  BY DEF Init, StoreInit, EmptyMap, NoOverlap
<1>2. TypeOK /\ StampsFresh /\ FreshIDs /\ NoOverlap /\ [Next]_vars => NoOverlap'
  BY OverlapNext, StepCases
<1> QED
  BY <1>1, <1>2, TypeCorrect, FreshStamps, IDsFresh, PTL DEF Spec

-----------------------------------------------------------------------------
(* Capacity                                                                *)

\* A write leaves the areas alone, or adds one, or keeps the capacity of the
\* area it writes.
LEMMA AreaWrites ==
  ASSUME KnownTypes, StampsFresh, NEW p \in Proc, Writes(p)
  PROVE  /\ \A a \in DOMAIN areas : a \in DOMAIN areas' /\ areas'[a].capacity = areas[a].capacity
         /\ UNCHANGED areas \/ UNCHANGED records
<1>1. req[p].op \notin Updates
  BY NoUpdate
<1>2. \A x \in DOMAIN areas : \A t :
        [areas[x] EXCEPT !.archived = TRUE, !.updatedAt = t].capacity = areas[x].capacity
  BY DEF KnownTypes, StoreTypeOK, ParkingArea
<1>3. CASE req[p].op = "CreateParkingArea"
  BY <1>3 DEF Writes, CreateParkingArea, Assign
<1>4. CASE req[p].op = "ArchiveParkingArea"
  <2>1. /\ req[p].id \in DOMAIN areas /\ UNCHANGED records
        /\ \E v : /\ v.capacity = areas[req[p].id].capacity
                 /\ areas' = Assign(areas, req[p].id, v)
    BY <1>2, <1>4 DEF Writes, ArchiveParkingArea, Archived, ArchiveErr, Live
  <2> QED
    BY <2>1 DEF Assign
<1>5. CASE req[p].op \notin {"CreateParkingArea", "ArchiveParkingArea"}
  <2>1. UNCHANGED areas
    BY <1>1, <1>5 DEF Writes, Updates, CreateResident, ArchiveResident, CreateAuthorization,
       ArchiveAuthorization, RevokeAuthorization, EnterVehicle, ExitVehicle
  <2> QED
    BY <2>1
<1> QED
  BY <1>3, <1>4, <1>5

\* Every vehicle that entered did so in an area there is, and no area holds
\* more vehicles than it has spots.
CapacityInv ==
  /\ \A r \in DOMAIN records : records[r].area \in DOMAIN areas
  /\ CapacityRespected

\* An entry keeps CapacityInv: it found a free spot.
LEMMA EntryFits ==
  ASSUME KnownTypes, RecordsFinite, CapacityInv,
         NEW id, NEW t, NEW rec, EnterVehicleErr(id, t) = "nil", EnterVehicle(id, t, rec)
  PROVE  CapacityInv'
<1>1. auths[id].area \in DOMAIN areas /\ ~Full(auths[id].area) /\ UNCHANGED areas
  BY DEF EnterVehicle, EnterVehicleErr, Live
<1>2. \A r \in DOMAIN records' :
        records'[r].area = IF r = rec THEN auths[id].area ELSE records[r].area
  BY DEF EnterVehicle, Assign
<1>3. \A r \in DOMAIN records' : r = rec \/ r \in DOMAIN records
  BY DEF EnterVehicle, Assign
<1>4. \A a \in DOMAIN areas : Occupied(a)' <= areas[a].capacity
  <2> TAKE a \in DOMAIN areas
  <2>1. Occupied(a) \in Nat /\ areas[a].capacity \in Nat
    BY OccupiedNat DEF KnownTypes, StoreTypeOK, ParkingArea
  <2>2. Occupied(a)' = IF a = auths[id].area THEN Occupied(a) + 1 ELSE Occupied(a)
    BY EntryCounts
  <2> QED
    BY <1>1, <2>1, <2>2 DEF CapacityInv, CapacityRespected, Full
<1>5. CapacityRespected'
  BY <1>1, <1>4 DEF CapacityRespected
<1> QED
  BY <1>1, <1>2, <1>3, <1>5 DEF CapacityInv

\* An exit keeps CapacityInv: it frees a spot.
LEMMA ExitFits ==
  ASSUME KnownTypes, RecordsFinite, CapacityInv,
         NEW id, NEW t, NEW rec, ExitVehicle(id, t, rec)
  PROVE  CapacityInv'
<1>1. /\ DOMAIN records' = DOMAIN records /\ UNCHANGED areas
      /\ \A r \in DOMAIN records : records'[r].area = records[r].area
  <2>1. rec \in DOMAIN records /\ records[rec] \in EntryExitRecord
    BY DEF ExitVehicle, EnteredRecords, KnownTypes, StoreTypeOK
  <2>2. [records[rec] EXCEPT !.exit = t, !.status = "exited"].area = records[rec].area
    BY <2>1 DEF EntryExitRecord
  <2> QED
    BY <2>1, <2>2 DEF ExitVehicle, Assign
<1>2. \A a \in DOMAIN areas : Occupied(a)' <= areas[a].capacity
  <2> TAKE a \in DOMAIN areas
  <2>1. Occupied(a) \in Nat /\ areas[a].capacity \in Nat
    BY OccupiedNat DEF KnownTypes, StoreTypeOK, ParkingArea
  <2>2. Occupied(a)' = IF a = records[rec].area THEN Occupied(a) - 1 ELSE Occupied(a)
    BY ExitCounts DEF KnownTypes
  <2> QED
    BY <2>1, <2>2 DEF CapacityInv, CapacityRespected
<1> QED
  BY <1>1, <1>2 DEF CapacityInv, CapacityRespected

\* A write to the areas keeps CapacityInv: an area that is new is empty, and
\* the capacity of the others stays.
LEMMA AreasFit ==
  ASSUME KnownTypes, RecordsFinite, CapacityInv, UNCHANGED records,
         \A a \in DOMAIN areas : a \in DOMAIN areas' /\ areas'[a].capacity = areas[a].capacity,
         \A a \in DOMAIN areas' : areas'[a].capacity \in Nat
  PROVE  CapacityInv'
<1>1. \A a : Occupied(a)' = Occupied(a)
  BY DEF Occupied, Inside
<1>2. \A a \in DOMAIN areas' \ DOMAIN areas : Occupied(a) = 0
  <2> TAKE a \in DOMAIN areas' \ DOMAIN areas
  <2>1. Inside(a) = {}
    BY DEF Inside, CapacityInv
  <2> QED
    BY <2>1, FS_EmptySet DEF Occupied
<1>3. CapacityRespected'
  BY <1>1, <1>2 DEF CapacityInv, CapacityRespected
<1> QED
  BY <1>3 DEF CapacityInv

\* Every step of the store keeps CapacityInv.
LEMMA CapacityNext ==
  ASSUME KnownTypes, StoreTypeOK', StampsFresh, RecordsFinite, CapacityInv, StoreStep
  PROVE  CapacityInv'
<1>0. \A a \in DOMAIN areas' : areas'[a].capacity \in Nat
  BY DEF StoreTypeOK, ParkingArea
<1>1. CASE UNCHANGED <<areas, records>>
  BY <1>1 DEF CapacityInv, CapacityRespected, Occupied, Inside
<1>2. ASSUME NEW p \in Proc, Writes(p)
      PROVE  CapacityInv'
  BY <1>0, <1>2, RecordWrites, AreaWrites, EntryFits, ExitFits, AreasFit
<1> QED
  BY <1>1, <1>2, StillOrChanged DEF Maps

\* CapacityRespected, for a clock whose readings differ, any capacities and
\* any number of requests: entries find a free spot under the lock, and no
\* update lowers the capacity below the number of vehicles inside.
THEOREM CapacityKept ==
  ASSUME ~CoarseClock
  PROVE  Spec => []CapacityRespected
<1>1. Init => CapacityInv
  BY DEF Init, StoreInit, EmptyMap, CapacityInv, CapacityRespected
<1>2. TypeOK /\ TypeOK' /\ StampsFresh /\ RecordsFinite /\ CapacityInv /\ [Next]_vars
        => CapacityInv'
  BY CapacityNext, StepCases DEF TypeOK
<1>3. CapacityInv => CapacityRespected
  BY DEF CapacityInv
<1> QED
  BY <1>1, <1>2, <1>3, TypeCorrect, FreshStamps, FiniteRecords, PTL DEF Spec

-----------------------------------------------------------------------------
(* The ledger                                                              *)

\* The authorization was used: a vehicle entered with it.
Used(a) == a.status \in {"active", "completed"}

\* What makes no difference to the records of authorization a.
SameStory(a, b) ==
  \/ /\ b.plate = a.plate /\ b.area = a.area /\ b.start = a.start /\ b.end = a.end
     /\ b.status = a.status
  \/ ~Used(a) /\ ~Used(b)

\* Creations, archivings and revocations keep the ledger.
LEMMA LedgerStays ==
  ASSUME LedgerConsistent, UNCHANGED records,
         \A x \in DOMAIN auths : x \in DOMAIN auths' /\ SameStory(auths[x], auths'[x]),
         \A x \in DOMAIN auths' : x \in DOMAIN auths \/ ~Used(auths'[x])
  PROVE  LedgerConsistent'
<1>1. ASSUME NEW r \in DOMAIN records
      PROVE  RecordAgrees(records[r])'
  <2>1. RecordAgrees(records[r])
    BY <1>1 DEF LedgerConsistent
  <2>2. Used(auths[records[r].auth])
    BY <2>1 DEF RecordAgrees, Used
  <2> QED
    BY <2>1, <2>2 DEF RecordAgrees, SameStory, InWindow
<1>2. ASSUME NEW x \in DOMAIN auths', Used(auths'[x])
      PROVE  \E r \in DOMAIN records : records[r].auth = x
  BY <1>2 DEF LedgerConsistent, SameStory, Used
<1> QED
  BY <1>1, <1>2 DEF LedgerConsistent, Used

\* RecordAgrees, of any map of authorizations.
Agrees(m, rec) ==
  /\ rec.auth \in DOMAIN m
  /\ m[rec.auth].status = IF rec.status = "entered" THEN "active" ELSE "completed"
  /\ m[rec.auth].plate = rec.plate
  /\ m[rec.auth].area = rec.area
  /\ InWindow(m[rec.auth], rec.entry)

\* LedgerConsistent, after the step.
LEMMA LedgerAfter ==
  ASSUME \A r \in DOMAIN records' : Agrees(auths', records'[r]),
         \A r, s \in DOMAIN records' : records'[r].auth = records'[s].auth => r = s,
         \A x \in DOMAIN auths' : auths'[x].status \in {"active", "completed"} =>
           \E r \in DOMAIN records' : records'[r].auth = x
  PROVE  LedgerConsistent'
BY DEF LedgerConsistent, RecordAgrees, Agrees, InWindow

\* An entry keeps the ledger: the authorization had no record, being pending.
LEMMA LedgerEntry ==
  ASSUME KnownTypes, LedgerConsistent, NEW id, NEW t, NEW rec,
         EnterVehicleErr(id, t) = "nil", EnterVehicle(id, t, rec)
  PROVE  LedgerConsistent'
<1> DEFINE new == [auth |-> id, plate |-> auths[id].plate, area |-> auths[id].area,
                   entry |-> t, exit |-> ZeroTime, status |-> "entered"]
           row == [auths[id] EXCEPT !.status = "active", !.updatedAt = t]
<1>1. /\ id \in DOMAIN auths /\ auths[id].status = "pending"
      /\ InWindow(auths[id], t) /\ auths[id] \in Authorization
  BY DEF EnterVehicleErr, Live, KnownTypes, StoreTypeOK
<1>2. /\ row.status = "active" /\ row.plate = auths[id].plate /\ row.area = auths[id].area
      /\ row.start = auths[id].start /\ row.end = auths[id].end
  BY <1>1 DEF Authorization
<1>3. /\ new.auth = id /\ new.plate = auths[id].plate /\ new.area = auths[id].area
      /\ new.entry = t /\ new.status = "entered"
  OBVIOUS
<1>4. auths' = Assign(auths, id, row) /\ records' = Assign(records, rec, new)
  BY DEF EnterVehicle
<1>5. rec \notin DOMAIN records
  BY DEF EnterVehicle
<1> HIDE DEF new, row
<1>6. /\ DOMAIN auths' = DOMAIN auths /\ auths'[id] = row
      /\ \A x \in DOMAIN auths : x # id => auths'[x] = auths[x]
  BY <1>1, <1>4 DEF Assign
<1>7. /\ DOMAIN records' = DOMAIN records \cup {rec} /\ records'[rec] = new
      /\ \A r \in DOMAIN records : records'[r] = records[r]
  BY <1>4, <1>5 DEF Assign
<1>8. \A r \in DOMAIN records : Agrees(auths, records[r]) /\ records[r].auth # id
  BY <1>1 DEF LedgerConsistent, RecordAgrees, Agrees, InWindow
<1>9. Agrees(auths', new)
  BY <1>1, <1>2, <1>3, <1>6 DEF Agrees, InWindow
<1>10. ASSUME NEW r \in DOMAIN records
       PROVE  Agrees(auths', records[r])
  BY <1>6, <1>8 DEF Agrees
<1>11. \A r \in DOMAIN records' : Agrees(auths', records'[r])
  <2>1. TAKE r \in DOMAIN records'
  <2>2. CASE r = rec
    BY <1>7, <1>9, <2>2 DEF Agrees
  <2>3. CASE r # rec
    BY <1>7, <1>10, <2>1, <2>3 DEF Agrees
  <2> QED
    BY <2>2, <2>3
<1>12. \A r, s \in DOMAIN records' : records'[r].auth = records'[s].auth => r = s
  BY <1>3, <1>7, <1>8 DEF LedgerConsistent
<1>13. \A x \in DOMAIN auths' : auths'[x].status \in {"active", "completed"} =>
         \E r \in DOMAIN records' : records'[r].auth = x
  <2> SUFFICES ASSUME NEW x \in DOMAIN auths', auths'[x].status \in {"active", "completed"}
               PROVE  \E r \in DOMAIN records' : records'[r].auth = x
    OBVIOUS
  <2>1. CASE x = id
    BY <1>3, <1>7, <2>1
  <2>2. CASE x # id
    BY <1>6, <1>7, <2>2 DEF LedgerConsistent
  <2> QED
    BY <2>1, <2>2
<1> QED
  BY <1>11, <1>12, <1>13, LedgerAfter

\* An exit keeps the ledger: the record it closes is the only one of the
\* authorization it completes.
LEMMA LedgerExit ==
  ASSUME KnownTypes, LedgerConsistent, NEW id, NEW t, NEW rec,
         ExitVehicleErr(id) = "nil", ExitVehicle(id, t, rec)
  PROVE  LedgerConsistent'
<1> DEFINE new == [records[rec] EXCEPT !.exit = t, !.status = "exited"]
           row == [auths[id] EXCEPT !.status = "completed", !.updatedAt = t]
<1>1. /\ id \in DOMAIN auths /\ auths[id] \in Authorization
      /\ rec \in DOMAIN records /\ records[rec] \in EntryExitRecord
      /\ records[rec].auth = id
  BY DEF ExitVehicleErr, Live, ExitVehicle, EnteredRecords, KnownTypes, StoreTypeOK
<1>2. /\ row.status = "completed" /\ row.plate = auths[id].plate /\ row.area = auths[id].area
      /\ row.start = auths[id].start /\ row.end = auths[id].end
  BY <1>1 DEF Authorization
<1>3. /\ new.auth = id /\ new.plate = records[rec].plate /\ new.area = records[rec].area
      /\ new.entry = records[rec].entry /\ new.status = "exited"
  BY <1>1 DEF EntryExitRecord
<1>4. auths' = Assign(auths, id, row) /\ records' = Assign(records, rec, new)
  BY DEF ExitVehicle
<1> HIDE DEF new, row
<1>5. /\ DOMAIN auths' = DOMAIN auths /\ auths'[id] = row
      /\ \A x \in DOMAIN auths : x # id => auths'[x] = auths[x]
  BY <1>1, <1>4 DEF Assign
<1>6. /\ DOMAIN records' = DOMAIN records /\ records'[rec] = new
      /\ \A r \in DOMAIN records : r # rec => records'[r] = records[r]
  BY <1>1, <1>4 DEF Assign
<1>7. \A r \in DOMAIN records : /\ Agrees(auths, records[r])
                                /\ r # rec => records[r].auth # id
  BY <1>1 DEF LedgerConsistent, RecordAgrees, Agrees, InWindow
<1>8. Agrees(auths', new)
  <2>1. Agrees(auths, records[rec])
    BY <1>1, <1>7
  <2> QED
    BY <1>1, <1>2, <1>3, <1>5, <2>1 DEF Agrees, InWindow
<1>9. ASSUME NEW r \in DOMAIN records, r # rec
      PROVE  Agrees(auths', records[r])
  BY <1>5, <1>7, <1>9 DEF Agrees
<1>10. \A r \in DOMAIN records' : Agrees(auths', records'[r])
  <2>1. TAKE r \in DOMAIN records'
  <2>2. CASE r = rec
    BY <1>6, <1>8, <2>2 DEF Agrees
  <2>3. CASE r # rec
    BY <1>6, <1>9, <2>1, <2>3 DEF Agrees
  <2> QED
    BY <2>2, <2>3
<1>11. \A r \in DOMAIN records : records'[r].auth = records[r].auth
  BY <1>1, <1>3, <1>6
<1>12. \A r, s \in DOMAIN records' : records'[r].auth = records'[s].auth => r = s
  BY <1>6, <1>11 DEF LedgerConsistent
<1>13. \A x \in DOMAIN auths' : auths'[x].status \in {"active", "completed"} =>
         \E r \in DOMAIN records' : records'[r].auth = x
  <2> SUFFICES ASSUME NEW x \in DOMAIN auths', auths'[x].status \in {"active", "completed"}
               PROVE  \E r \in DOMAIN records' : records'[r].auth = x
    OBVIOUS
  <2>1. CASE x = id
    BY <1>1, <1>6, <1>11, <2>1
  <2>2. CASE x # id
    BY <1>5, <1>6, <1>11, <2>2 DEF LedgerConsistent
  <2> QED
    BY <2>1, <2>2
<1> QED
  BY <1>10, <1>12, <1>13, LedgerAfter

\* Every write keeps the ledger.
LEMMA LedgerWrites ==
  ASSUME KnownTypes, StampsFresh, FreshIDs, WindowsInv, LedgerConsistent,
         NEW p \in Proc, Writes(p)
  PROVE  LedgerConsistent'
<1> DEFINE id == req[p].id
           t == req[p].t
<1>1. req[p].op \notin Updates
  BY NoUpdate
<1>2. \A x \in DOMAIN auths :
        /\ SameStory(auths[x], auths[x])
        /\ SameStory(auths[x], [auths[x] EXCEPT !.archived = TRUE, !.updatedAt = t])
        /\ auths[x].status = "pending" =>
             SameStory(auths[x], [auths[x] EXCEPT !.status = "cancelled", !.updatedAt = t])
  BY DEF KnownTypes, StoreTypeOK, Authorization, SameStory, Used
<1>3. CASE req[p].op \in {"CreateResident", "CreateParkingArea",
                          "ArchiveResident", "ArchiveParkingArea"}
  <2>1. UNCHANGED <<auths, records>>
    BY <1>3 DEF Writes, CreateResident, CreateParkingArea, ArchiveResident, ArchiveParkingArea
  <2> QED
    BY <1>2, <2>1, LedgerStays
<1>4. CASE req[p].op = "CreateAuthorization"
  <2>1. /\ id \notin DOMAIN auths /\ req[p].in.status = "pending"
        /\ auths' = Assign(auths, id, req[p].in) /\ UNCHANGED records
    BY <1>4 DEF Writes, FreshIDs, WindowsInv, NewBooking, Creates, CreateAuthorization
  <2>2. /\ \A x \in DOMAIN auths : x \in DOMAIN auths' /\ auths'[x] = auths[x]
        /\ \A x \in DOMAIN auths' : x \in DOMAIN auths \/ ~Used(auths'[x])
    BY <2>1 DEF Assign, Used
  <2> QED
    BY <1>2, <2>1, <2>2, LedgerStays
<1>5. ASSUME id \in DOMAIN auths, NEW v, SameStory(auths[id], v),
             auths' = Assign(auths, id, v), UNCHANGED records
      PROVE  LedgerConsistent'
  <2>1. /\ DOMAIN auths' = DOMAIN auths
        /\ \A x \in DOMAIN auths : SameStory(auths[x], auths'[x])
    BY <1>2, <1>5 DEF Assign
  <2> QED
    BY <1>5, <2>1, LedgerStays
<1>6. CASE req[p].op = "ArchiveAuthorization"
  BY <1>2, <1>5, <1>6 DEF Writes, ArchiveAuthorization, Archived, ArchiveErr, Live
<1>7. CASE req[p].op = "RevokeAuthorization"
  BY <1>2, <1>5, <1>7 DEF Writes, RevokeAuthorization, RevokeAuthorizationErr, Live
<1>8. CASE req[p].op = "EnterVehicle"
  BY <1>8, LedgerEntry DEF Writes
<1>9. CASE req[p].op = "ExitVehicle"
  BY <1>9, LedgerExit DEF Writes
<1> QED
  BY <1>1, <1>3, <1>4, <1>6, <1>7, <1>8, <1>9 DEF Writes, Updates

\* So does every step of the store.
LEMMA LedgerNext ==
  ASSUME KnownTypes, StampsFresh, FreshIDs, WindowsInv, LedgerConsistent, StoreStep
  PROVE  LedgerConsistent'
<1>1. CASE UNCHANGED <<auths, records>>
  BY <1>1 DEF LedgerConsistent, RecordAgrees
<1> QED
  BY <1>1, LedgerWrites, StillOrChanged DEF Maps

\* LedgerConsistent, for a clock whose readings differ: EnterVehicle and
\* ExitVehicle write the record and the status of the authorization in one
\* critical section, and no update writes an old copy of either back.
THEOREM LedgerKept ==
  ASSUME ~CoarseClock
  PROVE  Spec => []LedgerConsistent
<1>1. Init => LedgerConsistent
  BY DEF Init, StoreInit, EmptyMap, LedgerConsistent
<1>2. TypeOK /\ StampsFresh /\ FreshIDs /\ WindowsInv /\ LedgerConsistent /\ [Next]_vars
        => LedgerConsistent'
  BY LedgerNext, StepCases
<1> QED
  BY <1>1, <1>2, TypeCorrect, FreshStamps, IDsFresh, WindowsHold, PTL DEF Spec

-----------------------------------------------------------------------------
(* The audit log                                                           *)

\* The entries that tell of action a, for each identifier of S.
Entries(a, S) == {<<a, x>> : x \in S}

\* What Effects collects of a map.
ArchivedIn(m) == {x \in DOMAIN m : m[x].archived}
InStatus(m, s) == {x \in DOMAIN m : m[x].status = s}

\* Effects, map by map.
ResidentEffects(m) ==
  Entries("resident.create", DOMAIN m) \cup Entries("resident.archive", ArchivedIn(m))
AreaEffects(m) ==
  Entries("area.create", DOMAIN m) \cup Entries("area.archive", ArchivedIn(m))
AuthEffects(m) ==
  Entries("authorization.create", DOMAIN m)
  \cup Entries("authorization.archive", ArchivedIn(m))
  \cup Entries("authorization.revoke", InStatus(m, "cancelled"))
RecordEffects(m) ==
  Entries("entry.record", DOMAIN m) \cup Entries("exit.record", InStatus(m, "exited"))

\* Before and after a step.
LEMMA EffectMaps ==
  /\ Effects = ResidentEffects(residents) \cup AreaEffects(areas)
                 \cup AuthEffects(auths) \cup RecordEffects(records)
  /\ Effects' = ResidentEffects(residents') \cup AreaEffects(areas')
                  \cup AuthEffects(auths') \cup RecordEffects(records')
<1> DEFINE rc(m) == Entries("resident.create", DOMAIN m)
           ra(m) == Entries("resident.archive", ArchivedIn(m))
           pc(m) == Entries("area.create", DOMAIN m)
           pa(m) == Entries("area.archive", ArchivedIn(m))
           ac(m) == Entries("authorization.create", DOMAIN m)
           aa(m) == Entries("authorization.archive", ArchivedIn(m))
           av(m) == Entries("authorization.revoke", InStatus(m, "cancelled"))
           ei(m) == Entries("entry.record", DOMAIN m)
           xo(m) == Entries("exit.record", InStatus(m, "exited"))
<1>1. /\ Effects = rc(residents) \cup ra(residents) \cup pc(areas) \cup pa(areas)
                    \cup ac(auths) \cup aa(auths) \cup av(auths)
                    \cup ei(records) \cup xo(records)
      /\ Effects' = rc(residents') \cup ra(residents') \cup pc(areas') \cup pa(areas')
                     \cup ac(auths') \cup aa(auths') \cup av(auths')
                     \cup ei(records') \cup xo(records')
  BY Zenon DEF Effects, Entries, ArchivedIn, InStatus
<1>2. \A m : /\ ResidentEffects(m) = rc(m) \cup ra(m)
             /\ AreaEffects(m) = pc(m) \cup pa(m)
             /\ AuthEffects(m) = ac(m) \cup aa(m) \cup av(m)
             /\ RecordEffects(m) = ei(m) \cup xo(m)
  BY DEF ResidentEffects, AreaEffects, AuthEffects, RecordEffects
<1> HIDE DEF rc, ra, pc, pa, ac, aa, av, ei, xo
<1> QED
  BY <1>1, <1>2

\* A set with one element more, opaque to the provers where only that counts.
OneMore(new, old, e) == new = old \cup {e}

\* One entry more for one of the maps is one effect more.
LEMMA EffectAdded ==
  ASSUME NEW e
  PROVE  /\ /\ OneMore(ResidentEffects(residents'), ResidentEffects(residents), e)
            /\ UNCHANGED <<areas, auths, records>>
            => OneMore(Effects', Effects, e)
         /\ /\ OneMore(AreaEffects(areas'), AreaEffects(areas), e)
            /\ UNCHANGED <<residents, auths, records>>
            => OneMore(Effects', Effects, e)
         /\ /\ OneMore(AuthEffects(auths'), AuthEffects(auths), e)
            /\ UNCHANGED <<residents, areas, records>>
            => OneMore(Effects', Effects, e)
         /\ /\ OneMore(RecordEffects(records'), RecordEffects(records), e)
            /\ AuthEffects(auths') = AuthEffects(auths)
            /\ UNCHANGED <<residents, areas>>
            => OneMore(Effects', Effects, e)
<1>1. ASSUME OneMore(ResidentEffects(residents'), ResidentEffects(residents), e),
             UNCHANGED <<areas, auths, records>>
      PROVE  OneMore(Effects', Effects, e)
  BY <1>1, EffectMaps DEF OneMore
<1>2. ASSUME OneMore(AreaEffects(areas'), AreaEffects(areas), e),
             UNCHANGED <<residents, auths, records>>
      PROVE  OneMore(Effects', Effects, e)
  BY <1>2, EffectMaps DEF OneMore
<1>3. ASSUME OneMore(AuthEffects(auths'), AuthEffects(auths), e),
             UNCHANGED <<residents, areas, records>>
      PROVE  OneMore(Effects', Effects, e)
  BY <1>3, EffectMaps DEF OneMore
<1>4. ASSUME OneMore(RecordEffects(records'), RecordEffects(records), e),
             AuthEffects(auths') = AuthEffects(auths),
             UNCHANGED <<residents, areas>>
      PROVE  OneMore(Effects', Effects, e)
  BY <1>4, EffectMaps DEF OneMore
<1> QED
  BY <1>1, <1>2, <1>3, <1>4

\* One identifier more is one entry more.
LEMMA EntryAdded ==
  \A a, S, T, x : OneMore(T, S, x) => OneMore(Entries(a, T), Entries(a, S), <<a, x>>)
BY DEF Entries, OneMore

\* What one identifier more, of one of its sets, adds to the effects of a map.
LEMMA ResidentGrows ==
  ASSUME NEW m, NEW n, NEW k
  PROVE  /\ OneMore(DOMAIN n, DOMAIN m, k) /\ ArchivedIn(n) = ArchivedIn(m) =>
              OneMore(ResidentEffects(n), ResidentEffects(m), <<"resident.create", k>>)
         /\ DOMAIN n = DOMAIN m /\ OneMore(ArchivedIn(n), ArchivedIn(m), k) =>
              OneMore(ResidentEffects(n), ResidentEffects(m), <<"resident.archive", k>>)
<1>1. OneMore(DOMAIN n, DOMAIN m, k) =>
      OneMore(Entries("resident.create", DOMAIN n), Entries("resident.create", DOMAIN m),
              <<"resident.create", k>>)
  BY EntryAdded
<1>2. OneMore(ArchivedIn(n), ArchivedIn(m), k) =>
      OneMore(Entries("resident.archive", ArchivedIn(n)),
              Entries("resident.archive", ArchivedIn(m)),
              <<"resident.archive", k>>)
  BY EntryAdded
<1> QED
  BY <1>1, <1>2 DEF ResidentEffects, OneMore

\* The same of areas.
LEMMA AreaGrows ==
  ASSUME NEW m, NEW n, NEW k
  PROVE  /\ OneMore(DOMAIN n, DOMAIN m, k) /\ ArchivedIn(n) = ArchivedIn(m) =>
              OneMore(AreaEffects(n), AreaEffects(m), <<"area.create", k>>)
         /\ DOMAIN n = DOMAIN m /\ OneMore(ArchivedIn(n), ArchivedIn(m), k) =>
              OneMore(AreaEffects(n), AreaEffects(m), <<"area.archive", k>>)
<1>1. OneMore(DOMAIN n, DOMAIN m, k) =>
      OneMore(Entries("area.create", DOMAIN n), Entries("area.create", DOMAIN m),
              <<"area.create", k>>)
  BY EntryAdded
<1>2. OneMore(ArchivedIn(n), ArchivedIn(m), k) =>
      OneMore(Entries("area.archive", ArchivedIn(n)), Entries("area.archive", ArchivedIn(m)),
              <<"area.archive", k>>)
  BY EntryAdded
<1> QED
  BY <1>1, <1>2 DEF AreaEffects, OneMore

\* The same of authorizations.
LEMMA AuthGrows ==
  ASSUME NEW m, NEW n, NEW k
  PROVE  /\ OneMore(DOMAIN n, DOMAIN m, k) /\ ArchivedIn(n) = ArchivedIn(m)
            /\ InStatus(n, "cancelled") = InStatus(m, "cancelled") =>
              OneMore(AuthEffects(n), AuthEffects(m), <<"authorization.create", k>>)
         /\ DOMAIN n = DOMAIN m /\ OneMore(ArchivedIn(n), ArchivedIn(m), k)
            /\ InStatus(n, "cancelled") = InStatus(m, "cancelled") =>
              OneMore(AuthEffects(n), AuthEffects(m), <<"authorization.archive", k>>)
         /\ DOMAIN n = DOMAIN m /\ ArchivedIn(n) = ArchivedIn(m)
            /\ OneMore(InStatus(n, "cancelled"), InStatus(m, "cancelled"), k) =>
              OneMore(AuthEffects(n), AuthEffects(m), <<"authorization.revoke", k>>)
<1>1. OneMore(DOMAIN n, DOMAIN m, k) =>
      OneMore(Entries("authorization.create", DOMAIN n),
              Entries("authorization.create", DOMAIN m),
              <<"authorization.create", k>>)
  BY EntryAdded
<1>2. OneMore(ArchivedIn(n), ArchivedIn(m), k) =>
      OneMore(Entries("authorization.archive", ArchivedIn(n)),
              Entries("authorization.archive", ArchivedIn(m)),
              <<"authorization.archive", k>>)
  BY EntryAdded
<1>3. OneMore(InStatus(n, "cancelled"), InStatus(m, "cancelled"), k) =>
      OneMore(Entries("authorization.revoke", InStatus(n, "cancelled")),
              Entries("authorization.revoke", InStatus(m, "cancelled")),
              <<"authorization.revoke", k>>)
  BY EntryAdded
<1> QED
  BY <1>1, <1>2, <1>3 DEF AuthEffects, OneMore

\* The same of records.
LEMMA RecordGrows ==
  ASSUME NEW m, NEW n, NEW k
  PROVE  /\ OneMore(DOMAIN n, DOMAIN m, k) /\ InStatus(n, "exited") = InStatus(m, "exited") =>
              OneMore(RecordEffects(n), RecordEffects(m), <<"entry.record", k>>)
         /\ DOMAIN n = DOMAIN m /\ OneMore(InStatus(n, "exited"), InStatus(m, "exited"), k) =>
              OneMore(RecordEffects(n), RecordEffects(m), <<"exit.record", k>>)
<1>1. OneMore(DOMAIN n, DOMAIN m, k) =>
      OneMore(Entries("entry.record", DOMAIN n), Entries("entry.record", DOMAIN m),
              <<"entry.record", k>>)
  BY EntryAdded
<1>2. OneMore(InStatus(n, "exited"), InStatus(m, "exited"), k) =>
      OneMore(Entries("exit.record", InStatus(n, "exited")),
              Entries("exit.record", InStatus(m, "exited")),
              <<"exit.record", k>>)
  BY EntryAdded
<1> QED
  BY <1>1, <1>2 DEF RecordEffects, OneMore

\* What an assignment does to the sets that Effects is made of: to a new
\* row or one that is live.
LEMMA AssignArchives ==
  ASSUME NEW m, NEW k, NEW v, k \in DOMAIN m => ~m[k].archived
  PROVE  /\ v.archived => OneMore(ArchivedIn(Assign(m, k, v)), ArchivedIn(m), k)
         /\ ~v.archived => ArchivedIn(Assign(m, k, v)) = ArchivedIn(m)
BY DEF Assign, ArchivedIn, OneMore

\* To a row that has status s, or gets it, or is without it.
LEMMA AssignStatus ==
  ASSUME NEW m, NEW k, NEW v, NEW s
  PROVE  /\ v.status = s => OneMore(InStatus(Assign(m, k, v), s), InStatus(m, s), k)
         /\ v.status # s /\ (k \in DOMAIN m => m[k].status # s) =>
              InStatus(Assign(m, k, v), s) = InStatus(m, s)
         /\ k \in DOMAIN m /\ m[k].status = v.status =>
              InStatus(Assign(m, k, v), s) = InStatus(m, s)
BY DEF Assign, InStatus, OneMore

\* To a key, old or new.
LEMMA AssignDomain ==
  ASSUME NEW m, NEW k, NEW v
  PROVE  /\ OneMore(DOMAIN Assign(m, k, v), DOMAIN m, k)
         /\ k \in DOMAIN m => DOMAIN Assign(m, k, v) = DOMAIN m
BY DEF Assign, OneMore

\* The rows that writes make, as the sets of Effects tell them apart.
LEMMA RowMarks ==
  /\ \A a \in Resident : \A t :
       [a EXCEPT !.archived = TRUE, !.updatedAt = t].archived
  /\ \A a \in ParkingArea : \A t :
       [a EXCEPT !.archived = TRUE, !.updatedAt = t].archived
  /\ \A a \in Authorization : \A t :
       /\ [a EXCEPT !.archived = TRUE, !.updatedAt = t].archived
       /\ [a EXCEPT !.archived = TRUE, !.updatedAt = t].status = a.status
       /\ \A s : /\ [a EXCEPT !.status = s, !.updatedAt = t].archived = a.archived
                 /\ [a EXCEPT !.status = s, !.updatedAt = t].status = s
  /\ \A r \in EntryExitRecord : \A t :
       [r EXCEPT !.exit = t, !.status = "exited"].status = "exited"
BY DEF Resident, ParkingArea, Authorization, EntryExitRecord

\* Every write has one effect more, the one its audit entry is to name.
LEMMA EffectWrites ==
  ASSUME KnownTypes, StampsFresh, FreshIDs, WindowsInv, NEW p \in Proc, Writes(p), NEW x,
         CASE req[p].op = "EnterVehicle" -> EnterVehicle(req[p].id, req[p].t, x)
           [] req[p].op = "ExitVehicle" -> ExitVehicle(req[p].id, req[p].t, x)
           [] OTHER -> x = req[p].id
  PROVE  OneMore(Effects', Effects, <<AuditAction(req[p].op), x>>)
<1> DEFINE id == req[p].id
           t == req[p].t
<1>0. req[p].op \notin Updates
  BY NoUpdate
<1>1. /\ \A k \in DOMAIN residents : residents[k] \in Resident
      /\ \A k \in DOMAIN areas : areas[k] \in ParkingArea
      /\ \A k \in DOMAIN auths : auths[k] \in Authorization
      /\ \A k \in DOMAIN records : records[k] \in EntryExitRecord
      /\ StoringOK(req[p])
  BY DEF KnownTypes, StoreTypeOK, Writes
<1>2. CASE req[p].op = "CreateResident"
  <2>1. /\ id \notin DOMAIN residents /\ ~req[p].in.archived /\ x = id
        /\ residents' = Assign(residents, id, req[p].in) /\ UNCHANGED <<areas, auths, records>>
    BY <1>1, <1>2 DEF Writes, CreateResident, StoringOK
  <2>2. /\ OneMore(DOMAIN residents', DOMAIN residents, id)
        /\ ArchivedIn(residents') = ArchivedIn(residents)
    BY <2>1, AssignDomain, AssignArchives, AssignStatus
  <2>3. AuditAction(req[p].op) = "resident.create"
    BY <1>2 DEF AuditAction
  <2>4. OneMore(ResidentEffects(residents'), ResidentEffects(residents), <<"resident.create", id>>)
    BY <2>1, <2>2, ResidentGrows
  <2> QED
    BY <2>1, <2>3, <2>4, EffectAdded
<1>3. CASE req[p].op = "ArchiveResident"
  <2> DEFINE row == [residents[id] EXCEPT !.archived = TRUE, !.updatedAt = t]
  <2>1. /\ id \in DOMAIN residents /\ ~residents[id].archived /\ x = id
        /\ residents' = Assign(residents, id, row) /\ UNCHANGED <<areas, auths, records>>
    BY <1>3 DEF Writes, ArchiveResident, Archived, ArchiveErr, Live
  <2>2. row.archived
    BY <1>1, <2>1, RowMarks
  <2> HIDE DEF row
  <2>3. /\ DOMAIN residents' = DOMAIN residents
        /\ OneMore(ArchivedIn(residents'), ArchivedIn(residents), id)
    BY <2>1, <2>2, AssignDomain, AssignArchives, AssignStatus
  <2>4. AuditAction(req[p].op) = "resident.archive"
    BY <1>3 DEF AuditAction
  <2>5. OneMore(ResidentEffects(residents'), ResidentEffects(residents), <<"resident.archive", id>>)
    BY <2>1, <2>3, ResidentGrows
  <2> QED
    BY <2>1, <2>4, <2>5, EffectAdded
<1>4. CASE req[p].op = "CreateParkingArea"
  <2>1. /\ id \notin DOMAIN areas /\ ~req[p].in.archived /\ x = id
        /\ areas' = Assign(areas, id, req[p].in) /\ UNCHANGED <<residents, auths, records>>
    BY <1>1, <1>4 DEF Writes, CreateParkingArea, StoringOK
  <2>2. /\ OneMore(DOMAIN areas', DOMAIN areas, id)
        /\ ArchivedIn(areas') = ArchivedIn(areas)
    BY <2>1, AssignDomain, AssignArchives, AssignStatus
  <2>3. AuditAction(req[p].op) = "area.create"
    BY <1>4 DEF AuditAction
  <2>4. OneMore(AreaEffects(areas'), AreaEffects(areas), <<"area.create", id>>)
    BY <2>1, <2>2, AreaGrows
  <2> QED
    BY <2>1, <2>3, <2>4, EffectAdded
<1>5. CASE req[p].op = "ArchiveParkingArea"
  <2> DEFINE row == [areas[id] EXCEPT !.archived = TRUE, !.updatedAt = t]
  <2>1. /\ id \in DOMAIN areas /\ ~areas[id].archived /\ x = id
        /\ areas' = Assign(areas, id, row) /\ UNCHANGED <<residents, auths, records>>
    BY <1>5 DEF Writes, ArchiveParkingArea, Archived, ArchiveErr, Live
  <2>2. row.archived
    BY <1>1, <2>1, RowMarks
  <2> HIDE DEF row
  <2>3. /\ DOMAIN areas' = DOMAIN areas
        /\ OneMore(ArchivedIn(areas'), ArchivedIn(areas), id)
    BY <2>1, <2>2, AssignDomain, AssignArchives, AssignStatus
  <2>4. AuditAction(req[p].op) = "area.archive"
    BY <1>5 DEF AuditAction
  <2>5. OneMore(AreaEffects(areas'), AreaEffects(areas), <<"area.archive", id>>)
    BY <2>1, <2>3, AreaGrows
  <2> QED
    BY <2>1, <2>4, <2>5, EffectAdded
<1>6. CASE req[p].op = "CreateAuthorization"
  <2>1. /\ id \notin DOMAIN auths /\ ~req[p].in.archived /\ req[p].in.status = "pending"
        /\ auths' = Assign(auths, id, req[p].in) /\ UNCHANGED <<residents, areas, records>>
        /\ x = id
    BY <1>1, <1>6
    DEF Writes, FreshIDs, WindowsInv, NewBooking, Creates, CreateAuthorization, StoringOK
  <2>2. /\ OneMore(DOMAIN auths', DOMAIN auths, id)
        /\ ArchivedIn(auths') = ArchivedIn(auths)
        /\ InStatus(auths', "cancelled") = InStatus(auths, "cancelled")
    BY <2>1, AssignDomain, AssignArchives, AssignStatus
  <2>3. AuditAction(req[p].op) = "authorization.create"
    BY <1>6 DEF AuditAction
  <2>4. OneMore(AuthEffects(auths'), AuthEffects(auths), <<"authorization.create", id>>)
    BY <2>1, <2>2, AuthGrows
  <2> QED
    BY <2>1, <2>3, <2>4, EffectAdded
<1>7. CASE req[p].op = "ArchiveAuthorization"
  <2> DEFINE row == [auths[id] EXCEPT !.archived = TRUE, !.updatedAt = t]
  <2>1. /\ id \in DOMAIN auths /\ ~auths[id].archived /\ x = id
        /\ auths' = Assign(auths, id, row) /\ UNCHANGED <<residents, areas, records>>
    BY <1>7 DEF Writes, ArchiveAuthorization, Archived, ArchiveErr, Live
  <2>2. row.archived /\ row.status = auths[id].status
    BY <1>1, <2>1, RowMarks
  <2> HIDE DEF row
  <2>3. /\ DOMAIN auths' = DOMAIN auths
        /\ OneMore(ArchivedIn(auths'), ArchivedIn(auths), id)
        /\ InStatus(auths', "cancelled") = InStatus(auths, "cancelled")
    BY <2>1, <2>2, AssignDomain, AssignArchives, AssignStatus
  <2>4. AuditAction(req[p].op) = "authorization.archive"
    BY <1>7 DEF AuditAction
  <2>5. OneMore(AuthEffects(auths'), AuthEffects(auths), <<"authorization.archive", id>>)
    BY <2>1, <2>3, AuthGrows
  <2> QED
    BY <2>1, <2>4, <2>5, EffectAdded
<1>8. ASSUME id \in DOMAIN auths, ~auths[id].archived, auths[id].status # "cancelled",
             NEW row, row.archived = auths[id].archived, auths' = Assign(auths, id, row)
      PROVE  /\ DOMAIN auths' = DOMAIN auths
             /\ ArchivedIn(auths') = ArchivedIn(auths)
             /\ row.status = "cancelled" =>
                  OneMore(InStatus(auths', "cancelled"), InStatus(auths, "cancelled"), id)
             /\ row.status # "cancelled" =>
                  InStatus(auths', "cancelled") = InStatus(auths, "cancelled")
  BY <1>8, AssignDomain, AssignArchives, AssignStatus
<1>9. CASE req[p].op = "RevokeAuthorization"
  <2> DEFINE row == [auths[id] EXCEPT !.status = "cancelled", !.updatedAt = t]
  <2>1. /\ id \in DOMAIN auths /\ ~auths[id].archived /\ auths[id].status = "pending" /\ x = id
        /\ auths' = Assign(auths, id, row)
        /\ UNCHANGED <<residents, areas, records>>
    BY <1>9 DEF Writes, RevokeAuthorization, RevokeAuthorizationErr, Live
  <2>2. row.archived = auths[id].archived /\ row.status = "cancelled"
    BY <1>1, <2>1, RowMarks
  <2> HIDE DEF row
  <2>3. AuditAction(req[p].op) = "authorization.revoke"
    BY <1>9 DEF AuditAction
  <2>4. OneMore(AuthEffects(auths'), AuthEffects(auths), <<"authorization.revoke", id>>)
    BY <1>8, <2>1, <2>2, AuthGrows
  <2> QED
    BY <2>1, <2>3, <2>4, EffectAdded
<1>10. CASE req[p].op = "EnterVehicle"
  <2> DEFINE row == [auths[id] EXCEPT !.status = "active", !.updatedAt = t]
             new == [auth |-> id, plate |-> auths[id].plate, area |-> auths[id].area,
                     entry |-> t, exit |-> ZeroTime, status |-> "entered"]
  <2>1. /\ id \in DOMAIN auths /\ ~auths[id].archived /\ auths[id].status = "pending"
        /\ auths' = Assign(auths, id, row)
        /\ x \notin DOMAIN records /\ records' = Assign(records, x, new)
        /\ UNCHANGED <<residents, areas>>
    BY <1>10 DEF Writes, EnterVehicle, EnterVehicleErr, Live
  <2>2. /\ new.status = "entered"
        /\ row.archived = auths[id].archived /\ row.status = "active"
    BY <1>1, <2>1, RowMarks
  <2> HIDE DEF row, new
  <2>3. /\ OneMore(DOMAIN records', DOMAIN records, x)
        /\ InStatus(records', "exited") = InStatus(records, "exited")
    BY <2>1, <2>2, AssignDomain, AssignArchives, AssignStatus
  <2>4. AuditAction(req[p].op) = "entry.record"
    BY <1>10 DEF AuditAction
  <2>5. OneMore(RecordEffects(records'), RecordEffects(records), <<"entry.record", x>>)
    BY <1>8, <2>1, <2>3, RecordGrows
  <2>6. AuthEffects(auths') = AuthEffects(auths)
    <3>1. /\ DOMAIN auths' = DOMAIN auths /\ ArchivedIn(auths') = ArchivedIn(auths)
          /\ InStatus(auths', "cancelled") = InStatus(auths, "cancelled")
      BY <1>8, <2>1, <2>2
    <3> QED
      BY <3>1 DEF AuthEffects
  <2>7. UNCHANGED <<residents, areas>>
    BY <2>1
  <2> QED
    BY <2>4, <2>5, <2>6, <2>7, EffectAdded
<1>11. CASE req[p].op = "ExitVehicle"
  <2> DEFINE row == [auths[id] EXCEPT !.status = "completed", !.updatedAt = t]
             new == [records[x] EXCEPT !.exit = t, !.status = "exited"]
  <2>1. /\ id \in DOMAIN auths /\ ~auths[id].archived /\ auths[id].status = "active"
        /\ auths' = Assign(auths, id, row)
        /\ x \in DOMAIN records /\ records[x].status = "entered"
        /\ records' = Assign(records, x, new) /\ UNCHANGED <<residents, areas>>
    BY <1>11 DEF Writes, ExitVehicle, ExitVehicleErr, EnteredRecords, Live
  <2>2. /\ new.status = "exited"
        /\ row.archived = auths[id].archived /\ row.status = "completed"
    BY <1>1, <2>1, RowMarks
  <2> HIDE DEF row, new
  <2>3. /\ DOMAIN records' = DOMAIN records
        /\ OneMore(InStatus(records', "exited"), InStatus(records, "exited"), x)
    BY <2>1, <2>2, AssignDomain, AssignArchives, AssignStatus
  <2>4. AuditAction(req[p].op) = "exit.record"
    BY <1>11 DEF AuditAction
  <2>5. OneMore(RecordEffects(records'), RecordEffects(records), <<"exit.record", x>>)
    BY <1>8, <2>1, <2>3, RecordGrows
  <2>6. AuthEffects(auths') = AuthEffects(auths)
    <3>1. /\ DOMAIN auths' = DOMAIN auths /\ ArchivedIn(auths') = ArchivedIn(auths)
          /\ InStatus(auths', "cancelled") = InStatus(auths, "cancelled")
      BY <1>8, <2>1, <2>2
    <3> QED
      BY <3>1 DEF AuthEffects
  <2>7. UNCHANGED <<residents, areas>>
    BY <2>1
  <2> QED
    BY <2>4, <2>5, <2>6, <2>7, EffectAdded
<1> QED
  BY <1>0, <1>2, <1>3, <1>4, <1>5, <1>6, <1>7, <1>9, <1>10, <1>11 DEF Writes, Updates

\* What an outcome does to the entries about to be written.
LEMMA AuditingStep ==
  ASSUME NEW p \in Proc, Outcome(p)
  PROVE  /\ Refused(p) \/ GoesOn(p) => UNCHANGED <<Auditing, logs>>
         /\ Audited(p) => logs' \cup Auditing' = logs \cup Auditing
         /\ \A x : Writes(p) /\ UNCHANGED logs
                   /\ req'[p] = Request(req[p].op, "audit", x, ZeroTime, None, None) =>
              logs' \cup Auditing' = logs \cup Auditing \cup {<<AuditAction(req[p].op), x>>}
<1> DEFINE Entry(q) == <<AuditAction(req[q].op), req[q].id>>
           Others == {Entry(q) : q \in {q \in Proc \ {p} : req[q].phase = "audit"}}
<1>1. Auditing = Others \cup (IF req[p].phase = "audit" THEN {Entry(p)} ELSE {})
  BY DEF Auditing
<1>2. Auditing' = Others \cup (IF req'[p].phase = "audit"
                               THEN {<<AuditAction(req'[p].op), req'[p].id>>} ELSE {})
  BY DEF Auditing, Outcome, Alone
<1> HIDE DEF Others
<1>3. Refused(p) \/ GoesOn(p) => UNCHANGED <<Auditing, logs>>
  BY <1>1, <1>2, OutcomePhase DEF Refused, GoesOn
<1>4. Audited(p) => logs' \cup Auditing' = logs \cup Auditing
  BY <1>1, <1>2, OutcomePhase DEF Audited
<1>5. ASSUME NEW x, Writes(p), UNCHANGED logs,
             req'[p] = Request(req[p].op, "audit", x, ZeroTime, None, None)
      PROVE  logs' \cup Auditing' = logs \cup Auditing \cup {<<AuditAction(req[p].op), x>>}
  <2>1. req'[p].phase = "audit" /\ req'[p].op = req[p].op /\ req'[p].id = x
    BY <1>5, RequestFields
  <2>2. req[p].phase # "audit"
    BY <1>5 DEF Writes, Storing
  <2> QED
    BY <1>1, <1>2, <1>5, <2>1, <2>2
<1> QED
  BY <1>3, <1>4, <1>5

\* AuditLedger, for a clock whose readings differ and any number of requests:
\* the entry a goroutine is about to write is that of the change it has made,
\* whatever others change and log between the change and the entry.
THEOREM LedgerAudited ==
  ASSUME ~CoarseClock
  PROVE  Spec => []AuditLedger
<1>1. Init => AuditLedger
  BY DEF Init, StoreInit, EmptyMap, AuditLedger, Auditing, Effects, Idle, Request
<1>2. ASSUME TypeOK, StampsFresh, FreshIDs, WindowsInv, AuditLedger, [Next]_vars
      PROVE  AuditLedger'
  <2>0. KnownTypes
    BY <1>2, TypesKnown
  <2>1. CASE UNCHANGED <<residents, areas, auths, records, logs, req>>
    BY <1>2, <2>1 DEF AuditLedger, Auditing, Effects
  <2>2. ASSUME NEW p \in Proc, Outcome(p)
        PROVE  AuditLedger'
    <3>1. CASE Commits(p)
      <4>1. PICK x : /\ req'[p] = Request(req[p].op, "audit", x, ZeroTime, None, None)
                     /\ CASE req[p].op = "EnterVehicle" -> EnterVehicle(req[p].id, req[p].t, x)
                          [] req[p].op = "ExitVehicle" -> ExitVehicle(req[p].id, req[p].t, x)
                          [] OTHER -> x = req[p].id
        BY <3>1 DEF Commits
      <4>2. OneMore(Effects', Effects, <<AuditAction(req[p].op), x>>)
        BY <1>2, <2>0, <3>1, <4>1, EffectWrites DEF Commits
      <4>3. logs' \cup Auditing' = logs \cup Auditing \cup {<<AuditAction(req[p].op), x>>}
        BY <2>2, <3>1, <4>1, AuditingStep DEF Commits
      <4> QED
        BY <1>2, <4>2, <4>3 DEF AuditLedger, OneMore
    <3>2. CASE Refused(p) \/ Audited(p) \/ GoesOn(p)
      <4>1. UNCHANGED Effects
        BY <3>2 DEF Refused, Audited, GoesOn, Maps, Effects
      <4> QED
        BY <1>2, <2>2, <3>2, <4>1, AuditingStep DEF AuditLedger
    <3> QED
      BY <2>2, <3>1, <3>2 DEF Outcome
  <2> QED
    BY <1>2, <2>1, <2>2, Outcomes
<1>3. TypeOK /\ StampsFresh /\ FreshIDs /\ WindowsInv /\ AuditLedger /\ [Next]_vars
        => AuditLedger'
  BY <1>2
<1> QED
  BY <1>1, <1>3, TypeCorrect, FreshStamps, IDsFresh, WindowsHold, PTL DEF Spec
=============================================================================
