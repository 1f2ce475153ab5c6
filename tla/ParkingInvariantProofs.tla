----------------------- MODULE ParkingInvariantProofs -----------------------
(***************************************************************************)
(* Proofs of the safety properties of ParkingService.  A step of the       *)
(* service is first cut down to what it does to the maps (StepCases); the  *)
(* properties are then proved of these few kinds of steps.                 *)
(***************************************************************************)
EXTENDS ParkingServiceProofs

-----------------------------------------------------------------------------
(* What a step does to the maps                                            *)

Maps == <<residents, areas, auths, records>>

\* What the service has made sure of before it calls CreateAuthorization and
\* UpdateAuthorization of the store.
Bounded(a) == a.start < a.end /\ a.end - a.start <= MaxAuthDuration
NewBooking(in) == in.status = "pending" /\ Bounded(in)

\* The goroutine gets to the store with a reading of the clock.
Stamps(p) ==
  /\ UNCHANGED Maps
  /\ req'[p].t = now
  /\ req'[p].op \in {"CreateResident", "CreateParkingArea", "CreateAuthorization"} =>
       req'[p].in.updatedAt = now
  /\ req'[p].op = "CreateAuthorization" =>
       NewID(req'[p].id, auths) /\ NewBooking(req'[p].in)
  /\ req'[p].op = "UpdateAuthorization" => Bounded(NewAuthorization(req'[p]))
  /\ ReadClock

\* The goroutine goes on with its call of the store, with the reading of the
\* clock it has.
Keeps(p) ==
  /\ UNCHANGED Maps /\ UNCHANGED now
  /\ Storing(req[p]) /\ Storing(req'[p])
  /\ req[p].op \notin Updates
  /\ req'[p].op = req[p].op /\ req'[p].id = req[p].id
  /\ req'[p].t = req[p].t /\ req'[p].in = req[p].in

\* The store carries out the write.
Changes(p) == Writes(p) /\ ~Storing(req'[p]) /\ UNCHANGED now

\* No other goroutine moves.
Alone(p) == \A q \in Proc : q # p => req'[q] = req[q]

Moves(p) == Alone(p) /\ (Stamps(p) \/ Keeps(p) \/ Changes(p))

\* Time passes, nothing happens, or requests move outside the store, leave it
\* without a change or are cut off.
Rests ==
  /\ UNCHANGED Maps
  /\ now' \in Nat /\ now' >= now
  /\ \A p \in Proc : req'[p] = req[p] \/ ~Storing(req'[p])

\* The step of a store that makes no change but those of Writes.
StoreStep == Rests \/ \E p \in Proc : Moves(p)

\* One that moreover refuses a creation that conflicts.
CarefulStep ==
  \/ Rests
  \/ \E p \in Proc : Alone(p) /\ (Stamps(p) \/ Keeps(p) \/ (Changes(p) /\ NoConflict(p)))

\* A careful step is one of the store.
LEMMA CarefulIsStore == CarefulStep => StoreStep
BY DEF CarefulStep, StoreStep, Moves

\* Goroutine p moves on outside the store, or leaves it without a change.
Passes(p) ==
  /\ UNCHANGED Maps
  /\ ~Storing(req'[p])
  /\ ReadClock \/ UNCHANGED now

\* A goroutine that is refused, or that is done, passes.
LEMMA RefusePasses ==
  ASSUME DOMAIN req = Proc, NEW p \in Proc, NEW err, Refuse(p, err), ReadClock \/ UNCHANGED now
  PROVE  Alone(p) /\ Passes(p)
<1>1. \A q \in Proc : req'[q] = IF q = p
                               THEN Request(req[p].op, "reply", req[p].id, ZeroTime, err, None)
                               ELSE req[q]
  BY DEF Refuse
<1>2. req'[p].phase = "reply"
  BY <1>1, RequestFields
<1> QED
  BY <1>1, <1>2 DEF Refuse, Alone, Passes, Storing, Maps, storeVars

\* A goroutine that has committed has left the store.
LEMMA CommitChanges ==
  ASSUME DOMAIN req = Proc, NEW p \in Proc, NEW id, Commit(p, id), Writes(p)
  PROVE  Alone(p) /\ Changes(p)
<1>1. \A q \in Proc : req'[q] = IF q = p
                               THEN Request(req[p].op, "audit", id, ZeroTime, None, None)
                               ELSE req[q]
  BY DEF Commit
<1>2. req'[p].phase = "audit"
  BY <1>1, RequestFields
<1> QED
  BY <1>1, <1>2 DEF Commit, Alone, Changes, Storing

\* A request that goes straight to the store is stamped with the clock.
LEMMA CallStamps ==
  ASSUME DOMAIN req = Proc, NEW p \in Proc, NEW op, NEW id, NEW in, Call(p, op, id, in),
         op \in {"CreateResident", "CreateParkingArea", "CreateAuthorization"} =>
           in.updatedAt = now,
         op = "CreateAuthorization" => NewID(id, auths) /\ NewBooking(in),
         op # "UpdateAuthorization"
  PROVE  Alone(p) /\ Stamps(p)
<1>1. \A q \in Proc : req'[q] = IF q = p THEN Request(op, "store", id, now, in, None)
                                         ELSE req[q]
  BY DEF Call
<1>2. /\ req'[p].t = now /\ req'[p].op = op /\ req'[p].in = in /\ req'[p].id = id
  BY <1>1, RequestFields
<1> QED
  BY <1>1, <1>2 DEF Alone, Stamps, Call, Maps, storeVars

\* An update that enters the service passes.
LEMMA CallUpdatePasses ==
  ASSUME DOMAIN req = Proc, NEW p \in Proc, NEW op, NEW id, NEW in, CallUpdate(p, op, id, in)
  PROVE  Alone(p) /\ Passes(p)
<1>1. \A q \in Proc : req'[q] = IF q = p THEN Request(op, "get", id, ZeroTime, in, None)
                                         ELSE req[q]
  BY DEF CallUpdate
<1>2. req'[p].phase = "get"
  BY <1>1, RequestFields
<1> QED
  BY <1>1, <1>2 DEF CallUpdate, Alone, Passes, Storing, Maps

\* Before a request has reached the store, the goroutine passes or stamps.
Calm(p) == Alone(p) /\ (Passes(p) \/ Stamps(p))

\* A goroutine that takes up a request.
LEMMA AcceptCalm ==
  ASSUME NEW p \in Proc, Served(p), Accept(p)
  PROVE  Calm(p)
<1> DOMAIN req = Proc /\ now \in Time \ {ZeroTime}
  BY DEF Served
<1> USE DEF Calm
<1>1. CASE CallCreateResident(p)
  BY <1>1, CallStamps DEF CallCreateResident
<1>2. CASE CallCreateParkingArea(p)
  BY <1>2, CallStamps DEF CallCreateParkingArea
<1>3. CASE CallCreateAuthorization(p)
  <2>1. ASSUME NEW id \in AuthID, NEW r, NEW pl, NEW a, NEW w \in Windows,
               ValidWindow(w[1], w[2], now), NewID(id, auths),
               Call(p, "CreateAuthorization", id,
                    [resident |-> r, plate |-> pl, area |-> a, start |-> w[1],
                     end |-> w[2], status |-> "pending", archived |-> FALSE,
                     updatedAt |-> now])
        PROVE  Alone(p) /\ Stamps(p)
    <3>1. w[1] \in Int /\ w[2] \in Int
      BY <2>1, TimeAssumption, ServiceAssumption DEF Time
    <3>2. w[1] < w[2] /\ w[2] - w[1] <= MaxAuthDuration
      BY <2>1, <3>1 DEF ValidWindow
    <3> QED
      BY <2>1, <3>2, CallStamps DEF NewBooking, Bounded
  <2> QED
    BY <1>3, <2>1 DEF CallCreateAuthorization
<1>4. CASE CallArchiveResident(p)
  BY <1>4, CallStamps DEF CallArchiveResident
<1>5. CASE CallArchiveParkingArea(p)
  BY <1>5, CallStamps DEF CallArchiveParkingArea
<1>6. CASE CallArchiveAuthorization(p)
  BY <1>6, CallStamps DEF CallArchiveAuthorization
<1>7. CASE CallRevoke(p)
  BY <1>7, CallStamps DEF CallRevoke
<1>8. CASE CallEnterVehicle(p)
  BY <1>8, CallStamps DEF CallEnterVehicle
<1>9. CASE CallExitVehicle(p)
  BY <1>9, CallStamps DEF CallExitVehicle
<1>10. CASE RejectCreateAuthorization(p)
  <2>1. \A q \in Proc : req'[q] = IF q = p
                                 THEN Request("CreateAuthorization", "reply", None,
                                              ZeroTime, "FieldError", None)
                                 ELSE req[q]
    BY <1>10 DEF RejectCreateAuthorization
  <2>2. req'[p].phase = "reply"
    BY <2>1, RequestFields
  <2> QED
    BY <1>10, <2>1, <2>2
    DEF RejectCreateAuthorization, Alone, Passes, Storing, Maps, storeVars
<1>11. CASE CallUpdateResident(p)
  BY <1>11, CallUpdatePasses DEF CallUpdateResident
<1>12. CASE CallUpdateParkingArea(p)
  BY <1>12, CallUpdatePasses DEF CallUpdateParkingArea
<1>13. CASE CallUpdateAuthorization(p)
  BY <1>13, CallUpdatePasses DEF CallUpdateAuthorization
<1> QED
  BY <1>1, <1>2, <1>3, <1>4, <1>5, <1>6, <1>7, <1>8, <1>9, <1>10, <1>11, <1>12, <1>13 DEF Accept

\* A goroutine outside its calls of the store that change rows.
LEMMA ServiceCalm ==
  ASSUME NEW p \in Proc, Served(p), Service(p)
  PROVE  Calm(p)
<1> DOMAIN req = Proc /\ now \in Time \ {ZeroTime} /\ RequestOK(req[p])
  BY DEF Served
<1>1. ASSUME NEW row, Got(p, row)
      PROVE  Calm(p)
  <2>1. \A q \in Proc : req'[q] =
          IF q = p THEN Request(req[p].op, "clock", req[p].id, ZeroTime, req[p].in, row)
                   ELSE req[q]
    BY <1>1 DEF Got
  <2>2. req'[p].phase = "clock"
    BY <2>1, RequestFields
  <2> QED
    BY <1>1, <2>1, <2>2 DEF Got, Calm, Alone, Passes, Storing, Maps
<1>2. ASSUME Stamped(p), ReadClock, req[p].phase = "clock",
             req[p].op = "UpdateAuthorization" => StampErr(req[p], now) = "nil"
      PROVE  Calm(p)
  <2>1. req[p].op \in Updates
    BY <1>2 DEF RequestOK
  <2>2. \A q \in Proc : req'[q] = IF q = p
                                 THEN Request(req[p].op, "store", req[p].id, now,
                                              req[p].in, req[p].cur)
                                 ELSE req[q]
    BY <1>2 DEF Stamped
  <2>3. req'[p].t = now /\ req'[p].op = req[p].op
    BY <2>2, RequestFields
  <2>4. req'[p].op = "UpdateAuthorization" => Bounded(NewAuthorization(req'[p]))
    <3> SUFFICES ASSUME req[p].op = "UpdateAuthorization"
                 PROVE  Bounded(NewAuthorization(req'[p]))
      BY <2>3
    <3> DEFINE s == Sent(req[p].in.start, req[p].cur.start)
               e == Sent(req[p].in.end, req[p].cur.end)
    <3>1. RequestOK(req[p]) /\ req[p].cur \in Authorization
      BY <1>2 DEF RequestOK
    <3>2. s \in Int /\ e \in Int
      BY <1>2, <3>1, TimeAssumption DEF RequestOK, Sent, Authorization, Time
    <3>3. ValidWindow(s, e, now)
      BY <1>2 DEF StampErr
    <3>4. s < e /\ e - s <= MaxAuthDuration
      BY <3>2, <3>3 DEF ValidWindow
    <3>5. req'[p].in = req[p].in /\ req'[p].cur = req[p].cur
      BY <2>2, RequestFields
    <3>6. NewAuthorization(req'[p]).start = s /\ NewAuthorization(req'[p]).end = e
      BY <3>1, <3>5 DEF NewAuthorization, Authorization
    <3> HIDE DEF s, e
    <3> QED
      BY <3>4, <3>6 DEF Bounded
  <2> QED
    BY <1>2, <2>1, <2>2, <2>3, <2>4 DEF Calm, Alone, Stamps, Stamped, Maps, storeVars, Updates
<1>3. CASE GetUpdateResident(p) \/ GetUpdateParkingArea(p) \/ GetUpdateAuthorization(p)
  BY <1>1, <1>3, RefusePasses
  DEF GetUpdateResident, GetUpdateParkingArea, GetUpdateAuthorization, Calm
<1>4. CASE Stamp(p)
  BY <1>2, <1>4 DEF Stamp
<1>5. CASE StampUpdateAuthorization(p)
  BY <1>2, <1>5, RefusePasses DEF StampUpdateAuthorization, At, Calm
<1>6. ASSUME req' = [req EXCEPT ![p] = Idle], UNCHANGED Maps, UNCHANGED now
      PROVE  Calm(p)
  <2>1. \A q \in Proc : req'[q] = IF q = p THEN Idle ELSE req[q]
    BY <1>6
  <2>2. req'[p].phase = "idle"
    BY <2>1, RequestFields DEF Idle
  <2> QED
    BY <1>6, <2>1, <2>2 DEF Calm, Alone, Passes, Storing
<1>7. CASE Audit(p)
  BY <1>6, <1>7 DEF Audit, CreateAuditLog, Maps
<1>8. CASE Reply(p)
  BY <1>6, <1>8 DEF Reply, Maps
<1> QED
  BY <1>3, <1>4, <1>5, <1>7, <1>8 DEF Service

\* A goroutine whose call of the memory store changes rows, or is refused.
LEMMA StoreCallMoves ==
  ASSUME NEW p \in Proc, Served(p), Serve(p), ~Service(p)
  PROVE  Alone(p) /\ (Passes(p) \/ (Changes(p) /\ NoConflict(p)))
BY StoreCallCases, CommitChanges, RefusePasses DEF Served

\* A goroutine that passes leaves the store at rest.
LEMMA PassesRests ==
  ASSUME KnownTypes, NEW p \in Proc, Alone(p), Passes(p)
  PROVE  Rests
<1>1. now' \in Nat /\ now' >= now
  BY TimeAssumption DEF KnownTypes, Time, Passes, ReadClock
<1> QED
  BY <1>1 DEF Alone, Passes, Rests

\* Every step of the service over the memory store is a careful one.
LEMMA StepCases ==
  ASSUME TypeOK, [Next]_vars
  PROVE  KnownTypes /\ CarefulStep /\ StoreStep
<1>0. KnownTypes /\ \A p \in Proc : Served(p)
  BY TypesKnown DEF TypeOK, Served
<1>1. ASSUME NEW p \in Proc, Calm(p)
      PROVE  CarefulStep
  BY <1>0, <1>1, PassesRests DEF Calm, CarefulStep
<1>2. ASSUME NEW p \in Proc, Accept(p) \/ Serve(p)
      PROVE  CarefulStep
  BY <1>0, <1>1, <1>2, AcceptCalm, ServiceCalm, StoreCallMoves, PassesRests
  DEF CarefulStep
<1>3. ASSUME Tick \/ UNCHANGED vars
      PROVE  CarefulStep
  <2>1. now' \in Nat /\ now' >= now
    BY <1>0, <1>3, TimeAssumption DEF KnownTypes, Time, Tick, vars
  <2>2. UNCHANGED <<residents, areas, auths, records, req>>
    BY <1>3 DEF Tick, vars
  <2>3. Rests
    BY <2>1, <2>2 DEF Maps, Rests
  <2> QED
    BY <2>3 DEF CarefulStep
<1> QED
  BY <1>0, <1>2, <1>3, CarefulIsStore DEF Next, ClockExhausted

-----------------------------------------------------------------------------
(* Whatever the clock                                                      *)

\* A write either leaves the records alone, or is an entry, or an exit.
LEMMA RecordWrites ==
  ASSUME NEW p \in Proc, Writes(p)
  PROVE  LET id == req[p].id  t == req[p].t IN
         \/ UNCHANGED records
         \/ /\ EnterVehicleErr(id, t) = "nil"
            /\ \E rec \in RecordID : EnterVehicle(id, t, rec)
         \/ /\ ExitVehicleErr(id) = "nil"
            /\ \E rec \in RecordID : ExitVehicle(id, t, rec)
BY DEF Writes, CreateResident, UpdateResident, ArchiveResident, CreateParkingArea,
       UpdateParkingArea, ArchiveParkingArea, CreateAuthorization,
       UpdateAuthorization, ArchiveAuthorization, RevokeAuthorization

\* A step of the store leaves the maps alone or is a write of one goroutine.
LEMMA StillOrChanged ==
  ASSUME StoreStep
  PROVE  UNCHANGED Maps \/ \E p \in Proc : Alone(p) /\ Changes(p) /\ Writes(p)
BY DEF StoreStep, Rests, Moves, Stamps, Keeps, Changes

\* Entries and exits are the only writes to the records (EnterVehicle,
\* ExitVehicle): an entry takes a new identifier and an exit picks a record
\* that is still open.
LEMMA HistoryNext == ASSUME KnownTypes, StoreStep PROVE KeepsHistory
<1>1. CASE UNCHANGED records
  BY <1>1 DEF KeepsHistory
<1>2. ASSUME NEW id, NEW t, NEW rec, EnterVehicle(id, t, rec)
      PROVE  KeepsHistory
  BY <1>2 DEF EnterVehicle, Assign, KeepsHistory
<1>3. ASSUME NEW id, NEW t, NEW rec, ExitVehicle(id, t, rec)
      PROVE  KeepsHistory
  <2> DEFINE new == [records[rec] EXCEPT !.exit = t, !.status = "exited"]
  <2>1. /\ rec \in DOMAIN records
        /\ records[rec].status = "entered"
        /\ records[rec] \in EntryExitRecord
        /\ records' = Assign(records, rec, new)
    BY <1>3 DEF ExitVehicle, EnteredRecords, KnownTypes, StoreTypeOK
  <2>2. /\ DOMAIN records' = DOMAIN records
        /\ records'[rec] = new
        /\ \A x \in DOMAIN records : x # rec => records'[x] = records[x]
    <3> HIDE DEF new
    <3> QED BY <2>1 DEF Assign
  <2>3. new = [records[rec] EXCEPT !.status = "exited", !.exit = new.exit]
    BY <2>1 DEF EntryExitRecord
  <2> QED
    BY <2>1, <2>2, <2>3 DEF KeepsHistory
<1> QED
  BY <1>1, <1>2, <1>3, StillOrChanged, RecordWrites DEF Maps

\* RecordHistory, for every clock: no record vanishes, and a record changes
\* once, when the exit closes it.
THEOREM HistoryKept == Spec => RecordHistory
<1>1. TypeOK /\ [Next]_vars => [KeepsHistory]_vars
  BY HistoryNext, StepCases
<1> QED
  BY <1>1, TypeCorrect, PTL DEF Spec, RecordHistory

\* An assignment to a live row, or of a new one, keeps every archived row.
LEMMA AssignKeepsArchived ==
  ASSUME NEW m, NEW k, NEW v, k \in DOMAIN m => ~m[k].archived
  PROVE  KeepsArchived(m, Assign(m, k, v))
BY DEF KeepsArchived, Assign

\* A map that does not change keeps its archived rows.
LEMMA SameKeepsArchived ==
  ASSUME NEW m PROVE KeepsArchived(m, m)
BY DEF KeepsArchived

\* The identifier of an authorization that is being created is its own: no
\* row has it, and no other creation.
Creates(p) == req[p].op = "CreateAuthorization" /\ Storing(req[p])
FreshIDs ==
  \A p \in Proc : Creates(p) =>
    /\ req[p].id \notin DOMAIN auths
    /\ \A q \in Proc : q # p /\ Creates(q) => req[q].id # req[p].id

\* A write adds no key to the authorizations but the one being created.
LEMMA AuthKeys ==
  ASSUME NEW p \in Proc, Writes(p)
  PROVE  \A x \in DOMAIN auths' : x \in DOMAIN auths \/ (Creates(p) /\ x = req[p].id)
<1>1. \/ UNCHANGED auths
      \/ \E v : /\ auths' = Assign(auths, req[p].id, v)
                /\ Creates(p) \/ req[p].id \in DOMAIN auths
  BY DEF Writes, Live, UpdateErr, ArchiveErr, Archived, Creates,
         CreateResident, UpdateResident, ArchiveResident,
         CreateParkingArea, UpdateParkingArea, ArchiveParkingArea,
         CreateAuthorization, UpdateAuthorization, ArchiveAuthorization,
         RevokeAuthorization, RevokeAuthorizationErr,
         EnterVehicle, EnterVehicleErr, ExitVehicle, ExitVehicleErr
<1> QED
  BY <1>1 DEF Assign

\* Identifiers stay fresh, although a request holds its identifier while
\* others run.
LEMMA FreshIDsNext ==
  ASSUME FreshIDs, StoreStep
  PROVE  FreshIDs'
<1>1. CASE Rests
  BY <1>1 DEF Rests, Maps, FreshIDs, Creates
<1>2. ASSUME NEW p \in Proc, Alone(p), Stamps(p)
      PROVE  FreshIDs'
  BY <1>2 DEF Alone, Stamps, Maps, FreshIDs, Creates, NewID
<1>3. ASSUME NEW p \in Proc, Alone(p), Keeps(p)
      PROVE  FreshIDs'
  BY <1>3 DEF Alone, Keeps, Maps, FreshIDs, Creates
<1>4. ASSUME NEW p \in Proc, Alone(p), Changes(p)
      PROVE  FreshIDs'
  BY <1>4, AuthKeys DEF Alone, Changes, FreshIDs, Creates
<1> QED
  BY <1>1, <1>2, <1>3, <1>4 DEF StoreStep, Moves

\* Every creation in flight has an identifier of its own (store.NewID).
LEMMA IDsFresh == Spec => []FreshIDs
<1>1. Init => FreshIDs
  BY DEF Init, FreshIDs, Creates, Storing, Idle, Request
<1>2. TypeOK /\ FreshIDs /\ [Next]_vars => FreshIDs'
  BY FreshIDsNext, StepCases
<1> QED
  BY <1>1, <1>2, TypeCorrect, PTL DEF Spec

\* A write assigns one row of one map; a row that is there must be live.
LEMMA RowWrites ==
  ASSUME NEW p \in Proc, Writes(p), FreshIDs
  PROVE  LET id == req[p].id IN
         \/ \E v : /\ residents' = Assign(residents, id, v)
                   /\ id \in DOMAIN residents => ~residents[id].archived
                   /\ UNCHANGED <<areas, auths>>
         \/ \E v : /\ areas' = Assign(areas, id, v)
                   /\ id \in DOMAIN areas => ~areas[id].archived
                   /\ UNCHANGED <<residents, auths>>
         \/ \E v : /\ auths' = Assign(auths, id, v)
                   /\ id \in DOMAIN auths => ~auths[id].archived
                   /\ UNCHANGED <<residents, areas>>
BY DEF Writes, FreshIDs, Creates, Live, UpdateErr, ArchiveErr, Archived,
       CreateResident, UpdateResident, ArchiveResident,
       CreateParkingArea, UpdateParkingArea, ArchiveParkingArea,
       CreateAuthorization, UpdateAuthorization, ArchiveAuthorization,
       RevokeAuthorization, RevokeAuthorizationErr,
       EnterVehicle, EnterVehicleErr, ExitVehicle, ExitVehicleErr

\* A step of the store keeps every archived row.
LEMMA ArchivedNext ==
  ASSUME FreshIDs, StoreStep
  PROVE  KeepsAllArchived
<1>1. CASE UNCHANGED Maps
  BY <1>1, SameKeepsArchived DEF Maps, KeepsAllArchived
<1>2. ASSUME NEW p \in Proc, Writes(p)
      PROVE  KeepsAllArchived
  BY <1>2, RowWrites, AssignKeepsArchived, SameKeepsArchived DEF KeepsAllArchived
<1> QED
  BY <1>1, <1>2, StillOrChanged

\* ArchivedFinal, for every clock: each write of the memory store goes to a
\* row that is live under the lock or to an identifier no row has.
THEOREM ArchivedKept == Spec => ArchivedFinal
<1>1. TypeOK /\ FreshIDs /\ [Next]_vars => [KeepsAllArchived]_vars
  BY ArchivedNext, StepCases
<1> QED
  BY <1>1, TypeCorrect, IDsFresh, PTL DEF Spec, ArchivedFinal

-----------------------------------------------------------------------------
(* Windows                                                                 *)

\* The windows of the rows, and those that creations and updates in flight
\* are about to write, are bounded.
WindowsInv ==
  /\ \A x \in DOMAIN auths : Bounded(auths[x])
  /\ \A p \in Proc :
       /\ Creates(p) => NewBooking(req[p].in)
       /\ req[p].op = "UpdateAuthorization" /\ Storing(req[p]) =>
            Bounded(NewAuthorization(req[p]))

\* A write keeps the window of an authorization or writes a bounded one.
LEMMA WindowWrites ==
  ASSUME KnownTypes, WindowsInv, NEW p \in Proc, Writes(p)
  PROVE  \A x \in DOMAIN auths' : Bounded(auths'[x])
<1> DEFINE id == req[p].id
<1>1. \A x \in DOMAIN auths : \A s, t :
        /\ Bounded([auths[x] EXCEPT !.archived = TRUE, !.updatedAt = t])
        /\ Bounded([auths[x] EXCEPT !.status = s, !.updatedAt = t])
  BY DEF WindowsInv, KnownTypes, StoreTypeOK, Authorization, Bounded
<1>2. \/ UNCHANGED auths
      \/ \E v : Bounded(v) /\ auths' = Assign(auths, id, v)
  <2>1. CASE req[p].op \in {"CreateResident", "UpdateResident", "ArchiveResident",
                            "CreateParkingArea", "UpdateParkingArea", "ArchiveParkingArea"}
    BY <2>1 DEF Writes, CreateResident, UpdateResident, ArchiveResident,
       CreateParkingArea, UpdateParkingArea, ArchiveParkingArea
  <2>2. CASE req[p].op = "CreateAuthorization"
    BY <2>2 DEF Writes, WindowsInv, Creates, NewBooking, CreateAuthorization
  <2>3. CASE req[p].op = "UpdateAuthorization"
    BY <2>3 DEF Writes, WindowsInv, UpdateAuthorization
  <2>4. CASE req[p].op = "ArchiveAuthorization"
    BY <1>1, <2>4 DEF Writes, ArchiveAuthorization, Archived, ArchiveErr, Live
  <2>5. CASE req[p].op = "RevokeAuthorization"
    BY <1>1, <2>5 DEF Writes, RevokeAuthorization, RevokeAuthorizationErr, Live
  <2>6. CASE req[p].op = "EnterVehicle"
    BY <1>1, <2>6 DEF Writes, EnterVehicle, EnterVehicleErr, Live
  <2>7. CASE req[p].op = "ExitVehicle"
    BY <1>1, <2>7 DEF Writes, ExitVehicle, ExitVehicleErr, Live
  <2> QED
    BY <2>1, <2>2, <2>3, <2>4, <2>5, <2>6, <2>7 DEF Writes
<1> QED
  BY <1>2 DEF WindowsInv, Assign

\* The windows stay bounded, those in flight included.
LEMMA WindowsNext ==
  ASSUME KnownTypes, WindowsInv, StoreStep
  PROVE  WindowsInv'
<1>1. CASE Rests
  BY <1>1 DEF Rests, Maps, WindowsInv, Creates, NewAuthorization
<1>2. ASSUME NEW p \in Proc, Alone(p), Stamps(p)
      PROVE  WindowsInv'
  BY <1>2 DEF Alone, Stamps, Maps, WindowsInv, Creates, NewAuthorization
<1>3. ASSUME NEW p \in Proc, Alone(p), Keeps(p)
      PROVE  WindowsInv'
  BY <1>3 DEF Alone, Keeps, Maps, WindowsInv, Creates, NewAuthorization, Updates
<1>4. ASSUME NEW p \in Proc, Alone(p), Changes(p)
      PROVE  WindowsInv'
  BY <1>4, WindowWrites DEF Alone, Changes, WindowsInv, Creates, NewAuthorization
<1> QED
  BY <1>1, <1>2, <1>3, <1>4 DEF StoreStep, Moves

\* The service starts with no windows.
LEMMA WindowsInit == auths = EmptyMap /\ req = [p \in Proc |-> Idle] => WindowsInv
BY DEF EmptyMap, WindowsInv, Creates, Storing, Idle, Request

\* The windows are bounded in every state of the service.
LEMMA WindowsHold == Spec => []WindowsInv
<1>1. Init => WindowsInv
  BY WindowsInit DEF Init, StoreInit
<1>2. TypeOK /\ WindowsInv /\ [Next]_vars => WindowsInv'
  BY WindowsNext, StepCases
<1> QED
  BY <1>1, <1>2, TypeCorrect, PTL DEF Spec

\* WindowsBounded, for every clock: UpdateAuthorization of the service checks
\* the window it is going to write, both ends of it, and the store writes
\* that row as it is.
THEOREM BoundedWindows == Spec => []WindowsBounded
<1>1. WindowsInv => WindowsBounded
  BY DEF WindowsInv, WindowsBounded, Bounded
<1> QED
  BY <1>1, WindowsHold, PTL

-----------------------------------------------------------------------------
(* Counting the vehicles inside                                            *)

\* There are finitely many records.
RecordsFinite == IsFiniteSet(DOMAIN records)

\* The number of vehicles inside an area is a number.
LEMMA OccupiedNat ==
  ASSUME RecordsFinite, NEW a
  PROVE  IsFiniteSet(Inside(a)) /\ Occupied(a) \in Nat
<1>1. Inside(a) \subseteq DOMAIN records
  BY DEF Inside
<1>2. IsFiniteSet(Inside(a))
  BY <1>1, FS_Subset DEF RecordsFinite
<1> QED
  BY <1>2, FS_CardinalityType DEF Occupied

\* An entry puts one vehicle more into its area and none into another.
LEMMA EntryCounts ==
  ASSUME RecordsFinite, NEW id, NEW t, NEW rec, EnterVehicle(id, t, rec), NEW a
  PROVE  /\ RecordsFinite'
         /\ Occupied(a)' = IF a = auths[id].area THEN Occupied(a) + 1 ELSE Occupied(a)
<1> DEFINE new == [auth |-> id, plate |-> auths[id].plate, area |-> auths[id].area,
                   entry |-> t, exit |-> ZeroTime, status |-> "entered"]
<1>1. /\ rec \notin DOMAIN records
      /\ DOMAIN records' = DOMAIN records \cup {rec}
      /\ records'[rec] = new
      /\ \A x \in DOMAIN records : records'[x] = records[x]
  BY DEF EnterVehicle, Assign
<1>2. new.area = auths[id].area /\ new.status = "entered"
  OBVIOUS
<1>3. RecordsFinite'
  BY <1>1, FS_AddElement DEF RecordsFinite
<1>4. Inside(a)' = IF a = auths[id].area THEN Inside(a) \cup {rec} ELSE Inside(a)
  <2> HIDE DEF new
  <2> QED BY <1>1, <1>2 DEF Inside
<1>5. rec \notin Inside(a)
  BY <1>1 DEF Inside
<1>6. Cardinality(Inside(a) \cup {rec}) = Cardinality(Inside(a)) + 1
  BY <1>5, OccupiedNat, FS_AddElement
<1> QED
  BY <1>3, <1>4, <1>6 DEF Occupied

\* An exit takes one vehicle out of its area and none out of another.
LEMMA ExitCounts ==
  ASSUME RecordsFinite, StoreTypeOK, NEW id, NEW t, NEW rec, ExitVehicle(id, t, rec), NEW a
  PROVE  /\ RecordsFinite'
         /\ Occupied(a)' = IF a = records[rec].area THEN Occupied(a) - 1 ELSE Occupied(a)
<1> DEFINE new == [records[rec] EXCEPT !.exit = t, !.status = "exited"]
<1>1. /\ rec \in DOMAIN records
      /\ records[rec].status = "entered"
      /\ records[rec] \in EntryExitRecord
      /\ records' = Assign(records, rec, new)
  BY DEF ExitVehicle, EnteredRecords, StoreTypeOK
<1>2. new.status = "exited"
  BY <1>1 DEF EntryExitRecord
<1>3. /\ DOMAIN records' = DOMAIN records
      /\ records'[rec] = new
      /\ \A x \in DOMAIN records : x # rec => records'[x] = records[x]
  <2> HIDE DEF new
  <2> QED BY <1>1 DEF Assign
<1>4. Inside(a)' = Inside(a) \ {rec}
  <2> HIDE DEF new
  <2> QED BY <1>1, <1>2, <1>3 DEF Inside
<1>5. rec \in Inside(a) <=> a = records[rec].area
  BY <1>1 DEF Inside
<1>6. CASE a = records[rec].area
  BY <1>3, <1>4, <1>5, <1>6, OccupiedNat, FS_RemoveElement DEF Occupied, RecordsFinite
<1>7. CASE a # records[rec].area
  <2>1. Inside(a)' = Inside(a)
    BY <1>4, <1>5, <1>7
  <2> QED
    BY <1>3, <1>7, <2>1 DEF Occupied, RecordsFinite
<1> QED
  BY <1>6, <1>7

\* What any step of the store does to the records.
LEMMA RecordSteps ==
  ASSUME StoreStep
  PROVE  \/ UNCHANGED records
         \/ \E id, t, rec : EnterVehicleErr(id, t) = "nil" /\ EnterVehicle(id, t, rec)
         \/ \E id, t, rec : ExitVehicleErr(id) = "nil" /\ ExitVehicle(id, t, rec)
BY StillOrChanged, RecordWrites DEF Maps

\* The records stay finitely many: an entry adds one.
LEMMA FiniteNext ==
  ASSUME KnownTypes, RecordsFinite, StoreStep
  PROVE  RecordsFinite'
<1>1. CASE UNCHANGED records
  BY <1>1 DEF RecordsFinite
<1> QED
  BY <1>1, RecordSteps, EntryCounts, ExitCounts DEF KnownTypes

\* No record at all is finitely many.
LEMMA FiniteInit == records = EmptyMap => RecordsFinite
BY FS_EmptySet DEF EmptyMap, RecordsFinite

\* There are finitely many records in every state of the service.
LEMMA FiniteRecords == Spec => []RecordsFinite
<1>1. Init => RecordsFinite
  BY FiniteInit DEF Init, StoreInit
<1>2. TypeOK /\ RecordsFinite /\ [Next]_vars => RecordsFinite'
  BY FiniteNext, StepCases
<1> QED
  BY <1>1, <1>2, TypeCorrect, PTL DEF Spec

\* A step of the store lets a vehicle into an area in use, where it finds a
\* spot.
LEMMA EntriesNext ==
  ASSUME KnownTypes, RecordsFinite, StoreStep
  PROVE  EntersWithinCapacity
<1> SUFFICES ASSUME NEW a \in DOMAIN areas, Occupied(a)' > Occupied(a)
             PROVE  ~areas[a].archived /\ Occupied(a)' <= areas[a].capacity
  BY DEF EntersWithinCapacity
<1>1. Occupied(a) \in Nat /\ areas[a].capacity \in Nat
  BY OccupiedNat DEF KnownTypes, StoreTypeOK, ParkingArea
<1>2. CASE UNCHANGED records
  BY <1>1, <1>2 DEF Occupied, Inside
<1>3. ASSUME NEW id, NEW t, NEW rec,
             EnterVehicleErr(id, t) = "nil", EnterVehicle(id, t, rec)
      PROVE  ~areas[a].archived /\ Occupied(a)' <= areas[a].capacity
  <2>1. a = auths[id].area /\ Occupied(a)' = Occupied(a) + 1
    BY <1>1, <1>3, EntryCounts
  <2>2. Live(areas, a) /\ ~Full(a)
    BY <1>3, <2>1 DEF EnterVehicleErr
  <2> QED
    BY <1>1, <2>1, <2>2 DEF Live, Full
<1>4. ASSUME NEW id, NEW t, NEW rec, ExitVehicle(id, t, rec)
      PROVE  FALSE
  BY <1>1, <1>4, ExitCounts DEF KnownTypes
<1> QED
  BY <1>2, <1>3, <1>4, RecordSteps

\* EntryRespectsCapacity, for every clock, every capacity and any number of
\* requests: the check for a free spot and the entry are one critical section
\* (EnterVehicle), so that no update or archiving of the area comes between.
THEOREM EntriesFit == Spec => EntryRespectsCapacity
<1>1. TypeOK /\ RecordsFinite /\ [Next]_vars => [EntersWithinCapacity]_vars
  BY EntriesNext, StepCases
<1> QED
  BY <1>1, TypeCorrect, FiniteRecords, PTL DEF Spec, EntryRespectsCapacity

-----------------------------------------------------------------------------
(* What becomes of a request                                               *)

\* The store has carried out the write of goroutine p: the audit entry is to
\* name the record at the gate, and the row of the request elsewhere.
Commits(p) ==
  /\ Writes(p)
  /\ UNCHANGED logs
  /\ \E x : /\ req'[p] = Request(req[p].op, "audit", x, ZeroTime, None, None)
            /\ CASE req[p].op = "EnterVehicle" -> EnterVehicle(req[p].id, req[p].t, x)
                 [] req[p].op = "ExitVehicle" -> ExitVehicle(req[p].id, req[p].t, x)
                 [] OTHER -> x = req[p].id

\* Goroutine p is refused.  That a vehicle has entered or left already is said
\* by EnterVehicle and ExitVehicle alone.
Refused(p) ==
  /\ UNCHANGED Maps /\ UNCHANGED logs
  /\ req[p].phase # "audit"
  /\ \E err : /\ req'[p].phase = "reply" /\ req'[p].in = err
              /\ err = "ErrAlreadyEntered" =>
                   req'[p].id = req[p].id /\ EnterVehicleErr(req[p].id, req[p].t) = err
              /\ err = "ErrAlreadyExited" =>
                   req'[p].id = req[p].id /\ ExitVehicleErr(req[p].id) = err

\* Goroutine p writes its audit entry.
Audited(p) ==
  /\ UNCHANGED Maps
  /\ req[p].phase = "audit" /\ req'[p] = Idle
  /\ logs' = logs \cup {<<AuditAction(req[p].op), req[p].id>>}

\* Goroutine p is on its way to the store, or done.
GoesOn(p) ==
  /\ UNCHANGED Maps /\ UNCHANGED logs
  /\ req[p].phase # "audit"
  /\ req'[p].phase \in {"idle", "get", "clock", "store"}

Outcome(p) ==
  /\ Alone(p)
  /\ Commits(p) \/ Refused(p) \/ Audited(p) \/ GoesOn(p)

\* The phase in which an outcome leaves the request.
LEMMA OutcomePhase ==
  ASSUME NEW p \in Proc
  PROVE  /\ Commits(p) => req'[p].phase = "audit"
         /\ Refused(p) => req'[p].phase = "reply"
         /\ Audited(p) => req'[p].phase = "idle"
         /\ GoesOn(p) => req'[p].phase \in {"idle", "get", "clock", "store"}
<1>1. Commits(p) => req'[p].phase = "audit"
  BY RequestFields DEF Commits
<1>2. Audited(p) => req'[p].phase = "idle"
  BY RequestFields DEF Audited, Idle
<1> QED
  BY <1>1, <1>2 DEF Refused, GoesOn

\* A refusal of goroutine p, by any but the two errors of the gate or by them.
LEMMA RefuseOutcome ==
  ASSUME DOMAIN req = Proc, NEW p \in Proc, NEW err, Refuse(p, err), req[p].phase # "audit",
         err = "ErrAlreadyEntered" => EnterVehicleErr(req[p].id, req[p].t) = err,
         err = "ErrAlreadyExited" => ExitVehicleErr(req[p].id) = err
  PROVE  Outcome(p)
<1>1. \A q \in Proc : req'[q] = IF q = p
                               THEN Request(req[p].op, "reply", req[p].id, ZeroTime, err, None)
                               ELSE req[q]
  BY DEF Refuse
<1>2. req'[p].phase = "reply" /\ req'[p].in = err /\ req'[p].id = req[p].id
  BY <1>1, RequestFields
<1> QED
  BY <1>1, <1>2 DEF Outcome, Alone, Refused, Refuse, Maps, storeVars

\* What the store and the service refuse outside the gate is not said in the
\* words of the gate.
LEMMA OtherErrors ==
  LET Other == (Error \cup {"nil"}) \ {"ErrAlreadyEntered", "ErrAlreadyExited"} IN
  /\ \A m, id, row : UpdateErr(m, id, row) \in Other
  /\ \A m, id : ArchiveErr(m, id) \in Other
  /\ \A m, id, token : GetErr(m, id, token) \in Other
  /\ \A row : CreateAuthorizationErr(row) \in Other
  /\ \A id : GetPendingErr(id) \in Other
  /\ \A id : RevokeAuthorizationErr(id) \in Other
  /\ \A r, t : StampErr(r, t) \in Other
BY DEF UpdateErr, ArchiveErr, GetErr, CreateAuthorizationErr, GetPendingErr,
       RevokeAuthorizationErr, StampErr, Error

\* A write that is committed.
LEMMA CommitOutcome ==
  ASSUME DOMAIN req = Proc, NEW p \in Proc, NEW x, Commit(p, x), Writes(p), UNCHANGED logs,
         CASE req[p].op = "EnterVehicle" -> EnterVehicle(req[p].id, req[p].t, x)
           [] req[p].op = "ExitVehicle" -> ExitVehicle(req[p].id, req[p].t, x)
           [] OTHER -> x = req[p].id
  PROVE  Outcome(p)
<1>1. Alone(p) /\ req'[p] = Request(req[p].op, "audit", x, ZeroTime, None, None)
  BY DEF Commit, Alone
<1> QED
  BY <1>1 DEF Outcome, Commits

\* A request that goes straight to the store.
LEMMA CallOutcome ==
  ASSUME DOMAIN req = Proc, NEW p \in Proc, NEW op, NEW id, NEW in, Call(p, op, id, in)
  PROVE  Outcome(p)
<1>1. \A q \in Proc : req'[q] = IF q = p THEN Request(op, "store", id, now, in, None)
                                         ELSE req[q]
  BY DEF Call
<1>2. req'[p].phase = "store" /\ req[p].phase # "audit"
  BY <1>1, RequestFields DEF Call, Idle
<1> QED
  BY <1>1, <1>2 DEF Outcome, Alone, GoesOn, Call, Maps, storeVars

\* An update that enters the service.
LEMMA CallUpdateOutcome ==
  ASSUME DOMAIN req = Proc, NEW p \in Proc, NEW op, NEW id, NEW in, CallUpdate(p, op, id, in)
  PROVE  Outcome(p)
<1>1. \A q \in Proc : req'[q] = IF q = p THEN Request(op, "get", id, ZeroTime, in, None)
                                         ELSE req[q]
  BY DEF CallUpdate
<1>2. req'[p].phase = "get" /\ req[p].phase # "audit"
  BY <1>1, RequestFields DEF CallUpdate, Idle
<1> QED
  BY <1>1, <1>2 DEF Outcome, Alone, GoesOn, CallUpdate, Maps

\* A goroutine that takes up a request goes on, or is refused.
LEMMA AcceptOutcome ==
  ASSUME NEW p \in Proc, Served(p), Accept(p)
  PROVE  Outcome(p)
<1> DOMAIN req = Proc
  BY DEF Served
<1>1. CASE CallCreateResident(p)
  BY <1>1, CallOutcome DEF CallCreateResident
<1>2. CASE CallCreateParkingArea(p)
  BY <1>2, CallOutcome DEF CallCreateParkingArea
<1>3. CASE CallCreateAuthorization(p)
  BY <1>3, CallOutcome DEF CallCreateAuthorization
<1>4. CASE CallArchiveResident(p)
  BY <1>4, CallOutcome DEF CallArchiveResident
<1>5. CASE CallArchiveParkingArea(p)
  BY <1>5, CallOutcome DEF CallArchiveParkingArea
<1>6. CASE CallArchiveAuthorization(p)
  BY <1>6, CallOutcome DEF CallArchiveAuthorization
<1>7. CASE CallRevoke(p)
  BY <1>7, CallOutcome DEF CallRevoke
<1>8. CASE CallEnterVehicle(p)
  BY <1>8, CallOutcome DEF CallEnterVehicle
<1>9. CASE CallExitVehicle(p)
  BY <1>9, CallOutcome DEF CallExitVehicle
<1>10. CASE CallUpdateResident(p)
  BY <1>10, CallUpdateOutcome DEF CallUpdateResident
<1>11. CASE CallUpdateParkingArea(p)
  BY <1>11, CallUpdateOutcome DEF CallUpdateParkingArea
<1>12. CASE CallUpdateAuthorization(p)
  BY <1>12, CallUpdateOutcome DEF CallUpdateAuthorization
<1>13. CASE RejectCreateAuthorization(p)
  <2>1. \A q \in Proc : req'[q] =
          IF q = p THEN Request("CreateAuthorization", "reply", None, ZeroTime,
                                "FieldError", None)
                   ELSE req[q]
    BY <1>13 DEF RejectCreateAuthorization
  <2>2. req'[p].phase = "reply" /\ req'[p].in = "FieldError" /\ req[p].phase # "audit"
    BY <1>13, <2>1, RequestFields DEF RejectCreateAuthorization, Idle
  <2> QED
    BY <1>13, <2>1, <2>2 DEF RejectCreateAuthorization, Outcome, Alone, Refused, Maps, storeVars
<1> QED
  BY <1>1, <1>2, <1>3, <1>4, <1>5, <1>6, <1>7, <1>8, <1>9, <1>10, <1>11, <1>12, <1>13 DEF Accept

\* So does one outside its calls of the store that change rows.
LEMMA ServiceOutcome ==
  ASSUME NEW p \in Proc, Served(p), Service(p)
  PROVE  Outcome(p)
<1> DOMAIN req = Proc
  BY DEF Served
<1>1. ASSUME NEW phase \in {"clock", "store"}, NEW t, NEW row, req[p].phase # "audit",
             req' = [req EXCEPT ![p] = Request(req[p].op, phase, req[p].id, t, req[p].in, row)],
             UNCHANGED Maps, UNCHANGED logs
      PROVE  Outcome(p)
  <2>1. \A q \in Proc : req'[q] =
          IF q = p THEN Request(req[p].op, phase, req[p].id, t, req[p].in, row) ELSE req[q]
    BY <1>1
  <2>2. req'[p].phase = phase
    BY <2>1, RequestFields
  <2> QED
    BY <1>1, <2>1, <2>2 DEF Outcome, Alone, GoesOn
<1>2. ASSUME NEW row, Got(p, row), req[p].phase = "get"
      PROVE  Outcome(p)
  BY <1>1, <1>2 DEF Got, Maps
<1>3. ASSUME Stamped(p), req[p].phase = "clock"
      PROVE  Outcome(p)
  BY <1>1, <1>3 DEF Stamped, Maps, storeVars
<1>4. CASE GetUpdateResident(p)
  BY <1>2, <1>4, RefuseOutcome, OtherErrors DEF GetUpdateResident, At
<1>5. CASE GetUpdateParkingArea(p)
  BY <1>2, <1>5, RefuseOutcome, OtherErrors DEF GetUpdateParkingArea, At
<1>6. CASE GetUpdateAuthorization(p)
  BY <1>2, <1>6, RefuseOutcome, OtherErrors DEF GetUpdateAuthorization, At
<1>7. CASE Stamp(p)
  BY <1>3, <1>7 DEF Stamp
<1>8. CASE StampUpdateAuthorization(p)
  BY <1>3, <1>8, RefuseOutcome, OtherErrors DEF StampUpdateAuthorization, At
<1>9. CASE Audit(p)
  BY <1>9 DEF Audit, CreateAuditLog, Outcome, Alone, Audited, Maps
<1>10. CASE Reply(p)
  BY <1>10 DEF Reply, Outcome, Alone, GoesOn, Maps, Idle, Request
<1> QED
  BY <1>4, <1>5, <1>6, <1>7, <1>8, <1>9, <1>10 DEF Service

\* A call of the memory store commits, or is refused.
LEMMA StoreCallOutcome ==
  ASSUME NEW p \in Proc, Served(p), Serve(p), ~Service(p)
  PROVE  Outcome(p)
<1> DOMAIN req = Proc
  BY DEF Served
<1>1. CASE DoCreateResident(p)
  BY <1>1, CommitOutcome DEF DoCreateResident, At, Writes, Storing, CreateResident
<1>2. CASE DoCreateParkingArea(p)
  BY <1>2, CommitOutcome DEF DoCreateParkingArea, At, Writes, Storing, CreateParkingArea
<1>3. CASE DoUpdateResident(p)
  BY <1>3, CommitOutcome, RefuseOutcome, OtherErrors
  DEF DoUpdateResident, At, Writes, Storing, UpdateResident
<1>4. CASE DoArchiveResident(p)
  BY <1>4, CommitOutcome, RefuseOutcome, OtherErrors
  DEF DoArchiveResident, At, Writes, Storing, ArchiveResident
<1>5. CASE DoUpdateParkingArea(p)
  BY <1>5, CommitOutcome, RefuseOutcome, OtherErrors
  DEF DoUpdateParkingArea, At, Writes, Storing, UpdateParkingArea
<1>6. CASE DoArchiveParkingArea(p)
  BY <1>6, CommitOutcome, RefuseOutcome, OtherErrors
  DEF DoArchiveParkingArea, At, Writes, Storing, ArchiveParkingArea
<1>7. CASE DoCreateAuthorization(p)
  BY <1>7, CommitOutcome, RefuseOutcome, OtherErrors
  DEF DoCreateAuthorization, At, Writes, Storing, CreateAuthorization, CreateAuthorizationErr, Live
<1>8. CASE DoUpdateAuthorization(p)
  BY <1>8, CommitOutcome, RefuseOutcome, OtherErrors
  DEF DoUpdateAuthorization, At, Writes, Storing, UpdateAuthorization
<1>9. CASE DoArchiveAuthorization(p)
  BY <1>9, CommitOutcome, RefuseOutcome, OtherErrors
  DEF DoArchiveAuthorization, At, Writes, Storing, ArchiveAuthorization
<1>10. CASE DoRevoke(p)
  BY <1>10, CommitOutcome, RefuseOutcome, OtherErrors
  DEF DoRevoke, At, Writes, Storing, RevokeAuthorization
<1>11. CASE DoEnterVehicle(p)
  BY <1>11, CommitOutcome, RefuseOutcome
  DEF DoEnterVehicle, At, Writes, Storing, EnterVehicle, EnterVehicleErr
<1>12. CASE DoExitVehicle(p)
  BY <1>12, CommitOutcome, RefuseOutcome
  DEF DoExitVehicle, At, Writes, Storing, ExitVehicle, ExitVehicleErr
<1> QED
  BY <1>1, <1>2, <1>3, <1>4, <1>5, <1>6, <1>7, <1>8, <1>9, <1>10, <1>11, <1>12 DEF Serve, Service

\* Every step of the service is the passing of time or one of the outcomes of
\* one goroutine.
LEMMA Outcomes ==
  ASSUME TypeOK, [Next]_vars
  PROVE  \/ UNCHANGED <<residents, areas, auths, records, logs, req>>
         \/ \E p \in Proc : Outcome(p)
<1>1. \A p \in Proc : Served(p)
  BY DEF TypeOK, Served
<1>2. CASE Tick \/ UNCHANGED vars
  BY <1>2 DEF Tick, vars
<1> QED
  BY <1>1, <1>2, AcceptOutcome, ServiceOutcome, StoreCallOutcome DEF Next, ClockExhausted

-----------------------------------------------------------------------------
(* What the gate tells its clients                                         *)

\* Of the records m: some vehicle has entered, or left, with authorization x.
Visited(m, x) == \E r \in DOMAIN m : m[r].auth = x
Departed(m, x) == \E r \in DOMAIN m : m[r].auth = x /\ m[r].status = "exited"

\* The statuses by which the gate decides are backed by records.
StatusesBacked ==
  \A x \in DOMAIN auths : /\ auths[x].status = "active" => Visited(records, x)
                          /\ auths[x].status = "completed" => Departed(records, x)

\* What the records say of an authorization they say for good.
LEMMA VisitsStay ==
  ASSUME KnownTypes, StoreStep, NEW x
  PROVE  (Visited(records, x) => Visited(records', x)) /\ (Departed(records, x) => Departed(records', x))
<1>1. \A r \in DOMAIN records :
        /\ r \in DOMAIN records' /\ records'[r].auth = records[r].auth
        /\ records[r].status = "exited" => records'[r].status = "exited"
  <2> TAKE r \in DOMAIN records
  <2>1. records[r] \in EntryExitRecord
    BY DEF KnownTypes, StoreTypeOK
  <2>2. \A e : [records[r] EXCEPT !.status = "exited", !.exit = e].auth = records[r].auth
    BY <2>1 DEF EntryExitRecord
  <2> QED
    BY <2>2, HistoryNext DEF KeepsHistory
<1> QED
  BY <1>1 DEF Visited, Departed

\* A write keeps the status of an authorization, or makes it one that says
\* nothing about the gate, or one that a record backs.
LEMMA StatusWrites ==
  ASSUME KnownTypes, WindowsInv, NEW p \in Proc, Writes(p)
  PROVE  \A x \in DOMAIN auths' :
           \/ x \in DOMAIN auths /\ auths'[x].status = auths[x].status
           \/ auths'[x].status \in {"pending", "cancelled"}
           \/ auths'[x].status = "active" /\ Visited(records', x)
           \/ auths'[x].status = "completed" /\ Departed(records', x)
<1> DEFINE id == req[p].id
           t == req[p].t
           Fine(v) == \/ id \in DOMAIN auths /\ v.status = auths[id].status
                      \/ v.status \in {"pending", "cancelled"}
                      \/ v.status = "active" /\ Visited(records', id)
                      \/ v.status = "completed" /\ Departed(records', id)
<1>0. \A x \in DOMAIN auths :
        /\ [auths[x] EXCEPT !.archived = TRUE, !.updatedAt = t].status = auths[x].status
        /\ \A s : [auths[x] EXCEPT !.status = s, !.updatedAt = t].status = s
  BY DEF KnownTypes, StoreTypeOK, Authorization
<1>1. \/ UNCHANGED auths
      \/ \E v : Fine(v) /\ auths' = Assign(auths, id, v)
  <2>1. CASE req[p].op \in {"CreateResident", "UpdateResident", "ArchiveResident",
                            "CreateParkingArea", "UpdateParkingArea", "ArchiveParkingArea"}
    BY <2>1 DEF Writes, CreateResident, UpdateResident, ArchiveResident,
       CreateParkingArea, UpdateParkingArea, ArchiveParkingArea
  <2>2. CASE req[p].op = "CreateAuthorization"
    BY <2>2 DEF Writes, WindowsInv, Creates, NewBooking, CreateAuthorization
  <2>3. CASE req[p].op = "UpdateAuthorization"
    <3>1. req[p].cur \in Authorization /\ req[p].cur.status = "pending"
      BY <2>3 DEF Writes, KnownTypes, StoringOK
    <3>2. NewAuthorization(req[p]).status = "pending"
      BY <3>1 DEF NewAuthorization, Authorization
    <3> QED
      BY <2>3, <3>2 DEF Writes, UpdateAuthorization
  <2>4. CASE req[p].op = "ArchiveAuthorization"
    BY <1>0, <2>4 DEF Writes, ArchiveAuthorization, Archived, ArchiveErr, Live
  <2>5. CASE req[p].op = "RevokeAuthorization"
    BY <1>0, <2>5 DEF Writes, RevokeAuthorization, RevokeAuthorizationErr, Live
  <2>6. CASE req[p].op = "EnterVehicle"
    <3>1. PICK rec \in RecordID : EnterVehicle(id, t, rec)
      BY <2>6 DEF Writes
    <3>2. Visited(records', id)
      BY <3>1 DEF EnterVehicle, Assign, Visited
    <3>3. id \in DOMAIN auths
      BY <2>6 DEF Writes, EnterVehicleErr, Live
    <3> QED
      BY <1>0, <3>1, <3>2, <3>3 DEF EnterVehicle
  <2>7. CASE req[p].op = "ExitVehicle"
    <3>1. PICK rec \in RecordID : ExitVehicle(id, t, rec)
      BY <2>7 DEF Writes
    <3>2. rec \in DOMAIN records /\ records[rec] \in EntryExitRecord /\ records[rec].auth = id
      BY <3>1 DEF ExitVehicle, EnteredRecords, KnownTypes, StoreTypeOK
    <3>3. Departed(records', id)
      BY <3>1, <3>2 DEF ExitVehicle, Assign, Departed, EntryExitRecord
    <3>4. id \in DOMAIN auths
      BY <2>7 DEF Writes, ExitVehicleErr, Live
    <3> QED
      BY <1>0, <3>1, <3>3, <3>4 DEF ExitVehicle
  <2> QED
    BY <2>1, <2>2, <2>3, <2>4, <2>5, <2>6, <2>7 DEF Writes
<1> QED
  BY <1>1 DEF Assign

\* The statuses stay backed, whatever writes they are overwritten by.
LEMMA BackedNext ==
  ASSUME KnownTypes, WindowsInv, StatusesBacked, StoreStep
  PROVE  StatusesBacked'
<1>1. \A x \in DOMAIN auths : /\ auths[x].status = "active" => Visited(records', x)
                              /\ auths[x].status = "completed" => Departed(records', x)
  BY VisitsStay DEF StatusesBacked
<1>2. CASE UNCHANGED Maps
  BY <1>2 DEF Maps, StatusesBacked, Visited, Departed
<1>3. ASSUME NEW p \in Proc, Writes(p)
      PROVE  StatusesBacked'
  <2>1. \A x \in DOMAIN auths' : /\ auths'[x].status = "active" => Visited(records', x)
                                 /\ auths'[x].status = "completed" => Departed(records', x)
    BY <1>1, <1>3, StatusWrites
  <2> QED
    BY <2>1 DEF StatusesBacked, Visited, Departed
<1> QED
  BY <1>2, <1>3, StillOrChanged

\* With no authorizations there is nothing to back.
LEMMA BackedInit == auths = EmptyMap => StatusesBacked
BY DEF EmptyMap, StatusesBacked

\* The statuses are backed in every state of the service.
LEMMA AlwaysBacked == Spec => []StatusesBacked
<1>1. Init => StatusesBacked
  BY BackedInit DEF Init, StoreInit
<1>2. TypeOK /\ WindowsInv /\ StatusesBacked /\ [Next]_vars => StatusesBacked'
  BY BackedNext, StepCases
<1> QED
  BY <1>1, <1>2, TypeCorrect, WindowsHold, PTL DEF Spec

\* What was true when it was told stays true, and what goroutine p is told is
\* true.
LEMMA ToldTrue ==
  ASSUME KnownTypes, StatusesBacked, RefusalsTruthful, StoreStep, NEW p \in Proc, Outcome(p)
  PROVE  RefusalsTruthful'
<1>1. \A x : (Visited(records, x) => Visited(records', x)) /\ (Departed(records, x) => Departed(records', x))
  BY VisitsStay
<1>2. \A q \in Proc : req[q].phase = "reply" =>
        /\ req[q].in = "ErrAlreadyEntered" => Visited(records', req[q].id)
        /\ req[q].in = "ErrAlreadyExited" => Departed(records', req[q].id)
  BY <1>1 DEF RefusalsTruthful, Visited, Departed
<1>3. req'[p].phase = "reply" =>
        /\ req'[p].in = "ErrAlreadyEntered" => Visited(records', req'[p].id)
        /\ req'[p].in = "ErrAlreadyExited" => Departed(records', req'[p].id)
  <2>1. CASE Refused(p)
    <3>1. /\ EnterVehicleErr(req[p].id, req[p].t) = "ErrAlreadyEntered" => Visited(records, req[p].id)
          /\ ExitVehicleErr(req[p].id) = "ErrAlreadyExited" => Departed(records, req[p].id)
      BY DEF StatusesBacked, EnterVehicleErr, ExitVehicleErr, Live
    <3> QED
      BY <1>1, <2>1, <3>1 DEF Refused
  <2>2. CASE Commits(p) \/ Audited(p) \/ GoesOn(p)
    BY <2>2, OutcomePhase
  <2> QED
    BY <2>1, <2>2 DEF Outcome
<1>4. \A q \in Proc : req'[q].phase = "reply" =>
        /\ req'[q].in = "ErrAlreadyEntered" => Visited(records', req'[q].id)
        /\ req'[q].in = "ErrAlreadyExited" => Departed(records', req'[q].id)
  BY <1>2, <1>3 DEF Outcome, Alone
<1> QED
  BY <1>4 DEF RefusalsTruthful, Visited, Departed

\* RefusalsTruthful, for every clock: a record of the authorization is there
\* whenever its status lets EnterVehicle or ExitVehicle refuse in these words,
\* and no record is ever lost, so that the refusal is still true when it is
\* sent.
THEOREM TruthTold == Spec => []RefusalsTruthful
<1>1. Init => RefusalsTruthful
  BY DEF Init, RefusalsTruthful, Idle, Request
<1>2. ASSUME TypeOK, StatusesBacked, RefusalsTruthful, [Next]_vars
      PROVE  RefusalsTruthful'
  <2>1. CASE UNCHANGED <<residents, areas, auths, records, logs, req>>
    BY <1>2, <2>1 DEF RefusalsTruthful
  <2> QED
    BY <1>2, <2>1, Outcomes, StepCases, ToldTrue
<1>3. TypeOK /\ StatusesBacked /\ RefusalsTruthful /\ [Next]_vars => RefusalsTruthful'
  BY <1>2
<1> QED
  BY <1>1, <1>3, TypeCorrect, AlwaysBacked, PTL DEF Spec
=============================================================================
