----------------------- MODULE VehicleRegistryProofs ------------------------
(***************************************************************************)
(* Proofs about the vehicle registry, for every set of goroutines,         *)
(* vehicles, plates and owners, either clock and, but for the uniqueness   *)
(* of plates, either store.                                                *)
(***************************************************************************)
EXTENDS VehicleRegistry, ParkingServiceProofs

-----------------------------------------------------------------------------
(* The inductive invariant                                                 *)

\* What is known of a request by its phase and its endpoint.
VehicleRequestOK(r) ==
  /\ r.phase # "idle" => r.op \in VehicleOps
  /\ r.phase \in {"get", "clock", "store"} => r.id \in VehicleID
  /\ r.phase = "store" => r.t \in Time
  /\ r.op = "CreateVehicle" /\ r.phase = "store" => r.in \in Vehicle /\ ~r.in.archived
  /\ r.op = "UpdateVehicle" /\ r.phase \in {"get", "clock", "store"} =>
       r.in.plate \in Plate \cup {None} /\ r.in.owner \in Owner \cup {None}
  /\ r.op = "UpdateVehicle" /\ r.phase \in {"clock", "store"} =>
       r.cur \in Vehicle /\ ~r.cur.archived

VehicleRequestsOK == DOMAIN req = Proc /\ \A p \in Proc : VehicleRequestOK(req[p])

\* The identifier of a vehicle about to be created is no other vehicle's.
NewVehicleIDs ==
  \A p \in Proc : At(p, "CreateVehicle", "store") =>
    /\ req[p].id \notin DOMAIN vehicles
    /\ \A q \in Proc \ {p} : At(q, "CreateVehicle", "store") => req[q].id # req[p].id

VehicleInv ==
  /\ now \in Time \ {ZeroTime}
  /\ VehicleRequestsOK
  /\ VehiclesOK
  /\ NewVehicleIDs

-----------------------------------------------------------------------------
(* The steps                                                               *)

\* A step that writes a row: what is known of the row by the endpoint.  The
\* request goes on to the audit, or r is the answer to a client that is told of
\* a failure.
Wrote(p, row, r) ==
  /\ req[p].phase = "store"
  /\ vehicles' = Assign(vehicles, req[p].id, row)
  /\ req' = [req EXCEPT ![p] = r]
  /\ VehicleRequestOK(r)
  /\ r.phase \in {"audit", "reply"}
  /\ r.op = req[p].op /\ r.id = req[p].id
  /\ Faults = {} => r.phase = "audit"
  /\ UNCHANGED <<storeVars, now>>
  /\ req[p].id \in VehicleID
  /\ row \in Vehicle
  /\ \/ /\ req[p].op = "CreateVehicle"
        /\ req[p].id \notin DOMAIN vehicles
        /\ ~row.archived
        /\ Postgres => UniquePlate(req[p].id, row.plate)
     \/ /\ req[p].op = "UpdateVehicle"
        /\ Live(vehicles, req[p].id)
        /\ ~row.archived
        /\ Postgres => UniquePlate(req[p].id, row.plate)
     \/ /\ req[p].op = "ArchiveVehicle"
        /\ Live(vehicles, req[p].id)
        /\ row.archived

\* A step that moves a request on and writes nothing.
Moved(p, r) ==
  /\ req' = [req EXCEPT ![p] = r]
  /\ UNCHANGED <<storeVars, vehicles>>
  /\ ReadClock \/ UNCHANGED now
  /\ req[p].phase # "audit" /\ r.phase # "audit"
  /\ VehicleRequestOK(r)
  /\ r.op = "CreateVehicle" /\ r.phase = "store" => NewID(r.id, vehicles)

\* A step that writes the audit entry, or loses it.
Logged(p) ==
  /\ req[p].phase = "audit"
  /\ \/ logs' = logs \cup {<<VehicleAction(req[p].op), req[p].id>>}
     \/ Faults # {} /\ logs' = logs
  /\ req' = [req EXCEPT ![p] = Idle]
  /\ UNCHANGED <<now, vehicles>>

\* A request that is refused is moved on.
LEMMA RefuseMoves ==
  ASSUME VehicleInv, NEW p \in Proc, req[p].phase \in {"get", "clock", "store"},
         NEW err, Refuse(p, err), UNCHANGED <<now, vehicles>>
  PROVE  \E r : Moved(p, r)
<1> DEFINE r == Request(req[p].op, "reply", req[p].id, ZeroTime, err, None)
<1>1. /\ r.phase = "reply" /\ r.op = req[p].op
      /\ req' = [req EXCEPT ![p] = r]
  BY RequestFields DEF Refuse
<1>2. req[p].op \in VehicleOps
  BY DEF VehicleInv, VehicleRequestsOK, VehicleRequestOK
<1> HIDE DEF r
<1>3. VehicleRequestOK(r)
  BY <1>1, <1>2 DEF VehicleRequestOK
<1> QED
  BY <1>1, <1>3 DEF Moved, Refuse

\* A store call that carries its write out, whatever is told of it.
LEMMA ChangeWrites ==
  ASSUME VehicleInv, NEW p \in Proc, req[p].phase = "store", NEW row,
         vehicles' = Assign(vehicles, req[p].id, row), UNCHANGED storeVars,
         Commit(p, req[p].id) \/ StatementFails(p)
  PROVE  \E r : /\ req' = [req EXCEPT ![p] = r]
                /\ VehicleRequestOK(r)
                /\ r.phase \in {"audit", "reply"}
                /\ r.op = req[p].op /\ r.id = req[p].id
                /\ Faults = {} => r.phase = "audit"
                /\ UNCHANGED <<storeVars, now>>
<1>1. req[p].op \in VehicleOps
  BY DEF VehicleInv, VehicleRequestsOK, VehicleRequestOK
<1>2. CASE Commit(p, req[p].id)
  <2> DEFINE r == Request(req[p].op, "audit", req[p].id, ZeroTime, None, None)
  <2>1. r.phase = "audit" /\ r.op = req[p].op /\ r.id = req[p].id /\ req' = [req EXCEPT ![p] = r]
    BY <1>2, RequestFields DEF Commit
  <2> HIDE DEF r
  <2>2. VehicleRequestOK(r)
    BY <1>1, <2>1 DEF VehicleRequestOK
  <2> QED
    BY <1>2, <2>1, <2>2 DEF Commit
<1>3. CASE StatementFails(p)
  <2> DEFINE r == Request(req[p].op, "reply", req[p].id, ZeroTime, "ErrInternal", None)
  <2>1. r.phase = "reply" /\ r.op = req[p].op /\ r.id = req[p].id /\ req' = [req EXCEPT ![p] = r]
    BY <1>3, RequestFields DEF StatementFails, Refuse
  <2> HIDE DEF r
  <2>2. VehicleRequestOK(r)
    BY <1>1, <2>1 DEF VehicleRequestOK
  <2> QED
    BY <1>3, <2>1, <2>2 DEF StatementFails
<1> QED
  BY <1>2, <1>3

\* A store call that is refused, or that fails before it writes.
LEMMA ChangeMoves ==
  ASSUME VehicleInv, NEW p \in Proc, req[p].phase \in {"get", "clock", "store"}, NEW err,
         (Refuse(p, err) /\ UNCHANGED now) \/ StatementFails(p), UNCHANGED vehicles
  PROVE  \E r : Moved(p, r)
BY RefuseMoves DEF StatementFails

\* The acceptance of a creation or an archiving moves the goroutine on.
LEMMA StampingMoves ==
  ASSUME VehicleInv, NEW p \in Proc, NEW op \in {"CreateVehicle", "ArchiveVehicle"},
         NEW id \in VehicleID, NEW in, Stamping(p, op, id, in),
         op = "CreateVehicle" => in \in Vehicle /\ ~in.archived /\ NewID(id, vehicles)
  PROVE  \E r : Moved(p, r)
<1> DEFINE r == Request(op, "store", id, now, in, None)
<1>1. /\ r.phase = "store" /\ r.op = op /\ r.id = id /\ r.t = now /\ r.in = in
      /\ req' = [req EXCEPT ![p] = r]
  BY RequestFields DEF Stamping
<1>2. req[p].phase = "idle"
  BY RequestFields DEF Stamping, Idle
<1> HIDE DEF r
<1>3. VehicleRequestOK(r)
  BY <1>1 DEF VehicleRequestOK, VehicleOps, VehicleInv
<1> QED
  BY <1>1, <1>2, <1>3 DEF Moved, Stamping, storeVars

\* The program starts again.
Restarted ==
  /\ Faults # {}
  /\ req' = [p \in Proc |-> Idle]
  /\ UNCHANGED <<storeVars, now, vehicles>>

\* Every step passes time, restarts the program, moves a request on, writes a
\* row or writes the audit log.
LEMMA VehicleSteps ==
  ASSUME VehicleInv, [VehicleNext]_vehicleVars
  PROVE  \/ UNCHANGED <<storeVars, req, vehicles>> /\ now' \in Time \ {ZeroTime}
         \/ Restarted
         \/ \E p \in Proc : \/ \E r : Moved(p, r)
                            \/ \E row, r : Wrote(p, row, r)
                            \/ Logged(p)
<1>1. CASE Tick /\ UNCHANGED vehicles
  BY <1>1, TimeAssumption DEF Tick, storeVars, VehicleInv, Time, ZeroTime
<1>2. CASE UNCHANGED vehicleVars
  BY <1>2 DEF vehicleVars, vars, storeVars, VehicleInv
<1>3. ASSUME NEW p \in Proc, CallCreateVehicle(p)
      PROVE  \E r : Moved(p, r)
  <2>1. PICK id \in VehicleID, pl \in Plate, o \in Owner :
          /\ NewID(id, vehicles)
          /\ Stamping(p, "CreateVehicle", id,
                      [plate |-> pl, owner |-> o, archived |-> FALSE, updatedAt |-> now])
    BY <1>3 DEF CallCreateVehicle
  <2> DEFINE in == [plate |-> pl, owner |-> o, archived |-> FALSE, updatedAt |-> now]
  <2>2. in \in Vehicle /\ ~in.archived
    BY DEF Vehicle, VehicleInv
  <2> HIDE DEF in
  <2> QED
    BY <2>1, <2>2, StampingMoves DEF in
<1>4. ASSUME NEW p \in Proc, CallUpdateVehicle(p)
      PROVE  \E r : Moved(p, r)
  <2>1. PICK id \in VehicleID, pl \in Plate \cup {None}, o \in Owner \cup {None},
             v \in Tokens \ {ZeroTime} :
          req' = [req EXCEPT ![p] = Request("UpdateVehicle", "get", id, ZeroTime,
                                            [token |-> v, plate |-> pl, owner |-> o], None)]
    BY <1>4 DEF CallUpdateVehicle
  <2> DEFINE in == [token |-> v, plate |-> pl, owner |-> o]
             r == Request("UpdateVehicle", "get", id, ZeroTime, in, None)
  <2>2. /\ r.phase = "get" /\ r.op = "UpdateVehicle" /\ r.id = id /\ r.in = in
        /\ req' = [req EXCEPT ![p] = r]
    BY <2>1, RequestFields
  <2>3. in.plate = pl /\ in.owner = o
    OBVIOUS
  <2>4. req[p].phase = "idle"
    BY <1>4, RequestFields DEF CallUpdateVehicle, Idle
  <2> HIDE DEF in, r
  <2>5. VehicleRequestOK(r)
    BY <2>2, <2>3 DEF VehicleRequestOK, VehicleOps
  <2> QED
    BY <1>4, <2>2, <2>4, <2>5 DEF Moved, CallUpdateVehicle, storeVars
<1>5. ASSUME NEW p \in Proc, CallArchiveVehicle(p)
      PROVE  \E r : Moved(p, r)
  BY <1>5, StampingMoves DEF CallArchiveVehicle
<1>6. ASSUME NEW p \in Proc, GetUpdateVehicle(p)
      PROVE  \E r : Moved(p, r)
  <2>1. CASE GetErr(vehicles, req[p].id, req[p].in.token) = "nil" /\ Got(p, vehicles[req[p].id])
    <3> DEFINE cur == vehicles[req[p].id]
               r == Request(req[p].op, "clock", req[p].id, ZeroTime, req[p].in, cur)
    <3>1. /\ r.phase = "clock" /\ r.op = req[p].op /\ r.id = req[p].id /\ r.in = req[p].in
          /\ r.cur = cur /\ req' = [req EXCEPT ![p] = r]
      BY <2>1, RequestFields DEF Got
    <3>2. cur \in Vehicle /\ ~cur.archived
      BY <2>1 DEF GetErr, Live, VehicleInv, VehiclesOK
    <3>3. /\ req[p].op = "UpdateVehicle" /\ req[p].phase = "get"
          /\ VehicleRequestOK(req[p])
      BY <1>6 DEF GetUpdateVehicle, At, VehicleInv, VehicleRequestsOK
    <3> HIDE DEF cur, r
    <3>4. VehicleRequestOK(r)
      BY <3>1, <3>2, <3>3 DEF VehicleRequestOK
    <3> QED
      BY <1>6, <2>1, <3>1, <3>3, <3>4 DEF Moved, GetUpdateVehicle, Got, storeVars
  <2> QED
    BY <1>6, <2>1, ChangeMoves DEF GetUpdateVehicle, At
<1>7. ASSUME NEW p \in Proc, StampUpdateVehicle(p)
      PROVE  \E r : Moved(p, r)
  <2> DEFINE r == Request(req[p].op, "store", req[p].id, now, req[p].in, req[p].cur)
  <2>1. /\ r.phase = "store" /\ r.op = req[p].op /\ r.id = req[p].id /\ r.t = now
        /\ r.in = req[p].in /\ r.cur = req[p].cur /\ req' = [req EXCEPT ![p] = r]
    BY <1>7, RequestFields DEF StampUpdateVehicle, Stamped
  <2>2. /\ req[p].op = "UpdateVehicle" /\ req[p].phase = "clock"
        /\ VehicleRequestOK(req[p]) /\ now \in Time
    BY <1>7 DEF StampUpdateVehicle, At, VehicleInv, VehicleRequestsOK
  <2> HIDE DEF r
  <2>3. VehicleRequestOK(r)
    BY <2>1, <2>2 DEF VehicleRequestOK
  <2> QED
    BY <1>7, <2>1, <2>2, <2>3 DEF Moved, StampUpdateVehicle, Stamped
<1>8. ASSUME NEW p \in Proc, DoCreateVehicle(p)
      PROVE  (\E r : Moved(p, r)) \/ (\E row, r : Wrote(p, row, r))
  <2>1. /\ req[p].op = "CreateVehicle" /\ req[p].phase = "store"
        /\ VehicleRequestOK(req[p]) /\ req[p].id \notin DOMAIN vehicles
    BY <1>8 DEF DoCreateVehicle, At, VehicleInv, VehicleRequestsOK, NewVehicleIDs
  <2>2. req[p].in \in Vehicle /\ ~req[p].in.archived /\ req[p].id \in VehicleID
    BY <2>1 DEF VehicleRequestOK
  <2>3. CreateVehicleErr(req[p].id, req[p].in) = "nil" =>
          (Postgres => UniquePlate(req[p].id, req[p].in.plate))
    BY DEF CreateVehicleErr
  <2> QED
    BY <1>8, <2>1, <2>2, <2>3, ChangeMoves, ChangeWrites DEF DoCreateVehicle, Change, Wrote
<1>9. ASSUME NEW p \in Proc, DoUpdateVehicle(p)
      PROVE  (\E r : Moved(p, r)) \/ (\E row, r : Wrote(p, row, r))
  <2> DEFINE row == NewVehicle(req[p])
  <2>1. /\ req[p].op = "UpdateVehicle" /\ req[p].phase = "store"
        /\ VehicleRequestOK(req[p])
    BY <1>9 DEF DoUpdateVehicle, At, VehicleInv, VehicleRequestsOK
  <2>2. row \in Vehicle /\ ~row.archived /\ req[p].id \in VehicleID
    BY <2>1 DEF VehicleRequestOK, NewVehicle, Vehicle, defStatus
  <2>3. UpdateVehicleErr(req[p].id, row) = "nil" =>
          Live(vehicles, req[p].id) /\ (Postgres => UniquePlate(req[p].id, row.plate))
    BY DEF UpdateVehicleErr
  <2>4. Change(p, UpdateVehicleErr(req[p].id, row), row)
    BY <1>9 DEF DoUpdateVehicle
  <2> HIDE DEF row
  <2> QED
    BY <2>1, <2>2, <2>3, <2>4, ChangeMoves, ChangeWrites DEF Change, Wrote
<1>10. ASSUME NEW p \in Proc, DoArchiveVehicle(p)
       PROVE  (\E r : Moved(p, r)) \/ (\E row, r : Wrote(p, row, r))
  <2> DEFINE row == [vehicles[req[p].id] EXCEPT !.archived = TRUE, !.updatedAt = req[p].t]
  <2>1. /\ req[p].op = "ArchiveVehicle" /\ req[p].phase = "store"
        /\ req[p].t \in Time /\ req[p].id \in VehicleID
    BY <1>10 DEF DoArchiveVehicle, At, VehicleInv, VehicleRequestsOK, VehicleRequestOK
  <2>2. Live(vehicles, req[p].id) => row \in Vehicle /\ row.archived
    BY <2>1 DEF Live, VehicleInv, VehiclesOK, Vehicle
  <2>3. ArchiveErr(vehicles, req[p].id) = "nil" => Live(vehicles, req[p].id)
    BY DEF ArchiveErr
  <2>4. Change(p, ArchiveErr(vehicles, req[p].id), row)
    BY <1>10 DEF DoArchiveVehicle
  <2> HIDE DEF row
  <2> QED
    BY <2>1, <2>2, <2>3, <2>4, ChangeMoves, ChangeWrites DEF Change, Wrote
<1>11. ASSUME NEW p \in Proc, AuditVehicle(p)
       PROVE  Logged(p)
  BY <1>11 DEF AuditVehicle, CreateAuditLog, Logged, storeVars
<1>12. ASSUME NEW p \in Proc, Reply(p), UNCHANGED vehicles
       PROVE  \E r : Moved(p, r)
  <2>1. /\ Idle.phase = "idle" /\ Idle.op = "none"
    BY RequestFields DEF Idle
  <2>2. VehicleRequestOK(Idle)
    BY <2>1 DEF VehicleRequestOK
  <2> QED
    BY <1>12, <2>1, <2>2 DEF Moved, Reply, storeVars
<1>13. CASE Restart
  BY <1>13 DEF Restart, Restarted
<1> QED
  BY <1>1, <1>2, <1>3, <1>4, <1>5, <1>6, <1>7, <1>8, <1>9, <1>10, <1>11, <1>12, <1>13
  DEF VehicleNext, VehicleAccept, VehicleServe

\* The vehicles after a write, row by row.
LEMMA WroteRows ==
  ASSUME NEW p \in Proc, NEW row, NEW r, Wrote(p, row, r)
  PROVE  /\ \A x : x \in DOMAIN vehicles' <=> x \in DOMAIN vehicles \/ x = req[p].id
         /\ vehicles'[req[p].id] = row
         /\ \A x \in DOMAIN vehicles : x # req[p].id => vehicles'[x] = vehicles[x]
<1>1. vehicles' = Assign(vehicles, req[p].id, row)
  BY DEF Wrote
<1> QED
  BY <1>1 DEF Assign

\* The initial state satisfies the invariant.
LEMMA VehicleInvInit == VehicleInit => VehicleInv
<1>1. Idle.phase = "idle" /\ Idle.op = "none"
  BY RequestFields DEF Idle
<1>2. VehicleRequestOK(Idle)
  BY <1>1 DEF VehicleRequestOK
<1> QED
  BY <1>1, <1>2, TimeAssumption
  DEF VehicleInit, Init, EmptyMap, VehicleInv, VehicleRequestsOK, VehiclesOK, NewVehicleIDs,
      At, Time, ZeroTime

\* Every step keeps the invariant.
LEMMA VehicleInvNext == VehicleInv /\ [VehicleNext]_vehicleVars => VehicleInv'
<1> SUFFICES ASSUME VehicleInv, [VehicleNext]_vehicleVars
             PROVE  VehicleInv'
  OBVIOUS
<1>1. CASE UNCHANGED <<storeVars, req, vehicles>> /\ now' \in Time \ {ZeroTime}
  BY <1>1 DEF VehicleInv, VehicleRequestsOK, VehiclesOK, NewVehicleIDs, At
<1>2. ASSUME NEW p \in Proc, NEW r, req' = [req EXCEPT ![p] = r], VehicleRequestOK(r)
      PROVE  VehicleRequestsOK' /\ \A q \in Proc : req'[q] = IF q = p THEN r ELSE req[q]
  BY <1>2 DEF VehicleInv, VehicleRequestsOK
<1>3. ASSUME NEW p \in Proc, NEW r, Moved(p, r)
      PROVE  VehicleInv'
  <2>1. VehicleRequestsOK' /\ \A q \in Proc : req'[q] = IF q = p THEN r ELSE req[q]
    BY <1>2, <1>3 DEF Moved
  <2>2. now' \in Time \ {ZeroTime}
    BY <1>3, TimeAssumption DEF Moved, ReadClock, VehicleInv, Time, ZeroTime
  <2>3. NewVehicleIDs'
    BY <1>3, <2>1 DEF NewVehicleIDs, At, Moved, VehicleInv, NewID
  <2>4. VehiclesOK'
    BY <1>3 DEF Moved, VehicleInv, VehiclesOK
  <2> QED
    BY <2>1, <2>2, <2>3, <2>4 DEF VehicleInv
<1>4. ASSUME NEW p \in Proc, NEW row, NEW r, Wrote(p, row, r)
      PROVE  VehicleInv'
  <2>1. r.phase # "store"
    BY <1>4 DEF Wrote
  <2>2. VehicleRequestsOK' /\ \A q \in Proc : req'[q] = IF q = p THEN r ELSE req[q]
    <3>1. req' = [req EXCEPT ![p] = r] /\ VehicleRequestOK(r)
      BY <1>4 DEF Wrote
    <3> QED
      BY <1>2, <3>1
  <2>3. VehiclesOK'
    <3>1. /\ DOMAIN Assign(vehicles, req[p].id, row) \subseteq VehicleID
          /\ Assign(vehicles, req[p].id, row)
               \in [DOMAIN Assign(vehicles, req[p].id, row) -> Vehicle]
      BY <1>4, AssignType DEF Wrote, VehicleInv, VehiclesOK
    <3> QED
      BY <1>4, <3>1 DEF Wrote, VehiclesOK
  <2>4. NewVehicleIDs'
    <3> SUFFICES ASSUME NEW q \in Proc, At(q, "CreateVehicle", "store")'
                 PROVE  /\ req'[q].id \notin DOMAIN vehicles'
                        /\ \A q2 \in Proc \ {q} : At(q2, "CreateVehicle", "store")' =>
                                                    req'[q2].id # req'[q].id
      BY DEF NewVehicleIDs
    <3>1. q # p /\ At(q, "CreateVehicle", "store") /\ req'[q] = req[q]
      BY <2>1, <2>2 DEF At
    <3>2. \A q2 \in Proc : At(q2, "CreateVehicle", "store")' =>
            At(q2, "CreateVehicle", "store") /\ req'[q2] = req[q2]
      BY <2>1, <2>2 DEF At
    <3>3. req[q].id # req[p].id
      BY <1>4, <3>1 DEF VehicleInv, NewVehicleIDs, Wrote, At, Live
    <3> QED
      BY <1>4, <3>1, <3>2, <3>3, WroteRows DEF VehicleInv, NewVehicleIDs
  <2> QED
    BY <1>4, <2>2, <2>3, <2>4 DEF VehicleInv, Wrote
<1>5. ASSUME NEW p \in Proc, Logged(p)
      PROVE  VehicleInv'
  <2>1. Idle.phase = "idle" /\ Idle.op = "none"
    BY RequestFields DEF Idle
  <2>2. VehicleRequestOK(Idle)
    BY <2>1 DEF VehicleRequestOK
  <2>3. VehicleRequestsOK' /\ \A q \in Proc : req'[q] = IF q = p THEN Idle ELSE req[q]
    BY <1>2, <1>5, <2>2 DEF Logged
  <2>4. NewVehicleIDs'
    BY <1>5, <2>1, <2>3 DEF NewVehicleIDs, At, Logged, VehicleInv
  <2> QED
    BY <1>5, <2>3, <2>4 DEF VehicleInv, Logged, VehiclesOK
<1>6. CASE Restarted
  <2>1. Idle.phase = "idle" /\ Idle.op = "none"
    BY RequestFields DEF Idle
  <2>2. VehicleRequestOK(Idle)
    BY <2>1 DEF VehicleRequestOK
  <2>3. VehicleRequestsOK'
    BY <1>6, <2>2 DEF Restarted, VehicleRequestsOK
  <2>4. NewVehicleIDs'
    BY <1>6, <2>1 DEF Restarted, NewVehicleIDs, At
  <2> QED
    BY <1>6, <2>3, <2>4 DEF VehicleInv, Restarted, VehiclesOK
<1> QED
  BY <1>1, <1>3, <1>4, <1>5, <1>6, VehicleSteps

\* The invariant holds, for either store and either clock.
THEOREM VehicleInvariant == VehicleSpec => []VehicleInv
<1> QED
  BY VehicleInvInit, VehicleInvNext, PTL DEF VehicleSpec

\* VehiclesOK: the table holds rows of its type, also when an update writes
\* back what it read of a row that others have changed since.
THEOREM VehiclesTyped == VehicleSpec => []VehiclesOK
<1>1. VehicleInv => VehiclesOK
  BY DEF VehicleInv
<1> QED
  BY <1>1, VehicleInvariant, PTL

-----------------------------------------------------------------------------
(* Plates                                                                  *)

\* A row written over the index of live plates leaves it unique.
LEMMA PlateKept ==
  ASSUME Postgres = TRUE, VehicleInv, OneVehiclePerPlate, NEW p \in Proc, NEW row, NEW r,
         Wrote(p, row, r)
  PROVE  OneVehiclePerPlate'
<1>1. row.archived \/ \A x \in DOMAIN vehicles :
        x # req[p].id => vehicles[x].plate # row.plate \/ vehicles[x].archived
  BY DEF Wrote, UniquePlate
<1> QED
  BY <1>1, WroteRows DEF OneVehiclePerPlate

\* OneVehiclePerPlate, over PostgreSQL: the unique index is asked by every
\* write, so that an update that writes back the plate it read cannot take
\* a plate that another vehicle has got in between.
THEOREM PlatesUnique ==
  ASSUME Postgres = TRUE
  PROVE  VehicleSpec => []OneVehiclePerPlate
<1>1. VehicleInit => OneVehiclePerPlate
  BY DEF VehicleInit, EmptyMap, OneVehiclePerPlate
<1>2. ASSUME VehicleInv, OneVehiclePerPlate, [VehicleNext]_vehicleVars
      PROVE  OneVehiclePerPlate'
  <2>1. CASE UNCHANGED vehicles
    BY <1>2, <2>1 DEF OneVehiclePerPlate
  <2> QED
    BY <1>2, <2>1, VehicleSteps, PlateKept DEF Moved, Logged, Restarted
<1>3. VehicleInv /\ OneVehiclePerPlate /\ [VehicleNext]_vehicleVars => OneVehiclePerPlate'
  BY <1>2
<1> QED
  BY <1>1, <1>3, VehicleInvariant, PTL DEF VehicleSpec

-----------------------------------------------------------------------------
(* Archiving                                                               *)

\* ArchivedVehiclesFinal, for either store and either clock: an update or
\* an archiving finds the row it is to write live, and a creation finds its
\* identifier free, so that none of them touches an archived row.
THEOREM ArchivedVehiclesKept == VehicleSpec => ArchivedVehiclesFinal
<1>1. ASSUME VehicleInv, [VehicleNext]_vehicleVars
      PROVE  ArchivedStays
  <2>1. CASE UNCHANGED vehicles
    BY <2>1 DEF ArchivedStays
  <2>2. ASSUME NEW p \in Proc, NEW row, NEW r, Wrote(p, row, r)
        PROVE  ArchivedStays
    BY <2>2, WroteRows DEF ArchivedStays, Wrote, Live
  <2> QED
    BY <1>1, <2>1, <2>2, VehicleSteps DEF Moved, Logged, Restarted
<1>2. VehicleInv /\ [VehicleNext]_vehicleVars => [ArchivedStays]_vehicleVars
  BY <1>1
<1> QED
  BY <1>2, VehicleInvariant, PTL DEF VehicleSpec, ArchivedVehiclesFinal

-----------------------------------------------------------------------------
(* The audit log                                                           *)

\* The entries that are compared with the table.
Told(S) == {l \in S : l[1] \in {"vehicle.create", "vehicle.archive"}}

\* The entry that a request is about to write, if it is.
EntryOf(r) == IF r.phase = "audit" THEN {<<VehicleAction(r.op), r.id>>} ELSE {}

\* The entries about to be written, before and after a step of goroutine p.
LEMMA VehicleAuditingStep ==
  ASSUME VehicleInv, NEW p \in Proc, NEW r, req' = [req EXCEPT ![p] = r],
         r.phase = "audit" => r.op \in VehicleOps
  PROVE  \E Others :
           /\ VehicleAuditing = Others \cup EntryOf(req[p])
           /\ VehicleAuditing' = Others \cup EntryOf(r)
<1> DEFINE Others == {<<VehicleAction(req[q].op), req[q].id>> :
                       q \in {q \in Proc \ {p} : req[q].phase = "audit" /\ req[q].op \in VehicleOps}}
<1>1. \A q \in Proc : req'[q] = IF q = p THEN r ELSE req[q]
  BY DEF VehicleInv, VehicleRequestsOK
<1>2. req[p].phase = "audit" => req[p].op \in VehicleOps
  BY DEF VehicleInv, VehicleRequestsOK, VehicleRequestOK
<1>3. VehicleAuditing = Others \cup EntryOf(req[p])
  BY <1>2 DEF VehicleAuditing, EntryOf
<1>4. VehicleAuditing' = Others \cup EntryOf(r)
  BY <1>1 DEF VehicleAuditing, EntryOf
<1> HIDE DEF Others
<1> QED
  BY <1>3, <1>4

\* What the table tells of, in one quantifier.
LEMMA EffectsMember ==
  /\ \A l : l \in VehicleEffects <=>
       \E x \in DOMAIN vehicles :
         l = <<"vehicle.create", x>> \/ (l = <<"vehicle.archive", x>> /\ vehicles[x].archived)
  /\ \A l : l \in VehicleEffects' <=>
       \E x \in DOMAIN vehicles' :
         l = <<"vehicle.create", x>> \/ (l = <<"vehicle.archive", x>> /\ vehicles'[x].archived)
<1> DEFINE Of(v) ==
             {<<"vehicle.create", x>> : x \in DOMAIN v} \cup
             {<<"vehicle.archive", x>> : x \in {y \in DOMAIN v : v[y].archived}}
<1>1. ASSUME NEW v
      PROVE  \A l : l \in Of(v) <=>
               \E x \in DOMAIN v :
                 l = <<"vehicle.create", x>> \/ (l = <<"vehicle.archive", x>> /\ v[x].archived)
  OBVIOUS
<1>2. VehicleEffects = Of(vehicles) /\ VehicleEffects' = Of(vehicles')
  BY DEF VehicleEffects
<1> HIDE DEF Of
<1> QED
  BY <1>1, <1>2

\* A write adds the entry of its endpoint to what the table tells of, but
\* an update adds nothing.
LEMMA WroteEffects ==
  ASSUME VehicleInv, NEW p \in Proc, NEW row, NEW r, Wrote(p, row, r)
  PROVE  VehicleEffects' = VehicleEffects \cup Told({<<VehicleAction(req[p].op), req[p].id>>})
<1> DEFINE id == req[p].id
           e == <<VehicleAction(req[p].op), id>>
<1>0. /\ \A x : x \in DOMAIN vehicles' <=> x \in DOMAIN vehicles \/ x = id
      /\ vehicles'[id] = row
      /\ \A x \in DOMAIN vehicles : x # id => vehicles'[x] = vehicles[x]
  BY WroteRows
<1>1. CASE req[p].op = "CreateVehicle"
  <2>1. e = <<"vehicle.create", id>> /\ id \notin DOMAIN vehicles /\ ~row.archived
    BY <1>1 DEF Wrote, VehicleAction, Live
  <2>2. Told({e}) = {<<"vehicle.create", id>>}
    BY <2>1 DEF Told
  <2>3. \A l : l \in VehicleEffects' <=> l \in VehicleEffects \/ l = <<"vehicle.create", id>>
    BY <1>0, <2>1, EffectsMember
  <2> QED
    BY <2>2, <2>3
<1>2. CASE req[p].op = "UpdateVehicle"
  <2>1. e = <<"vehicle.update", id>> /\ Live(vehicles, id) /\ ~row.archived
    BY <1>2 DEF Wrote, VehicleAction
  <2>2. Told({e}) = {}
    BY <2>1 DEF Told
  <2>3. \A l : l \in VehicleEffects' <=> l \in VehicleEffects
    BY <1>0, <2>1, EffectsMember DEF Live
  <2> QED
    BY <2>2, <2>3
<1>3. CASE req[p].op = "ArchiveVehicle"
  <2>1. e = <<"vehicle.archive", id>> /\ Live(vehicles, id) /\ row.archived
    BY <1>3 DEF Wrote, VehicleAction
  <2>2. Told({e}) = {<<"vehicle.archive", id>>}
    BY <2>1 DEF Told
  <2>3. \A l : l \in VehicleEffects' <=> l \in VehicleEffects \/ l = <<"vehicle.archive", id>>
    BY <1>0, <2>1, EffectsMember DEF Live
  <2> QED
    BY <2>2, <2>3
<1> QED
  BY <1>1, <1>2, <1>3 DEF Wrote

\* What the log tells of, when a step moves a request on.
LEMMA MovedTold ==
  ASSUME VehicleInv, NEW p \in Proc, NEW r, Moved(p, r)
  PROVE  UNCHANGED <<VehiclesTold, VehicleEffects>>
<1>1. /\ req' = [req EXCEPT ![p] = r]
      /\ r.phase # "audit" /\ EntryOf(req[p]) = {} /\ EntryOf(r) = {}
  BY DEF Moved, EntryOf
<1>2. PICK Others : /\ VehicleAuditing = Others \cup EntryOf(req[p])
                    /\ VehicleAuditing' = Others \cup EntryOf(r)
  BY <1>1, VehicleAuditingStep
<1>3. UNCHANGED VehicleAuditing
  BY <1>1, <1>2
<1>4. UNCHANGED <<logs, VehicleEffects>>
  BY DEF Moved, storeVars, VehicleEffects
<1> QED
  BY <1>3, <1>4 DEF VehiclesTold

\* When a step writes a row: the entry of the request, unless the client is
\* told of a failure.
LEMMA WroteTold ==
  ASSUME VehicleInv, NEW p \in Proc, NEW row, NEW r, Wrote(p, row, r)
  PROVE  LET e == <<VehicleAction(req[p].op), req[p].id>> IN
         /\ r.phase = "audit" => VehiclesTold' = VehiclesTold \cup Told({e})
         /\ r.phase # "audit" => VehiclesTold' = VehiclesTold
<1> DEFINE e == <<VehicleAction(req[p].op), req[p].id>>
<1>1. /\ req' = [req EXCEPT ![p] = r] /\ EntryOf(req[p]) = {}
      /\ r.phase = "audit" => EntryOf(r) = {e} /\ r.op \in VehicleOps
      /\ r.phase # "audit" => EntryOf(r) = {}
      /\ UNCHANGED logs
  BY DEF Wrote, EntryOf, VehicleOps, storeVars
<1>2. PICK Others : /\ VehicleAuditing = Others \cup EntryOf(req[p])
                    /\ VehicleAuditing' = Others \cup EntryOf(r)
  BY <1>1, VehicleAuditingStep
<1>3. VehicleAuditing' = VehicleAuditing \cup EntryOf(r)
  BY <1>1, <1>2
<1> HIDE DEF e
<1>4. /\ VehiclesTold = Told(logs \cup VehicleAuditing)
      /\ VehiclesTold' = Told(logs' \cup VehicleAuditing')
  BY DEF VehiclesTold, Told
<1>5. \A S : Told(logs \cup VehicleAuditing \cup S) = Told(logs \cup VehicleAuditing) \cup Told(S)
  BY DEF Told
<1>6. logs' \cup VehicleAuditing' = logs \cup VehicleAuditing \cup EntryOf(r)
  BY <1>1, <1>3
<1>7. Told({}) = {}
  BY DEF Told
<1> QED
  BY <1>1, <1>4, <1>5, <1>6, <1>7 DEF e

\* When a step writes the entry, or loses it where something may fail.
LEMMA LoggedTold ==
  ASSUME VehicleInv, NEW p \in Proc, Logged(p)
  PROVE  /\ VehiclesTold' \subseteq VehiclesTold
         /\ Faults = {} => VehiclesTold' = VehiclesTold
         /\ UNCHANGED VehicleEffects
<1>1. Idle.phase = "idle"
  BY RequestFields DEF Idle
<1>2. PICK Others : /\ VehicleAuditing = Others \cup EntryOf(req[p])
                    /\ VehicleAuditing' = Others \cup EntryOf(Idle)
  BY <1>1, VehicleAuditingStep DEF Logged
<1>3. /\ EntryOf(Idle) = {}
      /\ EntryOf(req[p]) = {<<VehicleAction(req[p].op), req[p].id>>}
  BY <1>1 DEF EntryOf, Logged
<1>4. /\ logs' \cup VehicleAuditing' \subseteq logs \cup VehicleAuditing
      /\ Faults = {} => logs' \cup VehicleAuditing' = logs \cup VehicleAuditing
  BY <1>2, <1>3 DEF Logged
<1>5. UNCHANGED VehicleEffects
  BY DEF Logged, VehicleEffects
<1> QED
  BY <1>4, <1>5 DEF VehiclesTold

\* NoVehicleInvented, for either store and either clock, whatever fails: a
\* request announces an entry only in the step that makes the change, and the
\* table never takes a creation or an archiving back.
THEOREM VehiclesHonest == VehicleSpec => []NoVehicleInvented
<1>1. VehicleInit => NoVehicleInvented
  BY RequestFields
  DEF VehicleInit, Init, StoreInit, NoVehicleInvented, VehiclesTold, VehicleAuditing, Idle
<1>2. ASSUME VehicleInv, NoVehicleInvented, [VehicleNext]_vehicleVars
      PROVE  NoVehicleInvented'
  <2>1. NoVehicleInvented' <=> VehiclesTold' \subseteq VehicleEffects'
    BY DEF NoVehicleInvented
  <2>2. CASE UNCHANGED <<storeVars, req, vehicles>>
    BY <1>2, <2>2
    DEF NoVehicleInvented, VehiclesTold, VehicleAuditing, VehicleEffects, storeVars
  <2>3. ASSUME NEW p \in Proc, NEW r, Moved(p, r)
        PROVE  NoVehicleInvented'
    BY <1>2, <2>1, <2>3, MovedTold DEF NoVehicleInvented
  <2>4. ASSUME NEW p \in Proc, NEW row, NEW r, Wrote(p, row, r)
        PROVE  NoVehicleInvented'
    BY <1>2, <2>1, <2>4, WroteTold, WroteEffects DEF NoVehicleInvented
  <2>5. ASSUME NEW p \in Proc, Logged(p)
        PROVE  NoVehicleInvented'
    BY <1>2, <2>1, <2>5, LoggedTold DEF NoVehicleInvented
  <2>6. CASE Restarted
    <3>1. VehicleAuditing' = {}
      BY <2>6, RequestFields DEF Restarted, VehicleAuditing, Idle
    <3>2. UNCHANGED <<logs, VehicleEffects>>
      BY <2>6 DEF Restarted, storeVars, VehicleEffects
    <3> QED
      BY <1>2, <2>1, <3>1, <3>2 DEF NoVehicleInvented, VehiclesTold
  <2> QED
    BY <1>2, <2>2, <2>3, <2>4, <2>5, <2>6, VehicleSteps
<1>3. VehicleInv /\ NoVehicleInvented /\ [VehicleNext]_vehicleVars => NoVehicleInvented'
  BY <1>2
<1> QED
  BY <1>1, <1>3, VehicleInvariant, PTL DEF VehicleSpec

\* VehicleLedger, over the memory store and for either clock: nothing comes
\* between a change and its entry but other requests, so that the log and the
\* entries about to be written name the creations and archivings that the
\* table shows and no other.
THEOREM VehiclesAudited ==
  ASSUME Postgres = FALSE
  PROVE  VehicleSpec => []VehicleLedger
<1>0. Faults = {}
  BY VehicleAssumption
<1>1. VehicleInit => VehicleLedger
  BY RequestFields
  DEF VehicleInit, Init, StoreInit, EmptyMap, VehicleLedger, VehiclesTold, VehicleAuditing,
      VehicleEffects, Idle
<1>2. ASSUME VehicleInv, VehicleLedger, [VehicleNext]_vehicleVars
      PROVE  VehicleLedger'
  <2>1. VehicleLedger' <=> VehiclesTold' = VehicleEffects'
    BY DEF VehicleLedger
  <2>2. CASE UNCHANGED <<storeVars, req, vehicles>>
    BY <1>2, <2>2 DEF VehicleLedger, VehiclesTold, VehicleAuditing, VehicleEffects, storeVars
  <2>3. ASSUME NEW p \in Proc, NEW r, Moved(p, r)
        PROVE  VehicleLedger'
    BY <1>2, <2>1, <2>3, MovedTold DEF VehicleLedger
  <2>4. ASSUME NEW p \in Proc, NEW row, NEW r, Wrote(p, row, r)
        PROVE  VehicleLedger'
    <3>1. r.phase = "audit"
      BY <1>0, <2>4 DEF Wrote
    <3> QED
      BY <1>2, <2>1, <2>4, <3>1, WroteTold, WroteEffects DEF VehicleLedger
  <2>5. ASSUME NEW p \in Proc, Logged(p)
        PROVE  VehicleLedger'
    BY <1>0, <1>2, <2>1, <2>5, LoggedTold DEF VehicleLedger
  <2> QED
    BY <1>0, <1>2, <2>2, <2>3, <2>4, <2>5, VehicleSteps DEF Restarted
<1>3. VehicleInv /\ VehicleLedger /\ [VehicleNext]_vehicleVars => VehicleLedger'
  BY <1>2
<1> QED
  BY <1>1, <1>3, VehicleInvariant, PTL DEF VehicleSpec
=============================================================================
