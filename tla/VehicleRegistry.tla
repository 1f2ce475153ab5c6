-------------------------- MODULE VehicleRegistry ---------------------------
(***************************************************************************)
(* The vehicles of residents: plate and owner, created, updated and        *)
(* archived by the service over either store.  Nothing else of the service *)
(* reads them: authorizations carry plates of their own.                   *)
(*                                                                         *)
(* The requests are those of ParkingService, with their phases.  The two   *)
(* stores differ in what they ask of a row: PostgreSQL has a unique index  *)
(* on the plates of the vehicles that are not archived, the memory store   *)
(* compares identifiers only.  And a statement to PostgreSQL may fail or   *)
(* lose its answer, and the tables outlive the program: in the memory      *)
(* store nothing fails, and a program that stops leaves nothing behind.    *)
(***************************************************************************)
EXTENDS ParkingService

CONSTANTS
    VehicleID,     \* identifiers NewID("veh") may return
    Owner,         \* owner names clients send
    Postgres,      \* which store
    Faults         \* what may go wrong: "failure", "crash"

ASSUME VehicleAssumption ==
    /\ Postgres \in BOOLEAN
    /\ Faults \subseteq {"failure", "crash"}
    /\ ~Postgres => Faults = {}
    /\ None \notin VehicleID \cup Plate \cup Owner

VARIABLE vehicles  \* map[string]*model.Vehicle, table vehicles

vehicleVars == <<vars, vehicles>>

Vehicle == [plate : Plate, owner : Owner, archived : BOOLEAN, updatedAt : Time]

VehicleInit == Init /\ vehicles = EmptyMap

-----------------------------------------------------------------------------
(* The stores                                                              *)

\* Mutant: an index that only insertions obey.
PlateFree(id, plate) ==
    id \in DOMAIN vehicles \/ \A x \in DOMAIN vehicles : vehicles[x].plate # plate \/ vehicles[x].archived

\* idx_vehicles_plate: no other vehicle that is not archived has the plate.
UniquePlate(id, plate) ==
    \A x \in DOMAIN vehicles \ {id} : vehicles[x].plate # plate \/ vehicles[x].archived

CreateVehicleErr(id, row) ==
    IF Postgres /\ ~UniquePlate(id, row.plate) THEN "ErrConflict" ELSE "nil"

\* Mutant: the row may have been archived since it was read.
UpdateVehicleErrArchivedToo(id, row) ==
    IF id \notin DOMAIN vehicles \/ vehicles[id].updatedAt # row.updatedAt
    THEN "ErrConcurrentModify"
    ELSE IF Postgres /\ ~UniquePlate(id, row.plate) THEN "ErrInternal"
    ELSE "nil"

\* A row that is gone is "not found" to the memory store and "modified" to
\* PostgreSQL.  A violation of the index is not mapped to an error of the
\* store here, unlike in CreateVehicle.
UpdateVehicleErr(id, row) ==
    IF ~Live(vehicles, id) THEN IF Postgres THEN "ErrConcurrentModify" ELSE "ErrNotFound"
    ELSE IF vehicles[id].updatedAt # row.updatedAt THEN "ErrConcurrentModify"
    ELSE IF Postgres /\ ~UniquePlate(id, row.plate) THEN "ErrInternal"
    ELSE "nil"

-----------------------------------------------------------------------------
(* The service                                                             *)

\* The statement fails, or it is carried out and its answer is lost: the
\* service returns the error and does not reach s.audit.
StatementFails(p) ==
    /\ "failure" \in Faults
    /\ Refuse(p, "ErrInternal")
    /\ UNCHANGED now

\* Mutant: the error of the store is dropped.
ChangeUnchecked(p, err, row) ==
    /\ IF err = "nil" THEN vehicles' = Assign(vehicles, req[p].id, row) ELSE UNCHANGED vehicles
    /\ Commit(p, req[p].id)
    /\ UNCHANGED storeVars

\* The store call: it changes the row of the request, is refused, or fails.
Change(p, err, row) ==
    \/ /\ err = "nil"
       /\ vehicles' = Assign(vehicles, req[p].id, row)
       /\ Commit(p, req[p].id) \/ StatementFails(p)
       /\ UNCHANGED storeVars
    \/ Refuse(p, err) /\ UNCHANGED <<now, vehicles>>
    \/ StatementFails(p) /\ UNCHANGED vehicles

\* A creation or an archiving reads the clock and goes to the store.
Stamping(p, op, id, in) ==
    /\ req[p] = Idle
    /\ ReadClock
    /\ req' = [req EXCEPT ![p] = Request(op, "store", id, now, in, None)]
    /\ UNCHANGED <<storeVars, vehicles>>

CallCreateVehicle(p) ==
    \E id \in VehicleID, pl \in Plate, o \in Owner :
        /\ NewID(id, vehicles)
        /\ Stamping(p, "CreateVehicle", id,
                    [plate |-> pl, owner |-> o, archived |-> FALSE, updatedAt |-> now])

DoCreateVehicle(p) ==
    /\ At(p, "CreateVehicle", "store")
    /\ Change(p, CreateVehicleErr(req[p].id, req[p].in), req[p].in)

\* None where the client sends no plate or no owner.
CallUpdateVehicle(p) ==
    /\ req[p] = Idle
    /\ \E id \in VehicleID, pl \in Plate \cup {None}, o \in Owner \cup {None},
          v \in Tokens \ {ZeroTime} :
         req' = [req EXCEPT ![p] = Request("UpdateVehicle", "get", id, ZeroTime,
                                           [token |-> v, plate |-> pl, owner |-> o], None)]
    /\ UNCHANGED <<storeVars, now, vehicles>>

GetUpdateVehicle(p) ==
    /\ At(p, "UpdateVehicle", "get")
    /\ LET err == GetErr(vehicles, req[p].id, req[p].in.token) IN
       \/ err = "nil" /\ Got(p, vehicles[req[p].id])
       \/ Refuse(p, err) /\ UNCHANGED now
       \/ StatementFails(p)
    /\ UNCHANGED vehicles

StampUpdateVehicle(p) ==
    /\ At(p, "UpdateVehicle", "clock")
    /\ ReadClock
    /\ Stamped(p)
    /\ UNCHANGED vehicles

\* Mutant: a plate that is not sent is written.
NewVehicleUnset(r) ==
    [r.cur EXCEPT !.plate = r.in.plate, !.owner = defStatus(r.in.owner, @), !.updatedAt = r.t]

\* The whole row is written back: the plate that was read, too.
NewVehicle(r) ==
    [r.cur EXCEPT !.plate = defStatus(r.in.plate, @), !.owner = defStatus(r.in.owner, @),
                  !.updatedAt = r.t]

DoUpdateVehicle(p) ==
    /\ At(p, "UpdateVehicle", "store")
    /\ LET row == NewVehicle(req[p]) IN Change(p, UpdateVehicleErr(req[p].id, row), row)

CallArchiveVehicle(p) == \E id \in VehicleID : Stamping(p, "ArchiveVehicle", id, None)

DoArchiveVehicle(p) ==
    /\ At(p, "ArchiveVehicle", "store")
    /\ Change(p, ArchiveErr(vehicles, req[p].id),
              [vehicles[req[p].id] EXCEPT !.archived = TRUE, !.updatedAt = req[p].t])

VehicleOps == {"CreateVehicle", "UpdateVehicle", "ArchiveVehicle"}

VehicleAction(op) ==
    CASE op = "CreateVehicle"  -> "vehicle.create"
      [] op = "UpdateVehicle"  -> "vehicle.update"
      [] op = "ArchiveVehicle" -> "vehicle.archive"

\* The error of the store is dropped: where the INSERT of the entry fails, the
\* client is answered as if it were there.
AuditVehicle(p) ==
    /\ req[p].phase = "audit"
    /\ \/ CreateAuditLog(VehicleAction(req[p].op), req[p].id)
       \/ "failure" \in Faults /\ UNCHANGED storeVars
    /\ req' = [req EXCEPT ![p] = Idle]
    /\ UNCHANGED <<now, vehicles>>

\* The program stops and starts again: what is in the tables is kept.
Restart ==
    /\ "crash" \in Faults
    /\ req' = [p \in Proc |-> Idle]
    /\ UNCHANGED <<storeVars, now, vehicles>>

VehicleAccept(p) == CallCreateVehicle(p) \/ CallUpdateVehicle(p) \/ CallArchiveVehicle(p)

VehicleServe(p) ==
    \/ DoCreateVehicle(p)
    \/ GetUpdateVehicle(p) \/ StampUpdateVehicle(p) \/ DoUpdateVehicle(p)
    \/ DoArchiveVehicle(p)
    \/ AuditVehicle(p) \/ (Reply(p) /\ UNCHANGED vehicles)

VehicleNext ==
    \/ \E p \in Proc : VehicleAccept(p) \/ VehicleServe(p)
    \/ Tick /\ UNCHANGED vehicles
    \/ Restart

VehicleSpec == VehicleInit /\ [][VehicleNext]_vehicleVars

-----------------------------------------------------------------------------
(* Properties                                                              *)

\* The type invariant of the table.
VehiclesOK ==
    /\ DOMAIN vehicles \subseteq VehicleID
    /\ vehicles \in [DOMAIN vehicles -> Vehicle]

\* A plate belongs to one vehicle that is not archived.  Besides insertions,
\* updates can break it: one that sends no plate writes back the plate it
\* read, which the vehicle may have given up and another taken since.
OneVehiclePerPlate ==
    \A x, y \in DOMAIN vehicles :
        ~vehicles[x].archived /\ ~vehicles[y].archived /\ vehicles[x].plate = vehicles[y].plate
            => x = y

\* A vehicle that is archived never comes back, and its row stays as it is.
ArchivedStays ==
    \A x \in DOMAIN vehicles : vehicles[x].archived => vehicles'[x] = vehicles[x]
ArchivedVehiclesFinal == [][ArchivedStays]_vehicleVars

\* The creations and archivings that the table shows.
VehicleEffects ==
    {<<"vehicle.create", x>> : x \in DOMAIN vehicles} \cup
    {<<"vehicle.archive", x>> : x \in {y \in DOMAIN vehicles : vehicles[y].archived}}

\* The entries that goroutines are about to write.
VehicleAuditing ==
    {<<VehicleAction(req[p].op), req[p].id>> :
        p \in {q \in Proc : req[q].phase = "audit" /\ req[q].op \in VehicleOps}}

\* The creations and archivings that the log tells of or is about to.
VehiclesTold ==
    {l \in logs \cup VehicleAuditing : l[1] \in {"vehicle.create", "vehicle.archive"}}

\* The log never tells of a creation or archiving that did not happen: not
\* after one that was refused by the index or by a rival's archiving, and not
\* after a failure, a lost answer or a restart.  (It may miss some that did:
\* over PostgreSQL a change and its entry are two statements, and a failure
\* of the second is not told to anybody.)
NoVehicleInvented == VehiclesTold \subseteq VehicleEffects

\* Where nothing fails, as in the memory store, it misses none either: every
\* creation and archiving that the table shows is in the log or about to be.
VehicleLedger == VehiclesTold = VehicleEffects
=============================================================================
