---------------------------- MODULE MemoryStore -----------------------------
(***************************************************************************)
(* store.Memory (src/internal/store/memory.go): six maps behind one mutex. *)
(* Every method locks the mutex for its whole body, so every method is one *)
(* atomic step.  A method M that can fail is split in two: MErr is the     *)
(* error its early returns give, in their order ("nil" if none applies),   *)
(* and M is what it does to the maps when they all pass.                   *)
(*                                                                         *)
(* A map is a function whose domain is the set of keys present, so that    *)
(* "id \in DOMAIN m" is the ok of Go's two-valued map read.                *)
(***************************************************************************)
EXTENDS ParkingModel

VARIABLES
    residents,   \* map[string]*model.Resident
    areas,       \* map[string]*model.ParkingArea
    auths,       \* map[string]*model.Authorization
    records,     \* map[string]*model.EntryExitRecord
    logs         \* map[string]*model.AuditLog, as a set of <<action, id>>

storeVars == <<residents, areas, auths, records, logs>>

EmptyMap == [x \in {} |-> x]

\* NewMemory.
StoreInit ==
    /\ residents = EmptyMap
    /\ areas = EmptyMap
    /\ auths = EmptyMap
    /\ records = EmptyMap
    /\ logs = {}

\* m[k] = clone(v): the store keeps copies, never the caller's object.
Assign(m, k, v) == [x \in DOMAIN m \cup {k} |-> IF x = k THEN v ELSE m[x]]

\* Mutant: archived rows are not told apart.
LiveOrArchived(m, id) == id \in DOMAIN m

\* The key is present and its row is not archived.
Live(m, id) == id \in DOMAIN m /\ ~m[id].archived

\* Mutant: the lock is taken again but the row is not looked at again.
UpdateErrArchivedToo(m, id, row) ==
    IF id \notin DOMAIN m THEN "ErrNotFound"
    ELSE IF m[id].updatedAt # row.updatedAt THEN "ErrConcurrentModify"
    ELSE "nil"

\* What Update* of a resident, an area or an authorization check: the row
\* is live and its updated_at is the updated_at of the row to be written.
UpdateErr(m, id, row) ==
    IF ~Live(m, id) THEN "ErrNotFound"
    ELSE IF m[id].updatedAt # row.updatedAt THEN "ErrConcurrentModify"
    ELSE "nil"

\* What Archive* check, and the row they leave.
ArchiveErr(m, id) == IF Live(m, id) THEN "nil" ELSE "ErrNotFound"

\* Mutant: archiving forgets updated_at.
ArchivedUnstamped(m, id, t) == Assign(m, id, [m[id] EXCEPT !.archived = TRUE])

Archived(m, id, t) ==
    Assign(m, id, [m[id] EXCEPT !.archived = TRUE, !.updatedAt = t])

-----------------------------------------------------------------------------
(* Residents                                                               *)

\* NewID never returns an identifier twice, so that the ErrConflict of a
\* Create* whose identifier is taken cannot happen.
CreateResident(id, row) ==
    /\ id \notin DOMAIN residents
    /\ residents' = Assign(residents, id, row)
    /\ UNCHANGED <<areas, auths, records, logs>>

UpdateResident(id, row) ==
    /\ residents' = Assign(residents, id, row)
    /\ UNCHANGED <<areas, auths, records, logs>>

ArchiveResident(id, t) ==
    /\ residents' = Archived(residents, id, t)
    /\ UNCHANGED <<areas, auths, records, logs>>

-----------------------------------------------------------------------------
(* Parking areas                                                           *)

CreateParkingArea(id, row) ==
    /\ id \notin DOMAIN areas
    /\ areas' = Assign(areas, id, row)
    /\ UNCHANGED <<residents, auths, records, logs>>

UpdateParkingArea(id, row) ==
    /\ areas' = Assign(areas, id, row)
    /\ UNCHANGED <<residents, auths, records, logs>>

ArchiveParkingArea(id, t) ==
    /\ areas' = Archived(areas, id, t)
    /\ UNCHANGED <<residents, auths, records, logs>>

-----------------------------------------------------------------------------
(* Authorizations                                                          *)

\* The half-open windows of two authorizations meet.
Overlap(a, b) == a.start < b.end /\ b.start < a.end

\* Pending or active, and not archived: the row bars a second authorization
\* of its plate for an overlapping window.
InForce(a) == ~a.archived /\ a.status \notin {"completed", "cancelled"}

\* Mutant: an authorization in use is not looked at.
ConflictsPending(row) ==
    \E x \in DOMAIN auths : /\ auths[x].plate = row.plate
                            /\ ~auths[x].archived /\ auths[x].status = "pending"
                            /\ Overlap(row, auths[x])

\* The loop over the authorizations of the plate.
Conflicts(row) ==
    \E x \in DOMAIN auths : /\ auths[x].plate = row.plate
                            /\ InForce(auths[x])
                            /\ Overlap(row, auths[x])

CreateAuthorizationErr(row) ==
    IF ~Live(residents, row.resident) THEN "ErrNotFound"
    ELSE IF residents[row.resident].status # "active" THEN "ErrResidentDisabled"
    ELSE IF ~Live(areas, row.area) THEN "ErrAreaArchived"
    ELSE IF Conflicts(row) THEN "ErrConflict"
    ELSE "nil"

CreateAuthorization(id, row) ==
    /\ auths' = Assign(auths, id, row)
    /\ UNCHANGED <<residents, areas, records, logs>>

UpdateAuthorization(id, row) ==
    /\ auths' = Assign(auths, id, row)
    /\ UNCHANGED <<residents, areas, records, logs>>

ArchiveAuthorization(id, t) ==
    /\ auths' = Archived(auths, id, t)
    /\ UNCHANGED <<residents, areas, records, logs>>

\* Mutant: an authorization in use may be revoked.
RevokeActiveErr(id) ==
    IF ~Live(auths, id) THEN "ErrNotFound"
    ELSE IF auths[id].status \notin {"pending", "active"} THEN "ErrStatusTransition"
    ELSE "nil"

RevokeAuthorizationErr(id) ==
    IF ~Live(auths, id) THEN "ErrNotFound"
    ELSE IF auths[id].status # "pending" THEN "ErrStatusTransition"
    ELSE "nil"

RevokeAuthorization(id, t) ==
    /\ auths' = Assign(auths, id,
                  [auths[id] EXCEPT !.status = "cancelled", !.updatedAt = t])
    /\ UNCHANGED <<residents, areas, records, logs>>

-----------------------------------------------------------------------------
(* The gate                                                                *)

\* The records that hold a spot of the area, and their number.
Inside(area) ==
    {r \in DOMAIN records : /\ records[r].area = area
                            /\ records[r].status = "entered"}
Occupied(area) == Cardinality(Inside(area))

\* Mutant: off by one.
FullBeyond(area) == Occupied(area) > areas[area].capacity

Full(area) == Occupied(area) >= areas[area].capacity

\* Mutant: the end belongs to the window.
InWindowClosed(a, t) == a.start <= t /\ t <= a.end

InWindow(a, t) == a.start <= t /\ t < a.end

EnterVehicleErr(id, t) ==
    IF ~Live(auths, id) THEN "ErrNotFound"
    ELSE IF auths[id].status = "active" THEN "ErrAlreadyEntered"
    ELSE IF auths[id].status # "pending" THEN "ErrStatusTransition"
    ELSE IF ~InWindow(auths[id], t) THEN "ErrOutOfTimeWindow"
    ELSE IF ~Live(areas, auths[id].area) THEN "ErrAreaArchived"
    ELSE IF Full(auths[id].area) THEN "ErrNoCapacity"
    ELSE "nil"

\* rec is the identifier NewID("rec") returned: one no record has.
EnterVehicle(id, t, rec) ==
    /\ rec \notin DOMAIN records
    /\ records' = Assign(records, rec,
                    [auth |-> id, plate |-> auths[id].plate,
                     area |-> auths[id].area, entry |-> t,
                     exit |-> ZeroTime, status |-> "entered"])
    /\ auths' = Assign(auths, id,
                  [auths[id] EXCEPT !.status = "active", !.updatedAt = t])
    /\ UNCHANGED <<residents, areas, logs>>

\* Mutant: closed records are not skipped.
AllRecords(id) == {r \in DOMAIN records : records[r].auth = id}

\* The records the loop of ExitVehicle may stop at; Go's map order is free.
EnteredRecords(id) ==
    {r \in DOMAIN records : /\ records[r].auth = id
                            /\ records[r].status = "entered"}

\* Mutant: whatever is not inside counts as having left.
ExitVehicleErrMerged(id) ==
    IF ~Live(auths, id) THEN "ErrNotFound"
    ELSE IF auths[id].status # "active" THEN "ErrAlreadyExited"
    ELSE IF EnteredRecords(id) = {} THEN "ErrStatusTransition"
    ELSE "nil"

ExitVehicleErr(id) ==
    IF ~Live(auths, id) THEN "ErrNotFound"
    ELSE IF auths[id].status = "completed" THEN "ErrAlreadyExited"
    ELSE IF auths[id].status # "active" THEN "ErrStatusTransition"
    ELSE IF EnteredRecords(id) = {} THEN "ErrStatusTransition"
    ELSE "nil"

\* Mutant: the record is given the status of the authorization.
ExitVehicleMislabelled(id, t, rec) ==
    /\ rec \in EnteredRecords(id)
    /\ records' = Assign(records, rec,
                    [records[rec] EXCEPT !.exit = t, !.status = "completed"])
    /\ auths' = Assign(auths, id,
                  [auths[id] EXCEPT !.status = "completed", !.updatedAt = t])
    /\ UNCHANGED <<residents, areas, logs>>

\* Mutant: the authorization is left active.
ExitVehicleHalf(id, t, rec) ==
    /\ rec \in EnteredRecords(id)
    /\ records' = Assign(records, rec,
                    [records[rec] EXCEPT !.exit = t, !.status = "exited"])
    /\ UNCHANGED <<residents, areas, auths, logs>>

ExitVehicle(id, t, rec) ==
    /\ rec \in EnteredRecords(id)
    /\ records' = Assign(records, rec,
                    [records[rec] EXCEPT !.exit = t, !.status = "exited"])
    /\ auths' = Assign(auths, id,
                  [auths[id] EXCEPT !.status = "completed", !.updatedAt = t])
    /\ UNCHANGED <<residents, areas, logs>>

-----------------------------------------------------------------------------
(* The audit log                                                           *)

CreateAuditLog(action, id) ==
    /\ logs' = logs \cup {<<action, id>>}
    /\ UNCHANGED <<residents, areas, auths, records>>
=============================================================================
