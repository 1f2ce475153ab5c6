------------------------- MODULE ParkingProperties --------------------------
(***************************************************************************)
(* What the visitor parking service promises, stated over ParkingService.  *)
(*                                                                         *)
(* Some promises depend on the clock.  The optimistic lock of the service  *)
(* compares readings of the clock, and an update takes effect only if the  *)
(* instant at which it is made is the updated_at the row already has.  So: *)
(*   - with a clock whose readings all differ, no update ever takes effect *)
(*     and the properties of the second part hold;                         *)
(*   - with a clock two of whose readings may be equal, updates do take    *)
(*     effect, and only the properties of the first part hold.             *)
(***************************************************************************)
EXTENDS ParkingService

Updates == {"UpdateResident", "UpdateParkingArea", "UpdateAuthorization"}

\* What is known of a request by its phase and its endpoint.
RequestOK(r) ==
    /\ r.phase \in {"idle", "get", "clock", "store", "audit", "reply"}
    /\ r.phase = "idle" <=> r = Idle
    /\ r.phase # "idle" => r.op \in ServiceOps
    /\ r.phase = "reply" => r.in \in Error
    /\ r.phase \in {"get", "clock"} => r.op \in Updates
    /\ r.phase = "store" => r.t \in Time
    /\ r.phase \in {"get", "clock", "store"} =>
         /\ r.op \in {"CreateResident", "UpdateResident", "ArchiveResident"} =>
              r.id \in ResidentID
         /\ r.op \in {"CreateParkingArea", "UpdateParkingArea", "ArchiveParkingArea"} =>
              r.id \in AreaID
         /\ r.op \in {"CreateAuthorization", "UpdateAuthorization",
                      "ArchiveAuthorization", "RevokeAuthorization",
                      "EnterVehicle", "ExitVehicle"} =>
              r.id \in AuthID
         /\ r.op = "CreateResident" => r.in \in Resident /\ ~r.in.archived
         /\ r.op = "CreateParkingArea" => r.in \in ParkingArea /\ ~r.in.archived
         /\ r.op = "CreateAuthorization" => r.in \in Authorization /\ ~r.in.archived
         /\ r.op = "UpdateResident" => r.in.status \in ResidentStatus \cup {None}
         /\ r.op = "UpdateParkingArea" => r.in.capacity \in Nat
         /\ r.op = "UpdateAuthorization" =>
              /\ r.in.start \in Time
              /\ r.in.end \in Time
              /\ r.in.area \in AreaID \cup {None}
    /\ r.phase \in {"clock", "store"} =>
         /\ r.op = "UpdateResident" => r.cur \in Resident
         /\ r.op = "UpdateParkingArea" => r.cur \in ParkingArea
         /\ r.op = "UpdateAuthorization" =>
              r.cur \in Authorization /\ r.cur.status = "pending"

\* The maps hold rows of their tables.
StoreTypeOK ==
    /\ DOMAIN residents \subseteq ResidentID
    /\ residents \in [DOMAIN residents -> Resident]
    /\ DOMAIN areas \subseteq AreaID
    /\ areas \in [DOMAIN areas -> ParkingArea]
    /\ DOMAIN auths \subseteq AuthID
    /\ auths \in [DOMAIN auths -> Authorization]
    /\ DOMAIN records \subseteq RecordID
    /\ records \in [DOMAIN records -> EntryExitRecord]

\* The type invariant: the maps hold rows of their tables, and a request
\* carries what its endpoint and its phase call for.
TypeOK ==
    /\ StoreTypeOK
    /\ now \in Time \ {ZeroTime}
    /\ DOMAIN req = Proc
    /\ \A p \in Proc : RequestOK(req[p])

-----------------------------------------------------------------------------
(* Whatever the clock                                                      *)

\* The service tells a client that a vehicle has already entered, or has
\* already left, only if the records say so, however long ago the refusal
\* was decided and whatever other requests have done since (EnterVehicle and
\* ExitVehicle decide by the status of the authorization, which an update
\* holding an old copy of the row may overwrite).
RefusalsTruthful ==
    \A p \in Proc : req[p].phase = "reply" =>
        /\ req[p].in = "ErrAlreadyEntered" =>
             \E r \in DOMAIN records : records[r].auth = req[p].id
        /\ req[p].in = "ErrAlreadyExited" =>
             \E r \in DOMAIN records : /\ records[r].auth = req[p].id
                                       /\ records[r].status = "exited"

\* Every authorization lasts some time and no longer than seven days, also
\* after updates that sent only one end of the window and were checked
\* against a copy of the row that others have changed since.
WindowsBounded ==
    \A x \in DOMAIN auths :
        /\ auths[x].start < auths[x].end
        /\ auths[x].end - auths[x].start <= MaxAuthDuration

\* A vehicle is let into an area only if the area is in use and the vehicle
\* finds a spot there, whatever updates of the capacity run at the same time.
EntersWithinCapacity ==
    \A a \in DOMAIN areas :
        Occupied(a)' > Occupied(a) =>
            ~areas[a].archived /\ Occupied(a)' <= areas[a].capacity
EntryRespectsCapacity == [][EntersWithinCapacity]_vars

\* Records are kept for ever: what an entry wrote stays, the exit is written
\* once, and a record that is closed never changes again.
KeepsHistory ==
    \A r \in DOMAIN records :
        /\ r \in DOMAIN records'
        /\ \/ records'[r] = records[r]
           \/ /\ records[r].status = "entered"
              /\ records'[r] = [records[r] EXCEPT !.status = "exited",
                                                  !.exit = records'[r].exit]
RecordHistory == [][KeepsHistory]_vars

\* Rows are deleted softly and for good: no row of a map ever vanishes, and a
\* row that was archived never changes again, not even by an update that read
\* it before it was archived.
KeepsArchived(old, new) ==
    \A x \in DOMAIN old : x \in DOMAIN new /\ (old[x].archived => new[x] = old[x])
KeepsAllArchived ==
    /\ KeepsArchived(residents, residents')
    /\ KeepsArchived(areas, areas')
    /\ KeepsArchived(auths, auths')
ArchivedFinal == [][KeepsAllArchived]_vars

-----------------------------------------------------------------------------
(* With a clock whose readings differ                                      *)

\* One plate has at most one pending or active authorization at a time.
NoOverlap ==
    \A x, y \in DOMAIN auths :
        (x # y /\ auths[x].plate = auths[y].plate
               /\ InForce(auths[x]) /\ InForce(auths[y])) =>
            ~Overlap(auths[x], auths[y])

\* The records and the statuses of the authorizations tell the same story: a
\* record belongs to an authorization that is active while the vehicle is
\* inside and completed when it has left, agrees with it on plate and area,
\* and was opened within its window; an authorization has one record if it
\* was used and none if it was not.
RecordAgrees(rec) ==
    /\ rec.auth \in DOMAIN auths
    /\ auths[rec.auth].status = IF rec.status = "entered" THEN "active" ELSE "completed"
    /\ auths[rec.auth].plate = rec.plate
    /\ auths[rec.auth].area = rec.area
    /\ InWindow(auths[rec.auth], rec.entry)

LedgerConsistent ==
    /\ \A r \in DOMAIN records : RecordAgrees(records[r])
    /\ \A r, s \in DOMAIN records : records[r].auth = records[s].auth => r = s
    /\ \A x \in DOMAIN auths :
         auths[x].status \in {"active", "completed"} =>
             \E r \in DOMAIN records : records[r].auth = x

\* An area never holds more vehicles than it has spots.
CapacityRespected ==
    \A a \in DOMAIN areas : Occupied(a) <= areas[a].capacity

\* The changes the maps show: rows created, rows archived, authorizations
\* revoked, vehicles entered and left.
Effects ==
    {<<"resident.create", x>> : x \in DOMAIN residents}
    \cup {<<"resident.archive", x>> : x \in {y \in DOMAIN residents : residents[y].archived}}
    \cup {<<"area.create", x>> : x \in DOMAIN areas}
    \cup {<<"area.archive", x>> : x \in {y \in DOMAIN areas : areas[y].archived}}
    \cup {<<"authorization.create", x>> : x \in DOMAIN auths}
    \cup {<<"authorization.archive", x>> : x \in {y \in DOMAIN auths : auths[y].archived}}
    \cup {<<"authorization.revoke", x>> :
             x \in {y \in DOMAIN auths : auths[y].status = "cancelled"}}
    \cup {<<"entry.record", r>> : r \in DOMAIN records}
    \cup {<<"exit.record", r>> : r \in {s \in DOMAIN records : records[s].status = "exited"}}

\* The audit entries that goroutines are about to write.
Auditing ==
    {<<AuditAction(req[p].op), req[p].id>> : p \in {q \in Proc : req[q].phase = "audit"}}

\* The audit log, with the entries about to be written, names every change
\* the maps show and no other: nothing is logged that did not happen, and
\* nothing happens that is not logged or about to be.
AuditLedger == logs \cup Auditing = Effects

\* An authorization goes from pending to active or cancelled and from active
\* to completed, and no other way; completed and cancelled are final.
MovesForward ==
    \A x \in DOMAIN auths :
        auths'[x].status # auths[x].status =>
            <<auths[x].status, auths'[x].status>> \in
                {<<"pending", "active">>, <<"pending", "cancelled">>,
                 <<"active", "completed">>}
LifecycleSteps == [][MovesForward]_vars

\* updated_at tells the versions of a row apart: a row that changes gets
\* another updated_at, so that a client holding the old one is found out.
Versioned(old, new) ==
    \A x \in DOMAIN old : new[x] # old[x] => new[x].updatedAt # old[x].updatedAt
ChangesVersion ==
    /\ Versioned(residents, residents')
    /\ Versioned(areas, areas')
    /\ Versioned(auths, auths')
VersionsDiffer == [][ChangesVersion]_vars

-----------------------------------------------------------------------------
(* What must happen                                                        *)

\* Every request that was taken up is answered.
EveryRequestAnswered ==
    \A p \in Proc : req[p] # Idle ~> req[p] = Idle

\* What an audit entry may say: the action and the row it is about.
AuditEntry ==
    {"resident.create", "resident.update", "resident.archive"} \X ResidentID
    \cup {"area.create", "area.update", "area.archive"} \X AreaID
    \cup {"authorization.create", "authorization.update", "authorization.archive",
          "authorization.revoke"} \X AuthID
    \cup {"entry.record", "exit.record"} \X RecordID

\* Every change gets its audit entry, although the audit log is written after
\* the change and in a critical section of its own: creations, archivings,
\* revocations, entries and exits as soon as the maps show them (Effects), and
\* updates, which leave no trace of their own in the maps, from the goroutine
\* that has written the row (Auditing).  The log is a set: of an update that is
\* repeated, the first entry is all that is asked for.
EveryChangeAudited ==
    \A e \in AuditEntry : e \in Effects \cup Auditing ~> e \in logs

-----------------------------------------------------------------------------
(* What the documentation says and the code does not do                    *)

\* An update whose token is the current updated_at is carried out: the store
\* refuses an update only if the row was changed after the update read it.
NoSpuriousConflict ==
    \A p \in Proc : At(p, "UpdateParkingArea", "store") =>
        LET id == req[p].id IN
        id \in DOMAIN areas /\ areas[id] = req[p].cur =>
            UpdateErr(areas, id, NewParkingArea(req[p])) = "nil"

\* A vehicle that is inside can leave: its exit would be accepted.
EnteredCanExit ==
    \A r \in DOMAIN records :
        records[r].status = "entered" => ExitVehicleErr(records[r].auth) = "nil"
=============================================================================
