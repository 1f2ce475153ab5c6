-------------------------- MODULE PostgresService ---------------------------
(***************************************************************************)
(* service.Service over store.Postgres (src/internal/store/postgres.go).   *)
(*                                                                         *)
(* The service is the one of ParkingService: how a request is accepted,    *)
(* what an update reads and when it reads the clock do not depend on the   *)
(* store.  The maps of MemoryStore are here the committed rows of the      *)
(* tables.  What differs is how a change is made:                          *)
(*                                                                         *)
(*   - a creation of a resident or an area, an update and an archiving are *)
(*     one autocommitted statement, which waits for the lock of its row;   *)
(*   - a creation of an authorization, an entry, an exit and a revocation  *)
(*     are SERIALIZABLE transactions (runTx).  A transaction reads from    *)
(*     the snapshot its first statement takes, locks rows FOR UPDATE, and  *)
(*     is aborted if a row it locks has changed since the snapshot, or at  *)
(*     commit if the outcome would not be serializable.  It is not tried   *)
(*     again.                                                              *)
(*                                                                         *)
(* Three phases of a request are added: "lock" (snapshot taken, about to   *)
(* lock the authorization), "area" (about to lock the area), "commit" (all *)
(* statements executed), and "reread" for an exit or a revocation that is  *)
(* committed and reads its row again to answer the client.                 *)
(***************************************************************************)
EXTENDS ParkingService

CONSTANT Faults   \* which of "failure" and "crash" may happen

ASSUME FaultsAssumption == Faults \subseteq {"failure", "crash"}

VARIABLE tx       \* the transactions the goroutines have open

pgVars == <<vars, tx>>

\* The rows changed by others since the snapshot, the rows locked, the
\* number of records inside that the snapshot shows for the area of the
\* entry, and whether a rival's commit rules out the commit of this one.
NoTx == [stale |-> {}, holds |-> {}, seen |-> 0, doomed |-> FALSE]

PgInit == Init /\ tx = [p \in Proc |-> NoTx]

\* The program starts over a database that an earlier run has left with its
\* residents and areas.  A fine clock has moved on since they were written, a
\* coarse one need not have.
PgStarted ==
    /\ residents = [x \in ResidentID |->
                       [status |-> "active", archived |-> FALSE, updatedAt |-> 1]]
    /\ areas = [x \in AreaID |-> [capacity |-> 1, archived |-> FALSE, updatedAt |-> 1]]
    /\ auths = EmptyMap /\ records = EmptyMap
    /\ logs = {<<"resident.create", x>> : x \in ResidentID} \cup
              {<<"area.create", x>> : x \in AreaID}
    /\ now = (IF CoarseClock THEN 1 ELSE 2) /\ now \in Time
    /\ req = [p \in Proc |-> Idle]
    /\ tx = [p \in Proc |-> NoTx]

InTx(p) == req[p].phase \in {"lock", "area", "commit"}

\* Some transaction holds the lock of the row.
Held(row) == \E p \in Proc : row \in tx[p].holds

Go(p, phase, id, cur) ==
    /\ req' = [req EXCEPT ![p] =
                  Request(req[p].op, phase, id, req[p].t, req[p].in, cur)]
    /\ UNCHANGED now

\* Mutant: the transaction is left open.
RollbackForgotten(p, err) ==
    /\ Refuse(p, err)
    /\ UNCHANGED <<now, tx>>

\* The closure of runTx returns err: the transaction is rolled back.  Any
\* error that is not one of the store's is answered as an internal error.
Rollback(p, err) ==
    /\ Refuse(p, err)
    /\ tx' = [tx EXCEPT ![p] = NoTx]
    /\ UNCHANGED now

\* Mutant: a level at which a commit does not look at what it should have read.
IsolationRepeatableRead == "RepeatableRead"

\* The isolation level runTx asks for.
Isolation == "Serializable"

\* Goroutine p has committed a change of row: it holds no lock any more, the
\* open transactions have an older version of the row in their snapshot, and
\* those of rivals, if they have to be serializable, cannot commit any more.
Written(p, row, rivals) ==
    tx' = [q \in Proc |-> IF q = p THEN NoTx
                          ELSE IF ~InTx(q) THEN tx[q]
                          ELSE [tx[q] EXCEPT !.stale = @ \cup {row},
                                             !.doomed =
                                                 @ \/ (q \in rivals /\ Isolation = "Serializable")]]

-----------------------------------------------------------------------------
(* Autocommitted statements                                                *)

PgCreateResident(p) == DoCreateResident(p) /\ UNCHANGED tx
PgCreateParkingArea(p) == DoCreateParkingArea(p) /\ UNCHANGED tx

\* A statement on the row of the request.
Autocommit(p, err, Write) ==
    /\ ~Held(req[p].id)
    /\ \/ err = "nil" /\ Write /\ Commit(p, req[p].id) /\ Written(p, req[p].id, {})
       \/ Rollback(p, err)

\* Mutant: archived rows are not excluded.
PgUpdateErrArchivedToo(m, id, row) ==
    IF id \in DOMAIN m /\ m[id].updatedAt = row.updatedAt THEN "nil"
    ELSE "ErrConcurrentModify"

\* UPDATE ... WHERE id AND archived_at IS NULL AND updated_at: a row that is
\* archived, missing or of another version is not told apart.
PgUpdateErr(m, id, row) ==
    IF Live(m, id) /\ m[id].updatedAt = row.updatedAt THEN "nil"
    ELSE "ErrConcurrentModify"

PgUpdateResident(p) ==
    /\ At(p, "UpdateResident", "store")
    /\ LET row == NewResident(req[p]) IN
       Autocommit(p, PgUpdateErr(residents, req[p].id, row),
                  UpdateResident(req[p].id, row))

PgUpdateParkingArea(p) ==
    /\ At(p, "UpdateParkingArea", "store")
    /\ LET row == NewParkingArea(req[p]) IN
       Autocommit(p, PgUpdateErr(areas, req[p].id, row),
                  UpdateParkingArea(req[p].id, row))

\* The area of the new row must exist (a foreign key).
PgUpdateAuthorizationErr(id, row) ==
    IF PgUpdateErr(auths, id, row) = "nil" /\ row.area \notin DOMAIN areas
    THEN "ErrInternal"
    ELSE PgUpdateErr(auths, id, row)

\* A row that gets another area waits for the lock of that one too.
PgUpdateAuthorization(p) ==
    /\ At(p, "UpdateAuthorization", "store")
    /\ LET row == NewAuthorization(req[p]) IN
       /\ PgUpdateErr(auths, req[p].id, row) = "nil" /\ row.area # auths[req[p].id].area =>
            ~Held(row.area)
       /\ Autocommit(p, PgUpdateAuthorizationErr(req[p].id, row),
                     UpdateAuthorization(req[p].id, row))

PgArchiveResident(p) ==
    /\ At(p, "ArchiveResident", "store")
    /\ Autocommit(p, ArchiveErr(residents, req[p].id),
                  ArchiveResident(req[p].id, req[p].t))

PgArchiveParkingArea(p) ==
    /\ At(p, "ArchiveParkingArea", "store")
    /\ Autocommit(p, ArchiveErr(areas, req[p].id),
                  ArchiveParkingArea(req[p].id, req[p].t))

PgArchiveAuthorization(p) ==
    /\ At(p, "ArchiveAuthorization", "store")
    /\ Autocommit(p, ArchiveErr(auths, req[p].id),
                  ArchiveAuthorization(req[p].id, req[p].t))

-----------------------------------------------------------------------------
(* The creation of an authorization                                        *)

PgCreateErr(row) ==
    IF ~Live(residents, row.resident) THEN "ErrNotFound"
    ELSE IF residents[row.resident].status # "active" THEN "ErrResidentDisabled"
    ELSE IF row.area \notin DOMAIN areas THEN "ErrNotFound"
    ELSE IF areas[row.area].archived THEN "ErrAreaArchived"
    ELSE IF Conflicts(row) THEN "ErrConflict"
    ELSE "nil"

\* The SELECTs, all from one snapshot.  They lock nothing.
BeginCreate(p) ==
    /\ At(p, "CreateAuthorization", "store")
    /\ LET err == PgCreateErr(req[p].in) IN
       \/ /\ err = "nil"
          /\ Go(p, "commit", req[p].id, None)
          /\ UNCHANGED <<storeVars, tx>>
       \/ Rollback(p, err)

\* Two creations that did not see each other's row and each of which would
\* have found a conflict if it had: the second to commit is aborted.
RivalCreations(p) ==
    {q \in Proc \ {p} : /\ At(q, "CreateAuthorization", "commit")
                        /\ req[q].in.plate = req[p].in.plate
                        /\ Overlap(req[q].in, req[p].in)}

\* INSERT and COMMIT.  The foreign key to the area waits for its lock.
CommitCreate(p) ==
    /\ At(p, "CreateAuthorization", "commit")
    /\ ~tx[p].doomed
    /\ ~Held(req[p].in.area)
    /\ CreateAuthorization(req[p].id, req[p].in)
    /\ Commit(p, req[p].id)
    /\ Written(p, req[p].id, RivalCreations(p))

-----------------------------------------------------------------------------
(* Entry, exit and revocation                                              *)

\* The first statement takes the snapshot, before it waits for the lock.
\* cur is the authorization the snapshot shows.
Begin(p) ==
    /\ req[p].phase = "store"
    /\ req[p].op \in {"EnterVehicle", "ExitVehicle", "RevokeAuthorization"}
    /\ LET live == Live(auths, req[p].id)
           row == IF live THEN auths[req[p].id] ELSE None
       IN /\ Go(p, "lock", req[p].id, row)
          /\ tx' = [tx EXCEPT ![p].seen = IF live THEN Occupied(row.area) ELSE 0]
    /\ UNCHANGED storeVars

\* Mutant: whatever is not inside counts as having left.
LockedErrMerged(p) ==
    LET a == req[p].cur IN
    IF a.status = (IF req[p].op = "ExitVehicle" THEN "active" ELSE "pending") THEN "nil"
    ELSE IF req[p].op = "ExitVehicle" THEN "ErrAlreadyExited"
    ELSE IF req[p].op = "EnterVehicle" /\ a.status = "active" THEN "ErrAlreadyEntered"
    ELSE "ErrStatusTransition"

\* Mutant: the window is looked at before the status.
LockedErrWindowFirst(p) ==
    LET a == req[p].cur IN
    CASE req[p].op = "EnterVehicle" ->
           IF ~InWindow(a, req[p].t) THEN "ErrOutOfTimeWindow"
           ELSE IF a.status = "active" THEN "ErrAlreadyEntered"
           ELSE IF a.status # "pending" THEN "ErrStatusTransition"
           ELSE "nil"
      [] req[p].op = "ExitVehicle" ->
           IF a.status = "completed" THEN "ErrAlreadyExited"
           ELSE IF a.status # "active" THEN "ErrStatusTransition"
           ELSE IF EnteredRecords(req[p].id) = {} THEN "ErrNotFound"
           ELSE "nil"
      [] req[p].op = "RevokeAuthorization" ->
           IF a.status # "pending" THEN "ErrStatusTransition" ELSE "nil"

\* What the transaction decides by the authorization it has locked.
LockedErr(p) ==
    LET a == req[p].cur IN
    CASE req[p].op = "EnterVehicle" ->
           IF a.status = "active" THEN "ErrAlreadyEntered"
           ELSE IF a.status # "pending" THEN "ErrStatusTransition"
           ELSE IF ~InWindow(a, req[p].t) THEN "ErrOutOfTimeWindow"
           ELSE "nil"
      [] req[p].op = "ExitVehicle" ->
           IF a.status = "completed" THEN "ErrAlreadyExited"
           ELSE IF a.status # "active" THEN "ErrStatusTransition"
           ELSE IF EnteredRecords(req[p].id) = {} THEN "ErrNotFound"
           ELSE "nil"
      [] req[p].op = "RevokeAuthorization" ->
           IF a.status # "pending" THEN "ErrStatusTransition" ELSE "nil"

\* Mutant: the row is locked, but a version read before decides.
LockErrReadCommitted(p) ==
    IF req[p].cur = None THEN "ErrNotFound" ELSE LockedErr(p)

\* SELECT ... FOR UPDATE finds no row in the snapshot, finds one that has
\* changed since (a serialization failure), or locks it.
LockErr(p) ==
    IF req[p].cur = None THEN "ErrNotFound"
    ELSE IF req[p].id \in tx[p].stale THEN "ErrInternal"
    ELSE LockedErr(p)

\* An exit also locks its open record, which only an exit of the same
\* authorization would lock.
Lock(p) ==
    /\ req[p].phase = "lock"
    /\ req[p].cur # None => ~Held(req[p].id)
    /\ \/ /\ LockErr(p) = "nil"
          /\ Go(p, IF req[p].op = "EnterVehicle" THEN "area" ELSE "commit",
                req[p].id, req[p].cur)
          /\ tx' = [tx EXCEPT ![p].holds = {req[p].id}]
          /\ UNCHANGED storeVars
       \/ Rollback(p, LockErr(p))

\* Mutant: off by one.
LockAreaErrBeyond(p) ==
    LET area == req[p].cur.area IN
    IF area \in tx[p].stale THEN "ErrInternal"
    ELSE IF ~Live(areas, area) THEN "ErrNotFound"
    ELSE IF tx[p].seen > areas[area].capacity THEN "ErrNoCapacity"
    ELSE "nil"

\* SELECT capacity and the count of records inside ... FOR UPDATE: the row of
\* the area is locked, the count is the snapshot's.
LockAreaErr(p) ==
    LET area == req[p].cur.area IN
    IF area \in tx[p].stale THEN "ErrInternal"
    ELSE IF ~Live(areas, area) THEN "ErrNotFound"
    ELSE IF tx[p].seen >= areas[area].capacity THEN "ErrNoCapacity"
    ELSE "nil"

\* Mutant: the area is read without FOR UPDATE.
ReadArea(p) ==
    /\ req[p].phase = "area"
    /\ \/ /\ LockAreaErr(p) = "nil"
          /\ Go(p, "commit", req[p].id, req[p].cur)
          /\ UNCHANGED <<storeVars, tx>>
       \/ Rollback(p, LockAreaErr(p))

LockArea(p) ==
    /\ req[p].phase = "area"
    /\ ~Held(req[p].cur.area)
    /\ \/ /\ LockAreaErr(p) = "nil"
          /\ Go(p, "commit", req[p].id, req[p].cur)
          /\ tx' = [tx EXCEPT ![p].holds = @ \cup {req[p].cur.area}]
          /\ UNCHANGED storeVars
       \/ Rollback(p, LockAreaErr(p))

\* Entries into one area count its records and add one.  Of two whose
\* snapshots show neither's record, the second to commit is aborted.
RivalEntries(p) ==
    {q \in Proc \ {p} : /\ req[q].op = "EnterVehicle" /\ InTx(q)
                        /\ req[q].cur # None
                        /\ req[q].cur.area = req[p].cur.area}

\* Mutant: the schema has no unique index on open records.
NothingOpen(id) == TRUE

\* idx_records_active_auth: an authorization has at most one open record.
NoOpenRecord(id) == EnteredRecords(id) = {}

CommitEnter(p) ==
    /\ At(p, "EnterVehicle", "commit")
    /\ ~tx[p].doomed
    /\ NoOpenRecord(req[p].id)
    /\ \E rec \in RecordID : /\ EnterVehicle(req[p].id, req[p].t, rec)
                             /\ Commit(p, rec)
    /\ Written(p, req[p].id, RivalEntries(p))

CommitExit(p) ==
    /\ At(p, "ExitVehicle", "commit")
    /\ \E rec \in RecordID : /\ ExitVehicle(req[p].id, req[p].t, rec)
                             /\ Go(p, "reread", rec, None)
    /\ Written(p, req[p].id, {})

CommitRevoke(p) ==
    /\ At(p, "RevokeAuthorization", "commit")
    /\ RevokeAuthorization(req[p].id, req[p].t)
    /\ Go(p, "reread", req[p].id, None)
    /\ Written(p, req[p].id, {})

\* A serialization failure at commit, or the unique index.
CommitRefused(p) ==
    /\ req[p].phase = "commit"
    /\ tx[p].doomed \/ (req[p].op = "EnterVehicle" /\ ~NoOpenRecord(req[p].id))
    /\ Rollback(p, "ErrInternal")

\* Mutant: the row is read until it is found.
RereadUntilFound(p) ==
    /\ req[p].phase = "reread"
    /\ req[p].op = "RevokeAuthorization" => Live(auths, req[p].id)
    /\ Commit(p, req[p].id)
    /\ UNCHANGED <<storeVars, tx>>

\* Mutant: an exit looks for its authorization too.
RereadAuthorization(p) ==
    /\ req[p].phase = "reread"
    /\ LET id == IF req[p].op = "ExitVehicle" THEN records[req[p].id].auth ELSE req[p].id IN
       \/ Live(auths, id) /\ Commit(p, req[p].id) /\ UNCHANGED <<storeVars, tx>>
       \/ ~Live(auths, id) /\ Rollback(p, "ErrNotFound")

\* GetRecord or GetAuthorization after the commit.  An authorization that
\* was archived in the meantime is not found, and the request fails.
Reread(p) ==
    /\ req[p].phase = "reread"
    /\ \/ /\ req[p].op = "RevokeAuthorization" => Live(auths, req[p].id)
          /\ Commit(p, req[p].id)
          /\ UNCHANGED <<storeVars, tx>>
       \/ /\ req[p].op = "RevokeAuthorization" /\ ~Live(auths, req[p].id)
          /\ Rollback(p, "ErrNotFound")

-----------------------------------------------------------------------------
(* Failures                                                                *)

\* A statement fails, the transaction is aborted, or the answer of a
\* statement or a commit that was carried out is lost.
Fail(p) ==
    /\ "failure" \in Faults
    /\ req[p].phase \in {"get", "store", "lock", "area", "commit", "reread", "audit"}
    /\ Rollback(p, "ErrInternal")

\* The INSERT of the audit entry fails, and the error is dropped.
DropAudit(p) ==
    /\ "failure" \in Faults
    /\ req[p].phase = "audit"
    /\ req' = [req EXCEPT ![p] = Idle]
    /\ UNCHANGED <<storeVars, now, tx>>

\* The program stops and starts again: what was committed is kept.
Crash ==
    /\ "crash" \in Faults
    /\ req' = [p \in Proc |-> Idle]
    /\ tx' = [p \in Proc |-> NoTx]
    /\ UNCHANGED <<storeVars, now>>

-----------------------------------------------------------------------------

\* What the service does before and after its calls of the store.
PgServiceStep(p) ==
    /\ \/ GetUpdateResident(p) \/ GetUpdateParkingArea(p) \/ GetUpdateAuthorization(p)
       \/ Stamp(p) \/ StampUpdateAuthorization(p)
       \/ Audit(p) \/ Reply(p)
    /\ UNCHANGED tx

PgServe(p) ==
    \/ PgServiceStep(p)
    \/ PgCreateResident(p)  \/ PgUpdateResident(p)      \/ PgArchiveResident(p)
    \/ PgCreateParkingArea(p) \/ PgUpdateParkingArea(p) \/ PgArchiveParkingArea(p)
    \/ PgUpdateAuthorization(p) \/ PgArchiveAuthorization(p)
    \/ BeginCreate(p) \/ CommitCreate(p)
    \/ Begin(p) \/ Lock(p) \/ LockArea(p)
    \/ CommitEnter(p) \/ CommitExit(p) \/ CommitRevoke(p) \/ CommitRefused(p)
    \/ Reread(p)

PgStep ==
    \/ \E p \in Proc : (Accept(p) /\ UNCHANGED tx) \/ PgServe(p)
    \/ (Tick \/ ClockExhausted) /\ UNCHANGED tx

PgFault ==
    \/ \E p \in Proc : Fail(p) \/ DropAudit(p)
    \/ Crash

PgNext == PgStep \/ PgFault

PgSpec == PgInit /\ [][PgNext]_pgVars
PgStartedSpec == PgStarted /\ [][PgNext]_pgVars

\* The Go scheduler runs every runnable goroutine, and PostgreSQL grants a
\* row lock to those that wait for it in their order, so that a request that
\* can be carried on again and again is carried on.
PgFairSpec == PgSpec /\ \A p \in Proc : SF_pgVars(PgServe(p))
=============================================================================
