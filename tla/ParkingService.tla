--------------------------- MODULE ParkingService ---------------------------
(***************************************************************************)
(* service.Service (src/internal/service/service.go) over the memory       *)
(* store, serving several HTTP requests at once.                           *)
(*                                                                         *)
(* net/http runs every request in a goroutine of its own.  The goroutine   *)
(* reads the clock and calls the store in separate steps, and each store   *)
(* call takes the store's mutex anew, so other requests run in between.    *)
(* req[p] is the request goroutine p is serving and how far it has come:   *)
(*                                                                         *)
(*   "get"    an update that has not yet read the row it is to change      *)
(*   "clock"  an update that has read the row but not the clock            *)
(*   "store"  validated and stamped with the clock, about to call the      *)
(*            store method that changes the maps                           *)
(*   "audit"  the change is made; the audit log is not yet written         *)
(*   "reply"  refused with an error that is being sent to the client       *)
(*                                                                         *)
(* A request refused for its text fields (an empty name, an invalid plate) *)
(* touches nothing that is shared and is left out.                         *)
(***************************************************************************)
EXTENDS MemoryStore

CONSTANTS
    Proc,            \* bound: goroutines serving requests at a time
    Ops,             \* the mutating endpoints the clients of the model call
    CoarseClock,     \* whether two readings of the clock may be equal
    StatusInputs,    \* resident statuses clients send, None if unset
    CapacityInputs,  \* area capacities clients send, 0 if unset
    Tokens,          \* updated_at values clients send with an update
    Windows          \* <<start_time, end_time>> pairs clients send

ServiceOps ==
    {"CreateResident", "UpdateResident", "ArchiveResident",
     "CreateParkingArea", "UpdateParkingArea", "ArchiveParkingArea",
     "CreateAuthorization", "UpdateAuthorization", "ArchiveAuthorization",
     "EnterVehicle", "ExitVehicle", "RevokeAuthorization"}

ASSUME ServiceAssumption ==
    /\ Ops \subseteq ServiceOps
    /\ CoarseClock \in BOOLEAN
    /\ StatusInputs \subseteq ResidentStatus \cup {None}
    /\ CapacityInputs \subseteq Nat
    /\ Tokens \subseteq Time
    /\ Windows \subseteq Time \X Time
    /\ None \notin ResidentStatus

VARIABLES
    now,   \* what s.now() returns
    req    \* the requests being served

vars == <<residents, areas, auths, records, logs, now, req>>

\* A request: the endpoint, how far it has come, the row it is about, the
\* reading of the clock, what the client sent (or, at the end, the error it
\* is sent) and the copy of the row an update has read.
Request(op, phase, id, t, in, cur) ==
    [op |-> op, phase |-> phase, id |-> id, t |-> t, in |-> in, cur |-> cur]

\* A goroutine that serves nothing.
Idle == Request("none", "idle", None, ZeroTime, None, None)

Init ==
    /\ StoreInit
    /\ now = 1
    /\ req = [p \in Proc |-> Idle]

-----------------------------------------------------------------------------
(* The clock                                                               *)

\* A reading of s.now().  A fine clock has moved on by the next reading.
ReadClock ==
    \/ CoarseClock /\ UNCHANGED now
    \/ ~CoarseClock /\ now < MaxTime /\ now' = now + 1

Tick ==
    /\ now < MaxTime
    /\ now' = now + 1
    /\ UNCHANGED <<residents, areas, auths, records, logs, req>>

\* store.NewID: an identifier that no row has and no request is using.
NewID(id, m) == id \notin DOMAIN m /\ \A q \in Proc : req[q].id # id

-----------------------------------------------------------------------------
(* How a request moves along                                               *)

At(p, op, phase) == req[p].op = op /\ req[p].phase = phase

\* The request enters the service, reads the clock and goes to the store.
Call(p, op, id, in) ==
    /\ req[p] = Idle
    /\ op \in Ops
    /\ ReadClock
    /\ req' = [req EXCEPT ![p] = Request(op, "store", id, now, in, None)]
    /\ UNCHANGED storeVars

\* An update enters the service: it reads its row before it reads the clock.
CallUpdate(p, op, id, in) ==
    /\ req[p] = Idle
    /\ op \in Ops
    /\ req' = [req EXCEPT ![p] = Request(op, "get", id, ZeroTime, in, None)]
    /\ UNCHANGED <<residents, areas, auths, records, logs, now>>

\* Mutant: the request ends without an audit entry.
CommitUnaudited(p, id) ==
    /\ req' = [req EXCEPT ![p] = Idle]
    /\ UNCHANGED now

\* The store call has changed the maps; id is what the audit entry names.
Commit(p, id) ==
    /\ req' = [req EXCEPT ![p] =
                  Request(req[p].op, "audit", id, ZeroTime, None, None)]
    /\ UNCHANGED now

\* Mutant: the error is dropped and the request goes on.
RefuseDropped(p, err) ==
    /\ err # "nil"
    /\ req' = [req EXCEPT ![p] =
                  Request(req[p].op, "audit", req[p].id, ZeroTime, None, None)]
    /\ UNCHANGED storeVars

\* Mutant: an update that is refused is tried again.
RefuseRetried(p, err) ==
    /\ err # "nil"
    /\ req' = [req EXCEPT ![p] =
                  IF req[p].op = "UpdateResident"
                  THEN Request(req[p].op, "get", req[p].id, ZeroTime, req[p].in, None)
                  ELSE Request(req[p].op, "reply", req[p].id, ZeroTime, err, None)]
    /\ UNCHANGED storeVars

\* An early return with err, before or instead of changing the maps.
Refuse(p, err) ==
    /\ err # "nil"
    /\ req' = [req EXCEPT ![p] =
                  Request(req[p].op, "reply", req[p].id, ZeroTime, err, None)]
    /\ UNCHANGED storeVars

-----------------------------------------------------------------------------
(* Residents                                                               *)

\* defStatus: the creation of a resident takes any status that is sent.
defStatus(in, def) == IF in = None THEN def ELSE in

CallCreateResident(p) ==
    \E id \in ResidentID, s \in StatusInputs :
        /\ NewID(id, residents)
        /\ Call(p, "CreateResident", id,
                [status |-> defStatus(s, "active"), archived |-> FALSE,
                 updatedAt |-> now])

DoCreateResident(p) ==
    /\ At(p, "CreateResident", "store")
    /\ CreateResident(req[p].id, req[p].in)
    /\ Commit(p, req[p].id)

\* The status of an update is validated, and updated_at must be sent.
CallUpdateResident(p) ==
    \E id \in ResidentID, s \in StatusInputs \ {"unknown"}, v \in Tokens \ {ZeroTime} :
        CallUpdate(p, "UpdateResident", id, [token |-> v, status |-> s])

\* GetResident and the comparison with the client's updated_at.
GetErr(m, id, token) ==
    IF ~Live(m, id) THEN "ErrNotFound"
    ELSE IF m[id].updatedAt # token THEN "ErrConcurrentModify"
    ELSE "nil"

\* The row that was read is kept while other requests run.
Got(p, row) ==
    /\ req' = [req EXCEPT ![p] =
                  Request(req[p].op, "clock", req[p].id, ZeroTime, req[p].in, row)]
    /\ UNCHANGED <<residents, areas, auths, records, logs, now>>

GetUpdateResident(p) ==
    /\ At(p, "UpdateResident", "get")
    /\ LET err == GetErr(residents, req[p].id, req[p].in.token) IN
       \/ err = "nil" /\ Got(p, residents[req[p].id])
       \/ Refuse(p, err) /\ UNCHANGED now

\* now := s.nowT(), after the row was read.
Stamped(p) ==
    /\ req' = [req EXCEPT ![p] =
                  Request(req[p].op, "store", req[p].id, now, req[p].in, req[p].cur)]
    /\ UNCHANGED storeVars

Stamp(p) ==
    /\ req[p].phase = "clock"
    /\ req[p].op \in {"UpdateResident", "UpdateParkingArea"}
    /\ ReadClock
    /\ Stamped(p)

\* The row to be written: the row that was read, the fields that were sent,
\* and the new updated_at.
NewResident(r) ==
    [r.cur EXCEPT !.status = defStatus(r.in.status, @), !.updatedAt = r.t]

DoUpdateResident(p) ==
    /\ At(p, "UpdateResident", "store")
    /\ LET row == NewResident(req[p])
           err == UpdateErr(residents, req[p].id, row)
       IN \/ err = "nil" /\ UpdateResident(req[p].id, row) /\ Commit(p, req[p].id)
          \/ Refuse(p, err) /\ UNCHANGED now

CallArchiveResident(p) ==
    \E id \in ResidentID : Call(p, "ArchiveResident", id, None)

DoArchiveResident(p) ==
    /\ At(p, "ArchiveResident", "store")
    /\ LET err == ArchiveErr(residents, req[p].id) IN
       \/ err = "nil" /\ ArchiveResident(req[p].id, req[p].t) /\ Commit(p, req[p].id)
       \/ Refuse(p, err) /\ UNCHANGED now

-----------------------------------------------------------------------------
(* Parking areas                                                           *)

CallCreateParkingArea(p) ==
    \E id \in AreaID, c \in CapacityInputs \ {0} :
        /\ NewID(id, areas)
        /\ Call(p, "CreateParkingArea", id,
                [capacity |-> c, archived |-> FALSE, updatedAt |-> now])

DoCreateParkingArea(p) ==
    /\ At(p, "CreateParkingArea", "store")
    /\ CreateParkingArea(req[p].id, req[p].in)
    /\ Commit(p, req[p].id)

CallUpdateParkingArea(p) ==
    \E id \in AreaID, c \in CapacityInputs, v \in Tokens \ {ZeroTime} :
        CallUpdate(p, "UpdateParkingArea", id, [token |-> v, capacity |-> c])

GetUpdateParkingArea(p) ==
    /\ At(p, "UpdateParkingArea", "get")
    /\ LET err == GetErr(areas, req[p].id, req[p].in.token) IN
       \/ err = "nil" /\ Got(p, areas[req[p].id])
       \/ Refuse(p, err) /\ UNCHANGED now

\* A capacity that is not positive leaves the capacity as it was.
NewParkingArea(r) ==
    [r.cur EXCEPT !.capacity = IF r.in.capacity > 0 THEN r.in.capacity ELSE @,
                  !.updatedAt = r.t]

DoUpdateParkingArea(p) ==
    /\ At(p, "UpdateParkingArea", "store")
    /\ LET row == NewParkingArea(req[p])
           err == UpdateErr(areas, req[p].id, row)
       IN \/ err = "nil" /\ UpdateParkingArea(req[p].id, row) /\ Commit(p, req[p].id)
          \/ Refuse(p, err) /\ UNCHANGED now

CallArchiveParkingArea(p) ==
    \E id \in AreaID : Call(p, "ArchiveParkingArea", id, None)

DoArchiveParkingArea(p) ==
    /\ At(p, "ArchiveParkingArea", "store")
    /\ LET err == ArchiveErr(areas, req[p].id) IN
       \/ err = "nil" /\ ArchiveParkingArea(req[p].id, req[p].t) /\ Commit(p, req[p].id)
       \/ Refuse(p, err) /\ UNCHANGED now

-----------------------------------------------------------------------------
(* Authorizations                                                          *)

\* Mutant: the seven days are forgotten.
UnboundedWindow(start, end, t) == start >= t /\ end > start

\* What the service asks of a window at the instant t it read from the clock.
\* t is positive, so that a window with an unset bound is never valid.
ValidWindow(start, end, t) ==
    /\ start >= t
    /\ end > start
    /\ end - start <= MaxAuthDuration

CallCreateAuthorization(p) ==
    \E id \in AuthID, r \in ResidentID, pl \in Plate, a \in AreaID, w \in Windows :
        /\ ValidWindow(w[1], w[2], now)
        /\ NewID(id, auths)
        /\ Call(p, "CreateAuthorization", id,
                [resident |-> r, plate |-> pl, area |-> a,
                 start |-> w[1], end |-> w[2], status |-> "pending",
                 archived |-> FALSE, updatedAt |-> now])

\* A window that is not valid is refused after the clock was read.
RejectCreateAuthorization(p) ==
    /\ req[p] = Idle
    /\ "CreateAuthorization" \in Ops
    /\ \E w \in Windows : ~ValidWindow(w[1], w[2], now)
    /\ ReadClock
    /\ req' = [req EXCEPT ![p] = Request("CreateAuthorization", "reply", None,
                                        ZeroTime, "FieldError", None)]
    /\ UNCHANGED storeVars

DoCreateAuthorization(p) ==
    /\ At(p, "CreateAuthorization", "store")
    /\ LET err == CreateAuthorizationErr(req[p].in) IN
       \/ /\ err = "nil"
          /\ CreateAuthorization(req[p].id, req[p].in)
          /\ Commit(p, req[p].id)
       \/ Refuse(p, err) /\ UNCHANGED now

CallUpdateAuthorization(p) ==
    \E id \in AuthID, a \in AreaID \cup {None}, w \in Windows, v \in Tokens :
        CallUpdate(p, "UpdateAuthorization", id,
                   [token |-> v, start |-> w[1], end |-> w[2], area |-> a])

\* Only a pending authorization is updated.
GetPendingErr(id) ==
    IF ~Live(auths, id) THEN "ErrNotFound"
    ELSE IF auths[id].status # "pending" THEN "ErrStatusTransition"
    ELSE "nil"

GetUpdateAuthorization(p) ==
    /\ At(p, "UpdateAuthorization", "get")
    /\ LET err == GetPendingErr(req[p].id) IN
       \/ err = "nil" /\ Got(p, auths[req[p].id])
       \/ Refuse(p, err) /\ UNCHANGED now

\* A field that was not sent keeps the value of the row that was read.
Sent(in, cur) == IF in = ZeroTime THEN cur ELSE in

NewAuthorization(r) ==
    [r.cur EXCEPT !.start = Sent(r.in.start, @), !.end = Sent(r.in.end, @),
                  !.area = IF r.in.area = None THEN @ ELSE r.in.area,
                  !.updatedAt = r.t]

StampErr(r, t) ==
    IF r.in.token # r.cur.updatedAt THEN "ErrConcurrentModify"
    ELSE IF ~ValidWindow(Sent(r.in.start, r.cur.start), Sent(r.in.end, r.cur.end), t)
         THEN "FieldError"
    ELSE "nil"

StampUpdateAuthorization(p) ==
    /\ At(p, "UpdateAuthorization", "clock")
    /\ ReadClock
    /\ \/ StampErr(req[p], now) = "nil" /\ Stamped(p)
       \/ Refuse(p, StampErr(req[p], now))

DoUpdateAuthorization(p) ==
    /\ At(p, "UpdateAuthorization", "store")
    /\ LET row == NewAuthorization(req[p])
           err == UpdateErr(auths, req[p].id, row)
       IN \/ err = "nil" /\ UpdateAuthorization(req[p].id, row) /\ Commit(p, req[p].id)
          \/ Refuse(p, err) /\ UNCHANGED now

CallArchiveAuthorization(p) ==
    \E id \in AuthID : Call(p, "ArchiveAuthorization", id, None)

DoArchiveAuthorization(p) ==
    /\ At(p, "ArchiveAuthorization", "store")
    /\ LET err == ArchiveErr(auths, req[p].id) IN
       \/ /\ err = "nil"
          /\ ArchiveAuthorization(req[p].id, req[p].t)
          /\ Commit(p, req[p].id)
       \/ Refuse(p, err) /\ UNCHANGED now

CallRevoke(p) ==
    \E id \in AuthID : Call(p, "RevokeAuthorization", id, None)

DoRevoke(p) ==
    /\ At(p, "RevokeAuthorization", "store")
    /\ LET err == RevokeAuthorizationErr(req[p].id) IN
       \/ /\ err = "nil"
          /\ RevokeAuthorization(req[p].id, req[p].t)
          /\ Commit(p, req[p].id)
       \/ Refuse(p, err) /\ UNCHANGED now

-----------------------------------------------------------------------------
(* The gate                                                                *)

\* Bound: an entry is asked for only while RecordID has an identifier left
\* for it besides those the entries in flight may take.
RecordIDLeft ==
    Cardinality({q \in Proc : At(q, "EnterVehicle", "store")})
        < Cardinality(RecordID \ DOMAIN records)

CallEnterVehicle(p) ==
    /\ RecordIDLeft
    /\ \E id \in AuthID : Call(p, "EnterVehicle", id, None)

DoEnterVehicle(p) ==
    /\ At(p, "EnterVehicle", "store")
    /\ LET err == EnterVehicleErr(req[p].id, req[p].t) IN
       \/ /\ err = "nil"
          /\ \E rec \in RecordID : /\ EnterVehicle(req[p].id, req[p].t, rec)
                                   /\ Commit(p, rec)
       \/ Refuse(p, err) /\ UNCHANGED now

CallExitVehicle(p) ==
    \E id \in AuthID : Call(p, "ExitVehicle", id, None)

DoExitVehicle(p) ==
    /\ At(p, "ExitVehicle", "store")
    /\ LET err == ExitVehicleErr(req[p].id) IN
       \/ /\ err = "nil"
          /\ \E rec \in RecordID : /\ ExitVehicle(req[p].id, req[p].t, rec)
                                   /\ Commit(p, rec)
       \/ Refuse(p, err) /\ UNCHANGED now

-----------------------------------------------------------------------------
(* The end of a request                                                    *)

\* The action name that s.audit is called with.
AuditAction(op) ==
    CASE op = "CreateResident"       -> "resident.create"
      [] op = "UpdateResident"       -> "resident.update"
      [] op = "ArchiveResident"      -> "resident.archive"
      [] op = "CreateParkingArea"    -> "area.create"
      [] op = "UpdateParkingArea"    -> "area.update"
      [] op = "ArchiveParkingArea"   -> "area.archive"
      [] op = "CreateAuthorization"  -> "authorization.create"
      [] op = "UpdateAuthorization"  -> "authorization.update"
      [] op = "ArchiveAuthorization" -> "authorization.archive"
      [] op = "RevokeAuthorization"  -> "authorization.revoke"
      [] op = "EnterVehicle"         -> "entry.record"
      [] op = "ExitVehicle"          -> "exit.record"

\* s.audit, in a critical section of its own, and the success response.
Audit(p) ==
    /\ req[p].phase = "audit"
    /\ CreateAuditLog(AuditAction(req[p].op), req[p].id)
    /\ req' = [req EXCEPT ![p] = Idle]
    /\ UNCHANGED now

\* The status code that writeErr chooses for an error.
StatusCode(err) ==
    CASE err \in {"FieldError", "ErrResidentDisabled", "ErrAreaArchived"} -> 400
      [] err = "ErrNotFound" -> 404
      [] err \in {"ErrConflict", "ErrAlreadyEntered", "ErrAlreadyExited",
                  "ErrConcurrentModify", "ErrStatusTransition", "ErrNoCapacity",
                  "ErrOutOfTimeWindow"} -> 409
      [] OTHER -> 500

\* writeErr: the error response.
Reply(p) ==
    /\ req[p].phase = "reply"
    /\ req' = [req EXCEPT ![p] = Idle]
    /\ UNCHANGED <<residents, areas, auths, records, logs, now>>

-----------------------------------------------------------------------------

\* A client sends a request and goroutine p takes it up.
Accept(p) ==
    \/ CallCreateResident(p)      \/ CallUpdateResident(p)
    \/ CallArchiveResident(p)     \/ CallCreateParkingArea(p)
    \/ CallUpdateParkingArea(p)   \/ CallArchiveParkingArea(p)
    \/ CallCreateAuthorization(p) \/ RejectCreateAuthorization(p)
    \/ CallUpdateAuthorization(p) \/ CallArchiveAuthorization(p)
    \/ CallRevoke(p)
    \/ CallEnterVehicle(p)        \/ CallExitVehicle(p)

\* Goroutine p carries its request one step on.
Serve(p) ==
    \/ DoCreateResident(p)
    \/ GetUpdateResident(p)       \/ DoUpdateResident(p)
    \/ DoArchiveResident(p)       \/ DoCreateParkingArea(p)
    \/ GetUpdateParkingArea(p)    \/ DoUpdateParkingArea(p)
    \/ DoArchiveParkingArea(p)    \/ Stamp(p)
    \/ DoCreateAuthorization(p)   \/ GetUpdateAuthorization(p)
    \/ StampUpdateAuthorization(p) \/ DoUpdateAuthorization(p)
    \/ DoArchiveAuthorization(p)  \/ DoRevoke(p)
    \/ DoEnterVehicle(p)          \/ DoExitVehicle(p)
    \/ Audit(p)                   \/ Reply(p)

\* The model's clock is at its bound and no goroutine can go on without it.
ClockExhausted ==
    /\ now = MaxTime
    /\ \A p \in Proc : req[p].phase \in {"idle", "clock"}
    /\ UNCHANGED vars

Next ==
    \/ \E p \in Proc : Accept(p) \/ Serve(p)
    \/ Tick
    \/ ClockExhausted

Spec == Init /\ [][Next]_vars

\* The Go scheduler runs every runnable goroutine, and every store method
\* releases the mutex, so a request that was taken up is carried on.
FairSpec == Spec /\ \A p \in Proc : WF_vars(Serve(p))
=============================================================================
