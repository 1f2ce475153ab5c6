------------------------ MODULE ParkingServiceProofs ------------------------
(***************************************************************************)
(* Proofs about ParkingService that hold for every set of goroutines,      *)
(* rows, plates and inputs, every bound on the clock and every choice of   *)
(* endpoints.                                                              *)
(***************************************************************************)
EXTENDS ParkingProperties, FiniteSetTheorems, TLAPS

-----------------------------------------------------------------------------
(* Maps and requests                                                       *)

\* Assign(m, k, v) has the keys of m and k, maps k to v and every other key
\* to what it was mapped to (m[k] = clone(v) in the memory store).
LEMMA AssignFacts ==
  ASSUME NEW m, NEW k, NEW v
  PROVE  /\ DOMAIN Assign(m, k, v) = DOMAIN m \cup {k}
         /\ Assign(m, k, v)[k] = v
         /\ \A x \in DOMAIN m : x # k => Assign(m, k, v)[x] = m[x]
BY DEF Assign

\* A map of rows of type S, keyed by K, is one still after an assignment.
LEMMA AssignType ==
  ASSUME NEW m, NEW K, NEW S, NEW k \in K, NEW v \in S,
         DOMAIN m \subseteq K, m \in [DOMAIN m -> S]
  PROVE  /\ DOMAIN Assign(m, k, v) \subseteq K
         /\ Assign(m, k, v) \in [DOMAIN Assign(m, k, v) -> S]
BY DEF Assign

\* The type of req is kept when one goroutine's request is replaced.
LEMMA RequestStep ==
  ASSUME TypeOK, NEW p \in Proc, NEW r, RequestOK(r),
         req' = [req EXCEPT ![p] = r]
  PROVE  DOMAIN req' = Proc /\ \A q \in Proc : RequestOK(req'[q])
<1>1. \A q \in Proc : req'[q] = IF q = p THEN r ELSE req[q]
  BY DEF TypeOK
<1>2. DOMAIN req' = Proc
  BY DEF TypeOK
<1> QED
  BY <1>1, <1>2, Zenon DEF TypeOK

\* The fields of a request are the ones it was made of.
LEMMA RequestFields ==
  ASSUME NEW op, NEW phase, NEW id, NEW t, NEW in, NEW cur
  PROVE  LET r == Request(op, phase, id, t, in, cur) IN
         /\ r.op = op
         /\ r.phase = phase
         /\ r.id = id
         /\ r.t = t
         /\ r.in = in
         /\ r.cur = cur
BY DEF Request

\* Only a request in the phase "idle" is the idle one.
LEMMA NotIdle ==
  ASSUME NEW op, NEW phase, NEW id, NEW t, NEW in, NEW cur, phase # "idle"
  PROVE  Request(op, phase, id, t, in, cur) # Idle
BY DEF Request, Idle

\* A request whose audit entry is to be written, and one whose error is to
\* be sent, are as RequestOK says.
LEMMA EndPhases ==
  ASSUME NEW op \in ServiceOps, NEW id, NEW err \in Error
  PROVE  /\ RequestOK(Request(op, "audit", id, ZeroTime, None, None))
         /\ RequestOK(Request(op, "reply", id, ZeroTime, err, None))
BY DEF RequestOK, Idle, Request

\* The idle request is as RequestOK says.
LEMMA IdleOK == RequestOK(Idle)
BY DEF RequestOK, Idle, Request

\* What the store reports is nil or one of the errors.
LEMMA ErrorType ==
  /\ \A m, id, row : UpdateErr(m, id, row) \in Error \cup {"nil"}
  /\ \A m, id : ArchiveErr(m, id) \in Error \cup {"nil"}
  /\ \A m, id, token : GetErr(m, id, token) \in Error \cup {"nil"}
  /\ \A row : CreateAuthorizationErr(row) \in Error \cup {"nil"}
  /\ \A id : GetPendingErr(id) \in Error \cup {"nil"}
  /\ \A id : RevokeAuthorizationErr(id) \in Error \cup {"nil"}
  /\ \A id, t : EnterVehicleErr(id, t) \in Error \cup {"nil"}
  /\ \A id : ExitVehicleErr(id) \in Error \cup {"nil"}
  /\ \A r, t : StampErr(r, t) \in Error \cup {"nil"}
BY DEF UpdateErr, ArchiveErr, GetErr, CreateAuthorizationErr, GetPendingErr,
       RevokeAuthorizationErr, EnterVehicleErr, ExitVehicleErr, StampErr, Error

-----------------------------------------------------------------------------
(* Types                                                                   *)

\* A reading of the clock, and the passing of time, keep now in its range.
LEMMA ClockType ==
  ASSUME now \in Time \ {ZeroTime},
         ReadClock \/ UNCHANGED now \/ (now < MaxTime /\ now' = now + 1)
  PROVE  now' \in Time \ {ZeroTime}
BY TimeAssumption DEF ReadClock, Time, ZeroTime

\* An assignment of a row of the right type to one of the maps keeps the
\* types of them all.
LEMMA ResidentAssigned ==
  ASSUME StoreTypeOK, NEW id \in ResidentID, NEW row \in Resident,
         residents' = Assign(residents, id, row), UNCHANGED <<areas, auths, records>>
  PROVE  StoreTypeOK'
BY AssignType DEF StoreTypeOK

\* The same for an area.
LEMMA AreaAssigned ==
  ASSUME StoreTypeOK, NEW id \in AreaID, NEW row \in ParkingArea,
         areas' = Assign(areas, id, row), UNCHANGED <<residents, auths, records>>
  PROVE  StoreTypeOK'
BY AssignType DEF StoreTypeOK

\* The same for an authorization.
LEMMA AuthAssigned ==
  ASSUME StoreTypeOK, NEW id \in AuthID, NEW row \in Authorization,
         auths' = Assign(auths, id, row), UNCHANGED <<residents, areas, records>>
  PROVE  StoreTypeOK'
BY AssignType DEF StoreTypeOK

\* The same for an authorization and its record at once.
LEMMA GateAssigned ==
  ASSUME StoreTypeOK, NEW id \in AuthID, NEW row \in Authorization,
         NEW rec \in RecordID, NEW new \in EntryExitRecord,
         auths' = Assign(auths, id, row), records' = Assign(records, rec, new),
         UNCHANGED <<residents, areas>>
  PROVE  StoreTypeOK'
BY AssignType DEF StoreTypeOK

\* A step that changes the maps within their types and hands the request on
\* to the audit keeps the types.
LEMMA CommitType ==
  ASSUME TypeOK, StoreTypeOK', NEW p \in Proc, req[p].phase # "idle", NEW id, Commit(p, id)
  PROVE  TypeOK'
<1>1. req[p].op \in ServiceOps
  BY DEF TypeOK, RequestOK
<1>2. "FieldError" \in Error
  BY DEF Error
<1>3. RequestOK(Request(req[p].op, "audit", id, ZeroTime, None, None))
  BY <1>1, <1>2, EndPhases
<1>4. DOMAIN req' = Proc /\ \A q \in Proc : RequestOK(req'[q])
  BY <1>3, RequestStep DEF Commit
<1>5. now' \in Time \ {ZeroTime}
  BY ClockType DEF Commit, TypeOK
<1> QED
  BY <1>4, <1>5 DEF TypeOK

\* What a step of goroutine p may count on: typed maps, a clock in its range
\* and a request that is as RequestOK says.
Served(p) ==
  /\ StoreTypeOK
  /\ now \in Time \ {ZeroTime}
  /\ DOMAIN req = Proc
  /\ RequestOK(req[p])

\* Goroutine p goes on with request r, and the maps stay as they are.
Becomes(p, r) ==
  /\ req' = [req EXCEPT ![p] = r]
  /\ RequestOK(r)
  /\ ReadClock \/ UNCHANGED now
  /\ UNCHANGED <<residents, areas, auths, records>>

\* A goroutine that goes on keeps the types.
LEMMA BecomesType ==
  ASSUME TypeOK, NEW p \in Proc, NEW r, Becomes(p, r)
  PROVE  TypeOK'
<1>1. DOMAIN req' = Proc /\ \A q \in Proc : RequestOK(req'[q])
  BY RequestStep DEF Becomes
<1>2. now' \in Time \ {ZeroTime}
  BY ClockType DEF Becomes, TypeOK
<1> QED
  BY <1>1, <1>2 DEF TypeOK, StoreTypeOK, Becomes

\* A request that is refused goes on to its reply.
LEMMA RefuseBecomes ==
  ASSUME NEW p \in Proc, RequestOK(req[p]), req[p].phase # "idle",
         NEW err \in Error \cup {"nil"}, Refuse(p, err), ReadClock \/ UNCHANGED now
  PROVE  \E r : Becomes(p, r)
<1>1. req[p].op \in ServiceOps /\ err \in Error
  BY DEF RequestOK, Refuse
<1>2. RequestOK(Request(req[p].op, "reply", req[p].id, ZeroTime, err, None))
  BY <1>1, EndPhases
<1> QED
  BY <1>2 DEF Becomes, Refuse, storeVars

\* A refusal keeps the types.
LEMMA RefuseType ==
  ASSUME TypeOK, NEW p \in Proc, req[p].phase # "idle", NEW err \in Error \cup {"nil"},
         Refuse(p, err), UNCHANGED now
  PROVE  TypeOK'
BY RefuseBecomes, BecomesType DEF TypeOK

\* The endpoints whose requests go straight to the store with nothing but
\* the identifier of the row, or a new row.
LEMMA CallBecomes ==
  ASSUME now \in Time \ {ZeroTime}, NEW p \in Proc, NEW op \in ServiceOps \ Updates,
         NEW id, NEW in, Call(p, op, id, in),
         \A r : /\ r.op = op /\ r.phase = "store" /\ r.id = id /\ r.in = in
                /\ r # Idle /\ r.t \in Time
                => RequestOK(r)
  PROVE  \E r : Becomes(p, r)
<1>1. RequestOK(Request(op, "store", id, now, in, None))
  BY RequestFields, NotIdle
<1> QED
  BY <1>1 DEF Becomes, Call, storeVars

\* An update that is handed its row or its instant is as RequestOK says.
LEMMA HandedOK ==
  ASSUME NEW r0, RequestOK(r0), r0.phase = "get" \/ r0.phase = "clock",
         NEW phase, phase = "clock" \/ phase = "store", NEW t \in Time, NEW row,
         r0.op = "UpdateResident" => row \in Resident,
         r0.op = "UpdateParkingArea" => row \in ParkingArea,
         r0.op = "UpdateAuthorization" => row \in Authorization /\ row.status = "pending"
  PROVE  RequestOK(Request(r0.op, phase, r0.id, t, r0.in, row))
<1> DEFINE r == Request(r0.op, phase, r0.id, t, r0.in, row)
<1>1. /\ r.op = r0.op /\ r.phase = phase /\ r.id = r0.id
      /\ r.t = t /\ r.in = r0.in /\ r.cur = row /\ r # Idle
  BY RequestFields, NotIdle
<1> HIDE DEF r
<1>2. RequestOK(r)
  BY <1>1 DEF RequestOK, Updates
<1> QED
  BY <1>2 DEF r

\* A goroutine that takes up a request goes on with one that is as RequestOK
\* says.
LEMMA AcceptBecomes ==
  ASSUME NEW p \in Proc, Served(p), Accept(p)
  PROVE  \E r : Becomes(p, r)
<1> now \in Time \ {ZeroTime}
  BY DEF Served
<1>1. CASE CallCreateResident(p)
  <2>1. PICK id \in ResidentID, s \in StatusInputs :
          Call(p, "CreateResident", id,
               [status |-> defStatus(s, "active"), archived |-> FALSE, updatedAt |-> now])
    BY <1>1 DEF CallCreateResident
  <2>2. [status |-> defStatus(s, "active"), archived |-> FALSE, updatedAt |-> now] \in Resident
    BY ServiceAssumption DEF Served, defStatus, Resident, ResidentStatus
  <2> QED
    BY <2>1, <2>2, CallBecomes DEF RequestOK, ServiceOps, Updates
<1>2. CASE CallCreateParkingArea(p)
  <2>1. PICK id \in AreaID, c \in CapacityInputs \ {0} :
          Call(p, "CreateParkingArea", id,
               [capacity |-> c, archived |-> FALSE, updatedAt |-> now])
    BY <1>2 DEF CallCreateParkingArea
  <2>2. [capacity |-> c, archived |-> FALSE, updatedAt |-> now] \in ParkingArea
    BY ServiceAssumption DEF Served, ParkingArea
  <2> QED
    BY <2>1, <2>2, CallBecomes DEF RequestOK, ServiceOps, Updates
<1>3. CASE CallCreateAuthorization(p)
  <2>1. PICK id \in AuthID, r \in ResidentID, pl \in Plate, a \in AreaID, w \in Windows :
          Call(p, "CreateAuthorization", id,
               [resident |-> r, plate |-> pl, area |-> a,
                start |-> w[1], end |-> w[2], status |-> "pending",
                archived |-> FALSE, updatedAt |-> now])
    BY <1>3 DEF CallCreateAuthorization
  <2>2. w[1] \in Time /\ w[2] \in Time
    BY ServiceAssumption
  <2>3. [resident |-> r, plate |-> pl, area |-> a,
         start |-> w[1], end |-> w[2], status |-> "pending",
         archived |-> FALSE, updatedAt |-> now] \in Authorization
    BY <2>2 DEF Served, Authorization, AuthStatus
  <2> QED
    BY <2>1, <2>3, CallBecomes DEF RequestOK, ServiceOps, Updates
<1>4. CASE RejectCreateAuthorization(p)
  <2>1. RequestOK(Request("CreateAuthorization", "reply", None, ZeroTime, "FieldError", None))
    BY EndPhases DEF ServiceOps, Error
  <2> QED
    BY <1>4, <2>1 DEF RejectCreateAuthorization, Becomes, storeVars
<1>5. CASE CallArchiveResident(p)
  <2>1. PICK id \in ResidentID : Call(p, "ArchiveResident", id, None)
    BY <1>5 DEF CallArchiveResident
  <2> QED
    BY <2>1, CallBecomes DEF RequestOK, ServiceOps, Updates
<1>6. CASE CallArchiveParkingArea(p)
  <2>1. PICK id \in AreaID : Call(p, "ArchiveParkingArea", id, None)
    BY <1>6 DEF CallArchiveParkingArea
  <2> QED
    BY <2>1, CallBecomes DEF RequestOK, ServiceOps, Updates
<1>7. CASE CallArchiveAuthorization(p)
  <2>1. PICK id \in AuthID : Call(p, "ArchiveAuthorization", id, None)
    BY <1>7 DEF CallArchiveAuthorization
  <2> QED
    BY <2>1, CallBecomes DEF RequestOK, ServiceOps, Updates
<1>8. CASE CallRevoke(p)
  <2>1. PICK id \in AuthID : Call(p, "RevokeAuthorization", id, None)
    BY <1>8 DEF CallRevoke
  <2> QED
    BY <2>1, CallBecomes DEF RequestOK, ServiceOps, Updates
<1>9. CASE CallEnterVehicle(p)
  <2>1. PICK id \in AuthID : Call(p, "EnterVehicle", id, None)
    BY <1>9 DEF CallEnterVehicle
  <2> QED
    BY <2>1, CallBecomes DEF RequestOK, ServiceOps, Updates
<1>10. CASE CallExitVehicle(p)
  <2>1. PICK id \in AuthID : Call(p, "ExitVehicle", id, None)
    BY <1>10 DEF CallExitVehicle
  <2> QED
    BY <2>1, CallBecomes DEF RequestOK, ServiceOps, Updates
<1>11. CASE CallUpdateResident(p)
  <2>1. PICK id \in ResidentID, s \in StatusInputs \ {"unknown"}, v \in Tokens \ {ZeroTime} :
          CallUpdate(p, "UpdateResident", id, [token |-> v, status |-> s])
    BY <1>11 DEF CallUpdateResident
  <2> DEFINE in == [token |-> v, status |-> s]
             r == Request("UpdateResident", "get", id, ZeroTime, in, None)
  <2>2. RequestOK(r)
    BY RequestFields, NotIdle, ServiceAssumption DEF RequestOK, ServiceOps, Updates
  <2> QED
    BY <2>1, <2>2 DEF CallUpdate, Becomes
<1>12. CASE CallUpdateParkingArea(p)
  <2>1. PICK id \in AreaID, c \in CapacityInputs, v \in Tokens \ {ZeroTime} :
          CallUpdate(p, "UpdateParkingArea", id, [token |-> v, capacity |-> c])
    BY <1>12 DEF CallUpdateParkingArea
  <2> DEFINE in == [token |-> v, capacity |-> c]
             r == Request("UpdateParkingArea", "get", id, ZeroTime, in, None)
  <2>2. RequestOK(r)
    BY RequestFields, NotIdle, ServiceAssumption DEF RequestOK, ServiceOps, Updates
  <2> QED
    BY <2>1, <2>2 DEF CallUpdate, Becomes
<1>13. CASE CallUpdateAuthorization(p)
  <2>1. PICK id \in AuthID, a \in AreaID \cup {None}, w \in Windows, v \in Tokens :
          CallUpdate(p, "UpdateAuthorization", id,
                     [token |-> v, start |-> w[1], end |-> w[2], area |-> a])
    BY <1>13 DEF CallUpdateAuthorization
  <2> DEFINE in == [token |-> v, start |-> w[1], end |-> w[2], area |-> a]
             r == Request("UpdateAuthorization", "get", id, ZeroTime, in, None)
  <2>2. w[1] \in Time /\ w[2] \in Time
    BY ServiceAssumption
  <2>3. RequestOK(r)
    BY <2>2, RequestFields, NotIdle DEF RequestOK, ServiceOps, Updates
  <2> QED
    BY <2>1, <2>3 DEF CallUpdate, Becomes
<1> QED
  BY <1>1, <1>2, <1>3, <1>4, <1>5, <1>6, <1>7, <1>8, <1>9, <1>10, <1>11, <1>12, <1>13 DEF Accept


\* What the service does before and after the calls of the store that change
\* rows.
Service(p) ==
  \/ GetUpdateResident(p) \/ GetUpdateParkingArea(p) \/ GetUpdateAuthorization(p)
  \/ Stamp(p) \/ StampUpdateAuthorization(p)
  \/ Audit(p) \/ Reply(p)

\* Outside those calls the goroutine goes on with a request that is as
\* RequestOK says.
LEMMA ServiceBecomes ==
  ASSUME NEW p \in Proc, Served(p), Service(p)
  PROVE  \E r : Becomes(p, r)
<1> StoreTypeOK /\ now \in Time \ {ZeroTime} /\ RequestOK(req[p])
  BY DEF Served
<1> ZeroTime \in Time
  BY TimeAssumption DEF Time, ZeroTime
<1>1. CASE GetUpdateResident(p)
  <2> DEFINE err == GetErr(residents, req[p].id, req[p].in.token)
  <2>1. req[p].phase = "get" /\ req[p].op = "UpdateResident"
    BY <1>1 DEF GetUpdateResident, At
  <2>2. CASE err = "nil" /\ Got(p, residents[req[p].id])
    <3>1. residents[req[p].id] \in Resident
      BY <2>2 DEF GetErr, Live, StoreTypeOK
    <3>2. RequestOK(Request(req[p].op, "clock", req[p].id, ZeroTime, req[p].in, residents[req[p].id]))
      BY <2>1, <3>1, HandedOK
    <3> QED
      BY <2>2, <3>2 DEF Got, Becomes
  <2>3. CASE Refuse(p, err) /\ UNCHANGED now
    BY <2>1, <2>3, ErrorType, RefuseBecomes
  <2> QED
    BY <1>1, <2>2, <2>3 DEF GetUpdateResident
<1>2. CASE GetUpdateParkingArea(p)
  <2> DEFINE err == GetErr(areas, req[p].id, req[p].in.token)
  <2>1. req[p].phase = "get" /\ req[p].op = "UpdateParkingArea"
    BY <1>2 DEF GetUpdateParkingArea, At
  <2>2. CASE err = "nil" /\ Got(p, areas[req[p].id])
    <3>1. areas[req[p].id] \in ParkingArea
      BY <2>2 DEF GetErr, Live, StoreTypeOK
    <3>2. RequestOK(Request(req[p].op, "clock", req[p].id, ZeroTime, req[p].in, areas[req[p].id]))
      BY <2>1, <3>1, HandedOK
    <3> QED
      BY <2>2, <3>2 DEF Got, Becomes
  <2>3. CASE Refuse(p, err) /\ UNCHANGED now
    BY <2>1, <2>3, ErrorType, RefuseBecomes
  <2> QED
    BY <1>2, <2>2, <2>3 DEF GetUpdateParkingArea
<1>3. CASE GetUpdateAuthorization(p)
  <2> DEFINE err == GetPendingErr(req[p].id)
  <2>1. req[p].phase = "get" /\ req[p].op = "UpdateAuthorization"
    BY <1>3 DEF GetUpdateAuthorization, At
  <2>2. CASE err = "nil" /\ Got(p, auths[req[p].id])
    <3>1. auths[req[p].id] \in Authorization /\ auths[req[p].id].status = "pending"
      BY <2>2 DEF GetPendingErr, Live, StoreTypeOK
    <3>2. RequestOK(Request(req[p].op, "clock", req[p].id, ZeroTime, req[p].in, auths[req[p].id]))
      BY <2>1, <3>1, HandedOK
    <3> QED
      BY <2>2, <3>2 DEF Got, Becomes
  <2>3. CASE Refuse(p, err) /\ UNCHANGED now
    BY <2>1, <2>3, ErrorType, RefuseBecomes
  <2> QED
    BY <1>3, <2>2, <2>3 DEF GetUpdateAuthorization
<1>4. ASSUME Stamped(p), req[p].phase = "clock", ReadClock
      PROVE  \E r : Becomes(p, r)
  <2>1. RequestOK(Request(req[p].op, "store", req[p].id, now, req[p].in, req[p].cur))
    BY <1>4, HandedOK DEF RequestOK
  <2> QED
    BY <1>4, <2>1 DEF Stamped, Becomes, storeVars
<1>5. CASE Stamp(p)
  BY <1>4, <1>5 DEF Stamp
<1>6. CASE StampUpdateAuthorization(p)
  <2>1. req[p].phase = "clock"
    BY <1>6 DEF StampUpdateAuthorization, At
  <2>2. CASE Refuse(p, StampErr(req[p], now)) /\ ReadClock
    BY <2>1, <2>2, ErrorType, RefuseBecomes
  <2> QED
    BY <1>4, <1>6, <2>1, <2>2 DEF StampUpdateAuthorization
<1>7. CASE Audit(p)
  BY <1>7, IdleOK DEF Audit, CreateAuditLog, Becomes
<1>8. CASE Reply(p)
  BY <1>8, IdleOK DEF Reply, Becomes
<1> QED
  BY <1>1, <1>2, <1>3, <1>5, <1>6, <1>7, <1>8 DEF Service

-----------------------------------------------------------------------------
(* Calls of the store                                                      *)

\* The request has its reading of the clock and has yet to change the maps.
\* The memory store changes them in one step; PostgreSQL takes the steps
\* "lock", "area" and "commit".
Storing(r) == r.phase \in {"store", "lock", "area", "commit"}

\* What is known of such a request.
StoringOK(r) ==
  /\ r.op \in ServiceOps
  /\ r.t \in Time
  /\ r.op \in {"CreateResident", "UpdateResident", "ArchiveResident"} =>
       r.id \in ResidentID
  /\ r.op \in {"CreateParkingArea", "UpdateParkingArea", "ArchiveParkingArea"} =>
       r.id \in AreaID
  /\ r.op \in {"CreateAuthorization", "UpdateAuthorization",
               "ArchiveAuthorization", "RevokeAuthorization",
               "EnterVehicle", "ExitVehicle"} =>
       r.id \in AuthID
  /\ r.op = "CreateResident" => r.in \in Resident /\ ~r.in.archived
  /\ r.op = "CreateParkingArea" => r.in \in ParkingArea /\ ~r.in.archived
  /\ r.op = "CreateAuthorization" => r.in \in Authorization /\ ~r.in.archived
  /\ r.op = "UpdateResident" =>
       r.cur \in Resident /\ r.in.status \in ResidentStatus \cup {None}
  /\ r.op = "UpdateParkingArea" => r.cur \in ParkingArea /\ r.in.capacity \in Nat
  /\ r.op = "UpdateAuthorization" =>
       /\ r.cur \in Authorization /\ r.cur.status = "pending"
       /\ r.in.start \in Time /\ r.in.end \in Time
       /\ r.in.area \in AreaID \cup {None}

\* What the proofs need of the types, whatever the store.
KnownTypes ==
  /\ StoreTypeOK
  /\ now \in Time \ {ZeroTime}
  /\ \A p \in Proc : Storing(req[p]) => StoringOK(req[p])

\* Of the memory store, the type invariant gives them.
LEMMA TypesKnown == TypeOK => KnownTypes
<1>1. \A r : RequestOK(r) /\ Storing(r) => StoringOK(r)
  BY DEF RequestOK, Storing, StoringOK
<1> QED
  BY <1>1 DEF TypeOK, KnownTypes

\* The write that the request of goroutine p is about to make, if the store
\* accepts it.  Of a creation of an authorization no more is said here than
\* that its area is there: NoConflict is about its window.
Writes(p) ==
  LET id == req[p].id  t == req[p].t IN
  /\ Storing(req[p])
  /\ \/ /\ req[p].op = "CreateResident"
        /\ CreateResident(id, req[p].in)
     \/ /\ req[p].op = "UpdateResident"
        /\ UpdateErr(residents, id, NewResident(req[p])) = "nil"
        /\ UpdateResident(id, NewResident(req[p]))
     \/ /\ req[p].op = "ArchiveResident"
        /\ ArchiveErr(residents, id) = "nil"
        /\ ArchiveResident(id, t)
     \/ /\ req[p].op = "CreateParkingArea"
        /\ CreateParkingArea(id, req[p].in)
     \/ /\ req[p].op = "UpdateParkingArea"
        /\ UpdateErr(areas, id, NewParkingArea(req[p])) = "nil"
        /\ UpdateParkingArea(id, NewParkingArea(req[p]))
     \/ /\ req[p].op = "ArchiveParkingArea"
        /\ ArchiveErr(areas, id) = "nil"
        /\ ArchiveParkingArea(id, t)
     \/ /\ req[p].op = "CreateAuthorization"
        /\ req[p].in.area \in DOMAIN areas
        /\ CreateAuthorization(id, req[p].in)
     \/ /\ req[p].op = "UpdateAuthorization"
        /\ UpdateErr(auths, id, NewAuthorization(req[p])) = "nil"
        /\ UpdateAuthorization(id, NewAuthorization(req[p]))
     \/ /\ req[p].op = "ArchiveAuthorization"
        /\ ArchiveErr(auths, id) = "nil"
        /\ ArchiveAuthorization(id, t)
     \/ /\ req[p].op = "RevokeAuthorization"
        /\ RevokeAuthorizationErr(id) = "nil"
        /\ RevokeAuthorization(id, t)
     \/ /\ req[p].op = "EnterVehicle"
        /\ EnterVehicleErr(id, t) = "nil"
        /\ \E rec \in RecordID : EnterVehicle(id, t, rec)
     \/ /\ req[p].op = "ExitVehicle"
        /\ ExitVehicleErr(id) = "nil"
        /\ \E rec \in RecordID : ExitVehicle(id, t, rec)

\* The creation of an authorization bars no other authorization.
NoConflict(p) ==
  req[p].op = "CreateAuthorization" => ~Conflicts(req[p].in)

\* A write puts rows of the right types into the maps.
LEMMA WritesType ==
  ASSUME KnownTypes, NEW p \in Proc, Writes(p)
  PROVE  StoreTypeOK'
<1> DEFINE id == req[p].id
           t == req[p].t
<1> StoreTypeOK /\ StoringOK(req[p]) /\ t \in Time
  BY DEF KnownTypes, Writes, StoringOK
<1>1. CASE req[p].op = "CreateResident"
  <2>1. id \in ResidentID /\ req[p].in \in Resident
    BY <1>1 DEF StoringOK
  <2> QED
    BY <1>1, <2>1, ResidentAssigned DEF Writes, CreateResident
<1>2. CASE req[p].op = "UpdateResident"
  <2> DEFINE row == NewResident(req[p])
  <2>1. id \in ResidentID /\ row \in Resident
    BY <1>2 DEF StoringOK, NewResident, defStatus, Resident
  <2>2. UpdateResident(id, row)
    BY <1>2 DEF Writes
  <2> HIDE DEF row
  <2> QED
    BY <2>1, <2>2, ResidentAssigned DEF UpdateResident
<1>3. CASE req[p].op = "ArchiveResident"
  <2>1. id \in ResidentID /\ residents[id] \in Resident
    BY <1>3 DEF StoringOK, Writes, ArchiveErr, Live, StoreTypeOK
  <2>2. [residents[id] EXCEPT !.archived = TRUE, !.updatedAt = t] \in Resident
    BY <2>1 DEF Resident
  <2> QED
    BY <1>3, <2>1, <2>2, ResidentAssigned DEF Writes, ArchiveResident, Archived
<1>4. CASE req[p].op = "CreateParkingArea"
  <2>1. id \in AreaID /\ req[p].in \in ParkingArea
    BY <1>4 DEF StoringOK
  <2> QED
    BY <1>4, <2>1, AreaAssigned DEF Writes, CreateParkingArea
<1>5. CASE req[p].op = "UpdateParkingArea"
  <2> DEFINE row == NewParkingArea(req[p])
  <2>1. id \in AreaID /\ row \in ParkingArea
    BY <1>5 DEF StoringOK, NewParkingArea, ParkingArea
  <2>2. UpdateParkingArea(id, row)
    BY <1>5 DEF Writes
  <2> HIDE DEF row
  <2> QED
    BY <2>1, <2>2, AreaAssigned DEF UpdateParkingArea
<1>6. CASE req[p].op = "ArchiveParkingArea"
  <2>1. id \in AreaID /\ areas[id] \in ParkingArea
    BY <1>6 DEF StoringOK, Writes, ArchiveErr, Live, StoreTypeOK
  <2>2. [areas[id] EXCEPT !.archived = TRUE, !.updatedAt = t] \in ParkingArea
    BY <2>1 DEF ParkingArea
  <2> QED
    BY <1>6, <2>1, <2>2, AreaAssigned DEF Writes, ArchiveParkingArea, Archived
<1>7. CASE req[p].op = "CreateAuthorization"
  <2>1. id \in AuthID /\ req[p].in \in Authorization
    BY <1>7 DEF StoringOK
  <2> QED
    BY <1>7, <2>1, AuthAssigned DEF Writes, CreateAuthorization
<1>8. CASE req[p].op = "UpdateAuthorization"
  <2> DEFINE row == NewAuthorization(req[p])
  <2>1. id \in AuthID /\ row \in Authorization
    BY <1>8 DEF StoringOK, NewAuthorization, Sent, Authorization
  <2>2. UpdateAuthorization(id, row)
    BY <1>8 DEF Writes
  <2> HIDE DEF row
  <2> QED
    BY <2>1, <2>2, AuthAssigned DEF UpdateAuthorization
<1>9. CASE req[p].op = "ArchiveAuthorization"
  <2>1. id \in AuthID /\ auths[id] \in Authorization
    BY <1>9 DEF StoringOK, Writes, ArchiveErr, Live, StoreTypeOK
  <2>2. [auths[id] EXCEPT !.archived = TRUE, !.updatedAt = t] \in Authorization
    BY <2>1 DEF Authorization
  <2> QED
    BY <1>9, <2>1, <2>2, AuthAssigned DEF Writes, ArchiveAuthorization, Archived
<1>10. CASE req[p].op = "RevokeAuthorization"
  <2>1. id \in AuthID /\ auths[id] \in Authorization
    BY <1>10 DEF StoringOK, Writes, RevokeAuthorizationErr, Live, StoreTypeOK
  <2>2. [auths[id] EXCEPT !.status = "cancelled", !.updatedAt = t] \in Authorization
    BY <2>1 DEF Authorization, AuthStatus
  <2> QED
    BY <1>10, <2>1, <2>2, AuthAssigned DEF Writes, RevokeAuthorization
<1>11. CASE req[p].op = "EnterVehicle"
  <2>1. PICK rec \in RecordID : EnterVehicle(id, t, rec)
    BY <1>11 DEF Writes
  <2>2. id \in AuthID /\ auths[id] \in Authorization
    BY <1>11 DEF StoringOK, Writes, EnterVehicleErr, Live, StoreTypeOK
  <2>3. [auths[id] EXCEPT !.status = "active", !.updatedAt = t] \in Authorization
    BY <2>2 DEF Authorization, AuthStatus
  <2>4. [auth |-> id, plate |-> auths[id].plate, area |-> auths[id].area,
         entry |-> t, exit |-> ZeroTime, status |-> "entered"] \in EntryExitRecord
    BY <2>2, TimeAssumption
    DEF Authorization, EntryExitRecord, RecordStatus, Time, ZeroTime
  <2> QED
    BY <2>1, <2>2, <2>3, <2>4, GateAssigned DEF EnterVehicle
<1>12. CASE req[p].op = "ExitVehicle"
  <2>1. PICK rec \in RecordID : ExitVehicle(id, t, rec)
    BY <1>12 DEF Writes
  <2>2. id \in AuthID /\ auths[id] \in Authorization
    BY <1>12 DEF StoringOK, Writes, ExitVehicleErr, Live, StoreTypeOK
  <2>3. records[rec] \in EntryExitRecord
    BY <2>1 DEF ExitVehicle, EnteredRecords, StoreTypeOK
  <2>4. [auths[id] EXCEPT !.status = "completed", !.updatedAt = t] \in Authorization
    BY <2>2 DEF Authorization, AuthStatus
  <2>5. [records[rec] EXCEPT !.exit = t, !.status = "exited"] \in EntryExitRecord
    BY <2>3 DEF EntryExitRecord, RecordStatus
  <2> QED
    BY <2>1, <2>2, <2>4, <2>5, GateAssigned DEF ExitVehicle
<1> QED
  BY <1>1, <1>2, <1>3, <1>4, <1>5, <1>6, <1>7, <1>8, <1>9, <1>10, <1>11, <1>12
  DEF StoringOK, ServiceOps

\* A call of the memory store that changes rows is carried out or refused.
LEMMA StoreCallCases ==
  ASSUME NEW p \in Proc, Serve(p), ~Service(p)
  PROVE  \/ Writes(p) /\ NoConflict(p) /\ \E x : Commit(p, x)
         \/ /\ req[p].phase = "store"
            /\ \E err \in Error \cup {"nil"} : Refuse(p, err) /\ UNCHANGED now
<1>1. CASE DoCreateResident(p)
  BY <1>1 DEF DoCreateResident, At, Writes, Storing, NoConflict
<1>2. CASE DoCreateParkingArea(p)
  BY <1>2 DEF DoCreateParkingArea, At, Writes, Storing, NoConflict
<1>3. CASE DoUpdateResident(p)
  BY <1>3, ErrorType DEF DoUpdateResident, At, Writes, Storing, NoConflict
<1>4. CASE DoArchiveResident(p)
  BY <1>4, ErrorType DEF DoArchiveResident, At, Writes, Storing, NoConflict
<1>5. CASE DoUpdateParkingArea(p)
  BY <1>5, ErrorType DEF DoUpdateParkingArea, At, Writes, Storing, NoConflict
<1>6. CASE DoArchiveParkingArea(p)
  BY <1>6, ErrorType DEF DoArchiveParkingArea, At, Writes, Storing, NoConflict
<1>7. CASE DoCreateAuthorization(p)
  BY <1>7, ErrorType DEF DoCreateAuthorization, At, Writes, Storing, NoConflict, CreateAuthorizationErr, Live
<1>8. CASE DoUpdateAuthorization(p)
  BY <1>8, ErrorType DEF DoUpdateAuthorization, At, Writes, Storing, NoConflict
<1>9. CASE DoArchiveAuthorization(p)
  BY <1>9, ErrorType DEF DoArchiveAuthorization, At, Writes, Storing, NoConflict
<1>10. CASE DoRevoke(p)
  BY <1>10, ErrorType DEF DoRevoke, At, Writes, Storing, NoConflict
<1>11. CASE DoEnterVehicle(p)
  BY <1>11, ErrorType DEF DoEnterVehicle, At, Writes, Storing, NoConflict
<1>12. CASE DoExitVehicle(p)
  BY <1>12, ErrorType DEF DoExitVehicle, At, Writes, Storing, NoConflict
<1> QED
  BY <1>1, <1>2, <1>3, <1>4, <1>5, <1>6, <1>7, <1>8, <1>9, <1>10, <1>11, <1>12 DEF Serve, Service

\* A call of the store keeps the types.
LEMMA StoreCallType ==
  ASSUME TypeOK, NEW p \in Proc, Serve(p), ~Service(p)
  PROVE  TypeOK'
<1>1. CASE Writes(p) /\ \E x : Commit(p, x)
  <2>1. req[p].phase # "idle"
    BY <1>1 DEF Writes, Storing
  <2> QED
    BY <1>1, <2>1, TypesKnown, WritesType, CommitType
<1>2. ASSUME req[p].phase = "store", NEW err \in Error \cup {"nil"}, Refuse(p, err), UNCHANGED now
      PROVE  TypeOK'
  BY <1>2, RefuseType
<1> QED
  BY <1>1, <1>2, StoreCallCases

\* Every step keeps the types.
LEMMA TypeNext == TypeOK /\ [Next]_vars => TypeOK'
<1> SUFFICES ASSUME TypeOK, [Next]_vars
             PROVE  TypeOK'
  OBVIOUS
<1>0. \A p \in Proc : Served(p)
  BY DEF TypeOK, Served
<1>1. ASSUME NEW p \in Proc, Accept(p)
      PROVE  TypeOK'
  BY <1>0, <1>1, AcceptBecomes, BecomesType
<1>2. ASSUME NEW p \in Proc, Serve(p)
      PROVE  TypeOK'
  BY <1>0, <1>2, ServiceBecomes, BecomesType, StoreCallType
<1>3. CASE Tick
  BY <1>3, ClockType DEF Tick, TypeOK, StoreTypeOK
<1>4. CASE UNCHANGED vars
  BY <1>4 DEF vars, TypeOK, StoreTypeOK
<1> QED
  BY <1>1, <1>2, <1>3, <1>4 DEF Next, ClockExhausted

\* The service starts with well typed maps and idle goroutines.
LEMMA TypeInit == Init => TypeOK
BY IdleOK, TimeAssumption
DEF Init, StoreInit, EmptyMap, TypeOK, StoreTypeOK, Time, ZeroTime

\* TypeOK holds in every state of the service: whatever requests run at the
\* same time, the maps hold rows of their tables and a request is handed
\* what its next step reads.
THEOREM TypeCorrect == Spec => []TypeOK
BY TypeInit, TypeNext, PTL DEF Spec

=============================================================================
