------------------------- MODULE PostgresFineProofs -------------------------
(***************************************************************************)
(* Proofs about the service over PostgreSQL that hold when the readings of *)
(* the clock differ (~CoarseClock).  No update takes effect then, a        *)
(* creation that is to commit still conflicts with nothing (NoRival), and  *)
(* every commit is an operation of ParkingLot.                             *)
(***************************************************************************)
EXTENDS ParkingRefinementProofs, PostgresProofs

-----------------------------------------------------------------------------
(* The invariant                                                           *)

\* A creation that can still commit conflicts with no row of this instant,
\* although it has looked for conflicts in its snapshot alone.
NoRival ==
  \A p \in Proc :
    At(p, "CreateAuthorization", "commit") /\ ~tx[p].doomed => ~Conflicts(req[p].in)

PgFineInv == PgInv /\ WindowsInv /\ StampsFresh /\ NoRival

\* A row that conflicts after a write was there before, or is the one the
\* write has created.
LEMMA ConflictsStay ==
  ASSUME PgInv, StampsFresh, NEW p \in Proc, Writes(p), NEW row, Conflicts(row)', row = row'
  PROVE  \/ Conflicts(row)
         \/ /\ req[p].op = "CreateAuthorization"
            /\ req[p].in.plate = row.plate /\ Overlap(row, req[p].in)
<1>0. KnownTypes /\ FreshIDs
  BY PgKnownTypes DEF PgInv
<1>1. PICK x \in DOMAIN auths' :
        /\ auths'[x].plate = row.plate /\ InForce(auths'[x])
        /\ row.start < auths'[x].end /\ auths'[x].start < row.end
  BY DEF Conflicts, Overlap
<1>2. CASE UNCHANGED auths
  BY <1>1, <1>2 DEF Conflicts, Overlap
<1>3. CASE /\ req[p].op = "CreateAuthorization"
           /\ auths' = Assign(auths, req[p].id, req[p].in)
  BY <1>1, <1>3 DEF Assign, Conflicts, Overlap
<1>4. ASSUME NEW v, req[p].id \in DOMAIN auths, Continues(auths[req[p].id], v),
             auths' = Assign(auths, req[p].id, v)
      PROVE  Conflicts(row)
  BY <1>1, <1>4 DEF Assign, Continues, Conflicts, Overlap
<1> QED
  BY <1>0, <1>2, <1>3, <1>4, AuthWrites

\* A commit that would bring a conflict dooms the creations it concerns.
LEMMA NoRivalNext ==
  ASSUME PgInv, StampsFresh, NoRival, PgStoreStep
  PROVE  NoRival'
<1> SUFFICES ASSUME NEW q \in Proc, NEW row, row = req'[q].in,
                    req'[q].op = "CreateAuthorization", req'[q].phase = "commit",
                    ~tx'[q].doomed
             PROVE  ~Conflicts(row)'
  BY DEF NoRival, At, Conflicts
<1>1. ASSUME UNCHANGED auths, req'[q] = req[q], tx'[q] = tx[q]
      PROVE  ~Conflicts(row)'
  BY <1>1 DEF NoRival, At, Conflicts
<1>2. CASE Pauses
  <2>1. req' # [p \in Proc |-> Idle]
    BY RequestFields DEF Idle
  <2> QED
    BY <1>1, <1>2, <2>1 DEF Pauses, Maps
<1>3. ASSUME NEW p \in Proc, Outer(p) \/ Inner(p), q # p
      PROVE  ~Conflicts(row)'
  BY <1>1, <1>3 DEF Outer, Inner, TxClosed, Alone, Passes, Stamps, Keeps, Maps
<1>4. CASE Outer(q) \/ Alters(q)
  BY <1>4 DEF Outer, Alters, Announced, InTx
<1>5. CASE Inner(q)
  BY <1>5 DEF Inner, Keeps, Maps, Conflicts
<1>6. ASSUME NEW p \in Proc, Alters(p), q # p, Conflicts(row)'
      PROVE  FALSE
  <2>1. req'[q] = req[q] /\ Writes(p)
    BY <1>6 DEF Alters, Alone
  <2>2. At(q, "CreateAuthorization", "commit") /\ row = req[q].in
    BY <2>1 DEF At
  <2>3. tx[q].doomed => tx'[q].doomed
    BY <1>6, AltersSpares DEF Spares
  <2>4. ~Conflicts(row)
    BY <2>2, <2>3 DEF NoRival
  <2>5. /\ req[p].op = "CreateAuthorization"
        /\ req[p].in.plate = row.plate /\ Overlap(row, req[p].in)
    BY <1>6, <2>1, <2>4, ConflictsStay
  <2>6. q \in RivalCreations(p) /\ Written(p, req[p].id, RivalCreations(p))
    BY <1>6, <2>2, <2>5 DEF RivalCreations, Alters, Marks
  <2>7. tx'[q].doomed
    BY <1>6, <2>1, <2>2, <2>6, WriterRow, WrittenTx DEF PgInv, PgTypes, Sound, InTx, At, Writes
  <2> QED
    BY <2>7
<1> QED
  BY <1>2, <1>3, <1>4, <1>5, <1>6 DEF PgStoreStep

\* A commit is as careful as the memory store is.
LEMMA PgIsCareful ==
  ASSUME PgTypes, NoRival, PgStoreStep
  PROVE  CarefulStep
<1>1. ASSUME NEW p \in Proc, Alters(p)
      PROVE  CarefulStep
  <2>1. NoConflict(p)
    BY <1>1 DEF Alters, Marks, NoRival, At, NoConflict
  <2> QED
    BY <1>1, <2>1 DEF Alters, CarefulStep
<1>2. ASSUME NEW p \in Proc, Inner(p)
      PROVE  CarefulStep
  BY <1>2 DEF Inner, CarefulStep
<1>3. ASSUME NEW p \in Proc, Outer(p)
      PROVE  CarefulStep
  BY <1>3, PgKnownTypes, PassesRests DEF Outer, CarefulStep
<1>4. CASE Pauses
  <2>1. now' \in Nat /\ now' >= now
    BY <1>4, TimeAssumption DEF PgTypes, Time, Pauses
  <2>2. \A p \in Proc : req'[p] = req[p] \/ ~Storing(req'[p])
    BY <1>4 DEF Pauses, Storing, Idle, Request
  <2> QED
    BY <1>4, <2>1, <2>2 DEF Pauses, Rests, CarefulStep
<1> QED
  BY <1>1, <1>2, <1>3, <1>4 DEF PgStoreStep

\* A step keeps PgFineInv and is a careful step of the store.
LEMMA PgFineNext ==
  ASSUME ~CoarseClock, PgFineInv, [PgNext]_pgVars
  PROVE  /\ PgFineInv' /\ PgStoreStep /\ StoreStep /\ CarefulStep
         /\ KnownTypes /\ FreshIDs /\ RecordsFinite
<1>1. PgStoreStep
  BY PgCases DEF PgFineInv
<1>2. PgInv' /\ KnownTypes /\ StoreStep
  BY PgInvNext DEF PgFineInv
<1>3. WindowsInv' /\ StampsFresh'
  BY <1>2, WindowsNext, StampsNext DEF PgFineInv
<1>4. NoRival' /\ CarefulStep
  BY <1>1, NoRivalNext, PgIsCareful DEF PgFineInv, PgInv
<1> QED
  BY <1>1, <1>2, <1>3, <1>4 DEF PgFineInv, PgInv

\* The program starts with a clock that is ahead of the rows.
LEMMA PgFineInit ==
  ASSUME ~CoarseClock, PgBegins
  PROVE  PgFineInv
<1>1. auths = EmptyMap /\ req = [p \in Proc |-> Idle]
  BY PgBegun
<1>2. Before(residents, now) /\ Before(areas, now) /\ Before(auths, now)
  BY <1>1 DEF PgBegins, PgInit, Init, StoreInit, PgStarted, EmptyMap, Before
<1>3. NoRival
  BY <1>1, RequestFields DEF NoRival, At, Idle
<1> QED
  BY <1>1, <1>2, <1>3, PgInvInit, WindowsInit, StampsInit DEF PgFineInv

\* PgFineInv holds in every state of the service over PostgreSQL.
LEMMA PgFineInvariant ==
  ASSUME ~CoarseClock
  PROVE  PgSpec \/ PgStartedSpec => []PgFineInv
<1>1. PgInit \/ PgStarted => PgFineInv
  BY PgFineInit DEF PgBegins
<1>2. PgFineInv /\ [PgNext]_pgVars => PgFineInv'
  BY PgFineNext
<1> QED
  BY <1>1, <1>2, PTL DEF PgSpec, PgStartedSpec

-----------------------------------------------------------------------------
(* What is decided and what is written                                     *)

\* DecisionsCurrent, for a clock whose readings differ and any number of
\* requests and rows: the locks, the versions of the rows and the isolation
\* level together keep what a transaction decided on its snapshot true until
\* it commits.
THEOREM PgDecisionsHold ==
  ASSUME ~CoarseClock
  PROVE  PgSpec \/ PgStartedSpec => []DecisionsCurrent
<1>1. ASSUME PgFineInv, NEW p \in Proc, req[p].phase = "commit", ~tx[p].doomed
      PROVE  CASE req[p].op = "EnterVehicle" -> EnterVehicleErr(req[p].id, req[p].t) = "nil"
               [] req[p].op = "ExitVehicle" -> ExitVehicleErr(req[p].id) = "nil"
               [] req[p].op = "RevokeAuthorization" -> RevokeAuthorizationErr(req[p].id) = "nil"
               [] req[p].op = "CreateAuthorization" -> ~Conflicts(req[p].in)
  <2>1. req[p].op \in Gated \cup {"CreateAuthorization"}
    BY <1>1, PhasesOK DEF PgFineInv, PgInv, PgTypes
  <2>2. CASE req[p].op \in Gated
    BY <1>1, <2>2, CommitReady DEF PgFineInv, Gated
  <2>3. CASE req[p].op = "CreateAuthorization"
    BY <1>1, <2>3 DEF PgFineInv, NoRival, At
  <2> QED
    BY <2>1, <2>2, <2>3
<1>2. PgFineInv => DecisionsCurrent
  BY <1>1 DEF DecisionsCurrent
<1> QED
  BY <1>2, PgFineInvariant, PTL

\* NoOverlap over PostgreSQL: no two authorizations of one plate overlap,
\* although the search for overlaps locks nothing.
THEOREM PgWindowsApart ==
  ASSUME ~CoarseClock
  PROVE  PgSpec \/ PgStartedSpec => []NoOverlap
<1>1. PgInit \/ PgStarted => NoOverlap
  BY PgBegun DEF PgBegins, EmptyMap, NoOverlap
<1>2. PgFineInv /\ NoOverlap /\ [PgNext]_pgVars => NoOverlap'
  BY PgFineNext, OverlapNext DEF PgFineInv
<1> QED
  BY <1>1, <1>2, PgFineInvariant, PTL DEF PgSpec, PgStartedSpec

\* CapacityRespected over PostgreSQL: no area is ever over-full, although an
\* entry counts the vehicles in a snapshot.
THEOREM PgCapacityKept ==
  ASSUME ~CoarseClock
  PROVE  PgSpec \/ PgStartedSpec => []CapacityRespected
<1>1. PgInit \/ PgStarted => CapacityInv
  <2> SUFFICES ASSUME PgBegins
               PROVE  CapacityInv
    BY DEF PgBegins
  <2>1. records = EmptyMap /\ StoreTypeOK
    BY PgBegun, PgInvInit DEF PgInv, PgTypes
  <2>2. \A a : Occupied(a) = 0
    BY <2>1, FS_EmptySet DEF EmptyMap, Occupied, Inside
  <2>3. \A a \in DOMAIN areas : areas[a].capacity \in Nat
    BY <2>1 DEF StoreTypeOK, ParkingArea
  <2> QED
    BY <2>1, <2>2, <2>3 DEF CapacityInv, CapacityRespected, EmptyMap
<1>2. PgFineInv /\ CapacityInv /\ [PgNext]_pgVars => CapacityInv'
  BY PgFineNext, CapacityNext DEF PgFineInv, PgInv, PgTypes
<1>3. CapacityInv => CapacityRespected
  BY DEF CapacityInv
<1> QED
  BY <1>1, <1>2, <1>3, PgFineInvariant, PTL DEF PgSpec, PgStartedSpec

\* LedgerConsistent over PostgreSQL: statuses and records are changed by one
\* transaction, and tell the same story whichever of them commit.
THEOREM PgLedgerKept ==
  ASSUME ~CoarseClock
  PROVE  PgSpec \/ PgStartedSpec => []LedgerConsistent
<1>1. PgInit \/ PgStarted => LedgerConsistent
  BY PgBegun DEF PgBegins, EmptyMap, LedgerConsistent
<1>2. PgFineInv /\ LedgerConsistent /\ [PgNext]_pgVars => LedgerConsistent'
  BY PgFineNext, LedgerNext DEF PgFineInv
<1> QED
  BY <1>1, <1>2, PgFineInvariant, PTL DEF PgSpec, PgStartedSpec

\* LifecycleSteps over PostgreSQL: statuses move forward only.
THEOREM PgLifecycleForward ==
  ASSUME ~CoarseClock
  PROVE  PgSpec \/ PgStartedSpec => LifecycleSteps
<1>1. PgFineInv /\ [PgNext]_pgVars => [MovesForward]_vars
  BY PgFineNext, LifecycleNext DEF PgFineInv
<1> QED
  BY <1>1, PgFineInvariant, PTL DEF PgSpec, PgStartedSpec, LifecycleSteps

\* VersionsDiffer over PostgreSQL: a row that changes gets another version.
THEOREM PgVersionsApart ==
  ASSUME ~CoarseClock
  PROVE  PgSpec \/ PgStartedSpec => VersionsDiffer
<1>1. PgFineInv /\ [PgNext]_pgVars => [ChangesVersion]_vars
  BY PgFineNext, VersionsNext DEF PgFineInv
<1> QED
  BY <1>1, PgFineInvariant, PTL DEF PgSpec, PgStartedSpec, VersionsDiffer

-----------------------------------------------------------------------------
(* Requests made again                                                     *)

\* A transaction that has locked its authorization is not a repetition.
LEMMA LockedIsFirst ==
  ASSUME PgInv, LedgerConsistent, NEW p \in Proc, AlreadyDone(p)
  PROVE  req[p].phase \notin {"area", "commit"}
<1> SUFFICES ASSUME req[p].phase \in {"area", "commit"}
             PROVE  FALSE
  OBVIOUS
<1>1. req[p].op \in Gated
  BY DEF AlreadyDone, Gated
<1>2. req[p].cur # None /\ Sound(p)
  BY <1>1, PhasesOK DEF PgInv, PgTypes
<1>3. /\ auths[req[p].id] = req[p].cur
      /\ req[p].op = "EnterVehicle" => req[p].cur.status = "pending"
      /\ req[p].op = "ExitVehicle" => req[p].cur.status = "active"
      /\ req[p].op = "RevokeAuthorization" => req[p].cur.status = "pending"
  BY <1>1, <1>2 DEF Sound, Snapshot, Decided, Found, InTx
<1>4. \A r \in DOMAIN records : RecordAgrees(records[r])
  BY DEF LedgerConsistent
<1> QED
  BY <1>1, <1>3, <1>4 DEF AlreadyDone, RecordAgrees, Gated

\* What the lock of the authorization finds when the request is a repetition.
LEMMA LockTellsRetry ==
  ASSUME PgInv, LedgerConsistent, NEW p \in Proc, req[p].phase = "lock", AlreadyDone(p)
  PROVE  LockErr(p) \in RetryErrors(p)
<1>1. req[p].op \in Gated
  BY DEF AlreadyDone, Gated
<1>2. CASE req[p].cur = None \/ req[p].id \in tx[p].stale
  BY <1>2 DEF LockErr, RetryErrors
<1>3. CASE req[p].cur # None /\ req[p].id \notin tx[p].stale
  <2>1. auths[req[p].id] = req[p].cur
    BY <1>1, <1>3 DEF PgInv, Sound, Snapshot, Found, InTx
  <2>2. \A r \in DOMAIN records :
          auths[records[r].auth].status =
            IF records[r].status = "entered" THEN "active" ELSE "completed"
    BY DEF LedgerConsistent, RecordAgrees
  <2>3. CASE req[p].op = "EnterVehicle"
    BY <1>3, <2>1, <2>2, <2>3 DEF AlreadyDone, LockErr, LockedErr, RetryErrors
  <2>4. CASE req[p].op = "ExitVehicle"
    BY <1>3, <2>1, <2>2, <2>4 DEF AlreadyDone, LockErr, LockedErr, RetryErrors
  <2>5. CASE req[p].op = "RevokeAuthorization"
    BY <1>3, <2>1, <2>5 DEF AlreadyDone, LockErr, LockedErr, RetryErrors
  <2> QED
    BY <1>1, <2>3, <2>4, <2>5 DEF Gated
<1> QED
  BY <1>2, <1>3

\* A transaction that waits for its authorization does nothing else.
LEMMA LockOrFail ==
  ASSUME PgInv, NEW p \in Proc, req[p].phase = "lock",
         (Accept(p) /\ UNCHANGED tx) \/ PgServe(p) \/ Fail(p) \/ DropAudit(p)
  PROVE  Lock(p) \/ Fail(p)
<1>1. req[p].op \in Gated /\ req[p] # Idle
  BY PhasesOK, RequestFields DEF PgInv, PgTypes, Idle
<1>2. ~Accept(p)
  BY <1>1 DEF Accept, CallCreateResident, CallUpdateResident, CallArchiveResident,
     CallCreateParkingArea, CallUpdateParkingArea, CallArchiveParkingArea,
     CallCreateAuthorization, RejectCreateAuthorization, CallUpdateAuthorization,
     CallArchiveAuthorization, CallRevoke, CallEnterVehicle, CallExitVehicle,
     Call, CallUpdate
<1>3. ~PgServiceStep(p)
  BY DEF PgServiceStep, GetUpdateResident, GetUpdateParkingArea, GetUpdateAuthorization,
     Stamp, StampUpdateAuthorization, Audit, Reply, At
<1>4. ~PgAutocommitted(p)
  BY AutocommitCases
<1>5. ~(PgCreateResident(p) \/ PgCreateParkingArea(p))
  BY DEF PgCreateResident, PgCreateParkingArea, DoCreateResident, DoCreateParkingArea, At
<1>6. ~(BeginCreate(p) \/ CommitCreate(p) \/ Begin(p) \/ LockArea(p))
  BY DEF BeginCreate, CommitCreate, Begin, LockArea, At
<1>7. ~(CommitEnter(p) \/ CommitExit(p) \/ CommitRevoke(p) \/ CommitRefused(p) \/ Reread(p))
  BY DEF CommitEnter, CommitExit, CommitRevoke, CommitRefused, Reread, At
<1> QED
  BY <1>2, <1>3, <1>4, <1>5, <1>6, <1>7 DEF PgServe, PgAutocommitted, DropAudit

\* A transaction in which a goroutine repeats what was done ends, and tells so.
LEMMA RetriesNext ==
  ASSUME PgInv, LedgerConsistent, [PgNext]_pgVars,
         NEW p \in Proc, InTx(p), AlreadyDone(p)
  PROVE  \/ req'[p] \in {req[p], Idle}
         \/ req'[p].phase = "reply" /\ req'[p].in \in RetryErrors(p)
<1>1. req[p].phase = "lock" /\ DOMAIN req = Proc
  BY LockedIsFirst DEF InTx, PgInv, PgTypes
<1>2. ASSUME NEW q \in Proc, q # p,
             (Accept(q) /\ UNCHANGED tx) \/ PgServe(q) \/ Fail(q) \/ DropAudit(q)
      PROVE  req'[p] = req[p]
  BY <1>2, GoroutineMoves DEF Outer, Inner, Alters, Alone
<1>3. ASSUME (Accept(p) /\ UNCHANGED tx) \/ PgServe(p) \/ Fail(p) \/ DropAudit(p)
      PROVE  req'[p].phase = "reply" /\ req'[p].in \in RetryErrors(p)
  <2>1. ASSUME NEW err \in RetryErrors(p), Rollback(p, err)
        PROVE  req'[p].phase = "reply" /\ req'[p].in \in RetryErrors(p)
    BY <1>1, <2>1, RequestFields DEF Rollback, Refuse
  <2>2. LockErr(p) # "nil" /\ LockErr(p) \in RetryErrors(p) /\ "ErrInternal" \in RetryErrors(p)
    <3>1. "nil" \notin RetryErrors(p) /\ "ErrInternal" \in RetryErrors(p)
      BY DEF RetryErrors
    <3> QED
      BY <1>1, <3>1, LockTellsRetry
  <2>3. Lock(p) \/ Fail(p)
    BY <1>1, <1>3, LockOrFail
  <2> QED
    BY <2>1, <2>2, <2>3 DEF Lock, Fail
<1>4. CASE Crash
  BY <1>4 DEF Crash
<1>5. CASE ((Tick \/ ClockExhausted) /\ UNCHANGED tx) \/ UNCHANGED pgVars
  BY <1>5 DEF Tick, ClockExhausted, pgVars, vars
<1> QED
  BY <1>2, <1>3, <1>4, <1>5 DEF PgNext, PgStep, PgFault

\* RetryTold, for a clock whose readings differ: an entry, an exit or a
\* revocation that is asked for once more, after a lost answer or a restart,
\* is not made again, and is refused for what was done or for what has failed
\* and for no other reason.
THEOREM PgRetriesTold ==
  ASSUME ~CoarseClock
  PROVE  PgSpec \/ PgStartedSpec => RetryTold
<1>1. PgFineInv /\ LedgerConsistent /\ [PgNext]_pgVars => [TellsRetries]_pgVars
  BY RetriesNext DEF PgFineInv, TellsRetries
<1> QED
  BY <1>1, PgFineInvariant, PgLedgerKept, PTL DEF PgSpec, PgStartedSpec, RetryTold

-----------------------------------------------------------------------------
(* The refinement                                                          *)

\* ImplementsParkingLot over PostgreSQL, for a clock whose readings differ:
\* a transaction happens, as far as the lot can tell, at its commit, and
\* nothing that was rolled back, lost or cut off by a crash shows.
THEOREM PgImplementsLot ==
  ASSUME ~CoarseClock
  PROVE  PgSpec \/ PgStartedSpec => ImplementsParkingLot
<1>1. PgInit \/ PgStarted => Abstract!LotInit
  <2>1. PgInit => Abstract!LotInit
    BY DEF PgInit, Init, StoreInit, EmptyMap, Abstract!LotInit, Bookings, Visits, Lots
  <2>2. PgStarted => Abstract!LotInit
    BY DEF PgStarted, EmptyMap, Abstract!LotInit, Bookings, Visits, Lots, LotOf
  <2> QED
    BY <2>1, <2>2
<1>2. PgFineInv /\ [PgNext]_pgVars => [Abstract!LotNext]_(Abstract!lotVars)
  BY PgFineNext, LotNextStep DEF PgFineInv, Abstract!lotVars
<1> QED
  BY <1>1, <1>2, PgFineInvariant, PTL
  DEF PgSpec, PgStartedSpec, ImplementsParkingLot, Abstract!LotSpec

-----------------------------------------------------------------------------
(* The audit log                                                           *)

\* What is logged, and what a goroutine has announced, has happened.
Honest ==
  /\ logs \subseteq Effects
  /\ \A q \in Proc : Announced(req[q]) => Entry(req[q]) \in Effects

\* A change adds its own effect, and takes none away.
LEMMA EffectAltered ==
  ASSUME PgFineInv, NEW p \in Proc, Alters(p)
  PROVE  Effects' = Effects \cup {Entry(req'[p])}
<1>1. KnownTypes /\ Writes(p) /\ req'[p].op = req[p].op
  BY PgKnownTypes DEF PgFineInv, PgInv, Alters
<1>2. PICK x : x = req'[p].id
  OBVIOUS
<1>3. (CASE req[p].op = "EnterVehicle" -> EnterVehicle(req[p].id, req[p].t, x)
         [] req[p].op = "ExitVehicle" -> ExitVehicle(req[p].id, req[p].t, x)
         [] OTHER -> x = req[p].id)
  BY <1>2 DEF Alters
<1>4. OneMore(Effects', Effects, <<AuditAction(req[p].op), x>>)
  BY <1>1, <1>3, EffectWrites DEF PgFineInv, PgInv
<1> QED
  BY <1>1, <1>2, <1>4 DEF OneMore, Entry

\* A step of one goroutine keeps the audit log honest, if effects last, and
\* what the goroutine logs or announces has happened.
LEMMA HonestAfter ==
  ASSUME Honest, Effects \subseteq Effects', NEW p \in Proc, Alone(p),
         \A e \in logs' : e \in logs \/ e \in Effects',
         Announced(req'[p]) => Entry(req'[p]) \in Effects'
  PROVE  Honest'
<1>1. logs' \subseteq Effects'
  BY DEF Honest
<1>2. ASSUME NEW q \in Proc, Announced(req'[q])
      PROVE  Entry(req'[q]) \in Effects'
  BY <1>2 DEF Honest, Alone
<1> QED
  BY <1>1, <1>2 DEF Honest, Announced, Entry

\* The audit log stays honest.
LEMMA HonestNext ==
  ASSUME PgFineInv, Honest, PgStoreStep
  PROVE  Honest'
<1>1. UNCHANGED Maps => Effects' = Effects
  BY DEF Maps, Effects
<1>2. CASE Pauses
  <2>1. Effects' = Effects /\ logs' = logs
    BY <1>1, <1>2 DEF Pauses
  <2>2. \A q \in Proc : req'[q] = req[q] \/ ~Announced(req'[q])
    BY <1>2, RequestFields DEF Pauses, Idle, Announced
  <2> QED
    BY <2>1, <2>2 DEF Honest, Announced, Entry
<1>3. ASSUME NEW p \in Proc, Alters(p)
      PROVE  Honest'
  <2>1. Effects' = Effects \cup {Entry(req'[p])}
    BY <1>3, EffectAltered
  <2> QED
    BY <1>3, <2>1, HonestAfter DEF Alters
<1>4. ASSUME NEW p \in Proc, Outer(p)
      PROVE  Honest'
  <2>1. Effects' = Effects
    BY <1>1, <1>4 DEF Outer, Passes, Stamps, Keeps
  <2>2. Alone(p) /\ Discreet(p)
    BY <1>4 DEF Outer
  <2> QED
    BY <2>1, <2>2, HonestAfter DEF Discreet, Honest
<1>5. ASSUME NEW p \in Proc, Inner(p)
      PROVE  Honest'
  <2>1. Effects' = Effects
    BY <1>1, <1>5 DEF Inner, Keeps
  <2>2. Alone(p) /\ logs' = logs /\ ~Announced(req'[p])
    BY <1>5 DEF Inner, InTx, Announced
  <2> QED
    BY <2>1, <2>2, HonestAfter
<1> QED
  BY <1>2, <1>3, <1>4, <1>5 DEF PgStoreStep

\* The log starts empty, or with the rows that an earlier run has left.
LEMMA HonestInit == PgInit \/ PgStarted => Honest
<1>1. PgInit => Honest
  BY RequestFields DEF PgInit, Init, StoreInit, Honest, Idle, Announced
<1>2. ASSUME PgStarted
      PROVE  Honest
  <2>1. logs \subseteq Effects
    BY <1>2 DEF PgStarted, Effects
  <2> QED
    BY <1>2, <2>1, RequestFields DEF PgStarted, Honest, Idle, Announced
<1> QED
  BY <1>1, <1>2

\* NothingInvented, for a clock whose readings differ: an entry is written
\* only after its change was committed, and no commit is ever taken back,
\* whatever fails, is rolled back or crashes around it.
THEOREM PgNothingInvented ==
  ASSUME ~CoarseClock
  PROVE  PgSpec \/ PgStartedSpec => []NothingInvented
<1>1. PgFineInv /\ Honest /\ [PgNext]_pgVars => Honest'
  BY PgFineNext, HonestNext
<1>2. Honest => NothingInvented
  BY DEF Honest, NothingInvented, Auditing, Announced, Entry
<1> QED
  BY <1>1, <1>2, HonestInit, PgFineInvariant, PTL DEF PgSpec, PgStartedSpec
=============================================================================
