# Verification of the visitor parking service

TLA+ models of the visitor parking API (Go, `src/`): model-checked with TLC on
small instances and, where stated, proved with TLAPS for every size.

## 1. The system

Residents announce visitors, the staff makes *authorizations* (a plate may park
in an area during a window), the gate reports *entries* and *exits*.

| Part | Source | State | Operations | Modelled in |
|---|---|---|---|---|
| Domain model | `internal/model`, `store/store.go` | - | rows, statuses, errors | `ParkingModel` |
| Memory store | `store/memory.go` | six maps behind one mutex | create, get, update, archive, list; enter, exit, revoke | `MemoryStore`, lists in `ListQueries` |
| PostgreSQL store | `store/postgres.go` | six tables | the same, in statements and SERIALIZABLE transactions | `PostgresService`, lists in `ListQueries` |
| Schema | `migrations/001_init.sql` | - | unique indexes, foreign keys | the ones that decide something: `PostgresService`, `VehicleRegistry` |
| Service | `service/service.go` | the clock | validation, optimistic lock, status changes, audit, filters | `ParkingService`, `ListQueries` |
| HTTP handlers | `httpd/handler.go`, `respond.go` | - | one goroutine per request; errors to status codes; pages | `ParkingService`, `ListQueries`, `ListWalk` |
| Vehicle registry | in service and stores | `vehicles` | create, update, archive | `VehicleRegistry` |
| Lists, statistics | in service, stores, handlers | - | filters, paging, occupancy | `ListQueries` |
| Plate format | `plate/plate.go` | - | normalise, validate | normalisation of a filter, in `ListQueries` |
| Identifiers | `store/id.go` | a counter | `NewID` | a choice of an unused identifier |
| Configuration, logging | `config`, `httpd/logging.go` | - | - | not modelled: no shared state |

How the parts interact: `net/http` runs each request in its own goroutine; the
handler calls one service operation; the operation reads the clock (`s.now()`)
and calls the store several times. A store method holds the mutex for its whole
body, so it is one atomic step; between two store calls, and between reading
the clock and calling the store, any other request may run. Over PostgreSQL a
store method is several statements: an autocommitted one is a step of its own, a
transaction is as many steps as it has points at which it can wait or be
overtaken (snapshot, each row lock, commit).

What is hard here:

- an update reads a row, lets others run, and writes the whole row back; only a
  comparison of `updated_at` protects what others wrote in between;
- `updated_at` is a reading of the clock taken *before* the lock;
- capacity and overlap are properties of many rows that a single row's lock or
  version does not protect;
- an entry or exit changes two rows at once;
- the audit entry is written after the change, by itself;
- archiving takes rows out of the sight of operations that are under way;
- a transaction decides on a snapshot that may be older than the row it has
  waited for; PostgreSQL aborts it at a lock or at the commit, and nothing
  retries it;
- between a commit, the read that follows it and the audit entry the program can
  fail, stop, or lose the client;
- a list is read page by page while its rows change, and a status is derived from
  the clock at the moment of the query.

`PROJECT.json` lists these hazards with the lines where they arise.

## 2. The modules

- `ParkingModel`: the rows, statuses and errors. Columns nothing decides by are
  left out. Time is `0..MaxTime`; 0 is Go's zero time (an unset field).
- `MemoryStore`: a map is a function on the keys present. A method that can
  fail is a pair: `XErr`, its early returns in their order, and `X`, what it
  writes. `logs` is the set of `<<action, entity>>` pairs: operator, detail
  and time of an entry are not modelled.
- `ParkingService`: `req[p]` is the request of goroutine `p` and its phase. Each
  endpoint is two to four actions: `CallX` (validation and, except in updates,
  the clock), `GetX` and `Stamp...` (updates: read the row, then the clock),
  `DoX` (the store call), then `Audit` or `Reply`.
- `ParkingProperties`: the properties, with the reason each could fail.
- `ParkingLot`: the abstract specification, what residents and guards are
  promised: bookings, visits and lots, each operation one step that sees the rows
  as they are; no requests, clock, versions, locks or audit log.
  `ParkingRefinement` maps the rows to it (a booking is an authorization without
  its resident and version, a visit a record, a lot an area).
- `PostgresService` EXTENDS `ParkingService`: the calls, the reads of updates and
  the audit are the same actions; the maps are the committed rows, and `tx[p]` is
  the transaction goroutine `p` has open. `Begin`, `Lock`, `LockArea`,
  `CommitEnter` ... are the points of `runTx` where others can come between.
  `PostgresProperties` has what is about transactions.
- `VehicleRegistry` EXTENDS `ParkingService`: the vehicles, over the memory store
  or (constant `Postgres`) over PostgreSQL: with the unique index of the schema,
  statements that fail or lose their answer, an audit entry that is dropped when its
  INSERT fails, and restarts (`Faults`). In the memory store nothing fails, and a
  program that stops leaves nothing behind.
- `ListQueries`: the lists of both stores, the occupancy, the pages and the page
  numbers as operators of the rows and the instant; `ListProperties` relates them
  to each other and to what the gate decides. `ListWalk` adds a client that reads
  a list page by page while requests are served; between a request for a page and
  its answer the list is that of the instant at which the service read the clock.
- `MCParking`, `MCPostgres`, `MCVehicles`, `MCLists`, `MCPgLists`, `MCWalk` and the `.cfg` files: the instances TLC checks.
- The TLAPS proofs: `ParkingServiceProofs` (types), `ParkingInvariantProofs` (what
  holds for every clock), `ParkingFineProofs` (for the fine clock) and
  `ParkingRefinementProofs` (the refinement) for the service over the memory
  store; `PostgresProofs` and `PostgresFineProofs` for the service over
  PostgreSQL, `VehicleRegistryProofs` for the vehicles, `ListProofs` for the lists
  and the walk.

Operators whose comment begins with "Mutant" are faulty variants of the
definition that follows them. They are used by no action; putting one in place
of its original must break the property `PROJECT.json` names for it.

### The two clocks

The optimistic lock compares readings of the clock, so the model has two clocks
(`CoarseClock`). The *fine* clock moves between any two readings: `time.Now` in
production, to within its resolution of nanoseconds. The *coarse* clock may show
the same instant to several requests: the frozen clock of the repository's
tests, platforms with a coarse timer, and `TIMESTAMPTZ` in PostgreSQL, which
keeps microseconds.

The service puts the new instant into the row before the store compares
`updated_at`, so an update takes effect only if the new instant *equals* the
stored one. With the fine clock no update ever takes effect; with the coarse
clock updates take effect, without changing the version. Both are findings
(`update_refused`, and `ViolVersions` in section 3). Properties that would be lost if updates
worked are checked with the fine clock, as what the code does today; those that
survive updates are checked with the coarse clock.

### PostgreSQL

A transaction's reads are those of its snapshot, which its first statement takes
*before* it waits for a lock. Of the snapshot only what later steps use is kept:
the authorization (`req[p].cur`) and the number of records inside its area
(`seen`). `stale` are the rows others have changed since; locking one of them is a
serialization failure. The commit fails if a rival has committed whose writes
this one should have read and which should have read this one's (`doomed`):
`RivalCreations` and `RivalEntries` are the two places in the code where two
transactions miss each other's rows. PostgreSQL's predicate locks are coarser
than that and abort transactions that need not be; such an abort leaves the rows
as they were and is answered with 500, as a doomed commit is, so that leaving it
out loses no state of the tables (with `Faults` it is there as `Fail`). The
level is the one `runTx` asks for (`Isolation`); what PostgreSQL does at that
level (`Written`) is external to the repository.

`Faults` says what may go wrong: `"failure"` lets any statement fail, at any
point, and the answer of a statement or commit that was carried out get lost (a
broken connection, or a client that goes away, which cancels the context), and
the audit entry fail, whose error `s.audit` drops; `"crash"` restarts the program,
which loses the requests and the transactions and keeps what was committed.
Clients retry as they like: any call may come again.

### Lists

Go's map order and the order PostgreSQL gives to equal keys are free: a list is any
sequence of the selected rows that is sorted by its time, and a page a part of
one. `StatusCode` and `pageNo` follow the handlers. `PgListErr` is the error with
which PostgreSQL refuses the two statements it cannot parse.

## 3. Runs

"Fine" and "coarse" are the two clocks.

| Run | Clock | Question | Result |
|---|---|---|---|
| `booking_fine` | fine | overlap, capacity, records against statuses, audit, life cycle; does every change of a row give it a new `updated_at`? does the service implement `ParkingLot`? | holds |
| `memory_coarse` | coarse | refusals, windows and records while authorizations are updated and archived; entries while the area is changed or archived; can an update bring back an archived row? | holds; holds; no |
| `progress_coarse` | coarse | is every request answered, and does every creation, update, archiving, entry and exit get its audit entry, while residents change and leave? | yes, with fairness |
| `pg_fine` | fine | PostgreSQL: with failing statements, lost answers and restarts, are decisions still right at the commit? is `ParkingLot` implemented? Records against statuses, invented audit entries, refusals; is an entry, exit or revocation that is tried again told of it, and not made twice? | yes; yes; holds; yes |
| `pg_coarse` | coarse | PostgreSQL: entries in transactions against updates and archivings outside them; a second open record after a stale update; archived rows | holds |
| `pg_progress_coarse` | coarse | is every request answered when requests wait for row locks? which changes are never audited although nothing fails? | yes, with fairness; only revocations whose authorization is archived before it is read again |
| `pg_vehicles_coarse` | coarse | PostgreSQL, with failing statements, lost answers and restarts: one live vehicle per plate, archived vehicles stay archived, no invented audit entries | holds |
| `lists_fine` | fine | lists by status a partition, in agreement with the gate; occupancy; do the two stores give the same pages, for any limit and any page that begins within the list? the numbers of a page | holds |
| `walk_fine` | fine | does a client that reads page by page find every row that was there all along? | yes, if none left the list and no two times are equal |
| `update_refused` | fine | is an update with the current token accepted? | violated |
| `archive_strands` | fine | can every vehicle inside leave? | violated |
| `pg_conflict_500` | fine | is a repeated entry answered with a conflict? | violated |

The violated ones contradict a sentence of `src/README.md`, a comment or a test;
`findings` in `PROJECT.json` quotes it.

`pg_fine` and `pg_coarse` start (`PgStarted`) over a database that has its resident
and its area: an earlier run of the program wrote them, since the tables outlive
the program. This leaves the instants and the requests to what follows. The
memory store starts empty, as it does in the code; its runs and the other ones over
PostgreSQL make all their rows.

`VehiclesCoarse.cfg` (`MCVehicles`) is kept beside the runs: the vehicles over the
memory store, where TLC finds `VehicleLedger` and `ArchivedVehiclesFinal` to hold;
the first is then proved (`VehiclesAudited`).

### What else the code does not do

These configurations are kept beside the runs. Each checks one property that the
documentation, a comment or the schema states, and TLC finds it violated
(`tlc -config X.cfg M`).

| Configuration, module | Property | What the code does |
|---|---|---|
| `ViolOverlap`, `MCParking` | `NoOverlap` | an update that takes effect (coarse clock) is not checked for overlap (service.go:354), although `src/README.md:178` allows one valid authorization per plate and time |
| `ViolUnaudited`, `MCPostgres` | `EveryEffectAudited` | `RevokeAuthorization` reads the row again after its commit; if it was archived in between, the call fails, `s.audit` is not reached (service.go:438) and the revocation has no entry, though `src/README.md:36` says that changes are audited |
| `ViolLifecycle`, `MCParking` | `LifecycleSteps` | an update that takes effect writes back the status it read: an active or cancelled authorization is pending again (service.go:363), which `src/README.md:46` rules out |
| `ViolVersions`, `MCParking` | `VersionsDiffer` | an update that takes effect does not change the version that `src/README.md:37` has clients send back (memory.go:232) |
| `ViolPlates`, `MCVehicles` | `OneVehiclePerPlate` | the memory store has no counterpart to `idx_vehicles_plate` (001_init.sql:25) and registers a plate twice (memory.go:145) |
| `ViolTies`, `MCWalk` | `TiedWalkFindsAll` | rows of equal times come in another order on each page (memory.go:374, postgres.go:309): a client may never see one of them |
| `ViolExpiring`, `MCLists` | `ExpiringSoonUsable` | "expiring soon" looks at the end alone (memory.go:366) and lists what is completed, cancelled or long past |
| `ViolToday`, `MCLists` | `TodayComplete` | an authorization that begins at midnight is in no day's arrivals (memory.go:360) |
| `ViolSize`, `MCLists` | `SizeTruthful` | without a limit the answer says size 0 and has up to 20 rows (handler.go:371) |
| `ViolAuditTotal`, `MCLists` | `AuditTotalTruthful` | the total of the audit log is the length of the page (handler.go:353) |
| `ViolPgStatus`, `MCPgLists` | `PgOneStatusEach` | PostgreSQL lists what has passed as expired and as pending (postgres.go:294) |
| `ViolPgValidOn`, `MCPgLists` | `PgValidOnAnswered` | the condition for `valid_on` is formatted with one of its two numbers and is no SQL (postgres.go:297) |
| `ViolPgOccupancy`, `MCPgLists` | `PgOccupancyAnswered` | the statement orders by a column that does not exist (postgres.go:414) |

**Bounds.** Two goroutines: every property that concurrency can break here
needs one request between two steps of another. One area with one spot, two
authorizations and two plates are the smallest instance in which over-booking
and overlap can happen; the runs with the fine clock, which check these, have them.
The fine clock uses one instant per reading, so `MaxTime = 8` allows seven
requests, enough to create a resident, an area and two authorizations, use them
and interfere once; `pg_fine` starts later and has as many left. With the coarse
clock the number of requests is not bounded by time, only by the identifiers, and
one authorization is enough: what is at stake is a row that is written by several,
and an authorization may be entered twice (`rec1`, `rec2`) after a stale write.
Which endpoints the clients call (`Ops`) differs between the coarse runs, so that
each has the endpoints that meet in its question: `GateOps` leaves residents as
they are, `ResidentOps` has no updates of areas and authorizations, `ChangeOps`
creates only authorizations. `RecordIDLeft` keeps the number of entries within `RecordID`, and
`ClockExhausted` lets a behaviour end at the bound of the clock. `Tokens`,
`Windows`, `StatusInputs` and `CapacityInputs` are the values clients send: a
valid and an invalid one of each where both matter (a window that is too long, an
unset end, a stale token).

For the lists, one goroutine makes the rows, since a list is one step of its own
and sees only rows that are committed; a day of four instants puts a midnight
inside the first window, and limits of 2 and 3 stand for 20 and 200. A walk reads
one row a page over up to three rows, one walk in a behaviour: between two pages rows are
added in front, behind and in between, used and archived.

**Symmetry.** Goroutines, authorizations, records and plates are
interchangeable, and in the runs about vehicles the vehicles and plates; no
symmetry is used where liveness is checked.

**Fairness.** `FairSpec` is weak fairness of `Serve(p)` for each goroutine: the
Go scheduler runs every runnable goroutine, and every store method releases the
mutex (`defer m.mu.Unlock()`). `PgFairSpec` is strong fairness of `PgServe(p)`: a
statement that waits for a row lock is enabled only while the row is free, and
PostgreSQL queues those that wait, so that one whose row is free again and again
gets it. Nothing is assumed of the clients or the clock, and no fault happens in
the runs about liveness.

## 4. Proofs

The theorems are about `Spec`, `PgSpec`, `VehicleSpec` and `WalkSpec`, for every value
of the constants: any sets of goroutines, rows and plates (finite or not), any
inputs, any `MaxTime`. Over PostgreSQL they hold for `PgSpec` and for `PgStartedSpec`,
with any `Faults`. They assume the named assumptions on the constants
(`TimeAssumption`, `NoneAssumption`, `ServiceAssumption`, ...) and, where the table says
so, `~CoarseClock`, or which store has the vehicles. `ListAssumption` says
that limits are numbers and that no status is the empty string, `WalkAssumption`
that the client sends limits that the store grants: beyond 200 the store gives 20
rows and answers with the size that was sent, so that a client that trusts the
size skips rows.

Memory store (`Spec`):

| Theorem | Property | Clock | Strengthening it needs |
|---|---|---|---|
| `TypeCorrect` | `TypeOK` | any | none: `TypeOK` is inductive |
| `HistoryKept` | `RecordHistory` | any | - |
| `ArchivedKept` | `ArchivedFinal` | any | `FreshIDs` |
| `BoundedWindows` | `WindowsBounded` | any | `WindowsInv` |
| `EntriesFit` | `EntryRespectsCapacity` | any | `RecordsFinite` |
| `TruthTold` | `RefusalsTruthful` | any | `StatusesBacked`, `WindowsInv` |
| `VersionsApart` | `VersionsDiffer` | fine | `StampsFresh` |
| `LifecycleForward` | `LifecycleSteps` | fine | `StampsFresh`, `FreshIDs` |
| `WindowsApart` | `NoOverlap` | fine | `StampsFresh`, `FreshIDs` |
| `CapacityKept` | `CapacityRespected` | fine | `StampsFresh`, `RecordsFinite`, `CapacityInv` |
| `LedgerKept` | `LedgerConsistent` | fine | `StampsFresh`, `FreshIDs`, `WindowsInv` |
| `LedgerAudited` | `AuditLedger` | fine | `StampsFresh`, `FreshIDs`, `WindowsInv` |
| `ServiceImplementsLot` | `ImplementsParkingLot` | fine | `StampsFresh`, `FreshIDs`, `WindowsInv`, `RecordsFinite` |

PostgreSQL (`PgSpec`, `PgStartedSpec`), all with `PgInv`:

| Theorem | Property | Clock | Strengthening it needs besides |
|---|---|---|---|
| `PgTyped` | `PgTypeOK` | any | - |
| `PgHistoryKept`, `PgArchivedKept`, `PgEntriesFit` | `RecordHistory`, `ArchivedFinal`, `EntryRespectsCapacity` | any | - |
| `PgBoundedWindows` | `WindowsBounded` | any | `WindowsInv` |
| `OpenRecordUnique` | `OneOpenRecord` | any | `OpenOnce` |
| `PgTruthTold` | `RefusalsTruthful` | any | `StatusesBacked`, `WindowsInv` |
| `PgDecisionsHold` | `DecisionsCurrent` | fine | `PgFineInv` |
| `PgWindowsApart`, `PgVersionsApart`, `PgLifecycleForward` | `NoOverlap`, `VersionsDiffer`, `LifecycleSteps` | fine | `PgFineInv` |
| `PgCapacityKept` | `CapacityRespected` | fine | `PgFineInv`, `CapacityInv` |
| `PgLedgerKept` | `LedgerConsistent` | fine | `PgFineInv` |
| `PgImplementsLot` | `ImplementsParkingLot` | fine | `PgFineInv` |
| `PgNothingInvented` | `NothingInvented` | fine | `PgFineInv`, `Honest` |
| `PgRetriesTold` | `RetryTold` | fine | `PgFineInv`, `LedgerConsistent` |

Vehicles (`VehicleSpec`, both clocks) and lists:

| Theorem | Property | Clock | Strengthening it needs |
|---|---|---|---|
| `VehiclesTyped`, `ArchivedVehiclesKept` | `VehiclesOK`, `ArchivedVehiclesFinal` | any | `VehicleInv` |
| `VehiclesHonest` (either store, any `Faults`) | `NoVehicleInvented` | any | `VehicleInv` |
| `VehiclesAudited` (memory store) | `VehicleLedger` | any | `VehicleInv` |
| `PlatesUnique` (PostgreSQL) | `OneVehiclePerPlate` | any | `VehicleInv` |
| `StatusesApart`, `StatusShownTrue` | `OneStatusEach`, `ShownStatusTruthful` | any | `TypeOK` |
| `OccupancyTrue` | `OccupancyTruthful` | any | `RecordsFinite` |
| `CurrentTrue` | `CurrentVehiclesActive` | fine | `LedgerConsistent` |
| `PagesTrue`, `StoresAlike` | `PagesTruthful`, `StoresAgree` | any | `AuthsFinite` |
| `WalksFindAll` (`WalkSpec`) | `WalkFindsAll` | fine | `WalkInv` |

The argument:

- `TypeCorrect` goes action by action. `RequestOK` says what a request carries in
  each phase, which is what the types of the rows written later rest on.
- `StepCases` cuts the thirty-two actions of a goroutine down to three kinds of
  step: it *passes* (the maps stay), it is *stamped* (it reaches the store with
  a reading of the clock and the checks the service has made), or it *writes*
  one row, two at the gate. All other theorems reason about these.
- `FreshIDs`: an identifier taken by a creation in flight is on no row and in no
  other creation. `CreateAuthorization` of the memory store assigns without
  looking whether the identifier is taken (memory.go:287), so that only this
  keeps it from replacing a row.
- `WindowsInv` bounds also the windows that creations and updates in flight will
  write: the service checked them, possibly long before the write.
- `RecordsFinite` and the library's facts on cardinality give what an entry or an
  exit does to `Occupied`.
- `StampsFresh`: the readings of the clock that requests hold are past, differ
  from each other, and are the `updated_at` of no row. From it follows `NoUpdate`:
  the store refuses every update. With updates out of the way, an authorization
  only comes into force by its creation (`AuthWrites`), capacities do not change
  (`AreaWrites`), and a record and its authorization change together.
- `CapacityInv` adds that the area of every record exists, so that an area that
  is created is empty.
- `ServiceImplementsLot`: one lemma for each operation of the lot (`Books`,
  `Enters`, `Leaves` ...) shows that the write of the store is that operation on
  the mapped rows; `RequestOK` gives that what is created is not archived,
  `WindowsInv` that it is pending and lasts some time, `FreshIDs` that it is new.
  The steps that pass or are stamped stutter.
- `TruthTold`: an update may write back an old status, but only "pending" (updates
  read pending rows), and records are never undone, so that a status by which the
  gate refuses always has its record (`StatusesBacked`). `Outcomes` cuts the steps
  down once more, by what they do to requests and log: commit, refuse, audit, go on.
- `LedgerAudited`: a commit has exactly one effect more (`EffectWrites`), the one its
  entry will name, and the entry moves it from `Auditing` to `logs`.

PostgreSQL. A commit is decided on a snapshot and on locked rows; `PgInv` says for
each open transaction what of that is true at this instant:

- `Shape`: which locks each phase holds; `Apart`: no two transactions hold one row;
- `Snapshot`: the copy of the authorization is the row itself unless it is noted as
  `stale`; `Decided`: once it is locked, it is the row, and the checks made on it
  hold; `Counted`: an entry that is not doomed has seen every vehicle in its
  area; `AreaThere`: the area of a creation exists.

A step moves outside of transactions (`Outer`), goes on in one (`Inner`), changes a
row (`Alters`) or stops everything (`Pauses`: time, a restart). `Spares` is what a
step of one goroutine does to the transaction of another, and is proved once
for all pairs. With it every step over PostgreSQL is a `StoreStep`, the same
notion the steps over the memory store were cut down to, and the lemmas about
those are used again as they are. `OneOpenRecord` is kept by the unique index that
the commit looks at, not by the status, which an update may have set back.
With the fine clock, `NoRival` adds that a creation that can still commit conflicts
with no row of this instant; it gives `DecisionsCurrent` and makes a commit a
`CarefulStep`, of which `NoOverlap` and the refinement were proved. `Honest` keeps
log and announced changes among the effects; equality, as in `AuditLedger`, does not
hold here, since a failure may cut a request off before its entry. `RetryTold`
rests on `LedgerConsistent`, by which what was done before shows in the status of the
authorization: a transaction that locks the row finds its copy and the row the same,
and refuses by that status; one whose copy is older is aborted at the lock, so that
none that goes on to the commit repeats a change (`LockTellsRetry`).

Vehicles. `VehicleInv` has what a request carries in each phase and that the
identifier of a creation is new; `PlatesUnique` rests on the check of the index
being in the step that writes. The creations and
archivings that are logged or announced (`VehiclesTold`) are among those the table
shows (`VehicleEffects`), whatever fails, since only the step that writes the row
announces. The two are equal (`VehicleLedger`) over the memory store only: over PostgreSQL the error of
`CreateAuditLog` is dropped (service.go:467), an answer may be lost, and the
program may stop before the entry.

Lists. Most of the properties are consequences of the types of the rows (`Listed`
says which rows a query selects); `OccupancyTrue` shows that statistics and gate
count the same records. For `StoresAlike`, a row is selected by both stores or by
neither (`AlikeRow`), and equal sets of rows have equal pages (`PageAlike`). `StoresAgree`
leaves out what differs: the status "pending", "expiring soon", `valid_on`,
buildings with an archived resident, and offsets past the last row, where PostgreSQL
answers a total of 0 (postgres.go:318). `OrderOf` and `PageRows` say what an order and a page of it
are, for any finite set. For `WalksFindAll`, `RankOf` gives each row of a list without
ties its place, one more than the number of rows with a higher key; `WalkInv` says
that a row that stayed and is not found yet has at least `offset` rows before it.
Rows that are added only push it back, none before it goes away, and its key does
not change (`KeysNext`; with the fine clock no update moves a window), so that the
pages cannot pass it by (`Carried`, `PageFinds`).

The theorems for the fine clock describe the code as it is. Were the lock
repaired so that updates take effect, `VersionsApart` would be proved from the
comparison instead, and `NoOverlap` and `CapacityRespected` would fail, as
`ViolOverlap` shows for the one: updates check neither.

Only model-checked: the liveness properties `EveryRequestAnswered` and
`EveryChangeAudited`, because fairness and ENABLED are out of TLAPS's reach, and
`UnauditedRevocationsOnly`. Every other invariant and action property of the passing
runs is proved.

## 5. Plan

1. `WalksFindAll` for the coarse clock, for the queries whose rows updates do not move,
   and over PostgreSQL.
2. The lists of PostgreSQL over `PgSpec`: `PagesTruthful` with the total that comes with
   the rows, `OccupancyTruthful` from the committed rows.
3. `UnauditedRevocationsOnly`, from `EffectAltered` and `ArchivedFinal`.
4. What the abstract lot itself promises (overlap, capacity), proved of `ParkingLot`,
   so that both stores have it by refinement.

## 6. Not modelled

- Text fields and their validation, and which texts are plates: a request refused
  for them touches nothing shared. The plate's regular expression would only be
  written down a second time.
- JSON, logging, configuration; the entry point (`cmd/server/main.go` is not in the
  repository).
- The lists of residents, vehicles and areas: they have no filter, and their order
  and paging are those of the lists that are modelled.
- `CreateRecord` of both stores, which nothing calls; operator, detail and time of an
  audit entry; area codes and their unique index; the CHECK constraints, which
  repeat what the service has validated.
- The connection pool of the PostgreSQL store, and rounding to microseconds: the
  coarse clock stands for readings that become equal.
