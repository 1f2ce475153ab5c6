---------------------------- MODULE ListQueries -----------------------------
(***************************************************************************)
(* The lists and statistics of the service: what a filter selects, in      *)
(* which order, and which page of it is answered, for store.Memory and for *)
(* store.Postgres.  A list reads the maps in one critical section (one     *)
(* statement), so that it is an operator on the state.                     *)
(*                                                                         *)
(* Both stores sort by a time and leave rows of the same time in an order  *)
(* that is free (Go's map order, sort.Slice, no second ORDER BY column):   *)
(* a list is the set of the answers it may give.                           *)
(*                                                                         *)
(* The lists of residents and areas are ordered by created_at, which the   *)
(* rows of the model do not have, and are left out.                        *)
(***************************************************************************)
EXTENDS MemoryStore, Sequences
Ext == INSTANCE SequencesExt

CONSTANTS
    BuildingOf,           \* the building of each resident
    DefaultLimit,         \* 20 in the code
    MaxLimit,             \* 200 in the code
    ExpiringSoonWindow,   \* six hours in the code, in the model's time unit
    Day                   \* the instants of a day

ASSUME ListAssumption ==
    /\ BuildingOf \in [ResidentID -> Nat]
    /\ MaxLimit \in Nat
    /\ DefaultLimit \in 1..MaxLimit
    /\ ExpiringSoonWindow \in Nat
    /\ Day \in Nat \ {0}
    /\ None \notin AuthStatus \cup RecordStatus \cup {"expired"}

-----------------------------------------------------------------------------
(* Pages                                                                   *)

\* A limit that is not sent, is no number or is too large becomes the default.
normPage(limit, offset) ==
    [limit |-> IF limit \in 1..MaxLimit THEN limit ELSE DefaultLimit,
     offset |-> IF offset < 0 THEN 0 ELSE offset]

\* The rows from offset on, as many as the limit allows.
pageOf(items, page) ==
    LET end == page.offset + page.limit IN
    SubSeq(items, page.offset + 1, IF end > Len(items) THEN Len(items) ELSE end)

\* Go's division truncates towards zero.
Quotient(a, b) == IF a < 0 THEN -((-a) \div b) ELSE a \div b

\* Mutant: pages are counted from zero.
pageNoZero(limit, offset) ==
    Quotient(offset, IF limit <= 0 THEN DefaultLimit ELSE limit)

\* pageNo, from what the client sent and not from what the store used.
pageNo(limit, offset) ==
    Quotient(offset, IF limit <= 0 THEN DefaultLimit ELSE limit) + 1

paginate(items, total, limit, offset) ==
    [items |-> items, total |-> total, page |-> pageNo(limit, offset), size |-> limit]

\* Mutant: the sort is forgotten.
AnyOrder(S, key) == Ext!SetToSeqs(S)

\* The orders of S in which the key never rises.
Descending(S, key) ==
    {s \in Ext!SetToSeqs(S) : \A i, j \in 1..Len(s) : i < j => key[s[i]] >= key[s[j]]}

\* The answers to a request for a page of S.
List(S, key, limit, offset) ==
    {paginate(pageOf(s, normPage(limit, offset)), Len(s), limit, offset) :
        s \in Descending(S, key)}

\* count(*) OVER() comes with the rows: a page without rows has the total 0.
PgList(S, key, limit, offset) ==
    {IF r.items = <<>> THEN [r EXCEPT !.total = 0] ELSE r : r \in List(S, key, limit, offset)}

-----------------------------------------------------------------------------
(* Authorizations                                                          *)

\* What a client asks for; None where the query parameter is not sent.
NoFilter ==
    [building |-> None, plate |-> None, area |-> None, status |-> None,
     validOn |-> None, today |-> FALSE, expiringSoon |-> FALSE]

\* A plate is sent as it is in the rows, or, as the pair <<plate>>, in lower
\* case or with blanks: plate.Normalize.
Normalize(text) == IF text \in Plate \cup {None} THEN text ELSE text[1]

StartOfDay(t) == t - (t % Day)

\* The filter that the service makes of the query q at the instant t.
AuthFilter(q, t) ==
    [building |-> q.building, plate |-> Normalize(q.plate), area |-> q.area,
     status |-> q.status, validOn |-> q.validOn, validOnNow |-> t,
     startFrom |-> IF q.today THEN StartOfDay(t) ELSE None,
     startTo |-> IF q.today THEN StartOfDay(t) + Day ELSE None,
     endingBefore |-> IF q.expiringSoon THEN t + ExpiringSoonWindow ELSE None]

\* Mutant: the end still belongs to the window.
deriveStatusLate(a, t) ==
    IF a.status = "pending" /\ a.end < t THEN "expired" ELSE a.status

\* The status that is shown: a pending authorization whose window has passed
\* is expired, whatever the row says.
deriveStatus(a, t) ==
    IF a.status = "pending" /\ a.end <= t THEN "expired" ELSE a.status

\* The conditions that both stores put on a row in the same way.
Selected(a, f) ==
    /\ ~a.archived
    /\ f.plate \in {None, a.plate}
    /\ f.area \in {None, a.area}
    /\ f.startFrom # None => a.start > f.startFrom
    /\ f.startTo # None => a.start < f.startTo
    /\ f.endingBefore # None => a.end < f.endingBefore

CoversInstant(a, t) == a.start < t /\ t < a.end

\* Mutant: the status of the row counts too.
MemoryMatchesStored(a, f) ==
    Selected(a, f) /\ f.status \in {None, a.status, deriveStatus(a, f.validOnNow)}

\* store.Memory: valid_on is looked at only if no status is asked for, and
\* the building is that of a resident who is not archived.
MemoryMatches(a, f) ==
    /\ Selected(a, f)
    /\ f.status \in {None, deriveStatus(a, f.validOnNow)}
    /\ f.status = None /\ f.validOn # None => CoversInstant(a, f.validOn)
    /\ f.building # None =>
         Live(residents, a.resident) /\ BuildingOf[a.resident] = f.building

\* Mutant: strictly before now.
PgStatusStrict(a, f) ==
    IF f.status = "expired" THEN a.status = "pending" /\ a.end < f.validOnNow
    ELSE f.status \in {None, a.status}

\* store.Postgres derives "expired" but takes the other statuses as stored.
PgStatus(a, f) ==
    IF f.status = "expired" THEN a.status = "pending" /\ a.end <= f.validOnNow
    ELSE f.status \in {None, a.status}

\* store.Postgres: what is about to end is pending, and the join takes
\* archived residents too.
PgMatches(a, f) ==
    /\ Selected(a, f)
    /\ PgStatus(a, f)
    /\ f.endingBefore # None => a.status = "pending"
    /\ f.building # None =>
         a.resident \in DOMAIN residents /\ BuildingOf[a.resident] = f.building

\* The condition for valid_on has two placeholders, and Sprintf is given one
\* number: the statement is not SQL.
PgListErr(f) == IF f.status = None /\ f.validOn # None THEN "ErrInternal" ELSE "nil"

\* The authorizations that match, and the pages of them.
MemoryListed(q, t) == {x \in DOMAIN auths : MemoryMatches(auths[x], AuthFilter(q, t))}
PgListed(q, t) == {x \in DOMAIN auths : PgMatches(auths[x], AuthFilter(q, t))}

ListAuthorizations(q, limit, offset, t) ==
    List(MemoryListed(q, t), [x \in DOMAIN auths |-> auths[x].start], limit, offset)
PgListAuthorizations(q, limit, offset, t) ==
    PgList(PgListed(q, t), [x \in DOMAIN auths |-> auths[x].start], limit, offset)

\* The statistics that are lists of authorizations.
TodayArrivals == [NoFilter EXCEPT !.today = TRUE]
ExpiringSoon == [NoFilter EXCEPT !.expiringSoon = TRUE]

-----------------------------------------------------------------------------
(* Records, audit entries and areas                                        *)

\* Mutant: the status is not looked at.
RecordMatchesAny(r, area, status, plate) ==
    area \in {None, r.area} /\ plate \in {None, r.plate}

\* The plate is compared as it was sent: it is not normalised here.
RecordMatches(r, area, status, plate) ==
    area \in {None, r.area} /\ status \in {None, r.status} /\ plate \in {None, r.plate}

RecordsListed(area, status, plate) ==
    {r \in DOMAIN records : RecordMatches(records[r], area, status, plate)}

ListRecords(area, status, plate, limit, offset) ==
    List(RecordsListed(area, status, plate),
         [r \in DOMAIN records |-> records[r].entry], limit, offset)

CurrentVehicles(area) == RecordsListed(area, "entered", None)

\* The entity type that s.audit is called with for an action.
EntityType(action) ==
    CASE action \in {"entry.record", "exit.record"} -> "record"
      [] action \in {"resident.create", "resident.update", "resident.archive"} -> "resident"
      [] action \in {"area.create", "area.update", "area.archive"} -> "parking_area"
      [] OTHER -> "authorization"

AuditEntries(entityType) == {l \in logs : entityType \in {None, EntityType(l[1])}}

\* The handler answers with the length of the page as the total.  Entries of
\* the model have no created_at: any order.
ListAuditLogs(entityType, limit, offset) ==
    {[r EXCEPT !.total = Len(r.items)] :
        r \in List(AuditEntries(entityType), [l \in logs |-> 0], limit, offset)}

\* Mutant: vehicles that have left are counted.
AreaOccupancyEver(a) ==
    LET n == Cardinality({r \in DOMAIN records : records[r].area = a})
        free == areas[a].capacity - n
    IN [capacity |-> areas[a].capacity, occupied |-> n, available |-> IF free < 0 THEN 0 ELSE free]

\* What is said of a live area.  The utilization is occupied / capacity.
AreaOccupancy(a) ==
    LET n == Cardinality({r \in DOMAIN records : /\ records[r].area = a
                                                 /\ records[r].status = "entered"})
        free == areas[a].capacity - n
    IN [capacity |-> areas[a].capacity, occupied |-> n, available |-> IF free < 0 THEN 0 ELSE free]

\* The query of PostgreSQL orders by a column that does not exist.
PgAreaOccupancyErr == "ErrInternal"
=============================================================================
