--------------------------- MODULE ListProperties ---------------------------
(***************************************************************************)
(* What the lists and statistics promise: that they tell what the gate     *)
(* does, that they agree with each other, and that the two stores answer   *)
(* alike.  They are read-only, so that each property is one of the rows.   *)
(***************************************************************************)
EXTENDS ParkingProperties, ListQueries

ShownStatus == AuthStatus \cup {"expired"}

WithStatus(s) == [NoFilter EXCEPT !.status = s]

\* At any instant an authorization that is not archived is listed under one
\* status, so that the lists by status are a partition of the whole list.
OneStatusEach ==
    \A x \in MemoryListed(NoFilter, now) :
        Cardinality({s \in ShownStatus : x \in MemoryListed(WithStatus(s), now)}) = 1

\* The list and the gate agree to the instant on when an authorization has
\* passed: what is listed as expired is turned away for the time, and what is
\* listed as pending and has begun is not.
ShownStatusTruthful ==
    /\ \A x \in MemoryListed(WithStatus("expired"), now) :
         EnterVehicleErr(x, now) = "ErrOutOfTimeWindow"
    /\ \A x \in MemoryListed(WithStatus("pending"), now) :
         auths[x].start <= now => EnterVehicleErr(x, now) # "ErrOutOfTimeWindow"

\* An area that is shown as having a spot free turns nobody away as full, and
\* one that is shown as having none lets nobody in.
OccupancyTruthful ==
    \A x \in DOMAIN auths : LET a == auths[x].area IN
        Live(areas, a) =>
            /\ EnterVehicleErr(x, now) = "ErrNoCapacity" => AreaOccupancy(a).available = 0
            /\ EnterVehicleErr(x, now) = "nil" => AreaOccupancy(a).available > 0

\* The vehicles listed as inside an area are those of the authorizations
\* listed as active for it, but for the archived ones.
CurrentVehiclesActive ==
    \A a \in DOMAIN areas :
        {records[r].auth : r \in CurrentVehicles(a)} \ {x \in DOMAIN auths : auths[x].archived}
            = MemoryListed([WithStatus("active") EXCEPT !.area = a], now)

\* The buildings none of whose residents is archived.
FullBuildings ==
    {b \in {BuildingOf[x] : x \in ResidentID} :
        \A x \in DOMAIN residents : BuildingOf[x] = b => ~residents[x].archived}

\* The two stores answer alike: they select the same authorizations and cut
\* them into the same pages, whatever limit is sent.  Five kinds of query are
\* left out, for which they do not: the pending ones (PgOneStatusEach), those
\* expiring soon, valid_on (PgValidOnAnswered), buildings with an archived
\* resident, and offsets past the last row, where PostgreSQL has no row to
\* count and answers the total 0.
StoresAgree ==
    \A s \in (ShownStatus \cup {None}) \ {"pending"}, d \in BOOLEAN, p \in Plate \cup {None},
       a \in AreaID \cup {None}, b \in FullBuildings \cup {None} :
        LET q == [NoFilter EXCEPT !.status = s, !.today = d, !.plate = p, !.area = a,
                                  !.building = b]
            n == Cardinality(MemoryListed(q, now))
        IN /\ MemoryListed(q, now) = PgListed(q, now)
           /\ \A limit \in 0..(MaxLimit + 1) : \A offset \in 0..n :
                offset = 0 \/ offset < n =>
                    ListAuthorizations(q, limit, offset, now) =
                        PgListAuthorizations(q, limit, offset, now)

\* The numbers of an answer fit its rows: a client that sends a limit the
\* store grants, and advances by it, is told which page it has, and the page
\* has the rows that its number, its size and the total leave for it.
PagesTruthful ==
    \A limit \in 1..MaxLimit, n \in 1..3 :
        \A r \in ListAuthorizations(NoFilter, limit, (n - 1) * limit, now) :
            LET before == (r.page - 1) * r.size IN
            /\ r.page = n
            /\ Len(r.items) = IF r.total <= before THEN 0
                              ELSE IF r.total < before + r.size THEN r.total - before
                              ELSE r.size

-----------------------------------------------------------------------------
(* What the documentation says and the code does not do                    *)

\* The list of what will soon expire shows what can still be used: pending
\* authorizations whose window has not passed.
ExpiringSoonUsable ==
    \A x \in MemoryListed(ExpiringSoon, now) : deriveStatus(auths[x], now) = "pending"

\* The list of today's arrivals has every pending authorization whose window
\* begins today.
TodayComplete ==
    \A x \in MemoryListed(WithStatus("pending"), now) :
        auths[x].start \in StartOfDay(now)..(StartOfDay(now) + Day - 1) =>
            x \in MemoryListed(TodayArrivals, now)

\* The size that is answered is that of the page: a page is shorter only if
\* the rows end there.  A limit of 0 stands for one that is not sent.
SizeTruthful ==
    \A limit \in {0, 1, MaxLimit + 1} : \A r \in ListAuthorizations(NoFilter, limit, 0, now) :
        Len(r.items) = IF r.size < r.total THEN r.size ELSE r.total

\* The total of the audit log is the number of its entries.
AuditTotalTruthful ==
    \A r \in ListAuditLogs(None, 1, 0) : r.total = Cardinality(logs)

\* PostgreSQL: an authorization whose window has passed is expired and not
\* pending.
PgOneStatusEach ==
    \A x \in PgListed(NoFilter, now) :
        Cardinality({s \in ShownStatus : x \in PgListed(WithStatus(s), now)}) = 1

\* PostgreSQL: the lists can be filtered by valid_on.
PgValidOnAnswered ==
    auths # EmptyMap =>
        PgListErr(AuthFilter([NoFilter EXCEPT !.validOn = now], now)) = "nil"

\* PostgreSQL: the occupancy of the areas can be asked for.
PgOccupancyAnswered == areas # EmptyMap => PgAreaOccupancyErr = "nil"
=============================================================================
