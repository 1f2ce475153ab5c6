------------------------- MODULE ParkingRefinement --------------------------
(***************************************************************************)
(* The service, with a clock whose readings differ, implements ParkingLot. *)
(* A booking is an authorization without its resident and its version, a   *)
(* visit is a record, a lot is an area.  The step of the service at which  *)
(* the operation happens is the store call that changes the maps or, over  *)
(* PostgreSQL, the commit of the transaction; all other steps stutter.     *)
(***************************************************************************)
EXTENDS ParkingProperties

BookingOf(a) ==
    [plate |-> a.plate, lot |-> a.area, start |-> a.start, end |-> a.end,
     state |-> a.status, withdrawn |-> a.archived]
VisitOf(r) ==
    [booking |-> r.auth, lot |-> r.area, at |-> r.entry, left |-> r.status = "exited"]
LotOf(a) == [capacity |-> a.capacity, closed |-> a.archived]

Bookings == [x \in DOMAIN auths |-> BookingOf(auths[x])]
Visits == [x \in DOMAIN records |-> VisitOf(records[x])]
Lots == [x \in DOMAIN areas |-> LotOf(areas[x])]

Abstract == INSTANCE ParkingLot WITH
    Booking <- AuthID, Visit <- RecordID, Lot <- AreaID,
    bookings <- Bookings, visits <- Visits, lots <- Lots

\* Every change the service makes is one that ParkingLot allows at that
\* moment, although the service decides it in several steps and on rows it
\* read before: no request, however it interleaves with others, books, lets
\* in, lets out or revokes what the rules of the lot forbid.
ImplementsParkingLot == Abstract!LotSpec
=============================================================================
