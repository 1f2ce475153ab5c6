----------------------------- MODULE ParkingLot -----------------------------
(***************************************************************************)
(* What the service promises to residents and guards, whatever the store:  *)
(* bookings that never claim one plate twice for the same time, lots that  *)
(* are never over-full, and visits that follow their bookings.  Every      *)
(* operation is one step that sees the rows as they are.  There are no     *)
(* requests, no clock, no versions of rows and no audit log.               *)
(***************************************************************************)
EXTENDS Integers, FiniteSets

CONSTANTS Booking, Visit, Lot, Time

VARIABLES
    bookings,   \* plate, lot, start, end, state and withdrawn of each booking
    visits,     \* booking, lot, time of entry and left of each visit
    lots        \* capacity and closed of each lot

lotVars == <<bookings, visits, lots>>

\* Nothing is booked yet; lots may have been opened before.
LotInit ==
    /\ bookings = [x \in {} |-> x]
    /\ visits = [x \in {} |-> x]
    /\ \A l \in DOMAIN lots : lots[l].capacity \in Nat /\ ~lots[l].closed

\* The map gets a new key, and the other keys keep their values.
Adds(new, old, x) ==
    /\ x \notin DOMAIN old
    /\ DOMAIN new = DOMAIN old \cup {x}
    /\ \A y \in DOMAIN old : new[y] = old[y]

\* The booking bars others of its plate for the time it covers.
Claims(b) == ~b.withdrawn /\ b.state \in {"pending", "active"}
Meets(b, c) == b.start < c.end /\ c.start < b.end

\* The visits that take a spot of the lot.
Taken(l) == {v \in DOMAIN visits : visits[v].lot = l /\ ~visits[v].left}

OpenLot(l) ==
    /\ Adds(lots', lots, l)
    /\ lots'[l].capacity \in Nat /\ ~lots'[l].closed
    /\ UNCHANGED <<bookings, visits>>

CloseLot(l) ==
    /\ l \in DOMAIN lots /\ ~lots[l].closed
    /\ lots' = [lots EXCEPT ![l].closed = TRUE]
    /\ UNCHANGED <<bookings, visits>>

Book(b) ==
    /\ Adds(bookings', bookings, b)
    /\ bookings'[b].state = "pending" /\ ~bookings'[b].withdrawn
    /\ bookings'[b].start < bookings'[b].end
    /\ bookings'[b].lot \in DOMAIN lots
    /\ \A c \in DOMAIN bookings :
         bookings[c].plate = bookings'[b].plate /\ Claims(bookings[c]) =>
             ~Meets(bookings[c], bookings'[b])
    /\ UNCHANGED <<visits, lots>>

\* The booking goes from one state to another.
Moves(b, from, to) ==
    /\ b \in DOMAIN bookings
    /\ ~bookings[b].withdrawn /\ bookings[b].state = from
    /\ bookings' = [bookings EXCEPT ![b].state = to]

Enter(b, v, t) ==
    /\ Moves(b, "pending", "active")
    /\ bookings[b].start <= t /\ t < bookings[b].end
    /\ LET l == bookings[b].lot IN
       /\ l \in DOMAIN lots /\ ~lots[l].closed
       /\ Cardinality(Taken(l)) < lots[l].capacity
       /\ Adds(visits', visits, v)
       /\ visits'[v] = [booking |-> b, lot |-> l, at |-> t, left |-> FALSE]
    /\ UNCHANGED lots

Leave(b, v) ==
    /\ Moves(b, "active", "completed")
    /\ v \in DOMAIN visits /\ visits[v].booking = b /\ ~visits[v].left
    /\ visits' = [visits EXCEPT ![v].left = TRUE]
    /\ UNCHANGED lots

Revoke(b) ==
    /\ Moves(b, "pending", "cancelled")
    /\ UNCHANGED <<visits, lots>>

\* A booking may be withdrawn in any state, also while its visit lasts.
Withdraw(b) ==
    /\ b \in DOMAIN bookings /\ ~bookings[b].withdrawn
    /\ bookings' = [bookings EXCEPT ![b].withdrawn = TRUE]
    /\ UNCHANGED <<visits, lots>>

LotNext ==
    \/ \E l \in Lot : OpenLot(l) \/ CloseLot(l)
    \/ \E b \in Booking :
         \/ Book(b) \/ Revoke(b) \/ Withdraw(b)
         \/ \E v \in Visit : Leave(b, v) \/ \E t \in Time : Enter(b, v, t)

LotSpec == LotInit /\ [][LotNext]_lotVars
=============================================================================
