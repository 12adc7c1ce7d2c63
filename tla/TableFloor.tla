----------------------------- MODULE TableFloor -----------------------------
(***************************************************************************)
(* The floor of one restaurant: the status of its tables, which of them an *)
(* active order sits at, and the reservation rows, as                      *)
(* service/table_service.go and the opening and closing of orders          *)
(* (service/order_service.go) change them.  A reservation without a slot   *)
(* (reserved_for is null) is a hold and holds its table now; one with a    *)
(* slot is a booking for later and leaves the table alone.                 *)
(*                                                                         *)
(* Each handler is one step here.  Module TableLocks runs the same         *)
(* handlers as transactions over row locks and implements this one.  Names *)
(* and phones are a guest, labels, zones and QR tokens are left out.       *)
(***************************************************************************)
EXTENDS Integers, FiniteSets

CONSTANTS
    Tables,
    NumBookings,   \* bound: reservation rows ever created
    Guests,        \* phone numbers
    Slots,         \* instants a table can be booked for
    None           \* no slot, no guest, no table

Bookings == 1..NumBookings

ASSUME TableFloorAssumption ==
    /\ NumBookings \in Nat
    /\ None \notin Tables \cup Guests \cup Slots \cup Bookings

VARIABLES
    status,    \* [Tables -> TableStatus], restaurant_tables.status
    seated,    \* the tables an active order sits at
    visited,   \* the tables some order ever sat at
    bookings   \* [Bookings -> Booking], the reservations

vars == <<status, seated, visited, bookings>>

TableStatus == {"free", "occupied", "reserved", "inactive", "deleted"}
BookingStatus == {"none", "active", "seated", "cancelled"}
Booking == [table : Tables \cup {None}, guest : Guests \cup {None},
            slot : Slots \cup {None}, status : BookingStatus]
NoBooking == [table |-> None, guest |-> None, slot |-> None, status |-> "none"]

TypeOK ==
    /\ status \in [Tables -> TableStatus]
    /\ seated \subseteq Tables /\ visited \subseteq Tables
    /\ bookings \in [Bookings -> Booking]

Init ==
    /\ status = [t \in Tables |-> "free"]
    /\ seated = {} /\ visited = {}
    /\ bookings = [b \in Bookings |-> NoBooking]

-----------------------------------------------------------------------------
(* Reservation rows.  bs is a table of bookings, t a table of the floor. *)

Newest(B) == CHOOSE b \in B : \A c \in B : c <= b

ActiveBookings(bs, t) == {b \in Bookings : bs[b].table = t /\ bs[b].status = "active"}
AnyBooking(bs, t) == {b \in Bookings : bs[b].table = t /\ bs[b].status = "active"}
Holds(bs, t) == {b \in ActiveBookings(bs, t) : bs[b].slot = None}

\* findActiveReservation: the newest hold, and what is left of the older ones.
Hold(bs, t) == IF Holds(bs, t) = {} THEN None ELSE Newest(Holds(bs, t))
Reconciled(bs, t) ==
    [b \in Bookings |-> IF b \in Holds(bs, t) \ {Hold(bs, t)}
                        THEN [bs[b] EXCEPT !.status = "cancelled"] ELSE bs[b]]

Unused(bs) == {b \in Bookings : bs[b].status = "none"}
\* CreateReservation; rows are numbered in the order they are created.
WithNew(bs, t, g, slot) ==
    LET b == CHOOSE x \in Unused(bs) : \A y \in Unused(bs) : x <= y
    IN  [bs EXCEPT ![b] = [table |-> t, guest |-> g, slot |-> slot,
                           status |-> "active"]]

Resolved(bs, b, outcome) == [bs EXCEPT ![b].status = outcome]

\* The hold for guest g, created or taken over.
HeldFor(bs, t, g) ==
    IF Hold(bs, t) = None THEN WithNew(bs, t, g, None)
    ELSE [Reconciled(bs, t) EXCEPT ![Hold(bs, t)].guest = g]

\* The hold resolved; without one a row is written for the record.
HoldResolved(bs, t, outcome) ==
    IF Hold(bs, t) = None
    THEN LET new == WithNew(bs, t, None, None)
         IN  Resolved(new, Hold(new, t), outcome)
    ELSE Resolved(Reconciled(bs, t), Hold(bs, t), outcome)

\* The bound: rows left to create, or a hold to take over instead.
RoomFor(bs) == Unused(bs) # {}
RoomForHold(bs, t) == Hold(bs, t) # None \/ RoomFor(bs)

-----------------------------------------------------------------------------
(* What a handler writes, when it has seen the table in status st, whether  *)
(* an order is open, and the bookings bs                                    *)

\* OpenOrder, dine-in: a reserved table is seated or not opened.
MayOpen(st, open, bs, t, seat) ==
    /\ ~open
    /\ st \notin {"inactive", "deleted"}
    /\ seat <=> st = "reserved"
    /\ seat => Hold(bs, t) # None
SeatedHold(bs, t, seat) == IF seat THEN HoldResolved(bs, t, "seated") ELSE bs

\* ReserveTable without an instant.
MayHold(st, open) == st = "free" /\ ~open

\* scheduleReservation.
Booked(bs, t, slot) == {b \in ActiveBookings(bs, t) : bs[b].slot = slot}
MaySchedule(st) == st \notin {"inactive", "deleted"}
AlwaysScheduledFor(bs, t, g, slot) == WithNew(bs, t, g, slot)
ScheduledFor(bs, t, g, slot) ==
    IF Booked(bs, t, slot) = {} THEN WithNew(bs, t, g, slot) ELSE bs
SameGuest(bs, t, g, slot) == \A b \in Booked(bs, t, slot) : bs[b].guest = g

\* ResolveReservation, of a booking that is still active.
KeptBy(st, open, row) == st
FreedBy(st, open, row) ==
    IF row.slot = None /\ st = "reserved" /\ ~open THEN "free" ELSE st

\* releaseReservedTable.
MayCancel(st, open, hold) == ~open /\ (st = "reserved" \/ hold # None)

\* ensureTableEditable.
InService(st, open) == open \/ st \in {"occupied", "reserved"}

\* UpdateTableStatus.
MaySet(st, open, hold, next) ==
    /\ st # "deleted"
    /\ next = "inactive" => ~InService(st, open)
    /\ open => next = "occupied"
    /\ next = "occupied" => open /\ st # "reserved" /\ hold = None
SetBookings(bs, t, st, next, g) ==
    IF next = "reserved" THEN HeldFor(bs, t, g)
    ELSE IF st = "reserved" \/ Hold(bs, t) # None THEN HoldResolved(bs, t, "cancelled")
    ELSE bs

-----------------------------------------------------------------------------
(* Handlers *)

IsOpen(t) == t \in seated
SetStatus(t, st) == status' = [status EXCEPT ![t] = st]

OpenOrder(t, seat) ==
    /\ MayOpen(status[t], IsOpen(t), bookings, t, seat)
    /\ SetStatus(t, "occupied")
    /\ bookings' = SeatedHold(bookings, t, seat)
    /\ seated' = seated \cup {t} /\ visited' = visited \cup {t}

\* The order is paid, cancelled or closed empty, and the table released.
CloseOrder(t) ==
    /\ IsOpen(t)
    /\ seated' = seated \ {t}
    /\ SetStatus(t, "free")
    /\ UNCHANGED <<visited, bookings>>

ReserveTable(t, g) ==
    /\ MayHold(status[t], IsOpen(t)) /\ RoomForHold(bookings, t)
    /\ SetStatus(t, "reserved")
    /\ bookings' = HeldFor(bookings, t, g)
    /\ UNCHANGED <<seated, visited>>

ScheduleReservation(t, g, slot) ==
    /\ MaySchedule(status[t]) /\ RoomFor(bookings)
    /\ SameGuest(bookings, t, g, slot)
    /\ bookings' = ScheduledFor(bookings, t, g, slot)
    /\ UNCHANGED <<status, seated, visited>>

ResolveReservation(b, outcome) ==
    LET row == bookings[b]
    IN  /\ row.status = "active"
        /\ SetStatus(row.table, FreedBy(status[row.table], IsOpen(row.table), row))
        /\ bookings' = Resolved(bookings, b, outcome)
        /\ UNCHANGED <<seated, visited>>

CancelReservation(t) ==
    /\ MayCancel(status[t], IsOpen(t), Hold(bookings, t))
    /\ RoomForHold(bookings, t)
    /\ SetStatus(t, "free")
    /\ bookings' = HoldResolved(bookings, t, "cancelled")
    /\ UNCHANGED <<seated, visited>>

UpdateTableStatus(t, next, g) ==
    /\ MaySet(status[t], IsOpen(t), Hold(bookings, t), next)
    /\ RoomForHold(bookings, t)
    /\ SetStatus(t, next)
    /\ bookings' = SetBookings(bookings, t, status[t], next, g)
    /\ UNCHANGED <<seated, visited>>

\* UpdateTable: the open/closed switch of table management.
UpdateTable(t, next) ==
    /\ status[t] # "deleted" /\ ~InService(status[t], IsOpen(t))
    /\ SetStatus(t, next)
    /\ UNCHANGED <<seated, visited, bookings>>

DeleteBookedTable(t) ==
    /\ status[t] # "deleted" /\ ~InService(status[t], IsOpen(t))
    /\ t \notin visited
    /\ SetStatus(t, "deleted")
    /\ UNCHANGED <<seated, visited, bookings>>

DeleteTable(t) ==
    /\ status[t] # "deleted" /\ ~InService(status[t], IsOpen(t))
    /\ ActiveBookings(bookings, t) = {}
    /\ t \notin visited
    /\ SetStatus(t, "deleted")
    /\ UNCHANGED <<seated, visited, bookings>>

Next ==
    \/ \E t \in Tables :
          \/ \E seat \in BOOLEAN : OpenOrder(t, seat)
          \/ CloseOrder(t)
          \/ \E g \in Guests : ReserveTable(t, g)
          \/ \E g \in Guests, slot \in Slots : ScheduleReservation(t, g, slot)
          \/ CancelReservation(t)
          \/ \E next \in TableStatus \ {"deleted"}, g \in Guests :
                UpdateTableStatus(t, next, g)
          \/ \E next \in {"free", "inactive"} : UpdateTable(t, next)
          \/ DeleteTable(t)
    \/ \E b \in Bookings, outcome \in {"seated", "cancelled"} :
          ResolveReservation(b, outcome)

Spec == Init /\ [][Next]_vars

-----------------------------------------------------------------------------
(* Properties *)

\* A table reads reserved exactly while one active hold holds it: it can always
\* be seated or released, and no guest is promised a table that others may take.
HoldsAreOnTheFloor ==
    \A t \in Tables :
        /\ status[t] = "reserved" <=> Holds(bookings, t) # {}
        /\ Cardinality(Holds(bookings, t)) <= 1

\* A table reads occupied exactly while an active order sits there.
GuestsAreOnTheFloor == \A t \in Tables : status[t] = "occupied" <=> IsOpen(t)

\* "One table, one booking per instant."
OneBookingPerSlot ==
    \A b, c \in Bookings :
        /\ bookings[b].status = "active" /\ bookings[c].status = "active"
        /\ bookings[b].slot # None
        /\ bookings[b].table = bookings[c].table /\ bookings[b].slot = bookings[c].slot
        => b = c

\* A booking for later ends only by being resolved by its own id: seating,
\* holding, releasing and switching its table leave it alone, and resolving it
\* leaves the floor alone.
BookingsForLaterSurvive ==
    [][\A b \in Bookings :
          bookings[b].status = "active" /\ bookings[b].slot # None
          /\ bookings'[b] # bookings[b]
          => /\ bookings' = Resolved(bookings, b, bookings'[b].status)
             /\ status' = status]_vars

\* A deleted table takes nobody's booking or bill with it.
DeletedTablesAreBare ==
    \A t \in Tables : status[t] = "deleted" =>
        ActiveBookings(bookings, t) = {} /\ t \notin visited
=============================================================================
