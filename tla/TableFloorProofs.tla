-------------------------- MODULE TableFloorProofs --------------------------
(***************************************************************************)
(* What TableFloor keeps true for any number of tables, reservation rows,  *)
(* guests and slots.  A handler changes at most one reservation row, in    *)
(* one of three ways: it creates it, it hands a hold over to another       *)
(* guest, or it ends it.  The lemmas say which bookings and holds a table  *)
(* has after each; the invariant is then a matter of one table.            *)
(***************************************************************************)
EXTENDS TableFloor, FiniteSetTheorems, WellFoundedInduction, TLAPS

BookingTable == [Bookings -> Booking]

-----------------------------------------------------------------------------
(* One row of the reservations changes *)

OnlyRow(bs, cs, b) ==
    /\ b \in Bookings /\ cs \in BookingTable
    /\ \A c \in Bookings : c # b => cs[c] = bs[c]

Creates(bs, cs, b, t, slot) ==
    /\ OnlyRow(bs, cs, b)
    /\ bs[b].status = "none"
    /\ cs[b].table = t /\ cs[b].slot = slot /\ cs[b].status = "active"

HandsOver(bs, cs, b) ==
    /\ OnlyRow(bs, cs, b)
    /\ cs[b].table = bs[b].table /\ cs[b].slot = bs[b].slot
    /\ cs[b].status = bs[b].status

Ends(bs, cs, b) ==
    /\ OnlyRow(bs, cs, b)
    /\ bs[b].status = "active"
    /\ cs[b].table = bs[b].table /\ cs[b].slot = bs[b].slot
    /\ cs[b].status \in {"seated", "cancelled"}

\* A row that is created joins the bookings of its table, and its holds when it
\* has no slot (CreateReservation).
LEMMA CreatedBookings ==
    ASSUME NEW bs \in BookingTable, NEW cs, NEW b, NEW t, NEW slot,
           Creates(bs, cs, b, t, slot), NEW u
    PROVE  /\ ActiveBookings(cs, u) =
                 ActiveBookings(bs, u) \cup (IF u = t THEN {b} ELSE {})
           /\ Holds(cs, u) =
                 Holds(bs, u) \cup (IF u = t /\ slot = None THEN {b} ELSE {})
<1>1. ASSUME NEW c \in Bookings
      PROVE  c \in ActiveBookings(cs, u) <=>
                c \in ActiveBookings(bs, u) \/ (u = t /\ c = b)
  <2>1. CASE c = b
    BY <2>1 DEF Creates, ActiveBookings
  <2>2. CASE c # b
    BY <2>2 DEF Creates, OnlyRow, ActiveBookings
  <2> QED
    BY <2>1, <2>2
<1>2. b \in Bookings
  BY DEF Creates, OnlyRow
<1>3. ActiveBookings(cs, u) = ActiveBookings(bs, u) \cup (IF u = t THEN {b} ELSE {})
  BY <1>1, <1>2 DEF ActiveBookings
<1>4. ASSUME NEW c \in Bookings
      PROVE  c \in Holds(cs, u) <=>
                c \in Holds(bs, u) \/ (u = t /\ slot = None /\ c = b)
  <2>0. /\ c \in Holds(cs, u) <=> c \in ActiveBookings(cs, u) /\ cs[c].slot = None
        /\ c \in Holds(bs, u) <=> c \in ActiveBookings(bs, u) /\ bs[c].slot = None
    BY DEF Holds
  <2>1. CASE c = b
    <3>1. c \notin ActiveBookings(bs, u) /\ cs[c].slot = slot
      BY <2>1 DEF Creates, ActiveBookings
    <3> QED
      BY <1>1, <2>0, <2>1, <3>1
  <2>2. CASE c # b
    <3>1. cs[c] = bs[c]
      BY <2>2 DEF Creates, OnlyRow
    <3> QED
      BY <1>1, <2>0, <2>2, <3>1
  <2> QED
    BY <2>1, <2>2
<1> QED
  BY <1>2, <1>3, <1>4 DEF Holds, ActiveBookings

\* A hold that another guest takes over stays the hold of its table.
LEMMA HandedOverBookings ==
    ASSUME NEW bs \in BookingTable, NEW cs, NEW b, HandsOver(bs, cs, b), NEW u
    PROVE  /\ ActiveBookings(cs, u) = ActiveBookings(bs, u)
           /\ Holds(cs, u) = Holds(bs, u)
<1>1. ASSUME NEW c \in Bookings
      PROVE  /\ cs[c].table = bs[c].table
             /\ cs[c].slot = bs[c].slot
             /\ cs[c].status = bs[c].status
  BY DEF HandsOver, OnlyRow
<1> QED
  BY <1>1 DEF ActiveBookings, Holds

\* A row that ends leaves the bookings of its table.
LEMMA EndedBookings ==
    ASSUME NEW bs \in BookingTable, NEW cs, NEW b, Ends(bs, cs, b), NEW u
    PROVE  /\ ActiveBookings(cs, u) = ActiveBookings(bs, u) \ {b}
           /\ Holds(cs, u) = Holds(bs, u) \ {b}
<1>1. ASSUME NEW c \in Bookings
      PROVE  c \in ActiveBookings(cs, u) <=> c \in ActiveBookings(bs, u) /\ c # b
  <2>1. CASE c = b
    BY <2>1 DEF Ends, ActiveBookings
  <2>2. CASE c # b
    BY <2>2 DEF Ends, OnlyRow, ActiveBookings
  <2> QED
    BY <2>1, <2>2
<1>2. ASSUME NEW c \in Bookings, c # b
      PROVE  cs[c].slot = bs[c].slot
  BY <1>2 DEF Ends, OnlyRow
<1> QED
  BY <1>1, <1>2 DEF ActiveBookings, Holds

-----------------------------------------------------------------------------
(* What the operators of TableFloor return *)

\* A set of row numbers has a first one.
LEMMA SmallestMember ==
    ASSUME NEW S \in SUBSET Nat, S # {}
    PROVE  \E x \in S : \A y \in S : x <= y
<1>1. PICK x \in S : \A y \in S : ~ (<<y, x>> \in OpToRel(<, Nat))
  BY WFMin, NatLessThanWellFounded
<1>2. \A y \in S : ~ (y < x)
  BY <1>1 DEF OpToRel
<1> QED
  BY <1>2

\* WithNew takes the first row nobody has used (CreateReservation).
LEMMA NewRowIsCreated ==
    ASSUME NEW bs \in BookingTable, RoomFor(bs),
           NEW t \in Tables, NEW g \in Guests, NEW slot \in Slots \cup {None}
    PROVE  \E b \in Bookings : Creates(bs, WithNew(bs, t, g, slot), b, t, slot)
<1> DEFINE row == [table |-> t, guest |-> g, slot |-> slot, status |-> "active"]
           b == CHOOSE x \in Unused(bs) : \A y \in Unused(bs) : x <= y
<1>1. b \in Unused(bs)
  <2>1. Unused(bs) \in SUBSET Nat /\ Unused(bs) # {}
    BY TableFloorAssumption DEF Unused, RoomFor, Bookings
  <2>2. \E x \in Unused(bs) : \A y \in Unused(bs) : x <= y
    BY <2>1, SmallestMember
  <2> QED
    BY <2>2
<1>2. b \in Bookings /\ bs[b].status = "none"
  BY <1>1 DEF Unused
<1>3. WithNew(bs, t, g, slot) = [bs EXCEPT ![b] = row]
  BY DEF WithNew
<1> HIDE DEF b
<1>4. row \in Booking
  BY DEF Booking, BookingStatus
<1>5. [bs EXCEPT ![b] = row] \in BookingTable
  BY <1>2, <1>4 DEF BookingTable
<1>6. OnlyRow(bs, [bs EXCEPT ![b] = row], b)
  BY <1>2, <1>5 DEF OnlyRow, BookingTable
<1>7. [bs EXCEPT ![b] = row][b] = row
  BY <1>2 DEF BookingTable
<1>8. Creates(bs, [bs EXCEPT ![b] = row], b, t, slot)
  BY <1>2, <1>6, <1>7 DEF Creates
<1> QED
  BY <1>2, <1>3, <1>8

OneHold(bs) == \A t \in Tables : \A b, c \in Holds(bs, t) : b = c

\* With one hold at a table there is nothing to reconcile.
LEMMA TheHold ==
    ASSUME NEW bs \in BookingTable, OneHold(bs), NEW t \in Tables
    PROVE  /\ Hold(bs, t) = None <=> Holds(bs, t) = {}
           /\ Hold(bs, t) # None => Hold(bs, t) \in Holds(bs, t)
           /\ Reconciled(bs, t) = bs
<1>1. CASE Holds(bs, t) = {}
  <2>1. Hold(bs, t) = None
    BY <1>1 DEF Hold
  <2>2. Reconciled(bs, t) = [b \in Bookings |-> bs[b]]
    BY <1>1 DEF Reconciled
  <2> QED
    BY <1>1, <2>1, <2>2 DEF BookingTable
<1>2. CASE Holds(bs, t) # {}
  <2>1. PICK h \in Holds(bs, t) : \A c \in Holds(bs, t) : c = h
    BY <1>2 DEF OneHold
  <2>2. h \in Bookings /\ h <= h
    BY <2>1, TableFloorAssumption DEF Holds, ActiveBookings, Bookings
  <2>3. Newest(Holds(bs, t)) = h
    BY <2>1, <2>2 DEF Newest
  <2>4. Hold(bs, t) = h
    BY <1>2, <2>3 DEF Hold
  <2>5. h # None
    BY <2>2, TableFloorAssumption
  <2>6. Reconciled(bs, t) = [b \in Bookings |-> bs[b]]
    BY <2>1, <2>4 DEF Reconciled
  <2> QED
    BY <1>2, <2>1, <2>4, <2>5, <2>6 DEF BookingTable
<1> QED
  BY <1>1, <1>2

\* ResolveReservation of an active row ends it.
LEMMA ResolvedEnds ==
    ASSUME NEW bs \in BookingTable, NEW b \in Bookings, bs[b].status = "active",
           NEW outcome \in {"seated", "cancelled"}
    PROVE  Ends(bs, Resolved(bs, b, outcome), b)
<1> DEFINE row == [bs[b] EXCEPT !.status = outcome]
<1>1. bs[b] \in Booking
  BY DEF BookingTable
<1>2. /\ row \in Booking
      /\ row.table = bs[b].table /\ row.slot = bs[b].slot /\ row.status = outcome
  BY <1>1 DEF Booking, BookingStatus
<1>3. Resolved(bs, b, outcome) = [bs EXCEPT ![b] = row]
  BY DEF Resolved
<1> HIDE DEF row
<1>4. [bs EXCEPT ![b] = row] \in BookingTable
  BY <1>2 DEF BookingTable
<1>5. [bs EXCEPT ![b] = row][b] = row
  BY DEF BookingTable
<1>6. OnlyRow(bs, [bs EXCEPT ![b] = row], b)
  BY <1>4 DEF OnlyRow, BookingTable
<1> QED
  BY <1>2, <1>3, <1>5, <1>6 DEF Ends

\* The hold of a table given another guest is handed over.
LEMMA GuestHandsOver ==
    ASSUME NEW bs \in BookingTable, NEW b \in Bookings, NEW g \in Guests
    PROVE  HandsOver(bs, [bs EXCEPT ![b].guest = g], b)
<1> DEFINE row == [bs[b] EXCEPT !.guest = g]
<1>1. bs[b] \in Booking
  BY DEF BookingTable
<1>2. /\ row \in Booking
      /\ row.table = bs[b].table /\ row.slot = bs[b].slot
      /\ row.status = bs[b].status
  BY <1>1 DEF Booking
<1>3. [bs EXCEPT ![b].guest = g] = [bs EXCEPT ![b] = row]
  OBVIOUS
<1> HIDE DEF row
<1>4. [bs EXCEPT ![b] = row] \in BookingTable
  BY <1>2 DEF BookingTable
<1>5. [bs EXCEPT ![b] = row][b] = row
  BY DEF BookingTable
<1>6. OnlyRow(bs, [bs EXCEPT ![b] = row], b)
  BY <1>4 DEF OnlyRow, BookingTable
<1> QED
  BY <1>2, <1>3, <1>5, <1>6 DEF HandsOver

\* Seating or releasing a held table ends its hold; no row is written for the
\* record, since under the invariant there is a hold to end.
LEMMA HoldResolvedEnds ==
    ASSUME NEW bs \in BookingTable, OneHold(bs), NEW t \in Tables,
           Hold(bs, t) # None, NEW outcome \in {"seated", "cancelled"}
    PROVE  \E h \in Holds(bs, t) : Ends(bs, HoldResolved(bs, t, outcome), h)
<1>1. Hold(bs, t) \in Holds(bs, t) /\ Reconciled(bs, t) = bs
  BY TheHold
<1>2. HoldResolved(bs, t, outcome) = Resolved(bs, Hold(bs, t), outcome)
  BY <1>1 DEF HoldResolved
<1>3. Hold(bs, t) \in Bookings /\ bs[Hold(bs, t)].status = "active"
  BY <1>1 DEF Holds, ActiveBookings
<1>4. Ends(bs, Resolved(bs, Hold(bs, t), outcome), Hold(bs, t))
  BY <1>3, ResolvedEnds
<1> QED
  BY <1>1, <1>2, <1>4

\* Holding a table creates its hold, or hands the one it has to the new guest.
LEMMA HeldForCreatesOrHandsOver ==
    ASSUME NEW bs \in BookingTable, OneHold(bs), NEW t \in Tables, NEW g \in Guests,
           RoomForHold(bs, t)
    PROVE  \/ Holds(bs, t) = {}
              /\ \E b \in Bookings : Creates(bs, HeldFor(bs, t, g), b, t, None)
           \/ \E h \in Holds(bs, t) : HandsOver(bs, HeldFor(bs, t, g), h)
<1>1. CASE Hold(bs, t) = None
  <2>1. Holds(bs, t) = {} /\ RoomFor(bs)
    BY <1>1, TheHold DEF RoomForHold
  <2>2. HeldFor(bs, t, g) = WithNew(bs, t, g, None)
    BY <1>1 DEF HeldFor
  <2>3. \E b \in Bookings : Creates(bs, WithNew(bs, t, g, None), b, t, None)
    BY <2>1, NewRowIsCreated
  <2> QED
    BY <2>1, <2>2, <2>3
<1>2. CASE Hold(bs, t) # None
  <2>1. Hold(bs, t) \in Holds(bs, t) /\ Reconciled(bs, t) = bs
    BY <1>2, TheHold
  <2>2. HeldFor(bs, t, g) = [bs EXCEPT ![Hold(bs, t)].guest = g]
    BY <1>2, <2>1 DEF HeldFor
  <2>3. Hold(bs, t) \in Bookings
    BY <2>1 DEF Holds, ActiveBookings
  <2>4. HandsOver(bs, [bs EXCEPT ![Hold(bs, t)].guest = g], Hold(bs, t))
    BY <2>3, GuestHandsOver
  <2> QED
    BY <2>1, <2>2, <2>4
<1> QED
  BY <1>1, <1>2

-----------------------------------------------------------------------------
(* What the rows keep true among themselves *)

RowsFit(bs) ==
    /\ bs \in BookingTable
    /\ OneHold(bs)
    /\ \A b \in Bookings : bs[b].status = "active" => bs[b].table \in Tables
    /\ \A b, c \in Bookings :
          /\ bs[b].status = "active" /\ bs[c].status = "active"
          /\ bs[b].slot # None
          /\ bs[b].table = bs[c].table /\ bs[b].slot = bs[c].slot
          => b = c

\* A row created where it has no rival leaves no two that clash.
LEMMA CreatedRowsFit ==
    ASSUME NEW bs, RowsFit(bs), NEW cs, NEW b, NEW t \in Tables, NEW slot,
           Creates(bs, cs, b, t, slot),
           slot = None => Holds(bs, t) = {},
           slot # None => Booked(bs, t, slot) = {}
    PROVE  RowsFit(cs)
<1> USE DEF RowsFit
<1>1. cs \in BookingTable /\ b \in Bookings
  BY DEF Creates, OnlyRow
<1>2. OneHold(cs)
  <2> SUFFICES ASSUME NEW u \in Tables, NEW c \in Holds(cs, u), NEW d \in Holds(cs, u)
               PROVE  c = d
    BY DEF OneHold
  <2>1. Holds(cs, u) = Holds(bs, u) \cup (IF u = t /\ slot = None THEN {b} ELSE {})
    BY CreatedBookings
  <2>2. \A x, y \in Holds(bs, u) : x = y
    BY DEF OneHold
  <2> QED
    BY <2>1, <2>2
<1>3. \A c \in Bookings : cs[c].status = "active" => cs[c].table \in Tables
  BY DEF Creates, OnlyRow
<1>4. ASSUME NEW c \in Bookings, NEW d \in Bookings,
             cs[c].status = "active", cs[d].status = "active",
             cs[c].slot # None,
             cs[c].table = cs[d].table, cs[c].slot = cs[d].slot
      PROVE  c = d
  <2>1. ASSUME NEW x \in Bookings, x # b, cs[x].status = "active",
               cs[x].table = t, cs[x].slot = slot, slot # None
        PROVE  FALSE
    <3>1. cs[x] = bs[x]
      BY <2>1 DEF Creates, OnlyRow
    <3>2. x \in Booked(bs, t, slot)
      BY <2>1, <3>1 DEF Booked, ActiveBookings
    <3> QED
      BY <2>1, <3>2
  <2>2. cs[b].table = t /\ cs[b].slot = slot
    BY DEF Creates
  <2>3. CASE c = b
    BY <1>4, <2>1, <2>2, <2>3
  <2>4. CASE d = b
    BY <1>4, <2>1, <2>2, <2>4
  <2>5. CASE c # b /\ d # b
    <3>1. cs[c] = bs[c] /\ cs[d] = bs[d]
      BY <2>5 DEF Creates, OnlyRow
    <3> QED
      BY <1>4, <3>1
  <2> QED
    BY <2>3, <2>4, <2>5
<1> QED
  BY <1>1, <1>2, <1>3, <1>4

\* Handing a hold over makes no rows clash.
LEMMA HandedOverRowsFit ==
    ASSUME NEW bs, RowsFit(bs), NEW cs, NEW b, HandsOver(bs, cs, b)
    PROVE  RowsFit(cs)
<1> USE DEF RowsFit
<1>1. cs \in BookingTable
  BY DEF HandsOver, OnlyRow
<1>2. ASSUME NEW c \in Bookings
      PROVE  /\ cs[c].table = bs[c].table
             /\ cs[c].slot = bs[c].slot
             /\ cs[c].status = bs[c].status
  BY DEF HandsOver, OnlyRow
<1>3. OneHold(cs)
  BY HandedOverBookings DEF OneHold
<1> QED
  BY <1>1, <1>2, <1>3

\* Ending a row makes no rows clash.
LEMMA EndedRowsFit ==
    ASSUME NEW bs, RowsFit(bs), NEW cs, NEW b, Ends(bs, cs, b)
    PROVE  RowsFit(cs)
<1> USE DEF RowsFit
<1>1. cs \in BookingTable
  BY DEF Ends, OnlyRow
<1>2. ASSUME NEW c \in Bookings, cs[c].status = "active"
      PROVE  cs[c] = bs[c]
  BY <1>2 DEF Ends, OnlyRow
<1>3. OneHold(cs)
  <2> SUFFICES ASSUME NEW u \in Tables PROVE \A x, y \in Holds(cs, u) : x = y
    BY DEF OneHold
  <2>1. Holds(cs, u) = Holds(bs, u) \ {b}
    BY EndedBookings
  <2> QED
    BY <2>1 DEF OneHold
<1> QED
  BY <1>1, <1>2, <1>3

-----------------------------------------------------------------------------
(* The floor and its rows agree *)

\* TypeOK and the four invariants below, with what makes them inductive: the
\* rows agree among themselves, and an active order's table has been visited
\* (DeleteTable looks for orders that ever sat there).
FloorFits(st, bs) ==
    \A t \in Tables : st[t] = "reserved" <=> Holds(bs, t) # {}

IInv ==
    /\ TypeOK
    /\ RowsFit(bookings)
    /\ FloorFits(status, bookings)
    /\ GuestsAreOnTheFloor
    /\ seated \subseteq visited
    /\ DeletedTablesAreBare

\* Rows change at one table at a time.
LEMMA OtherTablesKeepTheirRows ==
    ASSUME NEW bs \in BookingTable, NEW cs, NEW b, NEW t, NEW u, u # t,
           \/ \E slot \in Slots \cup {None} : Creates(bs, cs, b, t, slot)
           \/ HandsOver(bs, cs, b)
           \/ Ends(bs, cs, b) /\ bs[b].table = t
    PROVE  /\ ActiveBookings(cs, u) = ActiveBookings(bs, u)
           /\ Holds(cs, u) = Holds(bs, u)
<1>1. CASE \E slot \in Slots \cup {None} : Creates(bs, cs, b, t, slot)
  <2>1. PICK slot \in Slots \cup {None} : Creates(bs, cs, b, t, slot)
    BY <1>1
  <2>2. /\ ActiveBookings(cs, u) =
              ActiveBookings(bs, u) \cup (IF u = t THEN {b} ELSE {})
        /\ Holds(cs, u) =
              Holds(bs, u) \cup (IF u = t /\ slot = None THEN {b} ELSE {})
    BY <2>1, CreatedBookings
  <2> QED
    BY <2>2
<1>2. CASE HandsOver(bs, cs, b)
  BY <1>2, HandedOverBookings
<1>3. CASE Ends(bs, cs, b) /\ bs[b].table = t
  <2>1. b \notin ActiveBookings(bs, u)
    BY <1>3 DEF ActiveBookings
  <2>2. b \notin Holds(bs, u)
    BY <2>1 DEF Holds
  <2> QED
    BY <1>3, <2>1, <2>2, EndedBookings
<1> QED
  BY <1>1, <1>2, <1>3

\* What one handler does to the rows of table t.
Keeps(bs, cs) == cs = bs
Opens(bs, cs, t) ==
    Holds(bs, t) = {} /\ \E b \in Bookings : Creates(bs, cs, b, t, None)
Passes(bs, cs, t) == \E h \in Holds(bs, t) : HandsOver(bs, cs, h)
Drops(bs, cs, t) == \E h \in Holds(bs, t) : Ends(bs, cs, h)

\* The hold of a table is opened, passed on, dropped or kept: what its rows are
\* then, and that the other tables' are what they were.
LEMMA HoldSteps ==
    ASSUME NEW bs, RowsFit(bs), NEW cs, NEW t \in Tables,
           Keeps(bs, cs) \/ Opens(bs, cs, t) \/ Passes(bs, cs, t) \/ Drops(bs, cs, t)
    PROVE  /\ RowsFit(cs)
           /\ \A u \in Tables : u # t =>
                 /\ ActiveBookings(cs, u) = ActiveBookings(bs, u)
                 /\ Holds(cs, u) = Holds(bs, u)
           /\ Opens(bs, cs, t) \/ Passes(bs, cs, t) => Holds(cs, t) # {}
           /\ Drops(bs, cs, t) => Holds(cs, t) = {}
           /\ \A b \in Bookings :
                 bs[b].status = "active" /\ bs[b].slot # None => cs[b] = bs[b]
<1>0. bs \in BookingTable /\ OneHold(bs)
  BY DEF RowsFit
<1>1. CASE Opens(bs, cs, t)
  <2>1. PICK b \in Bookings : Creates(bs, cs, b, t, None)
    BY <1>1 DEF Opens
  <2>2. Holds(bs, t) = {}
    BY <1>1 DEF Opens
  <2>3. Holds(cs, t) = {b}
    BY <1>0, <2>1, <2>2, CreatedBookings
  <2>4. RowsFit(cs)
    BY <2>1, <2>2, CreatedRowsFit
  <2>5. ~ Drops(bs, cs, t)
    BY <2>2 DEF Drops
  <2>6. \A c \in Bookings : bs[c].status = "active" => cs[c] = bs[c]
    BY <2>1 DEF Creates, OnlyRow
  <2>7. \A u \in Tables : u # t =>
          /\ ActiveBookings(cs, u) = ActiveBookings(bs, u)
          /\ Holds(cs, u) = Holds(bs, u)
    BY <1>0, <2>1, OtherTablesKeepTheirRows
  <2> QED
    BY <2>3, <2>4, <2>5, <2>6, <2>7
<1>2. CASE Passes(bs, cs, t)
  <2>1. PICK h \in Holds(bs, t) : HandsOver(bs, cs, h)
    BY <1>2 DEF Passes
  <2>2. /\ \A u : ActiveBookings(cs, u) = ActiveBookings(bs, u)
        /\ \A u : Holds(cs, u) = Holds(bs, u)
    BY <1>0, <2>1, HandedOverBookings
  <2>3. RowsFit(cs)
    BY <2>1, HandedOverRowsFit
  <2>4. bs[h].slot = None /\ h \in Bookings /\ bs[h].status = "active"
    BY <2>1 DEF Holds, ActiveBookings
  <2>5. \A c \in Bookings : bs[c].slot # None => cs[c] = bs[c]
    BY <2>1, <2>4 DEF HandsOver, OnlyRow
  <2>6. ~ Drops(bs, cs, t)
    <3> SUFFICES ASSUME NEW k \in Holds(bs, t), Ends(bs, cs, k) PROVE FALSE
      BY DEF Drops
    <3>1. k = h
      BY <1>0, <2>1 DEF OneHold
    <3>2. cs[h].status = "active" /\ cs[h].status \in {"seated", "cancelled"}
      BY <2>1, <2>4, <3>1 DEF HandsOver, Ends
    <3> QED
      BY <3>2
  <2> QED
    BY <2>1, <2>2, <2>3, <2>5, <2>6
<1>3. CASE Drops(bs, cs, t)
  <2>1. PICK h \in Holds(bs, t) : Ends(bs, cs, h)
    BY <1>3 DEF Drops
  <2>2. bs[h].slot = None /\ bs[h].table = t /\ h \in Bookings /\ bs[h].status = "active"
    BY <2>1 DEF Holds, ActiveBookings
  <2>3. Holds(cs, t) = {}
    BY <1>0, <2>1, EndedBookings DEF OneHold
  <2>4. RowsFit(cs)
    BY <2>1, EndedRowsFit
  <2>5. \A c \in Bookings : bs[c].slot # None => cs[c] = bs[c]
    BY <2>1, <2>2 DEF Ends, OnlyRow
  <2>6. ~ Opens(bs, cs, t)
    BY <2>1 DEF Opens
  <2>7. ~ Passes(bs, cs, t)
    <3> SUFFICES ASSUME NEW k \in Holds(bs, t), HandsOver(bs, cs, k) PROVE FALSE
      BY DEF Passes
    <3>1. k = h
      BY <1>0, <2>1 DEF OneHold
    <3>2. cs[h].status = "active" /\ cs[h].status \in {"seated", "cancelled"}
      BY <2>1, <2>2, <3>1 DEF HandsOver, Ends
    <3> QED
      BY <3>2
  <2>8. \A u \in Tables : u # t =>
          /\ ActiveBookings(cs, u) = ActiveBookings(bs, u)
          /\ Holds(cs, u) = Holds(bs, u)
    BY <1>0, <2>1, <2>2, OtherTablesKeepTheirRows
  <2> QED
    BY <2>3, <2>4, <2>5, <2>6, <2>7, <2>8
<1>4. CASE Keeps(bs, cs) /\ ~Opens(bs, cs, t) /\ ~Passes(bs, cs, t) /\ ~Drops(bs, cs, t)
  BY <1>4 DEF Keeps
<1> QED
  BY <1>1, <1>2, <1>3, <1>4

-----------------------------------------------------------------------------
(* Every handler keeps the invariant *)

\* An empty floor without reservations fits.
LEMMA InitFits == Init => IInv
<1> SUFFICES ASSUME Init PROVE IInv
  OBVIOUS
<1> USE DEF Init
<1>1. NoBooking \in Booking
  BY DEF NoBooking, Booking, BookingStatus
<1>2. TypeOK
  BY <1>1 DEF TypeOK, TableStatus
<1>3. bookings \in BookingTable
  BY <1>1 DEF BookingTable
<1>4. \A b \in Bookings : bookings[b].status = "none"
  BY DEF NoBooking
<1>5. \A t : ActiveBookings(bookings, t) = {} /\ Holds(bookings, t) = {}
  BY <1>4 DEF ActiveBookings, Holds
<1>6. RowsFit(bookings)
  BY <1>3, <1>4, <1>5 DEF RowsFit, OneHold
<1>7. FloorFits(status, bookings)
  BY <1>5 DEF FloorFits
<1>8. GuestsAreOnTheFloor /\ seated \subseteq visited /\ DeletedTablesAreBare
  BY DEF GuestsAreOnTheFloor, DeletedTablesAreBare, IsOpen
<1> QED
  BY <1>2, <1>6, <1>7, <1>8 DEF IInv

\* A handler of table t that opens, passes on, drops or keeps its hold: the
\* invariant survives when the status it writes says what became of the hold,
\* the order and the table.
LEMMA HandlerKeepsFit ==
    ASSUME IInv, NEW t \in Tables, NEW next \in TableStatus,
           SetStatus(t, next),
           \/ Keeps(bookings, bookings') /\ (next = "reserved" <=> Holds(bookings, t) # {})
           \/ Opens(bookings, bookings', t) /\ next = "reserved"
           \/ Passes(bookings, bookings', t) /\ next = "reserved"
           \/ Drops(bookings, bookings', t) /\ next # "reserved",
           seated' \in SUBSET Tables, visited' \in SUBSET Tables,
           seated' \subseteq visited',
           next = "occupied" <=> t \in seated',
           \A u \in Tables : u # t => (u \in seated' <=> u \in seated),
           \A u \in Tables : u # t => (u \in visited' <=> u \in visited),
           next = "deleted" => /\ Keeps(bookings, bookings')
                               /\ ActiveBookings(bookings, t) = {}
                               /\ t \notin visited'
    PROVE  IInv'
<1> USE DEF IInv
<1>1. status \in [Tables -> TableStatus] /\ status' = [status EXCEPT ![t] = next]
  BY DEF TypeOK, SetStatus
<1>2. status' \in [Tables -> TableStatus]
  BY <1>1
<1>3. status'[t] = next /\ \A u \in Tables : u # t => status'[u] = status[u]
  BY <1>1
<1>4. /\ RowsFit(bookings')
      /\ \A u \in Tables : u # t =>
            /\ ActiveBookings(bookings', u) = ActiveBookings(bookings, u)
            /\ Holds(bookings', u) = Holds(bookings, u)
  BY HoldSteps
<1>5. next = "reserved" <=> Holds(bookings', t) # {}
  <2>1. CASE Keeps(bookings, bookings') /\ (next = "reserved" <=> Holds(bookings, t) # {})
    BY <2>1 DEF Keeps
  <2>2. CASE Opens(bookings, bookings', t) /\ next = "reserved"
    BY <2>2, HoldSteps
  <2>3. CASE Passes(bookings, bookings', t) /\ next = "reserved"
    BY <2>3, HoldSteps
  <2>4. CASE Drops(bookings, bookings', t) /\ next # "reserved"
    BY <2>4, HoldSteps
  <2> QED
    BY <2>1, <2>2, <2>3, <2>4
<1>6. TypeOK'
  BY <1>2, <1>4 DEF TypeOK, RowsFit, BookingTable
<1>7. FloorFits(status', bookings')
  BY <1>3, <1>4, <1>5 DEF FloorFits
<1>8. GuestsAreOnTheFloor'
  BY <1>3 DEF GuestsAreOnTheFloor, IsOpen
<1>9. DeletedTablesAreBare'
  BY <1>3, <1>4 DEF DeletedTablesAreBare, Keeps
<1> QED
  BY <1>4, <1>6, <1>7, <1>8, <1>9

\* The bookings for later that a step leaves as they were.
LaterKept ==
    \A b \in Bookings :
        bookings[b].status = "active" /\ bookings[b].slot # None
        => bookings'[b] = bookings[b]

\* A table reads what its hold and its order say.
LEMMA TableReads ==
    ASSUME IInv, NEW t \in Tables
    PROVE  /\ status[t] = "reserved" <=> Holds(bookings, t) # {}
           /\ Hold(bookings, t) = None <=> Holds(bookings, t) = {}
           /\ status[t] = "occupied" <=> t \in seated
           /\ status[t] = "deleted" => ActiveBookings(bookings, t) = {} /\ t \notin visited
           /\ bookings \in BookingTable /\ OneHold(bookings)
           /\ seated \in SUBSET Tables /\ visited \in SUBSET Tables
           /\ seated \subseteq visited
<1>1. bookings \in BookingTable /\ OneHold(bookings)
  BY DEF IInv, RowsFit
<1>2. Hold(bookings, t) = None <=> Holds(bookings, t) = {}
  BY <1>1, TheHold
<1> QED
  BY <1>1, <1>2 DEF IInv, FloorFits, GuestsAreOnTheFloor, DeletedTablesAreBare, IsOpen, TypeOK

\* Whatever becomes of a table's hold, bookings for later stay.
LEMMA StepIsKept ==
    ASSUME IInv, NEW t \in Tables,
           \/ Keeps(bookings, bookings') \/ Opens(bookings, bookings', t)
           \/ Passes(bookings, bookings', t) \/ Drops(bookings, bookings', t)
    PROVE  LaterKept
<1>1. RowsFit(bookings)
  BY DEF IInv
<1>2. \A b \in Bookings :
        bookings[b].status = "active" /\ bookings[b].slot # None
        => bookings'[b] = bookings[b]
  BY <1>1, HoldSteps
<1> QED
  BY <1>2 DEF LaterKept

\* OpenOrder seats the hold of a reserved table or leaves the rows alone.
LEMMA OpenOrderFits ==
    ASSUME IInv, NEW t \in Tables, NEW seat \in BOOLEAN, OpenOrder(t, seat)
    PROVE  IInv' /\ LaterKept
<1>1. /\ t \notin seated
      /\ seat <=> status[t] = "reserved"
      /\ seat => Hold(bookings, t) # None
      /\ SetStatus(t, "occupied")
      /\ bookings' = SeatedHold(bookings, t, seat)
      /\ seated' = seated \cup {t} /\ visited' = visited \cup {t}
  BY DEF OpenOrder, MayOpen, IsOpen
<1>2. \/ Keeps(bookings, bookings') /\ Holds(bookings, t) = {}
      \/ Drops(bookings, bookings', t)
  <2>1. CASE seat
    <3>1. bookings' = HoldResolved(bookings, t, "seated")
      BY <1>1, <2>1 DEF SeatedHold
    <3>2. \E h \in Holds(bookings, t) : Ends(bookings, HoldResolved(bookings, t, "seated"), h)
      BY <1>1, <2>1, TableReads, HoldResolvedEnds
    <3> QED
      BY <3>1, <3>2 DEF Drops
  <2>2. CASE ~ seat
    BY <1>1, <2>2, TableReads DEF SeatedHold, Keeps
  <2> QED
    BY <2>1, <2>2
<1>3. LaterKept
  BY <1>2, StepIsKept
<1>4. IInv'
  BY <1>1, <1>2, TableReads, HandlerKeepsFit DEF TableStatus
<1> QED
  BY <1>3, <1>4

\* A table with an order has no hold, so closing the order frees it.
LEMMA CloseOrderFits ==
    ASSUME IInv, NEW t \in Tables, CloseOrder(t)
    PROVE  IInv' /\ LaterKept
<1>1. /\ t \in seated
      /\ SetStatus(t, "free")
      /\ Keeps(bookings, bookings')
      /\ seated' = seated \ {t} /\ visited' = visited
  BY DEF CloseOrder, IsOpen, Keeps
<1>2. Holds(bookings, t) = {}
  BY <1>1, TableReads
<1>3. LaterKept
  BY <1>1, StepIsKept
<1>4. IInv'
  BY <1>1, <1>2, TableReads, HandlerKeepsFit DEF TableStatus
<1> QED
  BY <1>3, <1>4

\* Holding a table for a guest, from the reservation form or the status menu.
LEMMA HeldForFits ==
    ASSUME IInv, NEW t \in Tables, NEW g \in Guests, RoomForHold(bookings, t),
           t \notin seated,
           SetStatus(t, "reserved"), bookings' = HeldFor(bookings, t, g),
           seated' = seated, visited' = visited
    PROVE  IInv' /\ LaterKept
<1>1. Opens(bookings, bookings', t) \/ Passes(bookings, bookings', t)
  <2>1. bookings \in BookingTable /\ OneHold(bookings)
    BY TableReads
  <2>2. \/ Holds(bookings, t) = {}
           /\ \E b \in Bookings : Creates(bookings, HeldFor(bookings, t, g), b, t, None)
        \/ \E h \in Holds(bookings, t) : HandsOver(bookings, HeldFor(bookings, t, g), h)
    BY <2>1, HeldForCreatesOrHandsOver
  <2> QED
    BY <2>2 DEF Opens, Passes
<1>2. LaterKept
  BY <1>1, StepIsKept
<1>3. IInv'
  BY <1>1, TableReads, HandlerKeepsFit DEF TableStatus
<1> QED
  BY <1>2, <1>3

\* Releasing a hold, from the cancel button or the status menu.
LEMMA ReleaseFits ==
    ASSUME IInv, NEW t \in Tables, NEW next \in TableStatus,
           Hold(bookings, t) # None,
           SetStatus(t, next), next \notin {"reserved", "deleted"},
           next = "occupied" <=> t \in seated,
           bookings' = HoldResolved(bookings, t, "cancelled"),
           seated' = seated, visited' = visited
    PROVE  IInv' /\ LaterKept
<1>1. Drops(bookings, bookings', t)
  <2>1. bookings \in BookingTable /\ OneHold(bookings)
    BY TableReads
  <2>2. \E h \in Holds(bookings, t) : Ends(bookings, HoldResolved(bookings, t, "cancelled"), h)
    BY <2>1, HoldResolvedEnds
  <2> QED
    BY <2>2 DEF Drops
<1>2. LaterKept
  BY <1>1, StepIsKept
<1>3. IInv'
  BY <1>1, TableReads, HandlerKeepsFit
<1> QED
  BY <1>2, <1>3

\* ReserveTable without an instant.
LEMMA ReserveTableFits ==
    ASSUME IInv, NEW t \in Tables, NEW g \in Guests, ReserveTable(t, g)
    PROVE  IInv' /\ LaterKept
  BY HeldForFits DEF ReserveTable, MayHold, IsOpen

\* releaseReservedTable: a table that may be released has a hold.
LEMMA CancelReservationFits ==
    ASSUME IInv, NEW t \in Tables, CancelReservation(t)
    PROVE  IInv' /\ LaterKept
<1>1. Hold(bookings, t) # None /\ t \notin seated
  BY TableReads DEF CancelReservation, MayCancel, IsOpen
<1> QED
  BY <1>1, ReleaseFits DEF CancelReservation, TableStatus

\* The status menu holds, releases or only relabels the table.
LEMMA UpdateTableStatusFits ==
    ASSUME IInv, NEW t \in Tables, NEW next \in TableStatus \ {"deleted"},
           NEW g \in Guests, UpdateTableStatus(t, next, g)
    PROVE  IInv' /\ LaterKept
<1>1. /\ t \in seated <=> next = "occupied"
      /\ SetStatus(t, next) /\ RoomForHold(bookings, t)
      /\ bookings' = SetBookings(bookings, t, status[t], next, g)
      /\ seated' = seated /\ visited' = visited
  BY DEF UpdateTableStatus, MaySet, IsOpen
<1>2. CASE next = "reserved"
  <2>1. bookings' = HeldFor(bookings, t, g)
    BY <1>1, <1>2 DEF SetBookings
  <2> QED
    BY <1>1, <1>2, <2>1, HeldForFits
<1>3. CASE next # "reserved" /\ (status[t] = "reserved" \/ Hold(bookings, t) # None)
  <2>1. bookings' = HoldResolved(bookings, t, "cancelled")
    BY <1>1, <1>3 DEF SetBookings
  <2>2. Hold(bookings, t) # None
    BY <1>3, TableReads
  <2> QED
    BY <1>1, <1>3, <2>1, <2>2, ReleaseFits
<1>4. CASE next # "reserved" /\ ~ (status[t] = "reserved" \/ Hold(bookings, t) # None)
  <2>1. Keeps(bookings, bookings') /\ Holds(bookings, t) = {}
    BY <1>1, <1>4, TableReads DEF SetBookings, Keeps
  <2>2. LaterKept
    BY <2>1, StepIsKept
  <2>3. IInv'
    BY <1>1, <1>4, <2>1, TableReads, HandlerKeepsFit
  <2> QED
    BY <2>2, <2>3
<1> QED
  BY <1>2, <1>3, <1>4

\* The open/closed switch is refused on a table in service.
LEMMA UpdateTableFits ==
    ASSUME IInv, NEW t \in Tables, NEW next \in {"free", "inactive"}, UpdateTable(t, next)
    PROVE  IInv' /\ LaterKept
<1>1. /\ t \notin seated /\ status[t] # "reserved"
      /\ SetStatus(t, next) /\ Keeps(bookings, bookings')
      /\ seated' = seated /\ visited' = visited
  BY DEF UpdateTable, InService, IsOpen, Keeps
<1>2. LaterKept
  BY <1>1, StepIsKept
<1>3. IInv'
  BY <1>1, TableReads, HandlerKeepsFit DEF TableStatus
<1> QED
  BY <1>2, <1>3

\* DeleteTable looks for orders and bookings before it deletes.
LEMMA DeleteTableFits ==
    ASSUME IInv, NEW t \in Tables, DeleteTable(t)
    PROVE  IInv' /\ LaterKept
<1>1. /\ t \notin seated /\ status[t] # "reserved"
      /\ ActiveBookings(bookings, t) = {} /\ t \notin visited
      /\ SetStatus(t, "deleted") /\ Keeps(bookings, bookings')
      /\ seated' = seated /\ visited' = visited
  BY DEF DeleteTable, InService, IsOpen, Keeps
<1>2. LaterKept
  BY <1>1, StepIsKept
<1>3. IInv'
  BY <1>1, TableReads, HandlerKeepsFit DEF TableStatus
<1> QED
  BY <1>2, <1>3

\* A booking for later joins a table that is not deleted, unless the same
\* guest has it already.
LEMMA ScheduleReservationFits ==
    ASSUME IInv, NEW t \in Tables, NEW g \in Guests, NEW slot \in Slots,
           ScheduleReservation(t, g, slot)
    PROVE  IInv' /\ LaterKept
<1>1. /\ status[t] # "deleted" /\ RoomFor(bookings)
      /\ bookings' = ScheduledFor(bookings, t, g, slot)
      /\ status' = status /\ seated' = seated /\ visited' = visited
  BY DEF ScheduleReservation, MaySchedule
<1>2. slot # None
  BY TableFloorAssumption
<1>3. bookings \in BookingTable
  BY TableReads
<1>4. CASE Booked(bookings, t, slot) # {}
  <2>1. bookings' = bookings
    BY <1>1, <1>4 DEF ScheduledFor
  <2> QED
    BY <1>1, <2>1 DEF IInv, LaterKept, TypeOK, GuestsAreOnTheFloor, DeletedTablesAreBare, IsOpen
<1>5. CASE Booked(bookings, t, slot) = {}
  <2>1. bookings' = WithNew(bookings, t, g, slot)
    BY <1>1, <1>5 DEF ScheduledFor
  <2>2. \E b \in Bookings : Creates(bookings, WithNew(bookings, t, g, slot), b, t, slot)
    BY <1>1, <1>3, NewRowIsCreated
  <2>3. PICK b \in Bookings : Creates(bookings, bookings', b, t, slot)
    BY <2>1, <2>2
  <2>4. RowsFit(bookings')
    BY <1>2, <1>5, <2>3, CreatedRowsFit DEF IInv
  <2>5. \A u \in Tables :
          /\ ActiveBookings(bookings', u) =
                ActiveBookings(bookings, u) \cup (IF u = t THEN {b} ELSE {})
          /\ Holds(bookings', u) =
                Holds(bookings, u) \cup (IF u = t /\ slot = None THEN {b} ELSE {})
    BY <1>3, <2>3, CreatedBookings
  <2>6. FloorFits(status', bookings')
    BY <1>1, <1>2, <2>5 DEF IInv, FloorFits
  <2>7. DeletedTablesAreBare'
    BY <1>1, <2>5 DEF IInv, DeletedTablesAreBare
  <2>8. TypeOK' /\ GuestsAreOnTheFloor' /\ (seated \subseteq visited)'
    BY <1>1, <2>4 DEF IInv, TypeOK, GuestsAreOnTheFloor, IsOpen, RowsFit, BookingTable
  <2>9. LaterKept
    BY <2>3 DEF LaterKept, Creates, OnlyRow
  <2> QED
    BY <2>4, <2>6, <2>7, <2>8, <2>9 DEF IInv
<1> QED
  BY <1>4, <1>5

\* Resolving a hold frees its table; resolving a booking for later leaves the
\* floor alone, and is the one way it ends.
LEMMA ResolveReservationFits ==
    ASSUME IInv, NEW b \in Bookings, NEW outcome \in {"seated", "cancelled"},
           ResolveReservation(b, outcome)
    PROVE  /\ IInv'
           /\ \/ LaterKept
              \/ /\ bookings[b].slot # None
                 /\ bookings' = Resolved(bookings, b, outcome)
                 /\ bookings'[b].status = outcome
                 /\ \A c \in Bookings : c # b => bookings'[c] = bookings[c]
                 /\ status' = status
<1> DEFINE t == bookings[b].table
           next == FreedBy(status[t], t \in seated, bookings[b])
<1>1. /\ bookings[b].status = "active"
      /\ SetStatus(t, next)
      /\ bookings' = Resolved(bookings, b, outcome)
      /\ seated' = seated /\ visited' = visited
  BY DEF ResolveReservation, IsOpen
<1>2. bookings \in BookingTable /\ OneHold(bookings) /\ t \in Tables
  BY <1>1 DEF IInv, RowsFit
<1>3. Ends(bookings, bookings', b)
  BY <1>1, <1>2, ResolvedEnds
<1>4. b \in ActiveBookings(bookings, t)
  BY <1>1 DEF ActiveBookings
<1>5. status \in [Tables -> TableStatus]
  BY DEF IInv, TypeOK
<1>6. CASE bookings[b].slot = None
  <2>1. b \in Holds(bookings, t)
    BY <1>4, <1>6 DEF Holds
  <2>2. Drops(bookings, bookings', t)
    BY <1>3, <2>1 DEF Drops
  <2>3. status[t] = "reserved" /\ t \notin seated
    BY <1>2, <2>1, TableReads
  <2>4. next = "free"
    BY <1>6, <2>3 DEF FreedBy
  <2>5. SetStatus(t, "free")
    BY <1>1, <2>4
  <2>6. LaterKept
    BY <1>2, <2>2, StepIsKept
  <2>7. IInv'
    <3> HIDE DEF t, next
    <3> QED
      BY <1>1, <1>2, <2>2, <2>3, <2>5, TableReads, HandlerKeepsFit DEF TableStatus
  <2> QED
    BY <2>6, <2>7
<1>7. CASE bookings[b].slot # None
  <2>1. next = status[t]
    BY <1>7 DEF FreedBy
  <2>2. status' = status
    BY <1>1, <1>5, <2>1 DEF SetStatus
  <2>3. RowsFit(bookings')
    BY <1>3, EndedRowsFit DEF IInv
  <2>4. \A u \in Tables : /\ ActiveBookings(bookings', u) = ActiveBookings(bookings, u) \ {b}
                          /\ Holds(bookings', u) = Holds(bookings, u) \ {b}
    BY <1>2, <1>3, EndedBookings
  <2>5. \A u \in Tables : b \notin Holds(bookings, u)
    BY <1>7 DEF Holds
  <2>6. FloorFits(status', bookings')
    BY <2>2, <2>4, <2>5 DEF IInv, FloorFits
  <2>7. DeletedTablesAreBare'
    BY <1>1, <2>2, <2>4 DEF IInv, DeletedTablesAreBare
  <2>8. TypeOK' /\ GuestsAreOnTheFloor' /\ (seated \subseteq visited)'
    BY <1>1, <2>2, <2>3 DEF IInv, TypeOK, GuestsAreOnTheFloor, IsOpen, RowsFit, BookingTable
  <2>9. IInv'
    BY <2>3, <2>6, <2>7, <2>8 DEF IInv
  <2>10. \A c \in Bookings : c # b => bookings'[c] = bookings[c]
    BY <1>3 DEF Ends, OnlyRow
  <2>11. bookings'[b].status = outcome
    <3>1. bookings[b] \in Booking
      BY <1>2 DEF BookingTable
    <3>2. bookings'[b] = [bookings[b] EXCEPT !.status = outcome]
      BY <1>1, <1>2 DEF Resolved, BookingTable
    <3> QED
      BY <3>1, <3>2 DEF Booking
  <2> QED
    BY <1>1, <1>7, <2>2, <2>9, <2>10, <2>11
<1> QED
  BY <1>6, <1>7

OwnResolution(b) ==
    /\ bookings' = Resolved(bookings, b, bookings'[b].status)
    /\ status' = status

\* One handler of any table or reservation keeps the invariant, and leaves every
\* booking for later alone but the one it resolves by its id.
LEMMA NextFits ==
    ASSUME IInv, Next
    PROVE  /\ IInv'
           /\ \A b \in Bookings :
                 bookings[b].status = "active" /\ bookings[b].slot # None
                 /\ bookings'[b] # bookings[b]
                 => OwnResolution(b)
<1>1. ASSUME LaterKept
      PROVE  \A b \in Bookings :
                bookings[b].status = "active" /\ bookings[b].slot # None
                /\ bookings'[b] # bookings[b]
                => OwnResolution(b)
  BY <1>1 DEF LaterKept
<1>2. ASSUME NEW t \in Tables, NEW seat \in BOOLEAN, OpenOrder(t, seat)
      PROVE  IInv' /\ LaterKept
  BY <1>2, OpenOrderFits
<1>3. ASSUME NEW t \in Tables, CloseOrder(t)
      PROVE  IInv' /\ LaterKept
  BY <1>3, CloseOrderFits
<1>4. ASSUME NEW t \in Tables, NEW g \in Guests, ReserveTable(t, g)
      PROVE  IInv' /\ LaterKept
  BY <1>4, ReserveTableFits
<1>5. ASSUME NEW t \in Tables, NEW g \in Guests, NEW slot \in Slots,
             ScheduleReservation(t, g, slot)
      PROVE  IInv' /\ LaterKept
  BY <1>5, ScheduleReservationFits
<1>6. ASSUME NEW t \in Tables, CancelReservation(t)
      PROVE  IInv' /\ LaterKept
  BY <1>6, CancelReservationFits
<1>7. ASSUME NEW t \in Tables, NEW next \in TableStatus \ {"deleted"},
             NEW g \in Guests, UpdateTableStatus(t, next, g)
      PROVE  IInv' /\ LaterKept
  BY <1>7, UpdateTableStatusFits
<1>8. ASSUME NEW t \in Tables, NEW next \in {"free", "inactive"}, UpdateTable(t, next)
      PROVE  IInv' /\ LaterKept
  BY <1>8, UpdateTableFits
<1>9. ASSUME NEW t \in Tables, DeleteTable(t)
      PROVE  IInv' /\ LaterKept
  BY <1>9, DeleteTableFits
<1>10. ASSUME NEW b \in Bookings, NEW outcome \in {"seated", "cancelled"},
              ResolveReservation(b, outcome)
       PROVE  /\ IInv'
              /\ \A c \in Bookings :
                    bookings[c].status = "active" /\ bookings[c].slot # None
                    /\ bookings'[c] # bookings[c]
                    => OwnResolution(c)
  <2>1. CASE LaterKept
    BY <1>10, <2>1, <1>1, ResolveReservationFits
  <2>2. CASE ~ LaterKept
    <3>1. /\ IInv'
          /\ bookings' = Resolved(bookings, b, outcome)
          /\ bookings'[b].status = outcome
          /\ \A c \in Bookings : c # b => bookings'[c] = bookings[c]
          /\ status' = status
      BY <1>10, <2>2, ResolveReservationFits
    <3>2. OwnResolution(b)
      BY <3>1 DEF OwnResolution
    <3> QED
      BY <3>1, <3>2
  <2> QED
    BY <2>1, <2>2
<1>11. CASE LaterKept /\ IInv'
  BY <1>1, <1>11
<1>12. CASE \E b \in Bookings, outcome \in {"seated", "cancelled"} :
               ResolveReservation(b, outcome)
  BY <1>10, <1>12
<1>13. CASE ~ \E b \in Bookings, outcome \in {"seated", "cancelled"} :
                 ResolveReservation(b, outcome)
  <2>1. LaterKept /\ IInv'
    BY <1>2, <1>3, <1>4, <1>5, <1>6, <1>7, <1>8, <1>9, <1>13 DEF Next
  <2> QED
    BY <1>11, <2>1
<1> QED
  BY <1>12, <1>13

\* A step outside the floor keeps the invariant.
LEMMA StutterFits ==
    ASSUME IInv, UNCHANGED vars
    PROVE  IInv'
  BY DEF vars, IInv, TypeOK, GuestsAreOnTheFloor, DeletedTablesAreBare, IsOpen

\* The inductive invariant of the floor.
THEOREM FloorIsFit == Spec => []IInv
<1>1. Init => IInv
  BY InitFits
<1>2. IInv /\ [Next]_vars => IInv'
  BY NextFits, StutterFits
<1> QED
  BY <1>1, <1>2, PTL DEF Spec

-----------------------------------------------------------------------------
(* The theorems *)

\* One hold at most, and the status says whether there is one.
LEMMA FitMeansOneHold ==
    ASSUME IInv
    PROVE  HoldsAreOnTheFloor
<1> SUFFICES ASSUME NEW t \in Tables
             PROVE  /\ status[t] = "reserved" <=> Holds(bookings, t) # {}
                    /\ Cardinality(Holds(bookings, t)) <= 1
  BY DEF HoldsAreOnTheFloor
<1>1. status[t] = "reserved" <=> Holds(bookings, t) # {}
  BY TableReads
<1>2. CASE Holds(bookings, t) = {}
  <2>1. Cardinality(Holds(bookings, t)) = 0
    BY <1>2, FS_EmptySet
  <2> QED
    BY <1>1, <2>1
<1>3. CASE Holds(bookings, t) # {}
  <2>1. PICK h \in Holds(bookings, t) : \A c \in Holds(bookings, t) : c = h
    BY <1>3, TableReads DEF OneHold
  <2>2. Holds(bookings, t) = {h}
    BY <2>1
  <2>3. Cardinality(Holds(bookings, t)) = 1
    BY <2>2, FS_Singleton
  <2> QED
    BY <1>1, <2>3
<1> QED
  BY <1>2, <1>3

\* A table reads reserved exactly while one active hold holds it, whatever
\* ReserveTable, UpdateTableStatus, releaseReservedTable, ResolveReservation and
\* the opening and closing of orders do to it, and in whatever order.
THEOREM HoldsShowOnTheFloor == Spec => []HoldsAreOnTheFloor
<1>1. IInv => HoldsAreOnTheFloor
  BY FitMeansOneHold
<1> QED
  BY <1>1, FloorIsFit, PTL

\* A table reads occupied exactly while an active order sits there.
THEOREM GuestsShowOnTheFloor == Spec => []GuestsAreOnTheFloor
<1>1. IInv => GuestsAreOnTheFloor
  BY DEF IInv
<1> QED
  BY <1>1, FloorIsFit, PTL

\* A table is booked at most once for an instant (scheduleReservation).
THEOREM SlotsAreBookedOnce == Spec => []OneBookingPerSlot
<1>1. IInv => OneBookingPerSlot
  BY DEF IInv, RowsFit, OneBookingPerSlot
<1> QED
  BY <1>1, FloorIsFit, PTL

\* A deleted table has no active booking and no order ever sat there, though
\* DeleteTable looks only once and bookings and orders come at any time.
THEOREM DeletedStayBare == Spec => []DeletedTablesAreBare
<1>1. IInv => DeletedTablesAreBare
  BY DEF IInv
<1> QED
  BY <1>1, FloorIsFit, PTL

\* A booking for later ends only by being resolved by its own id, and that
\* leaves the floor alone (ResolveReservation against the handlers of a table).
THEOREM LaterBookingsSurvive == Spec => BookingsForLaterSurvive
<1> DEFINE Survive ==
       \A b \in Bookings :
          bookings[b].status = "active" /\ bookings[b].slot # None
          /\ bookings'[b] # bookings[b]
          => /\ bookings' = Resolved(bookings, b, bookings'[b].status)
             /\ status' = status
<1>1. IInv /\ [Next]_vars => [Survive]_vars
  BY NextFits DEF OwnResolution
<1>2. Spec => [][Survive]_vars
  BY <1>1, FloorIsFit, PTL DEF Spec
<1> QED
  BY <1>2 DEF BookingsForLaterSurvive
=============================================================================
