-------------------------- MODULE TableLocksProofs --------------------------
(***************************************************************************)
(* That the handlers, run as interleaved transactions over row locks by    *)
(* any number of sessions, do to the floor what they do one at a time.     *)
(*                                                                         *)
(* The argument: every handler that writes a table holds that table's row, *)
(* and reads the orders and the bookings of the table after locking it; a  *)
(* handler touches no booking of another table.  So what a transaction has *)
(* read of a table it holds is still true when it commits, and the commit  *)
(* is the step of TableFloor.  Hence what is proved of TableFloor holds of *)
(* the interleaved handlers too.                                           *)
(***************************************************************************)
EXTENDS TableLocks, SequenceTheorems, WellFoundedInduction, TLAPS

BookingTable == [Floor!Bookings -> Floor!Booking]

\* Rows nobody has used belong to no table.
Blank(bs) == \A b \in Floor!Bookings : bs[b].status = "none" => bs[b].table = None

\* A handler at table t leaves the bookings of other tables alone.
OnlyAt(bs, cs, t) ==
    /\ cs \in BookingTable /\ Blank(cs)
    /\ \A b \in Floor!Bookings : bs[b].table \notin {t, None} => cs[b] = bs[b]

-----------------------------------------------------------------------------
(* What the handlers' operators do to the reservation rows *)

LEMMA BookingsAreNumbers == Floor!Bookings \in SUBSET Nat
BY TableLocksAssumption DEF Floor!Bookings

LEMMA Smallest ==
    ASSUME NEW S \in SUBSET Nat, S # {}
    PROVE  \E x \in S : \A y \in S : x <= y
<1>1. PICK x \in S : \A y \in S : ~ (<<y, x>> \in OpToRel(<, Nat))
  BY WFMin, NatLessThanWellFounded
<1>2. \A y \in S : ~ (y < x)
  BY <1>1 DEF OpToRel
<1> QED
  BY <1>2

\* The newest of a set of rows is one of them.
LEMMA NewestIsOne ==
    ASSUME NEW B \in SUBSET Floor!Bookings, B # {}
    PROVE  Floor!Newest(B) \in B
<1>1. \A b \in B : b \in Nat /\ NumBookings - b \in Nat
  BY TableLocksAssumption DEF Floor!Bookings
<1> DEFINE Distances == {NumBookings - b : b \in B}
<1>2. Distances \in SUBSET Nat /\ Distances # {}
  BY <1>1
<1>3. PICK d \in Distances : \A e \in Distances : d <= e
  BY <1>2, Smallest
<1>4. PICK b \in B : d = NumBookings - b
  BY <1>3
<1>5. ASSUME NEW c \in B
      PROVE  c <= b
  <2>1. NumBookings - b <= NumBookings - c
    BY <1>3, <1>4
  <2> QED
    BY <1>1, <2>1, TableLocksAssumption
<1> QED
  BY <1>4, <1>5 DEF Floor!Newest

\* findActiveReservation returns a hold of the table.
LEMMA HoldIsOfItsTable ==
    ASSUME NEW bs, NEW t, Floor!Holds(bs, t) # {}
    PROVE  /\ Floor!Hold(bs, t) \in Floor!Bookings
           /\ bs[Floor!Hold(bs, t)].table = t
           /\ bs[Floor!Hold(bs, t)].status = "active"
<1>1. Floor!Holds(bs, t) \in SUBSET Floor!Bookings
  BY DEF Floor!Holds, Floor!ActiveBookings
<1>2. Floor!Hold(bs, t) \in Floor!Holds(bs, t)
  BY <1>1, NewestIsOne DEF Floor!Hold
<1> QED
  BY <1>2 DEF Floor!Holds, Floor!ActiveBookings

LEMMA WithNewOnlyAt ==
    ASSUME NEW bs \in BookingTable, Blank(bs), Floor!RoomFor(bs), NEW t \in Tables,
           NEW g \in Guests \cup {None}, NEW slot \in Slots \cup {None}
    PROVE  /\ OnlyAt(bs, Floor!WithNew(bs, t, g, slot), t)
           /\ slot = None => Floor!Holds(Floor!WithNew(bs, t, g, slot), t) # {}
<1> DEFINE row == [table |-> t, guest |-> g, slot |-> slot, status |-> "active"]
           b == CHOOSE x \in Floor!Unused(bs) : \A y \in Floor!Unused(bs) : x <= y
           cs == [bs EXCEPT ![b] = row]
<1>1. b \in Floor!Unused(bs)
  <2>1. Floor!Unused(bs) \in SUBSET Nat /\ Floor!Unused(bs) # {}
    BY BookingsAreNumbers DEF Floor!Unused, Floor!RoomFor
  <2>2. \E x \in Floor!Unused(bs) : \A y \in Floor!Unused(bs) : x <= y
    BY <2>1, Smallest
  <2> QED
    BY <2>2
<1>2. b \in Floor!Bookings /\ bs[b].status = "none" /\ bs[b].table = None
  BY <1>1 DEF Floor!Unused, Blank
<1>3. row \in Floor!Booking
  BY DEF Floor!Booking, Floor!BookingStatus
<1>4. Floor!WithNew(bs, t, g, slot) = cs
  BY DEF Floor!WithNew
<1>5. cs[b] = row /\ \A c \in Floor!Bookings : c # b => cs[c] = bs[c]
  BY <1>2 DEF BookingTable
<1>6. cs \in BookingTable
  BY <1>2, <1>3 DEF BookingTable
<1> HIDE DEF b, cs
<1>7. OnlyAt(bs, cs, t)
  BY <1>2, <1>5, <1>6 DEF OnlyAt, Blank
<1>8. slot = None => b \in Floor!Holds(cs, t)
  BY <1>2, <1>5 DEF Floor!Holds, Floor!ActiveBookings
<1> QED
  BY <1>4, <1>7, <1>8

LEMMA ResolvedOnlyAt ==
    ASSUME NEW bs \in BookingTable, Blank(bs), NEW b \in Floor!Bookings,
           NEW outcome \in {"seated", "cancelled"}
    PROVE  OnlyAt(bs, Floor!Resolved(bs, b, outcome), bs[b].table)
<1> DEFINE row == [bs[b] EXCEPT !.status = outcome]
           cs == [bs EXCEPT ![b] = row]
<1>1. row \in Floor!Booking /\ row.status = outcome
  BY DEF BookingTable, Floor!Booking, Floor!BookingStatus
<1>2. Floor!Resolved(bs, b, outcome) = cs
  BY DEF Floor!Resolved
<1>3. cs[b] = row /\ \A c \in Floor!Bookings : c # b => cs[c] = bs[c]
  BY DEF BookingTable
<1>4. cs \in BookingTable
  BY <1>1 DEF BookingTable
<1> HIDE DEF cs, row
<1> QED
  BY <1>1, <1>2, <1>3, <1>4 DEF OnlyAt, Blank

LEMMA ReconciledOnlyAt ==
    ASSUME NEW bs \in BookingTable, Blank(bs), NEW t
    PROVE  /\ OnlyAt(bs, Floor!Reconciled(bs, t), t)
           /\ \A b \in Floor!Bookings : Floor!Reconciled(bs, t)[b].table = bs[b].table
<1> DEFINE cs == Floor!Reconciled(bs, t)
<1>1. ASSUME NEW b \in Floor!Bookings
      PROVE  /\ cs[b] \in Floor!Booking
             /\ cs[b].table = bs[b].table
             /\ cs[b].status = "none" => bs[b].status = "none"
             /\ bs[b].table # t => cs[b] = bs[b]
  <2>1. bs[b] \in Floor!Booking
    BY DEF BookingTable
  <2>2. cs[b] = IF b \in Floor!Holds(bs, t) \ {Floor!Hold(bs, t)}
                THEN [bs[b] EXCEPT !.status = "cancelled"] ELSE bs[b]
    BY DEF Floor!Reconciled
  <2>3. b \in Floor!Holds(bs, t) => bs[b].table = t
    BY DEF Floor!Holds, Floor!ActiveBookings
  <2> HIDE DEF cs
  <2> QED
    BY <2>1, <2>2, <2>3 DEF Floor!Booking, Floor!BookingStatus
<1>2. cs \in BookingTable
  BY <1>1 DEF BookingTable, Floor!Reconciled
<1> HIDE DEF cs
<1>3. OnlyAt(bs, cs, t)
  BY <1>1, <1>2 DEF OnlyAt, Blank
<1> QED
  BY <1>1, <1>3 DEF cs

\* Two changes at the same table are one.
LEMMA OnlyAtTwice ==
    ASSUME NEW bs, NEW cs, NEW ds, NEW t, OnlyAt(bs, cs, t), OnlyAt(cs, ds, t)
    PROVE  OnlyAt(bs, ds, t)
BY DEF OnlyAt

\* So is a change of a booking of the table itself.
LEMMA GuestOnlyAt ==
    ASSUME NEW bs \in BookingTable, Blank(bs), NEW b \in Floor!Bookings, NEW g \in Guests
    PROVE  OnlyAt(bs, [bs EXCEPT ![b].guest = g], bs[b].table)
<1> DEFINE row == [bs[b] EXCEPT !.guest = g]
           cs == [bs EXCEPT ![b] = row]
<1>1. bs[b] \in Floor!Booking
  BY DEF BookingTable
<1>2. row \in Floor!Booking /\ row.status = bs[b].status /\ row.table = bs[b].table
  BY <1>1 DEF Floor!Booking
<1>3. cs[b] = row /\ \A c \in Floor!Bookings : c # b => cs[c] = bs[c]
  BY DEF BookingTable
<1>4. cs \in BookingTable
  BY <1>2 DEF BookingTable
<1> HIDE DEF row
<1>5. OnlyAt(bs, cs, bs[b].table)
  <2> HIDE DEF cs
  <2> QED
    BY <1>2, <1>3, <1>4 DEF OnlyAt, Blank
<1> QED
  BY <1>5 DEF cs, row

LEMMA HeldForOnlyAt ==
    ASSUME NEW bs \in BookingTable, Blank(bs), NEW t \in Tables, NEW g \in Guests,
           Floor!RoomForHold(bs, t)
    PROVE  OnlyAt(bs, Floor!HeldFor(bs, t, g), t)
<1>1. CASE Floor!Hold(bs, t) = None
  <2>1. Floor!RoomFor(bs)
    BY <1>1 DEF Floor!RoomForHold
  <2>2. OnlyAt(bs, Floor!WithNew(bs, t, g, None), t)
    BY <2>1, WithNewOnlyAt
  <2> QED
    BY <1>1, <2>2 DEF Floor!HeldFor
<1>2. CASE Floor!Hold(bs, t) # None
  <2> DEFINE cs == Floor!Reconciled(bs, t)
             b == Floor!Hold(bs, t)
  <2>1. Floor!Holds(bs, t) # {}
    BY <1>2 DEF Floor!Hold
  <2>2. b \in Floor!Bookings /\ bs[b].table = t
    BY <2>1, HoldIsOfItsTable
  <2>3. OnlyAt(bs, cs, t) /\ cs[b].table = t
    BY <2>2, ReconciledOnlyAt
  <2>4. Floor!HeldFor(bs, t, g) = [cs EXCEPT ![b].guest = g]
    BY <1>2 DEF Floor!HeldFor
  <2> HIDE DEF cs, b
  <2>5. OnlyAt(cs, [cs EXCEPT ![b].guest = g], cs[b].table)
    BY <2>2, <2>3, GuestOnlyAt DEF OnlyAt
  <2> QED
    BY <2>3, <2>4, <2>5, OnlyAtTwice
<1> QED
  BY <1>1, <1>2

LEMMA HoldResolvedOnlyAt ==
    ASSUME NEW bs \in BookingTable, Blank(bs), NEW t \in Tables,
           NEW outcome \in {"seated", "cancelled"}, Floor!RoomForHold(bs, t)
    PROVE  OnlyAt(bs, Floor!HoldResolved(bs, t, outcome), t)
<1>1. CASE Floor!Hold(bs, t) = None
  <2> DEFINE cs == Floor!WithNew(bs, t, None, None)
             b == Floor!Hold(cs, t)
  <2>1. Floor!RoomFor(bs)
    BY <1>1 DEF Floor!RoomForHold
  <2>2. OnlyAt(bs, cs, t) /\ Floor!Holds(cs, t) # {}
    BY <2>1, WithNewOnlyAt
  <2>3. Floor!HoldResolved(bs, t, outcome) = Floor!Resolved(cs, b, outcome)
    BY <1>1 DEF Floor!HoldResolved
  <2> HIDE DEF cs
  <2>4. b \in Floor!Bookings /\ cs[b].table = t
    BY <2>2, HoldIsOfItsTable
  <2> HIDE DEF b
  <2>5. OnlyAt(cs, Floor!Resolved(cs, b, outcome), cs[b].table)
    BY <2>2, <2>4, ResolvedOnlyAt DEF OnlyAt
  <2> QED
    BY <2>2, <2>3, <2>4, <2>5, OnlyAtTwice
<1>2. CASE Floor!Hold(bs, t) # None
  <2> DEFINE cs == Floor!Reconciled(bs, t)
             b == Floor!Hold(bs, t)
  <2>1. Floor!Holds(bs, t) # {}
    BY <1>2 DEF Floor!Hold
  <2>2. b \in Floor!Bookings /\ bs[b].table = t
    BY <2>1, HoldIsOfItsTable
  <2>3. OnlyAt(bs, cs, t) /\ cs[b].table = t
    BY <2>2, ReconciledOnlyAt
  <2>4. Floor!HoldResolved(bs, t, outcome) = Floor!Resolved(cs, b, outcome)
    BY <1>2 DEF Floor!HoldResolved
  <2> HIDE DEF cs, b
  <2>5. OnlyAt(cs, Floor!Resolved(cs, b, outcome), cs[b].table)
    BY <2>2, <2>3, ResolvedOnlyAt DEF OnlyAt
  <2> QED
    BY <2>3, <2>4, <2>5, OnlyAtTwice
<1> QED
  BY <1>1, <1>2

LEMMA SameOnlyAt ==
    ASSUME NEW bs \in BookingTable, Blank(bs), NEW t
    PROVE  OnlyAt(bs, bs, t)
BY DEF OnlyAt

-----------------------------------------------------------------------------
(* The steps of the handlers *)

BookingSteps ==
    {Booking(b) : b \in Floor!Bookings} \cup {HoldRows(t) : t \in Tables}
    \cup {SlotRows(t, slot) : t \in Tables, slot \in Slots} \cup {List(t) : t \in Tables}
TableSteps == {Table(t) : t \in Tables}
OrderSteps(r) == IF r.op = "zone" THEN {} ELSE {Order(r.t), Orders(r.t)}
StepsOf(r) == TableSteps \cup OrderSteps(r) \cup {Counter} \cup BookingSteps

WritesTable == {"open", "close", "hold", "schedule", "resolve", "cancel", "set",
                "edit", "delete"}
ReadsOrders == {"open", "hold", "resolve", "cancel", "set", "edit", "delete"}

\* Every handler's plan is a sequence of such steps.
LEMMA PlanIsASequence ==
    ASSUME NEW r \in Requests
    PROVE  /\ Len(Plan(r)) \in Nat
           /\ DOMAIN Plan(r) = 1..Len(Plan(r))
           /\ Plan(r) = [i \in 1..Len(Plan(r)) |-> Plan(r)[i]]
           /\ \A i \in 1..Len(Plan(r)) : Plan(r)[i] \in StepsOf(r)
<1> USE DEF StepsOf, TableSteps, OrderSteps, BookingSteps
<1>1. CASE r.op = "open"
  <2>1. r.t \in Tables /\ Plan(r) = OpenPlan(r.t, r.seat) /\ r.seat \in BOOLEAN
    BY <1>1 DEF Requests, Plan
  <2>2. CASE r.seat
    <3>1. Plan(r) = <<Table(r.t), Orders(r.t), Counter, HoldRows(r.t)>>
      BY <2>1, <2>2 DEF OpenPlan
    <3> QED
      BY <1>1, <2>1, <3>1
  <2>3. CASE ~r.seat
    <3>1. Plan(r) = <<Table(r.t), Orders(r.t), Counter>>
      BY <2>1, <2>3 DEF OpenPlan
    <3> QED
      BY <1>1, <2>1, <3>1
  <2> QED
    BY <2>1, <2>2, <2>3
<1>2. CASE r.op = "close"
  <2>1. r.t \in Tables /\ Plan(r) = ClosePlan(r.t)
    BY <1>2 DEF Requests, Plan
  <2> QED
    BY <1>2, <2>1 DEF ClosePlan
<1>3. CASE r.op = "submit"
  <2>1. r.t \in Tables /\ Plan(r) = SubmitPlan(r.t)
    BY <1>3 DEF Requests, Plan
  <2> QED
    BY <1>3, <2>1 DEF SubmitPlan
<1>4. CASE r.op = "add"
  <2>1. r.t \in Tables /\ Plan(r) = AddPlan(r.t)
    BY <1>4 DEF Requests, Plan
  <2> QED
    BY <1>4, <2>1 DEF AddPlan
<1>5. CASE r.op = "hold"
  <2>1. r.t \in Tables /\ Plan(r) = HoldPlan(r.t)
    BY <1>5 DEF Requests, Plan
  <2> QED
    BY <1>5, <2>1 DEF HoldPlan
<1>6. CASE r.op = "schedule"
  <2>1. r.t \in Tables /\ r.slot \in Slots /\ Plan(r) = SchedulePlan(r.t, r.slot)
    BY <1>6 DEF Requests, Plan
  <2> QED
    BY <1>6, <2>1 DEF SchedulePlan
<1>7. CASE r.op = "resolve"
  <2>1. r.t \in Tables /\ r.b \in Floor!Bookings /\ Plan(r) = ResolvePlan(r.t, r.b)
    BY <1>7 DEF Requests, Plan
  <2> QED
    BY <1>7, <2>1 DEF ResolvePlan
<1>8. CASE r.op \in {"cancel", "set"}
  <2>1. r.t \in Tables /\ Plan(r) = StatusPlan(r.t)
    BY <1>8 DEF Requests, Plan
  <2> QED
    BY <1>8, <2>1 DEF StatusPlan
<1>9. CASE r.op = "edit"
  <2>1. r.t \in Tables /\ Plan(r) = EditPlan(r.t)
    BY <1>9 DEF Requests, Plan
  <2> QED
    BY <1>9, <2>1 DEF EditPlan
<1>10. CASE r.op = "delete"
  <2>1. r.t \in Tables /\ Plan(r) = DeletePlan(r.t)
    BY <1>10 DEF Requests, Plan
  <2> QED
    BY <1>10, <2>1 DEF DeletePlan
<1>11. CASE r.op = "zone"
  <2>1. Plan(r) = ZonePlan
    BY <1>11 DEF Plan
  <2> QED
    BY <1>11, <2>1, TableLocksAssumption DEF ZonePlan
<1> QED
  BY <1>1, <1>2, <1>3, <1>4, <1>5, <1>6, <1>7, <1>8, <1>9, <1>10, <1>11 DEF Requests

\* A step that reads orders or bookings without their row comes after the rows
\* of the tables.
LEMMA TablesComeFirst ==
    ASSUME NEW r \in Requests, NEW i \in 1..Len(Plan(r)), NEW j \in 1..Len(Plan(r)),
           Plan(r)[i] \in TableSteps,
           Plan(r)[j] \in BookingSteps \/ Plan(r)[j] \in {Orders(t) : t \in Tables}
    PROVE  i < j
<1> USE DEF TableSteps, BookingSteps, Table, Order, Orders, Counter, Booking, HoldRows,
            SlotRows, List
<1>1. CASE r.op = "open"
  <2>1. r.t \in Tables /\ Plan(r) = OpenPlan(r.t, r.seat) /\ r.seat \in BOOLEAN
    BY <1>1 DEF Requests, Plan
  <2>2. CASE r.seat
    <3>1. Plan(r) = <<Table(r.t), Orders(r.t), Counter, HoldRows(r.t)>>
      BY <2>1, <2>2 DEF OpenPlan
    <3> QED
      BY <1>1, <2>1, <3>1
  <2>3. CASE ~r.seat
    <3>1. Plan(r) = <<Table(r.t), Orders(r.t), Counter>>
      BY <2>1, <2>3 DEF OpenPlan
    <3> QED
      BY <1>1, <2>1, <3>1
  <2> QED
    BY <2>1, <2>2, <2>3
<1>2. CASE r.op = "close"
  <2>1. r.t \in Tables /\ Plan(r) = ClosePlan(r.t)
    BY <1>2 DEF Requests, Plan
  <2> QED
    BY <1>2, <2>1 DEF ClosePlan
<1>3. CASE r.op = "submit"
  <2>1. r.t \in Tables /\ Plan(r) = SubmitPlan(r.t)
    BY <1>3 DEF Requests, Plan
  <2> QED
    BY <1>3, <2>1 DEF SubmitPlan
<1>4. CASE r.op = "add"
  <2>1. r.t \in Tables /\ Plan(r) = AddPlan(r.t)
    BY <1>4 DEF Requests, Plan
  <2> QED
    BY <1>4, <2>1 DEF AddPlan
<1>5. CASE r.op = "hold"
  <2>1. r.t \in Tables /\ Plan(r) = HoldPlan(r.t)
    BY <1>5 DEF Requests, Plan
  <2> QED
    BY <1>5, <2>1 DEF HoldPlan
<1>6. CASE r.op = "schedule"
  <2>1. r.t \in Tables /\ r.slot \in Slots /\ Plan(r) = SchedulePlan(r.t, r.slot)
    BY <1>6 DEF Requests, Plan
  <2> QED
    BY <1>6, <2>1 DEF SchedulePlan
<1>7. CASE r.op = "resolve"
  <2>1. r.t \in Tables /\ r.b \in Floor!Bookings /\ Plan(r) = ResolvePlan(r.t, r.b)
    BY <1>7 DEF Requests, Plan
  <2> QED
    BY <1>7, <2>1 DEF ResolvePlan
<1>8. CASE r.op \in {"cancel", "set"}
  <2>1. r.t \in Tables /\ Plan(r) = StatusPlan(r.t)
    BY <1>8 DEF Requests, Plan
  <2> QED
    BY <1>8, <2>1 DEF StatusPlan
<1>9. CASE r.op = "edit"
  <2>1. r.t \in Tables /\ Plan(r) = EditPlan(r.t)
    BY <1>9 DEF Requests, Plan
  <2> QED
    BY <1>9, <2>1 DEF EditPlan
<1>10. CASE r.op = "delete"
  <2>1. r.t \in Tables /\ Plan(r) = DeletePlan(r.t)
    BY <1>10 DEF Requests, Plan
  <2> QED
    BY <1>10, <2>1 DEF DeletePlan
<1>11. CASE r.op = "zone"
  <2>1. Plan(r) = ZonePlan
    BY <1>11 DEF Plan
  <2> QED
    BY <1>11, <2>1, TableLocksAssumption DEF ZonePlan
<1> QED
  BY <1>1, <1>2, <1>3, <1>4, <1>5, <1>6, <1>7, <1>8, <1>9, <1>10, <1>11 DEF Requests

\* A handler that writes a table has locked its row and, when it relies on them,
\* read the orders there; one that closes an order has locked it.
LEMMA WritersHaveRead ==
    ASSUME NEW r \in Requests, r.op \in WritesTable
    PROVE  /\ r.t \in Tables
           /\ \E i \in 1..Len(Plan(r)) : Plan(r)[i] = Table(r.t)
           /\ r.op \in ReadsOrders => \E i \in 1..Len(Plan(r)) : Plan(r)[i] = Orders(r.t)
           /\ r.op = "close" => \E i \in 1..Len(Plan(r)) : Plan(r)[i] = Order(r.t)
<1> USE DEF WritesTable, ReadsOrders
<1>1. CASE r.op = "open"
  <2>1. r.t \in Tables /\ Plan(r) = OpenPlan(r.t, r.seat) /\ r.seat \in BOOLEAN
    BY <1>1 DEF Requests, Plan
  <2>2. CASE r.seat
    <3>1. Plan(r) = <<Table(r.t), Orders(r.t), Counter, HoldRows(r.t)>>
      BY <2>1, <2>2 DEF OpenPlan
    <3>2. 1 \in 1..Len(Plan(r)) /\ 2 \in 1..Len(Plan(r))
          /\ Plan(r)[1] = Table(r.t) /\ Plan(r)[2] = Orders(r.t)
      BY <3>1
    <3> QED
      BY <1>1, <2>1, <3>2
  <2>3. CASE ~r.seat
    <3>1. Plan(r) = <<Table(r.t), Orders(r.t), Counter>>
      BY <2>1, <2>3 DEF OpenPlan
    <3>2. 1 \in 1..Len(Plan(r)) /\ 2 \in 1..Len(Plan(r))
          /\ Plan(r)[1] = Table(r.t) /\ Plan(r)[2] = Orders(r.t)
      BY <3>1
    <3> QED
      BY <1>1, <2>1, <3>2
  <2> QED
    BY <2>1, <2>2, <2>3
<1>2. CASE r.op = "close"
  <2>1. r.t \in Tables /\ Plan(r) = ClosePlan(r.t)
    BY <1>2 DEF Requests, Plan
  <2>2. 1 \in 1..Len(Plan(r)) /\ 2 \in 1..Len(Plan(r))
        /\ Plan(r)[1] = Order(r.t) /\ Plan(r)[2] = Table(r.t)
    BY <2>1 DEF ClosePlan
  <2> QED
    BY <1>2, <2>1, <2>2
<1>3. CASE r.op = "hold"
  <2>1. r.t \in Tables /\ Plan(r) = HoldPlan(r.t)
    BY <1>3 DEF Requests, Plan
  <2>2. 1 \in 1..Len(Plan(r)) /\ 3 \in 1..Len(Plan(r))
        /\ Plan(r)[1] = Table(r.t) /\ Plan(r)[3] = Orders(r.t)
    BY <2>1 DEF HoldPlan
  <2> QED
    BY <1>3, <2>1, <2>2
<1>4. CASE r.op = "schedule"
  <2>1. r.t \in Tables /\ Plan(r) = SchedulePlan(r.t, r.slot)
    BY <1>4 DEF Requests, Plan
  <2>2. 1 \in 1..Len(Plan(r)) /\ Plan(r)[1] = Table(r.t)
    BY <2>1 DEF SchedulePlan
  <2> QED
    BY <1>4, <2>1, <2>2
<1>5. CASE r.op = "resolve"
  <2>1. r.t \in Tables /\ Plan(r) = ResolvePlan(r.t, r.b)
    BY <1>5 DEF Requests, Plan
  <2>2. 1 \in 1..Len(Plan(r)) /\ 3 \in 1..Len(Plan(r))
        /\ Plan(r)[1] = Table(r.t) /\ Plan(r)[3] = Orders(r.t)
    BY <2>1 DEF ResolvePlan
  <2> QED
    BY <1>5, <2>1, <2>2
<1>6. CASE r.op \in {"cancel", "set"}
  <2>1. r.t \in Tables /\ Plan(r) = StatusPlan(r.t)
    BY <1>6 DEF Requests, Plan
  <2>2. 1 \in 1..Len(Plan(r)) /\ 2 \in 1..Len(Plan(r))
        /\ Plan(r)[1] = Table(r.t) /\ Plan(r)[2] = Orders(r.t)
    BY <2>1 DEF StatusPlan
  <2> QED
    BY <1>6, <2>1, <2>2
<1>7. CASE r.op = "edit"
  <2>1. r.t \in Tables /\ Plan(r) = EditPlan(r.t)
    BY <1>7 DEF Requests, Plan
  <2>2. 1 \in 1..Len(Plan(r)) /\ 2 \in 1..Len(Plan(r))
        /\ Plan(r)[1] = Table(r.t) /\ Plan(r)[2] = Orders(r.t)
    BY <2>1 DEF EditPlan
  <2> QED
    BY <1>7, <2>1, <2>2
<1>8. CASE r.op = "delete"
  <2>1. r.t \in Tables /\ Plan(r) = DeletePlan(r.t)
    BY <1>8 DEF Requests, Plan
  <2>2. 1 \in 1..Len(Plan(r)) /\ 2 \in 1..Len(Plan(r))
        /\ Plan(r)[1] = Table(r.t) /\ Plan(r)[2] = Orders(r.t)
    BY <2>1 DEF DeletePlan
  <2> QED
    BY <1>8, <2>1, <2>2
<1> QED
  BY <1>1, <1>2, <1>3, <1>4, <1>5, <1>6, <1>7, <1>8

\* Only the step of a row takes the row, and two rows are the same only when
\* their tables are.
LEMMA RowsTaken ==
    ASSUME NEW r \in Requests, NEW x \in StepsOf(r), NEW t \in Tables
    PROVE  /\ Table(t) \in RowsOf(x) <=> x = Table(t)
           /\ Order(t) \in RowsOf(x) <=> x = Order(t)
<1> USE DEF Table, Order, Orders, Counter, Booking, HoldRows, SlotRows, List
<1>1. CASE x \in TableSteps \cup OrderSteps(r) \cup {Counter}
  BY <1>1 DEF TableSteps, OrderSteps, RowsOf
<1>2. CASE x \in BookingSteps
  BY <1>2 DEF BookingSteps, RowsOf
<1> QED
  BY <1>1, <1>2 DEF StepsOf

\* What a step reads.
LEMMA WhatIsRead ==
    ASSUME NEW r \in Requests, NEW x \in StepsOf(r), NEW saw \in Seen, Floor!TypeOK
    PROVE  /\ Reading(saw, x) \in Seen
           /\ \A t \in Tables :
                 Reading(saw, x).status[t] = IF x = Table(t) THEN status[t] ELSE saw.status[t]
           /\ Reading(saw, x).orders = IF x \in OrderSteps(r) THEN OrdersAt(r.t) ELSE saw.orders
           /\ Reading(saw, x).bookings = IF x \in BookingSteps THEN bookings ELSE saw.bookings
<1> USE DEF Table, Order, Orders, Counter, Booking, HoldRows, SlotRows, List
<1>1. CASE x \in TableSteps
  <2>1. PICK u \in Tables : x = Table(u)
    BY <1>1 DEF TableSteps
  <2>2. Reading(saw, x) = [saw EXCEPT !.status[u] = status[u]]
    BY <2>1 DEF Reading
  <2>3. x \notin OrderSteps(r) /\ x \notin BookingSteps
    BY <2>1 DEF OrderSteps, BookingSteps
  <2>4. \A t \in Tables : x = Table(t) <=> t = u
    BY <2>1
  <2>5. status[u] \in Floor!TableStatus
    BY DEF Floor!TypeOK
  <2> HIDE DEF Table
  <2> QED
    BY <2>2, <2>3, <2>4, <2>5 DEF Seen
<1>2. CASE x \in OrderSteps(r)
  <2>1. Reading(saw, x) = [saw EXCEPT !.orders = OrdersAt(r.t)]
    BY <1>2 DEF Reading, OrderSteps
  <2>2. x \notin BookingSteps /\ \A t \in Tables : x # Table(t)
    BY <1>2 DEF OrderSteps, BookingSteps
  <2>3. OrdersAt(r.t) \in {"none", "past", "open"}
    BY DEF OrdersAt
  <2> QED
    BY <1>2, <2>1, <2>2, <2>3 DEF Seen
<1>3. CASE x = Counter
  <2>1. Reading(saw, x) = saw
    BY <1>3 DEF Reading
  <2>2. x \notin BookingSteps /\ x \notin OrderSteps(r) /\ \A t \in Tables : x # Table(t)
    BY <1>3 DEF OrderSteps, BookingSteps
  <2> QED
    BY <2>1, <2>2 DEF Seen
<1>4. CASE x \in BookingSteps
  <2>1. Reading(saw, x) = [saw EXCEPT !.bookings = bookings]
    BY <1>4 DEF Reading, BookingSteps
  <2>2. x \notin OrderSteps(r) /\ \A t \in Tables : x # Table(t)
    BY <1>4 DEF OrderSteps, BookingSteps
  <2> QED
    BY <1>4, <2>1, <2>2 DEF Seen, Floor!TypeOK
<1> QED
  BY <1>1, <1>2, <1>3, <1>4 DEF StepsOf

-----------------------------------------------------------------------------
(* The invariant *)

Done(s) == Len(Plan(session[s].req)) - Len(session[s].todo)
Step(s, i) == Plan(session[s].req)[i]
Has(s, step) == \E i \in 1..Done(s) : Step(s, i) = step

\* What a session still has to do is the end of its plan.
OnItsWay(s) ==
    /\ session[s].req \in Requests
    /\ Done(s) \in 0..Len(Plan(session[s].req))
    /\ session[s].todo =
          [i \in 1..(Len(Plan(session[s].req)) - Done(s)) |-> Step(s, i + Done(s))]

\* It holds the rows it has stepped on.
HoldsItsRows(s) ==
    \A t \in Tables : /\ Table(t) \in session[s].rows <=> Has(s, Table(t))
                      /\ Has(s, Order(t)) => Order(t) \in session[s].rows

\* Before its first step on the bookings it has seen none.
KnowsNoBookingYet(s) ==
    (\A i \in 1..Done(s) : Step(s, i) \notin BookingSteps)
    => session[s].saw.bookings = Nothing.bookings

\* The order it has locked is still open when it has seen it open.
KnowsItsOrder(s) ==
    \A t \in Tables :
        Has(s, Order(t)) /\ session[s].saw.orders = "open" => t \in seated

\* ChecksStayTrue, of one session and one table.
Knows(s, t) ==
    LET saw == session[s].saw
    IN  /\ saw.status[t] = status[t]
        /\ Has(s, Orders(t)) => saw.orders = OrdersAt(t)
        /\ \A b \in Floor!Bookings :
              saw.bookings[b].table = t => saw.bookings[b] = bookings[b]

SessionInv(s) ==
    /\ DOMAIN session[s] = {"req", "todo", "rows", "saw"}
    /\ session[s].saw \in Seen
    /\ ~Busy(s) => session[s] = Idle
    /\ Busy(s) => /\ OnItsWay(s)
                  /\ HoldsItsRows(s)
                  /\ KnowsNoBookingYet(s)
                  /\ KnowsItsOrder(s)
                  /\ \A t \in Tables : Table(t) \in session[s].rows => Knows(s, t)

RowsAreHeldOnce ==
    \A s, u \in Sessions : s # u => session[s].rows \cap session[u].rows = {}

LocksInv ==
    /\ Floor!TypeOK
    /\ Blank(bookings)
    /\ session = [s \in Sessions |-> session[s]]
    /\ RowsAreHeldOnce
    /\ \A s \in Sessions : SessionInv(s)

-----------------------------------------------------------------------------
(* Begin, Advance and Rollback *)

LEMMA NothingIsSeen ==
    /\ Nothing \in Seen
    /\ \A b \in Floor!Bookings : Nothing.bookings[b].table = None
BY DEF Nothing, Seen, Floor!NoBooking, Floor!Booking, Floor!BookingStatus, Floor!TableStatus

LEMMA NoRequestIsNone == NoRequest \notin Requests
BY DEF NoRequest, Requests

\* A step that leaves a session and the floor alone keeps what holds of it.
LEMMA Undisturbed ==
    ASSUME NEW s \in Sessions, SessionInv(s), session'[s] = session[s],
           UNCHANGED floorVars
    PROVE  SessionInv(s)'
<1> USE DEF floorVars
<1>1. Done(s)' = Done(s) /\ \A i : Step(s, i)' = Step(s, i)
  BY DEF Done, Step
<1>2. \A y : Has(s, y)' = Has(s, y)
  BY <1>1 DEF Has
<1>3. OnItsWay(s)' = OnItsWay(s)
  BY <1>1 DEF OnItsWay
<1>4. HoldsItsRows(s)' = HoldsItsRows(s)
  BY <1>2 DEF HoldsItsRows
<1>5. KnowsNoBookingYet(s)' = KnowsNoBookingYet(s)
  BY <1>1 DEF KnowsNoBookingYet
<1>6. KnowsItsOrder(s)' = KnowsItsOrder(s)
  BY <1>2 DEF KnowsItsOrder
<1>7. \A t \in Tables : Knows(s, t)' = Knows(s, t)
  BY <1>2 DEF Knows, OrdersAt
<1>8. Busy(s)' = Busy(s)
  BY DEF Busy
<1> QED
  BY <1>3, <1>4, <1>5, <1>6, <1>7, <1>8 DEF SessionInv

\* The invariant is about one session at a time, but for the rows.
LEMMA OthersAreKept ==
    ASSUME LocksInv, NEW s \in Sessions, NEW x, UNCHANGED floorVars,
           session' = [session EXCEPT ![s] = x],
           \A u \in Sessions \ {s} : x.rows \cap session[u].rows = {},
           SessionInv(s)'
    PROVE  LocksInv'
<1> USE DEF floorVars
<1>1. session'[s] = x /\ \A u \in Sessions \ {s} : session'[u] = session[u]
  BY DEF LocksInv
<1>2. Floor!TypeOK' /\ Blank(bookings)'
  BY DEF LocksInv, Floor!TypeOK, Blank
<1>3. (session = [u \in Sessions |-> session[u]])'
  BY DEF LocksInv
<1>4. RowsAreHeldOnce'
  BY <1>1 DEF LocksInv, RowsAreHeldOnce
<1>5. \A u \in Sessions \ {s} : SessionInv(u)'
  BY <1>1, Undisturbed DEF LocksInv
<1> QED
  BY <1>2, <1>3, <1>4, <1>5 DEF LocksInv

LEMMA IdleIsFine ==
    ASSUME NEW s \in Sessions, session'[s] = Idle
    PROVE  SessionInv(s)'
BY NothingIsSeen DEF SessionInv, Idle, Busy

LEMMA BeginKeeps ==
    ASSUME LocksInv, NEW s \in Sessions, NEW r \in Requests, Begin(s, r)
    PROVE  LocksInv'
<1> DEFINE x == [Idle EXCEPT !.req = r, !.todo = Plan(r)]
<1>1. /\ x.req = r /\ x.todo = Plan(r) /\ x.rows = {} /\ x.saw = Nothing
      /\ DOMAIN x = {"req", "todo", "rows", "saw"}
  BY DEF Idle
<1>2. session' = [session EXCEPT ![s] = x] /\ UNCHANGED floorVars
  BY DEF Begin
<1> HIDE DEF x
<1>3. session'[s] = x
  BY <1>2 DEF LocksInv
<1>4. Len(Plan(r)) \in Nat /\ Plan(r) = [i \in 1..Len(Plan(r)) |-> Plan(r)[i]]
  BY PlanIsASequence
<1>5. Done(s)' = 0
  BY <1>1, <1>3, <1>4 DEF Done
<1>6. OnItsWay(s)'
  <2>1. \A i \in 1..Len(Plan(r)) : Step(s, i + 0)' = Plan(r)[i]
    BY <1>1, <1>3 DEF Step
  <2> QED
    BY <1>1, <1>3, <1>4, <1>5, <2>1 DEF OnItsWay
<1>7. \A y : ~Has(s, y)'
  BY <1>5 DEF Has
<1>8. SessionInv(s)'
  BY <1>1, <1>3, <1>6, <1>7, NothingIsSeen, NoRequestIsNone
     DEF SessionInv, Busy, HoldsItsRows, KnowsNoBookingYet, KnowsItsOrder
<1>9. \A u \in Sessions \ {s} : x.rows \cap session[u].rows = {}
  BY <1>1
<1> QED
  BY <1>2, <1>8, <1>9, OthersAreKept

LEMMA RollbackKeeps ==
    ASSUME LocksInv, NEW s \in Sessions, Rollback(s)
    PROVE  LocksInv'
<1>1. session' = [session EXCEPT ![s] = Idle] /\ UNCHANGED floorVars
  BY DEF Rollback
<1>2. session'[s] = Idle
  BY <1>1 DEF LocksInv
<1>3. Idle.rows = {}
  BY DEF Idle
<1> QED
  BY <1>1, <1>2, <1>3, IdleIsFine, OthersAreKept

\* The next step of a session is the next of its plan.
LEMMA NextStep ==
    ASSUME LocksInv, NEW s \in Sessions, session[s].todo # <<>>
    PROVE  /\ Busy(s)
           /\ Done(s) + 1 \in 1..Len(Plan(session[s].req))
           /\ Head(session[s].todo) = Step(s, Done(s) + 1)
           /\ Step(s, Done(s) + 1) \in StepsOf(session[s].req)
           /\ Len(Tail(session[s].todo)) = Len(session[s].todo) - 1
           /\ Tail(session[s].todo) =
                 [i \in 1..(Len(Plan(session[s].req)) - (Done(s) + 1))
                    |-> Step(s, i + (Done(s) + 1))]
<1> DEFINE r == session[s].req
           todo == session[s].todo
           L == Len(Plan(r))
           n == Done(s)
<1>1. Busy(s)
  BY DEF LocksInv, SessionInv, Idle
<1>2. /\ r \in Requests /\ n \in 0..L /\ n = L - Len(todo)
      /\ todo = [i \in 1..(L - n) |-> Step(s, i + n)]
  BY <1>1 DEF LocksInv, SessionInv, OnItsWay, Done
<1>3. L \in Nat /\ \A i \in 1..L : Step(s, i) \in StepsOf(r)
  BY <1>2, PlanIsASequence DEF Step
<1> HIDE DEF n, L, r
<1>a. n \in Nat /\ L \in Nat /\ n <= L
  BY <1>2, <1>3
<1>4. todo \in Seq(StepsOf(r))
  <2>1. \A i \in 1..(L - n) : i + n \in 1..L
    BY <1>a
  <2>2. L - n \in Nat
    BY <1>a
  <2>3. todo \in [1..(L - n) -> StepsOf(r)]
    BY <1>2, <1>3, <2>1
  <2> QED
    BY <2>2, <2>3, SeqDef
<1>5. /\ Len(todo) \in Nat /\ Len(todo) = L - n
      /\ Len(Tail(todo)) = Len(todo) - 1
      /\ Head(todo) = todo[1]
      /\ Tail(todo) \in Seq(StepsOf(r))
      /\ \A i \in 1..Len(Tail(todo)) : Tail(todo)[i] = todo[i + 1]
  <2>1. Len(todo) \in Nat
    BY <1>4, LenProperties
  <2>2. Len(todo) = L - n
    BY <1>2, <1>a, <2>1
  <2>3. Head(todo) = todo[1]
    BY <1>4
  <2> QED
    BY <1>4, <2>1, <2>2, <2>3, HeadTailProperties
<1>6. L - n # 0
  BY <1>4, <1>5, EmptySeq
<1>7. n + 1 \in 1..L /\ Head(todo) = Step(s, n + 1)
  <2>1. 1 \in 1..(L - n) /\ 1 + n = n + 1 /\ n + 1 \in 1..L
    BY <1>a, <1>6
  <2> QED
    BY <1>2, <1>5, <2>1
<1>8. Tail(todo) = [i \in 1..(L - (n + 1)) |-> Step(s, i + (n + 1))]
  <2>1. Len(Tail(todo)) = L - (n + 1)
    BY <1>a, <1>5
  <2>2. \A i \in 1..(L - (n + 1)) : Tail(todo)[i] = Step(s, i + (n + 1))
    <3> TAKE i \in 1..(L - (n + 1))
    <3>1. i + 1 \in 1..(L - n) /\ (i + 1) + n = i + (n + 1)
      BY <1>a
    <3>2. todo[i + 1] = Step(s, (i + 1) + n)
      BY <1>2, <3>1
    <3>3. Tail(todo)[i] = todo[i + 1]
      BY <1>5, <2>1
    <3> QED
      BY <3>1, <3>2, <3>3
  <2>3. Tail(todo) = [i \in 1..Len(Tail(todo)) |-> Tail(todo)[i]]
    BY <1>5, LenProperties
  <2> QED
    BY <2>1, <2>2, <2>3
<1> QED
  BY <1>1, <1>3, <1>5, <1>7, <1>8 DEF n, L, r

\* What Advance does to the session that takes it.
LEMMA AdvanceDoes ==
    ASSUME LocksInv, NEW s \in Sessions, Advance(s)
    PROVE  LET r == session[s].req
               x == Step(s, Done(s) + 1)
               n == Done(s)
               L == Len(Plan(r))
           IN  /\ r \in Requests /\ n \in Nat /\ L \in Nat /\ n + 1 \in 1..L
               /\ x \in StepsOf(r) /\ x = Head(session[s].todo)
               /\ session'[s].req = r
               /\ session'[s].todo = [i \in 1..(L - (n + 1)) |-> Step(s, i + (n + 1))]
               /\ session'[s].rows = session[s].rows \cup RowsOf(x)
               /\ session'[s].saw = Reading(session[s].saw, x)
               /\ DOMAIN session'[s] = {"req", "todo", "rows", "saw"}
               /\ session' = [session EXCEPT ![s] = session'[s]]
               /\ Done(s)' = n + 1 /\ \A i : Step(s, i)' = Step(s, i)
<1> DEFINE r == session[s].req
           x == Head(session[s].todo)
           n == Done(s)
           L == Len(Plan(r))
<1>1. /\ session[s].todo # <<>> /\ ~Waits(s) /\ UNCHANGED floorVars
      /\ session' = [session EXCEPT ![s].todo = Tail(@), ![s].rows = @ \cup RowsOf(x),
                                    ![s].saw = Reading(@, x)]
  BY DEF Advance
<1>2. /\ Busy(s) /\ OnItsWay(s)
      /\ DOMAIN session[s] = {"req", "todo", "rows", "saw"}
  BY <1>1, NextStep DEF LocksInv, SessionInv
<1>3. /\ r \in Requests /\ n \in 0..L /\ L \in Nat /\ n = L - Len(session[s].todo)
      /\ n + 1 \in 1..L /\ x = Step(s, n + 1) /\ x \in StepsOf(r)
      /\ Len(Tail(session[s].todo)) = Len(session[s].todo) - 1
      /\ Len(session[s].todo) \in Int
      /\ Tail(session[s].todo) = [i \in 1..(L - (n + 1)) |-> Step(s, i + (n + 1))]
  <2>1. r \in Requests /\ n \in 0..L /\ n = L - Len(session[s].todo)
    BY <1>2 DEF OnItsWay, Done
  <2>2. L \in Nat
    BY <2>1, PlanIsASequence
  <2>3. session[s].todo = [i \in 1..(L - n) |-> Step(s, i + n)]
    BY <1>2 DEF OnItsWay
  <2>4. L - n \in Nat
    BY <2>1, <2>2
  <2>5. Len(session[s].todo) = L - n
    BY <2>3, <2>4
  <2>6. /\ n + 1 \in 1..L /\ x = Step(s, n + 1) /\ x \in StepsOf(r)
        /\ Len(Tail(session[s].todo)) = Len(session[s].todo) - 1
        /\ Tail(session[s].todo) = [i \in 1..(L - (n + 1)) |-> Step(s, i + (n + 1))]
    BY <1>1, NextStep
  <2> HIDE DEF n, L, x, r
  <2>7. Len(session[s].todo) \in Int
    BY <2>4, <2>5
  <2> QED
    BY <2>1, <2>2, <2>6, <2>7
<1> HIDE DEF n, L
<1>a. n \in Nat /\ L \in Nat /\ n + 1 <= L
  BY <1>3
<1>4. /\ session'[s].req = r
      /\ session'[s].todo = Tail(session[s].todo)
      /\ session'[s].rows = session[s].rows \cup RowsOf(x)
      /\ session'[s].saw = Reading(session[s].saw, x)
      /\ DOMAIN session'[s] = {"req", "todo", "rows", "saw"}
      /\ session' = [session EXCEPT ![s] = session'[s]]
  <2>1. session = [u \in Sessions |-> session[u]]
    BY DEF LocksInv
  <2> QED
    BY <1>1, <1>2, <2>1
<1> HIDE DEF x, r
<1>5. Done(s)' = n + 1 /\ \A i : Step(s, i)' = Step(s, i)
  <2>1. Done(s)' = L - Len(Tail(session[s].todo))
    BY <1>4 DEF Done, L, r
  <2>2. Done(s)' = n + 1
    <3>1. /\ Len(session[s].todo) \in Int /\ n = L - Len(session[s].todo)
          /\ Len(Tail(session[s].todo)) = Len(session[s].todo) - 1
      BY <1>3, Zenon
    <3> DEFINE m == Len(session[s].todo)
               k == Len(Tail(session[s].todo))
    <3>2. m \in Int /\ n = L - m /\ k = m - 1 /\ Done(s)' = L - k
      BY <2>1, <3>1
    <3> HIDE DEF m, k
    <3> QED
      BY <1>a, <3>2
  <2>3. \A i : Step(s, i)' = Step(s, i)
    BY <1>4 DEF Step, r
  <2> QED
    BY <2>2, <2>3
<1> QED
  BY <1>3, <1>a, <1>4, <1>5 DEF n, L, r, x

LEMMA AdvanceKeeps ==
    ASSUME LocksInv, NEW s \in Sessions, Advance(s)
    PROVE  LocksInv'
<1> DEFINE r == session[s].req
           x == Step(s, Done(s) + 1)
           n == Done(s)
           L == Len(Plan(r))
<1>1. session[s].todo # <<>> /\ ~Waits(s) /\ UNCHANGED floorVars
  BY DEF Advance
<1>2. /\ Busy(s) /\ OnItsWay(s) /\ HoldsItsRows(s) /\ KnowsNoBookingYet(s)
      /\ KnowsItsOrder(s) /\ session[s].saw \in Seen
      /\ \A t \in Tables : Table(t) \in session[s].rows => Knows(s, t)
      /\ DOMAIN session[s] = {"req", "todo", "rows", "saw"}
  BY <1>1, NextStep DEF LocksInv, SessionInv
<1>3. /\ r \in Requests /\ L \in Nat /\ n + 1 \in 1..L
      /\ x = Step(s, n + 1) /\ x \in StepsOf(r) /\ x = Head(session[s].todo)
  BY AdvanceDoes
<1>a. n \in Nat /\ L \in Nat /\ n + 1 <= L
  <2>1. n \in Nat /\ L \in Nat /\ n + 1 \in 1..L
    BY AdvanceDoes
  <2> HIDE DEF n, L
  <2> QED
    BY <2>1
<1>4. /\ session'[s].req = r
      /\ session'[s].todo = [i \in 1..(L - (n + 1)) |-> Step(s, i + (n + 1))]
      /\ session'[s].rows = session[s].rows \cup RowsOf(x)
      /\ session'[s].saw = Reading(session[s].saw, x)
      /\ DOMAIN session'[s] = {"req", "todo", "rows", "saw"}
      /\ session' = [session EXCEPT ![s] = session'[s]]
  BY AdvanceDoes
<1>5. Done(s)' = n + 1 /\ \A i : Step(s, i)' = Step(s, i)
  BY AdvanceDoes
<1> HIDE DEF n, L, x, r
<1>6. \A y : Has(s, y)' <=> (Has(s, y) \/ y = x)
  <2>1. \A i : i \in 1..(n + 1) <=> (i \in 1..n \/ i = n + 1)
    BY <1>a
  <2> QED
    BY <1>3, <1>5, <2>1 DEF Has, n
<1>7. OnItsWay(s)'
  <2>1. n + 1 \in 0..L
    BY <1>a
  <2>2. /\ session'[s].req = r
        /\ Plan(session'[s].req) = Plan(r)
        /\ session'[s].todo = [i \in 1..(L - (n + 1)) |-> Step(s, i + (n + 1))]
    BY <1>3, <1>4
  <2>3. Done(s)' = n + 1 /\ \A i : Step(s, i)' = Step(s, i)
    BY <1>5
  <2> QED
    BY <1>3, <2>1, <2>2, <2>3 DEF OnItsWay, L
<1>8. HoldsItsRows(s)'
  BY <1>2, <1>3, <1>4, <1>6, RowsTaken DEF HoldsItsRows
<1>9. /\ session'[s].saw \in Seen
      /\ \A t \in Tables : session'[s].saw.status[t]
            = IF x = Table(t) THEN status[t] ELSE session[s].saw.status[t]
      /\ session'[s].saw.orders
            = IF x \in OrderSteps(r) THEN OrdersAt(r.t) ELSE session[s].saw.orders
      /\ session'[s].saw.bookings
            = IF x \in BookingSteps THEN bookings ELSE session[s].saw.bookings
  BY <1>2, <1>3, <1>4, WhatIsRead DEF LocksInv
<1>10. KnowsNoBookingYet(s)'
  <2> SUFFICES ASSUME \A i \in 1..(n + 1) : Step(s, i) \notin BookingSteps
               PROVE  session'[s].saw.bookings = Nothing.bookings
    BY <1>1, <1>5 DEF KnowsNoBookingYet, Nothing, BookingSteps
  <2>1. n + 1 \in 1..(n + 1) /\ \A i \in 1..n : i \in 1..(n + 1)
    BY <1>a
  <2>2. x \notin BookingSteps /\ \A i \in 1..n : Step(s, i) \notin BookingSteps
    BY <1>3, <2>1
  <2> QED
    BY <1>2, <1>9, <2>2 DEF KnowsNoBookingYet, n
<1>11. \A t \in Tables, y \in StepsOf(r) :
          y \in {Order(t), Orders(t)} => (y \in OrderSteps(r) /\ t = r.t)
  BY <1>3 DEF StepsOf, TableSteps, OrderSteps, BookingSteps,
              Table, Order, Orders, Counter, Booking, HoldRows, SlotRows, List
<1>12. \A y : Has(s, y)' => y \in StepsOf(r)
  <2>1. \A i \in 1..L : Step(s, i) \in StepsOf(r)
    BY <1>3, PlanIsASequence DEF Step, L, r
  <2> QED
    BY <1>3, <1>5, <2>1 DEF Has
<1>13. KnowsItsOrder(s)'
  <2> SUFFICES ASSUME NEW t \in Tables, Has(s, Order(t))', session'[s].saw.orders = "open"
               PROVE  t \in seated
    BY <1>1 DEF KnowsItsOrder, floorVars
  <2>1. Order(t) \in OrderSteps(r) /\ t = r.t
    BY <1>11, <1>12
  <2>2. CASE x \in OrderSteps(r)
    BY <1>9, <2>1, <2>2 DEF OrdersAt
  <2>3. CASE x \notin OrderSteps(r)
    BY <1>2, <1>6, <1>9, <2>1, <2>3 DEF KnowsItsOrder
  <2> QED
    BY <2>2, <2>3
<1>14. ASSUME NEW t \in Tables, Table(t) \in session[s].rows
       PROVE  Knows(s, t)'
  <2>1. Knows(s, t)
    BY <1>2, <1>14
  <2>2. session'[s].saw.status[t] = status[t]
    BY <1>9, <2>1 DEF Knows
  <2>3. ASSUME Has(s, Orders(t))'
        PROVE  session'[s].saw.orders = OrdersAt(t)
    <3>1. Orders(t) \in OrderSteps(r) /\ t = r.t
      BY <1>11, <1>12, <2>3
    <3>2. CASE x \in OrderSteps(r)
      BY <1>9, <3>1, <3>2
    <3>3. CASE x \notin OrderSteps(r)
      BY <1>6, <1>9, <2>1, <2>3, <3>1, <3>3 DEF Knows
    <3> QED
      BY <3>2, <3>3
  <2>4. ASSUME NEW b \in Floor!Bookings, session'[s].saw.bookings[b].table = t
        PROVE  session'[s].saw.bookings[b] = bookings[b]
    BY <1>9, <2>1, <2>4 DEF Knows
  <2> QED
    BY <1>1, <2>2, <2>3, <2>4 DEF Knows, OrdersAt, floorVars
<1>15. ASSUME NEW t \in Tables, Table(t) \notin session[s].rows,
              Table(t) \in session'[s].rows
       PROVE  Knows(s, t)'
  <2>1. x = Table(t)
    BY <1>3, <1>4, <1>15, RowsTaken
  <2>2. ASSUME NEW i \in 1..(n + 1)
        PROVE  Step(s, i) \notin BookingSteps /\ Step(s, i) # Orders(t)
    <3>1. i \in 1..L /\ ~(n + 1 < i)
      BY <1>a
    <3>2. Plan(r)[n + 1] \in TableSteps
      BY <1>3, <2>1 DEF TableSteps, Step, r
    <3>3. r \in Requests /\ n + 1 \in 1..Len(Plan(r)) /\ i \in 1..Len(Plan(r))
      BY <1>3, <3>1 DEF L
    <3>4. Plan(r)[i] \notin BookingSteps /\ Plan(r)[i] # Orders(t)
      BY <3>1, <3>2, <3>3, TablesComeFirst
    <3> QED
      BY <3>4 DEF Step, r
  <2>3. session'[s].saw.bookings = Nothing.bookings
    BY <1>5, <1>10, <2>2 DEF KnowsNoBookingYet, Nothing, BookingSteps
  <2>4. \A b \in Floor!Bookings : session'[s].saw.bookings[b].table # t
    BY <2>3, NothingIsSeen, TableLocksAssumption
  <2>5. ~Has(s, Orders(t))'
    BY <1>5, <2>2 DEF Has
  <2> QED
    BY <1>1, <1>9, <2>1, <2>4, <2>5 DEF Knows, floorVars
<1>16. SessionInv(s)'
  <2>1. Busy(s)'
    BY <1>3, <1>4, NoRequestIsNone DEF Busy
  <2> QED
    BY <1>4, <1>7, <1>8, <1>9, <1>10, <1>13, <1>14, <1>15, <2>1 DEF SessionInv
<1>17. \A u \in Sessions \ {s} : session'[s].rows \cap session[u].rows = {}
  BY <1>1, <1>3, <1>4 DEF Waits, Lockers, LocksInv, RowsAreHeldOnce
<1> QED
  BY <1>1, <1>4, <1>16, <1>17, OthersAreKept

-----------------------------------------------------------------------------
(* Commits *)

\* A transaction that wrote only at a table whose row it holds leaves what the
\* others have read true.
LEMMA WriteKeeps ==
    ASSUME LocksInv, NEW s \in Sessions, NEW t \in Tables,
           Table(t) \in session[s].rows,
           session' = [session EXCEPT ![s] = Idle],
           Floor!TypeOK', OnlyAt(bookings, bookings', t),
           \A u \in Tables \ {t} : /\ status'[u] = status[u]
                                   /\ u \in seated' <=> u \in seated
                                   /\ u \in visited' <=> u \in visited,
           t \in seated => (t \in seated' \/ Order(t) \in session[s].rows)
    PROVE  LocksInv'
<1>1. session'[s] = Idle /\ \A u \in Sessions \ {s} : session'[u] = session[u]
  BY DEF LocksInv
<1>2. Blank(bookings')
  BY DEF OnlyAt
<1>3. (session = [u \in Sessions |-> session[u]])'
  BY DEF LocksInv
<1>4. RowsAreHeldOnce'
  <2>1. Idle.rows = {}
    BY DEF Idle
  <2> QED
    BY <1>1, <2>1 DEF LocksInv, RowsAreHeldOnce
<1>5. ASSUME NEW u \in Sessions \ {s}
      PROVE  SessionInv(u)'
  <2>1. SessionInv(u)
    BY DEF LocksInv
  <2>2. session'[u] = session[u]
    BY <1>1
  <2>3. Done(u)' = Done(u) /\ \A i : Step(u, i)' = Step(u, i)
    BY <2>2 DEF Done, Step
  <2>4. \A y : Has(u, y)' = Has(u, y)
    BY <2>3 DEF Has
  <2>5. OnItsWay(u)' = OnItsWay(u)
    BY <2>2, <2>3 DEF OnItsWay
  <2>6. HoldsItsRows(u)' = HoldsItsRows(u)
    BY <2>2, <2>4 DEF HoldsItsRows
  <2>7. KnowsNoBookingYet(u)' = KnowsNoBookingYet(u)
    BY <2>2, <2>3 DEF KnowsNoBookingYet, Nothing, BookingSteps
  <2>8. Busy(u)' = Busy(u)
    BY <2>2 DEF Busy
  <2>9. \A y \in session[u].rows : y \notin session[s].rows
    BY DEF LocksInv, RowsAreHeldOnce
  <2>10. ASSUME HoldsItsRows(u), KnowsItsOrder(u)
         PROVE  KnowsItsOrder(u)'
    <3> SUFFICES ASSUME NEW v \in Tables, Has(u, Order(v)), session[u].saw.orders = "open"
                 PROVE  v \in seated'
      BY <2>2, <2>4 DEF KnowsItsOrder
    <3>1. v \in seated /\ Order(v) \in session[u].rows
      BY <2>10 DEF KnowsItsOrder, HoldsItsRows
    <3>2. CASE v = t
      BY <2>9, <3>1, <3>2
    <3>3. CASE v # t
      BY <3>1, <3>3
    <3> QED
      BY <3>2, <3>3
  <2>11. ASSUME NEW v \in Tables, Table(v) \in session[u].rows, Knows(u, v)
         PROVE  Knows(u, v)'
    <3>1. v # t
      BY <2>9, <2>11
    <3>2. status'[v] = status[v] /\ OrdersAt(v)' = OrdersAt(v)
      BY <3>1 DEF OrdersAt
    <3>3. ASSUME NEW b \in Floor!Bookings, session[u].saw.bookings[b].table = v
          PROVE  session[u].saw.bookings[b] = bookings'[b]
      <4>1. session[u].saw.bookings[b] = bookings[b]
        BY <2>11, <3>3 DEF Knows
      <4>2. bookings[b].table \notin {t, None}
        BY <3>1, <3>3, <4>1, TableLocksAssumption
      <4> QED
        BY <4>1, <4>2 DEF OnlyAt
    <3> QED
      BY <2>2, <2>4, <2>11, <3>2, <3>3 DEF Knows
  <2> QED
    BY <2>1, <2>2, <2>5, <2>6, <2>7, <2>8, <2>10, <2>11 DEF SessionInv
<1>6. SessionInv(s)'
  BY <1>1, IdleIsFine
<1> QED
  BY <1>2, <1>3, <1>4, <1>5, <1>6 DEF LocksInv

\* At its commit a handler sees its table as it is.
LEMMA SeenAtCommit ==
    ASSUME LocksInv, NEW s \in Sessions, NEW op \in WritesTable, Commits(s, op)
    PROVE  LET r == session[s].req
               saw == session[s].saw
           IN  /\ r \in Requests /\ r.op = op /\ r.t \in Tables
               /\ Table(r.t) \in session[s].rows
               /\ saw.status[r.t] = status[r.t]
               /\ op \in ReadsOrders => ((saw.orders = "open") <=> (r.t \in seated))
               /\ op \in ReadsOrders => ((saw.orders = "none") => (r.t \notin visited))
               /\ \A b \in Floor!Bookings :
                     saw.bookings[b].table = r.t => saw.bookings[b] = bookings[b]
               /\ View(s, r.t) = bookings
               /\ op = "close" /\ saw.orders = "open" =>
                     r.t \in seated /\ Order(r.t) \in session[s].rows
<1> DEFINE r == session[s].req
           saw == session[s].saw
<1>1. r.op = op /\ session[s].todo = <<>>
  BY DEF Commits
<1>2. Busy(s)
  BY <1>1 DEF Busy, NoRequest, WritesTable
<1>3. /\ OnItsWay(s) /\ HoldsItsRows(s) /\ KnowsItsOrder(s)
      /\ \A t \in Tables : Table(t) \in session[s].rows => Knows(s, t)
  BY <1>2 DEF LocksInv, SessionInv
<1>4. r \in Requests
  BY <1>3 DEF OnItsWay
<1>5. Done(s) = Len(Plan(r))
  BY <1>1, <1>4, PlanIsASequence DEF Done
<1>6. \A y : Has(s, y) <=> \E i \in 1..Len(Plan(r)) : Plan(r)[i] = y
  BY <1>5 DEF Has, Step
<1> HIDE DEF r, saw
<1>7. /\ r.t \in Tables /\ Has(s, Table(r.t))
      /\ op \in ReadsOrders => Has(s, Orders(r.t))
      /\ op = "close" => Has(s, Order(r.t))
  BY <1>1, <1>4, <1>6, WritersHaveRead
<1>8. Table(r.t) \in session[s].rows /\ Knows(s, r.t)
  BY <1>3, <1>7 DEF HoldsItsRows
<1>9. /\ saw.status[r.t] = status[r.t]
      /\ op \in ReadsOrders => saw.orders = OrdersAt(r.t)
      /\ \A b \in Floor!Bookings :
            saw.bookings[b].table = r.t => saw.bookings[b] = bookings[b]
  BY <1>7, <1>8 DEF Knows, saw
<1>10. View(s, r.t) = bookings
  <2>1. \A b \in Floor!Bookings : View(s, r.t)[b] = bookings[b]
    BY <1>9 DEF View, saw
  <2>2. View(s, r.t) = [b \in Floor!Bookings |-> View(s, r.t)[b]]
    BY DEF View
  <2>3. bookings = [b \in Floor!Bookings |-> bookings[b]]
    BY DEF LocksInv, Floor!TypeOK
  <2> QED
    BY <2>1, <2>2, <2>3
<1>11. /\ op \in ReadsOrders => ((saw.orders = "open") <=> (r.t \in seated))
       /\ op \in ReadsOrders => ((saw.orders = "none") => (r.t \notin visited))
  BY <1>9 DEF OrdersAt
<1>12. op = "close" /\ saw.orders = "open" =>
          r.t \in seated /\ Order(r.t) \in session[s].rows
  BY <1>3, <1>7 DEF KnowsItsOrder, HoldsItsRows, saw
<1> QED
  BY <1>1, <1>4, <1>7, <1>8, <1>9, <1>10, <1>11, <1>12 DEF r, saw

\* Every commit keeps the invariant and is a step of TableFloor, or none.
CommitIsAStep == LocksInv' /\ [Floor!Next]_(Floor!vars)

LEMMA CommitOpenDoes ==
    ASSUME LocksInv, NEW s \in Sessions, CommitOpen(s)
    PROVE  CommitIsAStep
<1> DEFINE r == session[s].req
           t == r.t
           saw == session[s].saw
<1>1. /\ Commits(s, "open")
      /\ Floor!MayOpen(saw.status[t], saw.orders = "open", View(s, t), t, r.seat)
      /\ status' = [status EXCEPT ![t] = "occupied"]
      /\ seated' = seated \cup {t} /\ visited' = visited \cup {t}
      /\ bookings' = Floor!SeatedHold(View(s, t), t, r.seat)
  BY DEF CommitOpen
<1>2. /\ r \in Requests /\ r.op = "open" /\ t \in Tables /\ Table(t) \in session[s].rows
      /\ saw.status[t] = status[t] /\ ((saw.orders = "open") <=> t \in seated)
      /\ View(s, t) = bookings
  BY <1>1, SeenAtCommit DEF WritesTable, ReadsOrders
<1>3. r.seat \in BOOLEAN
  BY <1>2 DEF Requests
<1>4. (saw.orders = "open") = Floor!IsOpen(t)
  BY <1>2 DEF Floor!IsOpen
<1> HIDE DEF r, saw, t
<1>5. Floor!OpenOrder(t, r.seat)
  BY <1>1, <1>2, <1>4 DEF Floor!OpenOrder, Floor!SetStatus
<1>6. OnlyAt(bookings, bookings', t)
  <2>1. CASE r.seat
    <3>1. Floor!RoomForHold(bookings, t)
      BY <1>1, <1>2, <2>1 DEF Floor!MayOpen, Floor!RoomForHold
    <3> QED
      BY <1>1, <1>2, <2>1, <3>1, HoldResolvedOnlyAt
         DEF Floor!SeatedHold, LocksInv, Floor!TypeOK, BookingTable
  <2>2. CASE ~r.seat
    BY <1>1, <1>2, <2>2, SameOnlyAt
       DEF Floor!SeatedHold, LocksInv, Floor!TypeOK, BookingTable
  <2> QED
    BY <2>1, <2>2
<1>7. Floor!TypeOK'
  BY <1>1, <1>2, <1>6
     DEF LocksInv, Floor!TypeOK, OnlyAt, BookingTable, Floor!TableStatus
<1>8. session' = [session EXCEPT ![s] = Idle]
  BY <1>1 DEF Commits
<1>9. LocksInv'
  BY <1>1, <1>2, <1>6, <1>7, <1>8, WriteKeeps DEF LocksInv, Floor!TypeOK
<1> QED
  BY <1>2, <1>3, <1>5, <1>9 DEF CommitIsAStep, Floor!Next

LEMMA CommitCloseDoes ==
    ASSUME LocksInv, NEW s \in Sessions, CommitClose(s)
    PROVE  CommitIsAStep
<1> DEFINE t == session[s].req.t
<1>1. /\ Commits(s, "close") /\ session[s].saw.orders = "open"
      /\ status' = [status EXCEPT ![t] = "free"]
      /\ seated' = seated \ {t} /\ UNCHANGED <<visited, bookings>>
  BY DEF CommitClose
<1>2. /\ t \in Tables /\ Table(t) \in session[s].rows
      /\ t \in seated /\ Order(t) \in session[s].rows
  BY <1>1, SeenAtCommit DEF WritesTable
<1> HIDE DEF t
<1>3. Floor!CloseOrder(t)
  BY <1>1, <1>2 DEF Floor!CloseOrder, Floor!IsOpen, Floor!SetStatus
<1>4. OnlyAt(bookings, bookings', t)
  BY <1>1, SameOnlyAt DEF LocksInv, Floor!TypeOK, BookingTable
<1>5. Floor!TypeOK'
  BY <1>1, <1>2 DEF LocksInv, Floor!TypeOK, Floor!TableStatus
<1>6. session' = [session EXCEPT ![s] = Idle]
  BY <1>1 DEF Commits
<1>7. LocksInv'
  BY <1>1, <1>2, <1>4, <1>5, <1>6, WriteKeeps DEF LocksInv, Floor!TypeOK
<1> QED
  BY <1>2, <1>3, <1>7 DEF CommitIsAStep, Floor!Next

LEMMA CommitOrderWorkDoes ==
    ASSUME LocksInv, NEW s \in Sessions, CommitOrderWork(s)
    PROVE  CommitIsAStep
<1>1. session' = [session EXCEPT ![s] = Idle] /\ UNCHANGED floorVars
  BY DEF CommitOrderWork, Commits
<1>2. session'[s] = Idle /\ Idle.rows = {}
  BY <1>1 DEF LocksInv, Idle
<1>3. LocksInv'
  BY <1>1, <1>2, IdleIsFine, OthersAreKept
<1> QED
  BY <1>1, <1>3 DEF CommitIsAStep, floorVars, Floor!vars

\* Writing every column of the zone's tables back changes none of them.
LEMMA CommitZoneDoes ==
    ASSUME LocksInv, NEW s \in Sessions, CommitZone(s)
    PROVE  CommitIsAStep
<1>1. /\ session' = [session EXCEPT ![s] = Idle]
      /\ status' = [t \in Tables |-> IF Table(t) \in session[s].rows
                                    THEN session[s].saw.status[t] ELSE status[t]]
      /\ UNCHANGED <<seated, visited, bookings>> /\ session[s].req.op = "zone"
  BY DEF CommitZone, Commits
<1>2. Busy(s)
  BY <1>1 DEF Busy, NoRequest
<1>3. \A t \in Tables : Table(t) \in session[s].rows => session[s].saw.status[t] = status[t]
  BY <1>2 DEF LocksInv, SessionInv, Knows
<1>4. status' = [t \in Tables |-> status[t]]
  BY <1>1, <1>3
<1>5. UNCHANGED floorVars
  BY <1>1, <1>4 DEF LocksInv, Floor!TypeOK, floorVars
<1>6. session'[s] = Idle /\ Idle.rows = {}
  BY <1>1 DEF LocksInv, Idle
<1>7. LocksInv'
  BY <1>1, <1>5, <1>6, IdleIsFine, OthersAreKept
<1> QED
  BY <1>5, <1>7 DEF CommitIsAStep, floorVars, Floor!vars

LEMMA CommitHoldDoes ==
    ASSUME LocksInv, NEW s \in Sessions, CommitHold(s)
    PROVE  CommitIsAStep
<1> DEFINE r == session[s].req
           t == r.t
           saw == session[s].saw
<1>1. /\ Commits(s, "hold")
      /\ Floor!MayHold(saw.status[t], saw.orders = "open")
      /\ Floor!RoomForHold(View(s, t), t)
      /\ status' = [status EXCEPT ![t] = "reserved"]
      /\ bookings' = Floor!HeldFor(View(s, t), t, r.g)
      /\ UNCHANGED <<seated, visited>>
  BY DEF CommitHold
<1>2. /\ r \in Requests /\ r.op = "hold" /\ t \in Tables /\ Table(t) \in session[s].rows
      /\ saw.status[t] = status[t] /\ ((saw.orders = "open") <=> t \in seated)
      /\ View(s, t) = bookings
  BY <1>1, SeenAtCommit DEF WritesTable, ReadsOrders
<1>3. r.g \in Guests
  BY <1>2 DEF Requests
<1>4. (saw.orders = "open") = Floor!IsOpen(t)
  BY <1>2 DEF Floor!IsOpen
<1> HIDE DEF r, saw, t
<1>5. Floor!ReserveTable(t, r.g)
  BY <1>1, <1>2, <1>4 DEF Floor!ReserveTable, Floor!SetStatus
<1>6. OnlyAt(bookings, bookings', t)
  BY <1>1, <1>2, <1>3, HeldForOnlyAt DEF LocksInv, Floor!TypeOK, BookingTable
<1>7. Floor!TypeOK'
  BY <1>1, <1>2, <1>6
     DEF LocksInv, Floor!TypeOK, OnlyAt, BookingTable, Floor!TableStatus
<1>8. session' = [session EXCEPT ![s] = Idle]
  BY <1>1 DEF Commits
<1>9. LocksInv'
  BY <1>1, <1>2, <1>6, <1>7, <1>8, WriteKeeps DEF LocksInv, Floor!TypeOK
<1> QED
  BY <1>2, <1>3, <1>5, <1>9 DEF CommitIsAStep, Floor!Next

LEMMA CommitScheduleDoes ==
    ASSUME LocksInv, NEW s \in Sessions, CommitSchedule(s)
    PROVE  CommitIsAStep
<1> DEFINE r == session[s].req
           t == r.t
<1>1. /\ Commits(s, "schedule")
      /\ Floor!MaySchedule(session[s].saw.status[t]) /\ Floor!RoomFor(bookings)
      /\ Floor!SameGuest(View(s, t), t, r.g, r.slot)
      /\ bookings' = Floor!ScheduledFor(View(s, t), t, r.g, r.slot)
      /\ UNCHANGED <<status, seated, visited>>
  BY DEF CommitSchedule
<1>2. /\ r \in Requests /\ r.op = "schedule" /\ t \in Tables
      /\ Table(t) \in session[s].rows
      /\ session[s].saw.status[t] = status[t] /\ View(s, t) = bookings
  BY <1>1, SeenAtCommit DEF WritesTable
<1>3. r.g \in Guests /\ r.slot \in Slots
  BY <1>2 DEF Requests
<1> HIDE DEF r, t
<1>4. Floor!ScheduleReservation(t, r.g, r.slot)
  BY <1>1, <1>2 DEF Floor!ScheduleReservation
<1>5. OnlyAt(bookings, bookings', t)
  <2>1. bookings \in BookingTable /\ Blank(bookings)
    BY DEF LocksInv, Floor!TypeOK, BookingTable
  <2>2. OnlyAt(bookings, Floor!WithNew(bookings, t, r.g, r.slot), t)
    BY <1>1, <1>2, <1>3, <2>1, WithNewOnlyAt
  <2>3. OnlyAt(bookings, bookings, t)
    BY <2>1, SameOnlyAt
  <2> QED
    BY <1>1, <1>2, <2>2, <2>3 DEF Floor!ScheduledFor
<1>6. Floor!TypeOK'
  BY <1>1, <1>5 DEF LocksInv, Floor!TypeOK, OnlyAt, BookingTable
<1>7. session' = [session EXCEPT ![s] = Idle]
  BY <1>1 DEF Commits
<1>8. LocksInv'
  BY <1>1, <1>2, <1>5, <1>6, <1>7, WriteKeeps
<1> QED
  BY <1>2, <1>3, <1>4, <1>8 DEF CommitIsAStep, Floor!Next

LEMMA CommitResolveDoes ==
    ASSUME LocksInv, NEW s \in Sessions, CommitResolve(s)
    PROVE  CommitIsAStep
<1> DEFINE r == session[s].req
           t == r.t
           saw == session[s].saw
           row == saw.bookings[r.b]
<1>1. /\ Commits(s, "resolve")
      /\ row.status = "active" /\ row.table = t
      /\ status' = [status EXCEPT ![t] =
            Floor!FreedBy(saw.status[t], saw.orders = "open", row)]
      /\ bookings' = Floor!Resolved(View(s, t), r.b, r.outcome)
      /\ UNCHANGED <<seated, visited>>
  BY DEF CommitResolve
<1>2. /\ r \in Requests /\ r.op = "resolve" /\ t \in Tables
      /\ Table(t) \in session[s].rows
      /\ saw.status[t] = status[t] /\ ((saw.orders = "open") <=> t \in seated)
      /\ View(s, t) = bookings
      /\ \A b \in Floor!Bookings : saw.bookings[b].table = t => saw.bookings[b] = bookings[b]
  BY <1>1, SeenAtCommit DEF WritesTable, ReadsOrders
<1>3. r.b \in Floor!Bookings /\ r.outcome \in {"seated", "cancelled"}
  BY <1>2 DEF Requests
<1>4. (saw.orders = "open") = Floor!IsOpen(t)
  BY <1>2 DEF Floor!IsOpen
<1>5. row = bookings[r.b]
  BY <1>1, <1>2, <1>3
<1> HIDE DEF r, saw, t, row
<1>6. bookings[r.b].table = t
  BY <1>1, <1>5
<1>7. status' = [status EXCEPT ![t] = Floor!FreedBy(status[t], Floor!IsOpen(t), bookings[r.b])]
  BY <1>1, <1>2, <1>4, <1>5
<1>8. Floor!ResolveReservation(r.b, r.outcome)
  BY <1>1, <1>2, <1>5, <1>6, <1>7 DEF Floor!ResolveReservation, Floor!SetStatus
<1>9. OnlyAt(bookings, bookings', t)
  BY <1>1, <1>2, <1>3, <1>6, ResolvedOnlyAt DEF LocksInv, Floor!TypeOK, BookingTable
<1>10. Floor!TypeOK'
  <2>1. Floor!FreedBy(status[t], Floor!IsOpen(t), bookings[r.b]) \in Floor!TableStatus
    BY <1>2 DEF Floor!FreedBy, LocksInv, Floor!TypeOK, Floor!TableStatus
  <2> QED
    BY <1>1, <1>2, <1>7, <1>9, <2>1 DEF LocksInv, Floor!TypeOK, OnlyAt, BookingTable
<1>11. session' = [session EXCEPT ![s] = Idle]
  BY <1>1 DEF Commits
<1>12. LocksInv'
  BY <1>1, <1>2, <1>7, <1>9, <1>10, <1>11, WriteKeeps DEF LocksInv, Floor!TypeOK
<1> QED
  BY <1>3, <1>8, <1>12 DEF CommitIsAStep, Floor!Next

LEMMA CommitCancelDoes ==
    ASSUME LocksInv, NEW s \in Sessions, CommitCancel(s)
    PROVE  CommitIsAStep
<1> DEFINE r == session[s].req
           t == r.t
           saw == session[s].saw
<1>1. /\ Commits(s, "cancel")
      /\ Floor!MayCancel(saw.status[t], saw.orders = "open", Floor!Hold(View(s, t), t))
      /\ Floor!RoomForHold(View(s, t), t)
      /\ status' = [status EXCEPT ![t] = "free"]
      /\ bookings' = Floor!HoldResolved(View(s, t), t, "cancelled")
      /\ UNCHANGED <<seated, visited>>
  BY DEF CommitCancel
<1>2. /\ t \in Tables /\ Table(t) \in session[s].rows
      /\ saw.status[t] = status[t] /\ ((saw.orders = "open") <=> t \in seated)
      /\ View(s, t) = bookings
  BY <1>1, SeenAtCommit DEF WritesTable, ReadsOrders
<1>3. (saw.orders = "open") = Floor!IsOpen(t)
  BY <1>2 DEF Floor!IsOpen
<1> HIDE DEF r, saw, t
<1>4. Floor!CancelReservation(t)
  BY <1>1, <1>2, <1>3 DEF Floor!CancelReservation, Floor!SetStatus
<1>5. OnlyAt(bookings, bookings', t)
  BY <1>1, <1>2, HoldResolvedOnlyAt DEF LocksInv, Floor!TypeOK, BookingTable
<1>6. Floor!TypeOK'
  BY <1>1, <1>2, <1>5
     DEF LocksInv, Floor!TypeOK, OnlyAt, BookingTable, Floor!TableStatus
<1>7. session' = [session EXCEPT ![s] = Idle]
  BY <1>1 DEF Commits
<1>8. LocksInv'
  BY <1>1, <1>2, <1>5, <1>6, <1>7, WriteKeeps DEF LocksInv, Floor!TypeOK
<1> QED
  BY <1>2, <1>4, <1>8 DEF CommitIsAStep, Floor!Next

LEMMA CommitSetDoes ==
    ASSUME LocksInv, NEW s \in Sessions, CommitSet(s)
    PROVE  CommitIsAStep
<1> DEFINE r == session[s].req
           t == r.t
           saw == session[s].saw
<1>1. /\ Commits(s, "set")
      /\ Floor!MaySet(saw.status[t], saw.orders = "open", Floor!Hold(View(s, t), t), r.next)
      /\ Floor!RoomForHold(View(s, t), t)
      /\ status' = [status EXCEPT ![t] = r.next]
      /\ bookings' = Floor!SetBookings(View(s, t), t, saw.status[t], r.next, r.g)
      /\ UNCHANGED <<seated, visited>>
  BY DEF CommitSet
<1>2. /\ r \in Requests /\ r.op = "set" /\ t \in Tables /\ Table(t) \in session[s].rows
      /\ saw.status[t] = status[t] /\ ((saw.orders = "open") <=> t \in seated)
      /\ View(s, t) = bookings
  BY <1>1, SeenAtCommit DEF WritesTable, ReadsOrders
<1>3. r.g \in Guests /\ r.next \in {"free", "occupied", "reserved", "inactive"}
  BY <1>2 DEF Requests
<1>4. (saw.orders = "open") = Floor!IsOpen(t)
  BY <1>2 DEF Floor!IsOpen
<1> HIDE DEF r, saw, t
<1>5. Floor!UpdateTableStatus(t, r.next, r.g)
  BY <1>1, <1>2, <1>4 DEF Floor!UpdateTableStatus, Floor!SetStatus
<1>6. OnlyAt(bookings, bookings', t)
  <2>1. bookings \in BookingTable /\ Blank(bookings)
    BY DEF LocksInv, Floor!TypeOK, BookingTable
  <2>2. OnlyAt(bookings, Floor!HeldFor(bookings, t, r.g), t)
    BY <1>1, <1>2, <1>3, <2>1, HeldForOnlyAt
  <2>3. OnlyAt(bookings, Floor!HoldResolved(bookings, t, "cancelled"), t)
    BY <1>1, <1>2, <2>1, HoldResolvedOnlyAt
  <2>4. OnlyAt(bookings, bookings, t)
    BY <2>1, SameOnlyAt
  <2> QED
    BY <1>1, <1>2, <2>2, <2>3, <2>4 DEF Floor!SetBookings
<1>7. Floor!TypeOK'
  BY <1>1, <1>2, <1>3, <1>6
     DEF LocksInv, Floor!TypeOK, OnlyAt, BookingTable, Floor!TableStatus
<1>8. session' = [session EXCEPT ![s] = Idle]
  BY <1>1 DEF Commits
<1>9. LocksInv'
  BY <1>1, <1>2, <1>6, <1>7, <1>8, WriteKeeps DEF LocksInv, Floor!TypeOK
<1>10. r.next \in Floor!TableStatus \ {"deleted"}
  BY <1>3 DEF Floor!TableStatus
<1> QED
  BY <1>2, <1>3, <1>5, <1>9, <1>10 DEF CommitIsAStep, Floor!Next

LEMMA CommitEditDoes ==
    ASSUME LocksInv, NEW s \in Sessions, CommitEdit(s)
    PROVE  CommitIsAStep
<1> DEFINE r == session[s].req
           t == r.t
           saw == session[s].saw
<1>1. /\ Commits(s, "edit") /\ saw.status[t] # "deleted"
      /\ ~Floor!InService(saw.status[t], saw.orders = "open")
      /\ status' = [status EXCEPT ![t] = r.next]
      /\ UNCHANGED <<seated, visited, bookings>>
  BY DEF CommitEdit
<1>2. /\ r \in Requests /\ r.op = "edit" /\ t \in Tables /\ Table(t) \in session[s].rows
      /\ saw.status[t] = status[t] /\ ((saw.orders = "open") <=> t \in seated)
  BY <1>1, SeenAtCommit DEF WritesTable, ReadsOrders
<1>3. r.next \in {"free", "inactive"}
  BY <1>2 DEF Requests
<1>4. (saw.orders = "open") = Floor!IsOpen(t)
  BY <1>2 DEF Floor!IsOpen
<1> HIDE DEF r, saw, t
<1>5. Floor!UpdateTable(t, r.next)
  BY <1>1, <1>2, <1>4 DEF Floor!UpdateTable, Floor!SetStatus
<1>6. OnlyAt(bookings, bookings', t)
  BY <1>1, SameOnlyAt DEF LocksInv, Floor!TypeOK, BookingTable
<1>7. Floor!TypeOK'
  BY <1>1, <1>2, <1>3 DEF LocksInv, Floor!TypeOK, Floor!TableStatus
<1>8. session' = [session EXCEPT ![s] = Idle]
  BY <1>1 DEF Commits
<1>9. LocksInv'
  BY <1>1, <1>2, <1>6, <1>7, <1>8, WriteKeeps DEF LocksInv, Floor!TypeOK
<1> QED
  BY <1>2, <1>3, <1>5, <1>9 DEF CommitIsAStep, Floor!Next

LEMMA CommitDeleteDoes ==
    ASSUME LocksInv, NEW s \in Sessions, CommitDelete(s)
    PROVE  CommitIsAStep
<1> DEFINE t == session[s].req.t
           saw == session[s].saw
<1>1. /\ Commits(s, "delete") /\ saw.status[t] # "deleted"
      /\ ~Floor!InService(saw.status[t], saw.orders = "open")
      /\ Floor!ActiveBookings(View(s, t), t) = {}
      /\ saw.orders = "none"
      /\ status' = [status EXCEPT ![t] = "deleted"]
      /\ UNCHANGED <<seated, visited, bookings>>
  BY DEF CommitDelete
<1>2. /\ t \in Tables /\ Table(t) \in session[s].rows
      /\ saw.status[t] = status[t] /\ ((saw.orders = "open") <=> t \in seated)
      /\ t \notin visited /\ View(s, t) = bookings
  BY <1>1, SeenAtCommit DEF WritesTable, ReadsOrders
<1>3. (saw.orders = "open") = Floor!IsOpen(t)
  BY <1>2 DEF Floor!IsOpen
<1> HIDE DEF saw, t
<1>4. Floor!DeleteTable(t)
  BY <1>1, <1>2, <1>3 DEF Floor!DeleteTable, Floor!SetStatus
<1>5. OnlyAt(bookings, bookings', t)
  BY <1>1, SameOnlyAt DEF LocksInv, Floor!TypeOK, BookingTable
<1>6. Floor!TypeOK'
  BY <1>1, <1>2 DEF LocksInv, Floor!TypeOK, Floor!TableStatus
<1>7. session' = [session EXCEPT ![s] = Idle]
  BY <1>1 DEF Commits
<1>8. LocksInv'
  BY <1>1, <1>2, <1>5, <1>6, <1>7, WriteKeeps DEF LocksInv, Floor!TypeOK
<1> QED
  BY <1>2, <1>4, <1>8 DEF CommitIsAStep, Floor!Next

-----------------------------------------------------------------------------
(* The theorems *)

LEMMA LocksInvHoldsAtFirst ==
    ASSUME Init
    PROVE  LocksInv
<1>1. Floor!TypeOK /\ Blank(bookings)
  BY DEF Init, Floor!Init, Floor!TypeOK, Blank, Floor!NoBooking, Floor!Booking,
         Floor!BookingStatus, Floor!TableStatus
<1>2. \A s \in Sessions : session[s] = Idle
  BY DEF Init
<1>3. session = [s \in Sessions |-> session[s]]
  BY DEF Init
<1>4. RowsAreHeldOnce
  BY <1>2 DEF RowsAreHeldOnce, Idle
<1>5. \A s \in Sessions : SessionInv(s)
  BY <1>2, NothingIsSeen DEF SessionInv, Idle, Busy
<1> QED
  BY <1>1, <1>3, <1>4, <1>5 DEF LocksInv

LEMMA EveryStep ==
    ASSUME LocksInv, [Next]_vars
    PROVE  CommitIsAStep
<1>1. CASE UNCHANGED vars
  <2>1. UNCHANGED floorVars /\ UNCHANGED session
    BY <1>1 DEF vars, floorVars
  <2>2. \A s \in Sessions : SessionInv(s)'
    BY <2>1, Undisturbed DEF LocksInv
  <2>3. Floor!TypeOK' /\ Blank(bookings') /\ RowsAreHeldOnce'
        /\ (session = [s \in Sessions |-> session[s]])'
    BY <2>1 DEF LocksInv, floorVars, Floor!TypeOK, Blank, RowsAreHeldOnce
  <2>4. LocksInv'
    BY <2>2, <2>3 DEF LocksInv
  <2> QED
    BY <2>1, <2>4 DEF CommitIsAStep, floorVars, Floor!vars
<1>2. CASE Next
  <2>1. PICK s \in Sessions :
           \/ \E r \in Arriving : Begin(s, r)
           \/ Advance(s)
           \/ Rollback(s)
           \/ CommitOpen(s) \/ CommitClose(s) \/ CommitOrderWork(s) \/ CommitZone(s)
           \/ CommitHold(s) \/ CommitSchedule(s) \/ CommitResolve(s) \/ CommitCancel(s)
           \/ CommitSet(s) \/ CommitEdit(s) \/ CommitDelete(s)
    BY <1>2 DEF Next
  <2>2. CASE \E r \in Arriving : Begin(s, r)
    <3>1. PICK r \in Arriving : Begin(s, r)
      BY <2>2
    <3>2. LocksInv' /\ UNCHANGED floorVars
      BY <3>1, BeginKeeps, ArrivingAssumption DEF Begin
    <3> QED
      BY <3>2 DEF CommitIsAStep, floorVars, Floor!vars
  <2>3. CASE Advance(s)
    <3>1. LocksInv' /\ UNCHANGED floorVars
      BY <2>3, AdvanceKeeps DEF Advance
    <3> QED
      BY <3>1 DEF CommitIsAStep, floorVars, Floor!vars
  <2>4. CASE Rollback(s)
    <3>1. LocksInv' /\ UNCHANGED floorVars
      BY <2>4, RollbackKeeps DEF Rollback
    <3> QED
      BY <3>1 DEF CommitIsAStep, floorVars, Floor!vars
  <2>5. CASE CommitOpen(s) \/ CommitClose(s) \/ CommitOrderWork(s) \/ CommitZone(s)
    BY <2>5, CommitOpenDoes, CommitCloseDoes, CommitOrderWorkDoes, CommitZoneDoes
  <2>6. CASE CommitHold(s) \/ CommitSchedule(s) \/ CommitResolve(s) \/ CommitCancel(s)
    BY <2>6, CommitHoldDoes, CommitScheduleDoes, CommitResolveDoes, CommitCancelDoes
  <2>7. CASE CommitSet(s) \/ CommitEdit(s) \/ CommitDelete(s)
    BY <2>7, CommitSetDoes, CommitEditDoes, CommitDeleteDoes
  <2> QED
    BY <2>1, <2>2, <2>3, <2>4, <2>5, <2>6, <2>7
<1> QED
  BY <1>1, <1>2

\* The session's part of TypeOK: what is left to do is the end of the plan.
LEMMA InvImpliesTypeOK == LocksInv => TypeOK
<1> SUFFICES ASSUME LocksInv
             PROVE  TypeOK
  OBVIOUS
<1>1. ASSUME NEW s \in Sessions
      PROVE  /\ session[s].req \in Requests \cup {NoRequest}
             /\ session[s].saw \in Seen
  BY DEF LocksInv, SessionInv, Busy, OnItsWay
<1>2. ASSUME NEW s \in Sessions, session[s].todo # <<>>
      PROVE  \E k \in DOMAIN Plan(session[s].req) :
                session[s].todo = SubSeq(Plan(session[s].req), k, Len(Plan(session[s].req)))
  <2> DEFINE plan == Plan(session[s].req)
             L == Len(plan)
             n == Done(s)
  <2>1. /\ n + 1 \in 1..L /\ n \in 0..L
        /\ session[s].todo = [i \in 1..(L - n) |-> plan[i + n]]
        /\ session[s].req \in Requests
    BY <1>2, NextStep DEF LocksInv, SessionInv, OnItsWay, Step
  <2>2. L \in Nat /\ DOMAIN plan = 1..L
    BY <2>1, PlanIsASequence
  <2> HIDE DEF n, L, plan
  <2>3. L - n = (L - (n + 1)) + 1 /\ \A i \in 1..(L - n) : i + n = (i + (n + 1)) - 1
    BY <2>1, <2>2
  <2>4. SubSeq(plan, n + 1, L) = [i \in 1..((L - (n + 1)) + 1) |-> plan[(i + (n + 1)) - 1]]
    BY <2>1, <2>2
  <2>5. session[s].todo = SubSeq(plan, n + 1, L)
    BY <2>1, <2>3, <2>4
  <2> QED
    BY <2>1, <2>2, <2>5 DEF L, plan
<1> QED
  BY <1>1, <1>2 DEF TypeOK, LocksInv, RowsAreHeldOnce

\* What the variables hold, no row held by two sessions.
THEOREM LocksTypeCorrect == Spec => []TypeOK
<1>1. Init => LocksInv
  BY LocksInvHoldsAtFirst
<1>2. LocksInv /\ [Next]_vars => LocksInv'
  BY EveryStep DEF CommitIsAStep
<1> QED
  BY <1>1, <1>2, InvImpliesTypeOK, PTL DEF Spec

\* However many sessions run and however they overlap, what a session has read of
\* a table whose row it holds stays true until it commits.
THEOREM ChecksAreStable == Spec => []ChecksStayTrue
<1>1. Init => LocksInv
  BY LocksInvHoldsAtFirst
<1>2. LocksInv /\ [Next]_vars => LocksInv'
  BY EveryStep DEF CommitIsAStep
<1>3. LocksInv => ChecksStayTrue
  <2> SUFFICES ASSUME LocksInv, NEW s \in Sessions, NEW t \in Tables,
                      Busy(s), Table(t) \in session[s].rows
               PROVE  Knows(s, t)
    BY DEF ChecksStayTrue, Knows, Has, Done, Step
  <2> QED
    BY DEF LocksInv, SessionInv
<1> QED
  BY <1>1, <1>2, <1>3, PTL DEF Spec

\* The transactions implement the floor: every commit is one step of TableFloor,
\* taken as if no other session ran, and every other step changes nothing there.
THEOREM TransactionsImplementTheFloor == Spec => FloorIsImplemented
<1>1. Init => LocksInv /\ Floor!Init
  BY LocksInvHoldsAtFirst DEF Init
<1>2. LocksInv /\ [Next]_vars => LocksInv' /\ [Floor!Next]_(Floor!vars)
  BY EveryStep DEF CommitIsAStep
<1> QED
  BY <1>1, <1>2, PTL DEF Spec, FloorIsImplemented, Floor!Spec

-----------------------------------------------------------------------------
(* No deadlock.  The rows have levels: orders, then the tables in the order *)
(* of their ids, then the counter, then the bookings.  Every plan climbs,   *)
(* so in a set of waiting transactions the one that waits highest up waits  *)
(* for a row whose holder, would it wait in the set, waits higher still.    *)

Position(t) ==
    IF \E i \in DOMAIN InIdOrder : InIdOrder[i] = t
    THEN CHOOSE i \in DOMAIN InIdOrder : InIdOrder[i] = t ELSE Len(InIdOrder) + 1

\* The level of a row, or of the rows a step locks.
Level(x) ==
    CASE x[1] = "order" -> 0
      [] x[1] = "table" -> Position(x[2])
      [] x[1] = "counter" -> Len(InIdOrder) + 2
      [] OTHER -> Len(InIdOrder) + 3

Locks(x) == x[1] \notin {"orders", "list"}

\* A busy session has stepped on every row it holds.
HoldsWhatItStepsOn(s) ==
    \A row \in session[s].rows : \E i \in 1..Done(s) :
        Locks(Step(s, i)) /\ Level(Step(s, i)) = Level(row)

HeldInv == \A s \in Sessions : HoldsWhatItStepsOn(s)

LEMMA PositionOfATable ==
    /\ Len(InIdOrder) \in Nat
    /\ \A t : Position(t) \in 1..(Len(InIdOrder) + 1)
    /\ \A i \in DOMAIN InIdOrder : Position(InIdOrder[i]) = i
<1>1. Len(InIdOrder) \in Nat /\ DOMAIN InIdOrder = 1..Len(InIdOrder)
  BY TableLocksAssumption, LenProperties
<1>2. ASSUME NEW t
      PROVE  Position(t) \in 1..(Len(InIdOrder) + 1)
  BY <1>1 DEF Position
<1>3. ASSUME NEW i \in DOMAIN InIdOrder
      PROVE  Position(InIdOrder[i]) = i
  BY TableLocksAssumption DEF Position
<1> QED
  BY <1>1, <1>2, <1>3

LEMMA LevelsOfSteps ==
    /\ \A t : Level(Order(t)) = 0 /\ Level(Table(t)) = Position(t)
    /\ Level(Counter) = Len(InIdOrder) + 2
    /\ \A b : Level(Booking(b)) = Len(InIdOrder) + 3
    /\ \A t : Level(HoldRows(t)) = Len(InIdOrder) + 3
    /\ \A t, slot : Level(SlotRows(t, slot)) = Len(InIdOrder) + 3
    /\ \A t : ~Locks(Orders(t)) /\ ~Locks(List(t))
BY DEF Level, Locks, Order, Table, Counter, Booking, HoldRows, SlotRows, Orders, List

\* The rows a step locks are of its level, and a step that does not lock locks none.
LEMMA RowsAreOfTheLevel ==
    ASSUME NEW r \in Requests, NEW x \in StepsOf(r), NEW row \in RowsOf(x)
    PROVE  Locks(x) /\ Level(row) = Level(x)
<1>1. CASE x \in TableSteps \cup OrderSteps(r) \cup {Counter}
  BY <1>1 DEF TableSteps, OrderSteps, RowsOf, Locks, Table, Order, Orders, Counter
<1>2. CASE x \in BookingSteps
  BY <1>2 DEF BookingSteps, RowsOf, Locks, Level, Booking, HoldRows, SlotRows, List
<1> QED
  BY <1>1, <1>2 DEF StepsOf

LEMMA LevelsAreNumbers ==
    ASSUME NEW x
    PROVE  Level(x) \in Nat /\ Level(x) <= Len(InIdOrder) + 3
BY PositionOfATable DEF Level

\* Every handler takes its rows upwards.
LEMMA PlansClimb ==
    ASSUME NEW r \in Requests, NEW i \in 1..Len(Plan(r)), NEW j \in 1..Len(Plan(r)),
           i < j, Locks(Plan(r)[i]), Locks(Plan(r)[j])
    PROVE  Level(Plan(r)[i]) < Level(Plan(r)[j])
<1> DEFINE K == Len(InIdOrder)
<1>a. /\ K \in Nat
      /\ \A t : Position(t) \in Nat /\ 0 < Position(t) /\ Position(t) < K + 2
                /\ Position(t) < K + 3
      /\ 0 < K + 2 /\ K + 2 < K + 3 /\ 0 < K + 3
  BY PositionOfATable
<1>b. /\ \A t : Level(Order(t)) = 0 /\ Level(Table(t)) = Position(t)
      /\ Level(Counter) = K + 2
      /\ \A b : Level(Booking(b)) = K + 3
      /\ \A t : Level(HoldRows(t)) = K + 3
      /\ \A t, slot : Level(SlotRows(t, slot)) = K + 3
      /\ \A t : ~Locks(Orders(t)) /\ ~Locks(List(t))
  BY LevelsOfSteps
<1> HIDE DEF K
<1>1. CASE r.op = "open"
  <2>1. Plan(r) = OpenPlan(r.t, r.seat) /\ r.seat \in BOOLEAN
    BY <1>1 DEF Requests, Plan
  <2>2. CASE r.seat
    <3>1. Plan(r) = <<Table(r.t), Orders(r.t), Counter, HoldRows(r.t)>>
      BY <2>1, <2>2 DEF OpenPlan
    <3> QED
      BY <1>a, <1>b, <3>1
  <2>3. CASE ~r.seat
    <3>1. Plan(r) = <<Table(r.t), Orders(r.t), Counter>>
      BY <2>1, <2>3 DEF OpenPlan
    <3> QED
      BY <1>a, <1>b, <3>1
  <2> QED
    BY <2>1, <2>2, <2>3
<1>2. CASE r.op = "close"
  <2>1. Plan(r) = <<Order(r.t), Table(r.t)>>
    BY <1>2 DEF Plan, ClosePlan
  <2> QED
    BY <1>a, <1>b, <2>1
<1>3. CASE r.op = "submit"
  <2>1. Plan(r) = <<Order(r.t), Table(r.t), Counter>>
    BY <1>3 DEF Plan, SubmitPlan
  <2> QED
    BY <1>a, <1>b, <2>1
<1>4. CASE r.op = "add"
  <2>1. Plan(r) = <<Order(r.t), Counter>>
    BY <1>4 DEF Plan, AddPlan
  <2> QED
    BY <1>a, <1>b, <2>1
<1>5. CASE r.op = "hold"
  <2>1. Plan(r) = <<Table(r.t), HoldRows(r.t), Orders(r.t)>>
    BY <1>5 DEF Plan, HoldPlan
  <2> QED
    BY <1>a, <1>b, <2>1
<1>6. CASE r.op = "schedule"
  <2>1. Plan(r) = <<Table(r.t), SlotRows(r.t, r.slot)>>
    BY <1>6 DEF Plan, SchedulePlan
  <2> QED
    BY <1>a, <1>b, <2>1
<1>7. CASE r.op = "resolve"
  <2>1. Plan(r) = <<Table(r.t), Booking(r.b), Orders(r.t)>>
    BY <1>7 DEF Plan, ResolvePlan
  <2> QED
    BY <1>a, <1>b, <2>1
<1>8. CASE r.op \in {"cancel", "set"}
  <2>1. Plan(r) = <<Table(r.t), Orders(r.t), HoldRows(r.t)>>
    BY <1>8 DEF Plan, StatusPlan
  <2> QED
    BY <1>a, <1>b, <2>1
<1>9. CASE r.op = "edit"
  <2>1. Plan(r) = <<Table(r.t), Orders(r.t)>>
    BY <1>9 DEF Plan, EditPlan
  <2> QED
    BY <1>a, <1>b, <2>1
<1>10. CASE r.op = "delete"
  <2>1. Plan(r) = <<Table(r.t), Orders(r.t), List(r.t), Orders(r.t)>>
    BY <1>10 DEF Plan, DeletePlan
  <2> QED
    BY <1>a, <1>b, <2>1
<1>11. CASE r.op = "zone"
  <2>1. Plan(r) = [k \in DOMAIN InIdOrder |-> Table(InIdOrder[k])]
    BY <1>11 DEF Plan, ZonePlan
  <2>2. DOMAIN InIdOrder = 1..K /\ DOMAIN Plan(r) = 1..Len(Plan(r))
    BY TableLocksAssumption, LenProperties, PlanIsASequence DEF K
  <2>3. i \in DOMAIN InIdOrder /\ j \in DOMAIN InIdOrder
    BY <2>1, <2>2
  <2>4. Level(Plan(r)[i]) = i /\ Level(Plan(r)[j]) = j
    BY <1>b, <2>1, <2>3, PositionOfATable
  <2> QED
    BY <2>4
<1> QED
  BY <1>1, <1>2, <1>3, <1>4, <1>5, <1>6, <1>7, <1>8, <1>9, <1>10, <1>11 DEF Requests

LEMMA AdvanceKeepsHeld ==
    ASSUME LocksInv, NEW s \in Sessions, HoldsWhatItStepsOn(s), Advance(s)
    PROVE  HoldsWhatItStepsOn(s)'
<1> DEFINE n == Done(s)
           x == Step(s, n + 1)
<1>1. /\ session[s].req \in Requests /\ n \in Nat /\ x \in StepsOf(session[s].req)
      /\ session'[s].rows = session[s].rows \cup RowsOf(x)
      /\ Done(s)' = n + 1 /\ \A i : Step(s, i)' = Step(s, i)
  BY AdvanceDoes
<1> HIDE DEF n
<1> SUFFICES ASSUME NEW row \in session'[s].rows
             PROVE  \E i \in 1..(n + 1) :
                       Locks(Step(s, i)) /\ Level(Step(s, i)) = Level(row)
  BY <1>1 DEF HoldsWhatItStepsOn
<1>2. CASE row \in session[s].rows
  <2>1. PICK i \in 1..n : Locks(Step(s, i)) /\ Level(Step(s, i)) = Level(row)
    BY <1>2 DEF HoldsWhatItStepsOn, n
  <2>2. i \in 1..(n + 1)
    BY <1>1
  <2> QED
    BY <2>1, <2>2
<1>3. CASE row \in RowsOf(x)
  <2>1. Locks(x) /\ Level(row) = Level(x)
    BY <1>1, <1>3, RowsAreOfTheLevel
  <2>2. n + 1 \in 1..(n + 1)
    BY <1>1
  <2> QED
    BY <2>1, <2>2
<1> QED
  BY <1>1, <1>2, <1>3

LEMMA HeldInvIsKept ==
    ASSUME LocksInv, HeldInv, [Next]_vars
    PROVE  HeldInv'
<1>1. ASSUME NEW u \in Sessions, session'[u].rows = {}
      PROVE  HoldsWhatItStepsOn(u)'
  BY <1>1 DEF HoldsWhatItStepsOn
<1>2. ASSUME NEW u \in Sessions, session'[u] = session[u]
      PROVE  HoldsWhatItStepsOn(u)'
  <2>1. HoldsWhatItStepsOn(u)
    BY DEF HeldInv
  <2>2. Done(u)' = Done(u) /\ \A i : Step(u, i)' = Step(u, i)
    BY <1>2 DEF Done, Step
  <2> QED
    BY <1>2, <2>1, <2>2 DEF HoldsWhatItStepsOn
<1>3. ASSUME NEW s \in Sessions, NEW y, session' = [session EXCEPT ![s] = y],
             HoldsWhatItStepsOn(s)'
      PROVE  HeldInv'
  <2>1. \A u \in Sessions \ {s} : session'[u] = session[u]
    BY <1>3 DEF LocksInv
  <2> QED
    BY <1>2, <1>3, <2>1 DEF HeldInv
<1>4. CASE UNCHANGED vars
  BY <1>2, <1>4 DEF vars, HeldInv
<1>5. CASE Next
  <2>1. PICK s \in Sessions :
           \/ \E r \in Arriving : Begin(s, r)
           \/ Advance(s)
           \/ session' = [session EXCEPT ![s] = Idle]
    BY <1>5 DEF Next, Rollback, Commits, CommitOpen, CommitClose, CommitOrderWork,
                CommitZone, CommitHold, CommitSchedule, CommitResolve, CommitCancel,
                CommitSet, CommitEdit, CommitDelete
  <2>2. CASE \E r \in Arriving : Begin(s, r)
    <3>1. PICK r \in Arriving : Begin(s, r)
      BY <2>2
    <3> DEFINE y == [Idle EXCEPT !.req = r, !.todo = Plan(r)]
    <3>2. session' = [session EXCEPT ![s] = y] /\ y.rows = {}
      BY <3>1 DEF Begin, Idle
    <3> HIDE DEF y
    <3>3. session'[s].rows = {}
      BY <3>2 DEF LocksInv
    <3> QED
      BY <1>1, <1>3, <3>2, <3>3
  <2>3. CASE Advance(s)
    <3>1. HoldsWhatItStepsOn(s)'
      BY <2>3, AdvanceKeepsHeld DEF HeldInv
    <3>2. session' = [session EXCEPT ![s] = session'[s]]
      BY <2>3, AdvanceDoes
    <3> QED
      BY <1>3, <3>1, <3>2
  <2>4. CASE session' = [session EXCEPT ![s] = Idle]
    <3>1. session'[s].rows = {}
      BY <2>4 DEF LocksInv, Idle
    <3> QED
      BY <1>1, <1>3, <2>4, <3>1
  <2> QED
    BY <2>1, <2>2, <2>3, <2>4
<1> QED
  BY <1>4, <1>5

\* What a session waits for is above all it holds.
LEMMA WaitsAboveWhatItHolds ==
    ASSUME LocksInv, HeldInv, NEW s \in Sessions, Waits(s),
           NEW row \in RowsOf(Head(session[s].todo)), NEW held \in session[s].rows
    PROVE  Level(held) < Level(row)
<1> DEFINE r == session[s].req
           n == Done(s)
           x == Head(session[s].todo)
<1>1. session[s].todo # <<>>
  BY DEF Waits
<1>2. /\ Busy(s) /\ n + 1 \in 1..Len(Plan(r)) /\ x = Step(s, n + 1) /\ x \in StepsOf(r)
  BY <1>1, NextStep
<1>3. r \in Requests /\ n \in 0..Len(Plan(r))
  BY <1>2 DEF LocksInv, SessionInv, OnItsWay
<1>4. PICK i \in 1..n : Locks(Step(s, i)) /\ Level(Step(s, i)) = Level(held)
  BY DEF HeldInv, HoldsWhatItStepsOn
<1>5. Locks(x) /\ Level(row) = Level(x)
  BY <1>2, <1>3, RowsAreOfTheLevel
<1>6. Len(Plan(r)) \in Nat
  BY <1>3, PlanIsASequence
<1> HIDE DEF n, x
<1>7. i \in 1..Len(Plan(r)) /\ i < n + 1
  <2> DEFINE L == Len(Plan(r))
  <2>1. L \in Nat /\ n \in 0..L /\ i \in 1..n
    BY <1>3, <1>4, <1>6
  <2> HIDE DEF L
  <2>2. i \in 1..L /\ i < n + 1
    BY <2>1
  <2> QED
    BY <2>2 DEF L
<1>8. Level(Plan(r)[i]) < Level(Plan(r)[n + 1])
  BY <1>2, <1>3, <1>4, <1>5, <1>7, PlansClimb DEF Step
<1> QED
  BY <1>2, <1>4, <1>5, <1>8 DEF Step

LEMMA NoDeadlock ==
    ASSUME LocksInv, HeldInv
    PROVE  SomebodyCanMove
<1> SUFFICES ASSUME NEW S \in SUBSET Sessions, S # {}, \A s \in S : Waits(s),
                    \A s \in S : Lockers(s, RowsOf(Head(session[s].todo))) \subseteq S
             PROVE  FALSE
  BY DEF SomebodyCanMove
<1> DEFINE Awaited(s) == RowsOf(Head(session[s].todo))
           K == Len(InIdOrder) + 3
           Heights == {K - Level(row) : row \in UNION {Awaited(s) : s \in S}}
<1>1. ASSUME NEW s \in S
      PROVE  \E u \in S : \E row \in Awaited(s) : row \in session[u].rows
  BY DEF Waits, Lockers
<1>2. K \in Nat /\ \A x : Level(x) \in Nat /\ Level(x) <= K
  BY LevelsAreNumbers, PositionOfATable
<1> HIDE DEF K, Awaited
<1>3. Heights \in SUBSET Nat
  BY <1>2
<1>4. Heights # {}
  <2>1. PICK s \in S : TRUE
    OBVIOUS
  <2>2. PICK row \in Awaited(s) : TRUE
    BY <1>1
  <2> QED
    BY <2>2
<1>5. PICK h \in Heights : \A k \in Heights : h <= k
  BY <1>3, <1>4, Smallest
<1>6. PICK s \in S : \E row \in Awaited(s) : h = K - Level(row)
  BY <1>5
<1>7. PICK row \in Awaited(s) : h = K - Level(row)
  BY <1>6
<1>8. \A u \in S : \A other \in Awaited(u) : Level(other) <= Level(row)
  <2> SUFFICES ASSUME NEW u \in S, NEW other \in Awaited(u)
               PROVE  Level(other) <= Level(row)
    OBVIOUS
  <2>1. K - Level(row) <= K - Level(other)
    BY <1>5, <1>7
  <2>2. Level(row) \in Nat /\ Level(other) \in Nat
    BY <1>2
  <2> QED
    BY <1>2, <2>1, <2>2
<1>9. ASSUME NEW u \in S, NEW held \in session[u].rows, NEW other \in Awaited(u)
      PROVE  Level(held) < Level(other)
  BY WaitsAboveWhatItHolds DEF Awaited
<1>10. \A x \in S : \A a, b \in Awaited(x) : Level(a) = Level(b)
  <2> SUFFICES ASSUME NEW u \in S, NEW a \in Awaited(u), NEW b \in Awaited(u)
               PROVE  Level(a) = Level(b)
    OBVIOUS
  <2>1. session[u].todo # <<>>
    BY DEF Waits
  <2>2. /\ Busy(u) /\ Head(session[u].todo) \in StepsOf(session[u].req)
    BY <2>1, NextStep
  <2>3. session[u].req \in Requests
    BY <2>2 DEF LocksInv, SessionInv, OnItsWay
  <2> QED
    BY <2>2, <2>3, RowsAreOfTheLevel DEF Awaited
<1>11. PICK u \in S : \E locked \in Awaited(s) : locked \in session[u].rows
  BY <1>1
<1>12. PICK locked \in Awaited(s) : locked \in session[u].rows
  BY <1>11
<1>13. PICK other \in Awaited(u) : TRUE
  BY <1>1
<1>14. Level(row) < Level(other) /\ Level(other) <= Level(row)
  BY <1>7, <1>8, <1>9, <1>10, <1>12
<1> QED
  BY <1>2, <1>14

\* No set of transactions waits in a circle, for any number of sessions, tables
\* and bookings: every handler takes its rows in one order.
THEOREM NobodyWaitsInACircle == Spec => []SomebodyCanMove
<1>1. Init => LocksInv /\ HeldInv
  <2>1. Init => HeldInv
    BY DEF Init, HeldInv, HoldsWhatItStepsOn, Idle
  <2> QED
    BY <2>1, LocksInvHoldsAtFirst
<1>2. LocksInv /\ HeldInv /\ [Next]_vars => LocksInv' /\ HeldInv'
  BY EveryStep, HeldInvIsKept DEF CommitIsAStep
<1>3. LocksInv /\ HeldInv => SomebodyCanMove
  BY NoDeadlock
<1> QED
  BY <1>1, <1>2, <1>3, PTL DEF Spec
-----------------------------------------------------------------------------
(* The floor under overlapping sessions *)

\* The floor once more, with the theorems about it.
FloorFacts == INSTANCE TableFloorProofs

LEMMA FloorFactsApply == FloorFacts!TableFloorAssumption
BY TableLocksAssumption DEF FloorFacts!TableFloorAssumption, FloorFacts!Bookings

LEMMA FloorIsTheFloorOfTheFacts == Floor!Spec => FloorFacts!Spec
<1>1. Floor!Init => FloorFacts!Init
  BY DEF Floor!Init, FloorFacts!Init, Floor!Bookings, FloorFacts!Bookings,
         Floor!NoBooking, FloorFacts!NoBooking
<1>2. [Floor!Next]_(Floor!vars) => [FloorFacts!Next]_(FloorFacts!vars)
  BY Zenon
     DEF Floor!Bookings, FloorFacts!Bookings,
        Floor!TableStatus, FloorFacts!TableStatus,
        Floor!Newest, FloorFacts!Newest,
        Floor!ActiveBookings, FloorFacts!ActiveBookings,
        Floor!Holds, FloorFacts!Holds, Floor!Hold, FloorFacts!Hold,
        Floor!Reconciled, FloorFacts!Reconciled, Floor!Unused, FloorFacts!Unused,
        Floor!WithNew, FloorFacts!WithNew, Floor!Resolved, FloorFacts!Resolved,
        Floor!HeldFor, FloorFacts!HeldFor,
        Floor!HoldResolved, FloorFacts!HoldResolved,
        Floor!RoomFor, FloorFacts!RoomFor,
        Floor!RoomForHold, FloorFacts!RoomForHold,
        Floor!MayOpen, FloorFacts!MayOpen,
        Floor!SeatedHold, FloorFacts!SeatedHold,
        Floor!MayHold, FloorFacts!MayHold, Floor!Booked, FloorFacts!Booked,
        Floor!MaySchedule, FloorFacts!MaySchedule,
        Floor!ScheduledFor, FloorFacts!ScheduledFor,
        Floor!SameGuest, FloorFacts!SameGuest, Floor!FreedBy, FloorFacts!FreedBy,
        Floor!MayCancel, FloorFacts!MayCancel,
        Floor!InService, FloorFacts!InService, Floor!MaySet, FloorFacts!MaySet,
        Floor!SetBookings, FloorFacts!SetBookings,
        Floor!IsOpen, FloorFacts!IsOpen, Floor!SetStatus, FloorFacts!SetStatus,
        Floor!OpenOrder, FloorFacts!OpenOrder,
        Floor!CloseOrder, FloorFacts!CloseOrder,
        Floor!ReserveTable, FloorFacts!ReserveTable,
        Floor!ScheduleReservation, FloorFacts!ScheduleReservation,
        Floor!ResolveReservation, FloorFacts!ResolveReservation,
        Floor!CancelReservation, FloorFacts!CancelReservation,
        Floor!UpdateTableStatus, FloorFacts!UpdateTableStatus,
        Floor!UpdateTable, FloorFacts!UpdateTable,
        Floor!DeleteTable, FloorFacts!DeleteTable, Floor!Next, FloorFacts!Next,
        Floor!vars, FloorFacts!vars
<1> QED
  BY <1>1, <1>2, PTL DEF Floor!Spec, FloorFacts!Spec

\* However the sessions overlap, wait and roll back, what is committed of the
\* floor is in order: a reserved table has one hold and an occupied one an order,
\* no instant is booked twice at a table, a deleted table is bare.
THEOREM OverlapKeepsTheFloor ==
    Spec => [](/\ Floor!HoldsAreOnTheFloor /\ Floor!GuestsAreOnTheFloor
               /\ Floor!OneBookingPerSlot /\ Floor!DeletedTablesAreBare)
<1>1. /\ FloorFacts!Spec => []FloorFacts!HoldsAreOnTheFloor
      /\ FloorFacts!Spec => []FloorFacts!GuestsAreOnTheFloor
      /\ FloorFacts!Spec => []FloorFacts!OneBookingPerSlot
      /\ FloorFacts!Spec => []FloorFacts!DeletedTablesAreBare
  BY FloorFactsApply, FloorFacts!HoldsShowOnTheFloor, FloorFacts!GuestsShowOnTheFloor,
     FloorFacts!SlotsAreBookedOnce, FloorFacts!DeletedStayBare, PTL
<1>2. FloorFacts!HoldsAreOnTheFloor => Floor!HoldsAreOnTheFloor
  BY Zenon DEF Floor!HoldsAreOnTheFloor, FloorFacts!HoldsAreOnTheFloor,
     Floor!Holds, FloorFacts!Holds, Floor!ActiveBookings, FloorFacts!ActiveBookings,
     Floor!Bookings, FloorFacts!Bookings,
     Floor!Cardinality, FloorFacts!Cardinality
<1>3. FloorFacts!GuestsAreOnTheFloor => Floor!GuestsAreOnTheFloor
  BY Zenon DEF Floor!GuestsAreOnTheFloor, FloorFacts!GuestsAreOnTheFloor,
     Floor!IsOpen, FloorFacts!IsOpen
<1>4. FloorFacts!OneBookingPerSlot => Floor!OneBookingPerSlot
  BY Zenon DEF Floor!OneBookingPerSlot, FloorFacts!OneBookingPerSlot,
     Floor!Bookings, FloorFacts!Bookings
<1>5. FloorFacts!DeletedTablesAreBare => Floor!DeletedTablesAreBare
  BY Zenon DEF Floor!DeletedTablesAreBare, FloorFacts!DeletedTablesAreBare,
     Floor!ActiveBookings, FloorFacts!ActiveBookings, Floor!Bookings, FloorFacts!Bookings
<1>6. Spec => FloorFacts!Spec
  BY TransactionsImplementTheFloor, FloorIsTheFloorOfTheFacts DEF FloorIsImplemented
<1> QED
  BY <1>1, <1>2, <1>3, <1>4, <1>5, <1>6, PTL

\* Nor does any overlap end a booking for later, but its own resolution, or let
\* that touch the floor.
THEOREM OverlapKeepsLaterBookings == Spec => Floor!BookingsForLaterSurvive
<1> DEFINE Survive ==
       \A b \in Floor!Bookings :
          bookings[b].status = "active" /\ bookings[b].slot # None
          /\ bookings'[b] # bookings[b]
          => /\ bookings' = Floor!Resolved(bookings, b, bookings'[b].status)
             /\ status' = status
       SurviveInFacts ==
       \A b \in FloorFacts!Bookings :
          bookings[b].status = "active" /\ bookings[b].slot # None
          /\ bookings'[b] # bookings[b]
          => /\ bookings' = FloorFacts!Resolved(bookings, b, bookings'[b].status)
             /\ status' = status
<1>1. [SurviveInFacts]_(FloorFacts!vars) => [Survive]_(Floor!vars)
  <2>1. FloorFacts!Bookings = Floor!Bookings
    BY DEF Floor!Bookings, FloorFacts!Bookings
  <2>2. SurviveInFacts => Survive
    BY Zenon, <2>1 DEF Floor!Resolved, FloorFacts!Resolved
  <2>3. UNCHANGED FloorFacts!vars => UNCHANGED Floor!vars
    BY DEF Floor!vars, FloorFacts!vars
  <2> QED
    BY <2>2, <2>3
<1>2. FloorFacts!Spec => [][SurviveInFacts]_(FloorFacts!vars)
  BY FloorFactsApply, FloorFacts!LaterBookingsSurvive DEF FloorFacts!BookingsForLaterSurvive
<1>3. Spec => FloorFacts!Spec
  BY TransactionsImplementTheFloor, FloorIsTheFloorOfTheFacts DEF FloorIsImplemented
<1>4. Spec => [][Survive]_(Floor!vars)
  BY <1>1, <1>2, <1>3, PTL
<1> QED
  BY <1>4 DEF Floor!BookingsForLaterSurvive
=============================================================================
