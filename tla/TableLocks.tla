----------------------------- MODULE TableLocks -----------------------------
(***************************************************************************)
(* The handlers of TableFloor as the database runs them: several sessions, *)
(* each a READ COMMITTED transaction that takes row locks in the order of  *)
(* the handler's code, remembers what it reads on the way and writes at    *)
(* commit, when its locks are released.  Reads that take no lock are steps *)
(* of their own.  A failing check, a lost request or a database error      *)
(* rolls the transaction back at any point.                                *)
(*                                                                         *)
(* An order is named by the table it sits at: a handler whose order was    *)
(* closed while it waited finds that out, or acts on the table's next one. *)
(***************************************************************************)
EXTENDS Integers, Sequences, FiniteSets

CONSTANTS
    Tables, NumBookings, Guests, Slots, None,   \* as in TableFloor
    Sessions,
    InIdOrder,  \* the tables of a zone, in id order
    Arriving    \* bound: the requests that arrive

ASSUME TableLocksAssumption ==
    /\ InIdOrder \in Seq(Tables)
    /\ \A i, j \in DOMAIN InIdOrder : InIdOrder[i] = InIdOrder[j] => i = j
    /\ NumBookings \in Nat
    /\ None \notin Tables \cup Guests \cup Slots \cup 1..NumBookings

VARIABLES
    status, seated, visited, bookings,   \* as in TableFloor: what is committed
    session    \* [Sessions -> Transaction]

floorVars == <<status, seated, visited, bookings>>
vars == <<status, seated, visited, bookings, session>>

\* What TableFloor promises, of the rows the transactions have committed.
Floor == INSTANCE TableFloor
         WITH status <- status, seated <- seated, visited <- visited,
              bookings <- bookings

-----------------------------------------------------------------------------
(* The steps of a transaction: a row to lock and read, or a read alone *)

Table(t) == <<"table", t>>          \* FindTableForUpdate
Order(t) == <<"order", t>>          \* FindOrderForUpdate
Booking(b) == <<"booking", b>>      \* FindReservationForUpdate
HoldRows(t) == <<"holds", t>>       \* ReconcileActiveReservationsForUpdate
SlotRows(t, slot) == <<"slot", t, slot>>   \* FindScheduledReservationForUpdate
Counter == <<"counter">>            \* LockRestaurantOrderCounter
Orders(t) == <<"orders", t>>        \* HasOpenOrderForTable: no lock
List(t) == <<"list", t>>            \* HasActiveReservation: no lock

OpenPlan(t, seat) ==
    IF seat THEN <<Table(t), Orders(t), Counter, HoldRows(t)>>
    ELSE <<Table(t), Orders(t), Counter>>
\* Paying, cancelling and closing an empty table end in ReleaseTableStatus, an
\* UPDATE of the table row; HasOpenOrderForTable finds no other order there, as
\* a table has one active order.
ClosePlanWithoutTable(t) == <<Order(t)>>
ClosePlan(t) == <<Order(t), Table(t)>>
SubmitPlanTableFirst(t) == <<Table(t), Order(t), Counter>>
SubmitPlan(t) == <<Order(t), Table(t), Counter>>
AddPlan(t) == <<Order(t), Counter>>
HoldPlanReadsFirst(t) == <<Orders(t), Table(t), HoldRows(t)>>
HoldPlan(t) == <<Table(t), HoldRows(t), Orders(t)>>
SchedulePlan(t, slot) == <<Table(t), SlotRows(t, slot)>>
ResolvePlanBookingFirst(t, b) == <<Booking(b), Table(t), Orders(t)>>
ResolvePlan(t, b) == <<Table(t), Booking(b), Orders(t)>>
StatusPlan(t) == <<Table(t), Orders(t), HoldRows(t)>>
EditPlan(t) == <<Table(t), Orders(t)>>
DeletePlan(t) == <<Table(t), Orders(t), List(t), Orders(t)>>
ZonePlan == [i \in DOMAIN InIdOrder |-> Table(InIdOrder[i])]

\* The rows a step locks.
RowsOf(step) ==
    CASE step[1] = "holds" -> {Booking(b) : b \in Floor!Holds(bookings, step[2])}
      [] step[1] = "slot" ->
            {Booking(b) : b \in Floor!Booked(bookings, step[2], step[3])}
      [] step[1] \in {"orders", "list"} -> {}
      [] OTHER -> {step}

-----------------------------------------------------------------------------
(* Requests and transactions *)

Requests ==
    [op : {"open"}, t : Tables, seat : BOOLEAN]
    \cup [op : {"close", "submit", "add", "cancel", "delete"}, t : Tables]
    \cup [op : {"hold"}, t : Tables, g : Guests]
    \cup [op : {"schedule"}, t : Tables, g : Guests, slot : Slots]
    \cup [op : {"set"}, t : Tables, g : Guests,
          next : {"free", "occupied", "reserved", "inactive"}]
    \cup [op : {"edit"}, t : Tables, next : {"free", "inactive"}]
    \cup [op : {"resolve"}, b : Floor!Bookings, t : Tables,
          outcome : {"seated", "cancelled"}]
    \cup [op : {"zone"}]
NoRequest == [op |-> "none"]

ASSUME ArrivingAssumption == Arriving \subseteq Requests

Plan(r) ==
    CASE r.op = "open" -> OpenPlan(r.t, r.seat)
      [] r.op = "close" -> ClosePlan(r.t)
      [] r.op = "submit" -> SubmitPlan(r.t)
      [] r.op = "add" -> AddPlan(r.t)
      [] r.op = "hold" -> HoldPlan(r.t)
      [] r.op = "schedule" -> SchedulePlan(r.t, r.slot)
      [] r.op = "resolve" -> ResolvePlan(r.t, r.b)
      [] r.op \in {"cancel", "set"} -> StatusPlan(r.t)
      [] r.op = "edit" -> EditPlan(r.t)
      [] r.op = "delete" -> DeletePlan(r.t)
      [] r.op = "zone" -> ZonePlan

\* What a transaction has read: the rows of the tables it locked, the orders at
\* its table, and the bookings.
Nothing == [status |-> [t \in Tables |-> "free"], orders |-> "none",
            bookings |-> [b \in Floor!Bookings |-> Floor!NoBooking]]
Seen == [status : [Tables -> Floor!TableStatus],
         orders : {"none", "past", "open"},
         bookings : [Floor!Bookings -> Floor!Booking]]
Idle == [req |-> NoRequest, todo |-> <<>>, rows |-> {}, saw |-> Nothing]

OrdersAt(t) ==
    IF t \in seated THEN "open" ELSE IF t \in visited THEN "past" ELSE "none"

Reading(saw, step) ==
    CASE step[1] = "table" -> [saw EXCEPT !.status[step[2]] = status[step[2]]]
      [] step[1] \in {"order", "orders"} -> [saw EXCEPT !.orders = OrdersAt(step[2])]
      [] step[1] = "counter" -> saw
      [] OTHER -> [saw EXCEPT !.bookings = bookings]

TypeOK ==
    /\ Floor!TypeOK
    /\ \A s \in Sessions :
          /\ session[s].req \in Requests \cup {NoRequest}
          /\ session[s].saw \in Seen
          /\ session[s].todo = <<>> \/
             \E k \in DOMAIN Plan(session[s].req) :
                session[s].todo = SubSeq(Plan(session[s].req), k, Len(Plan(session[s].req)))
    /\ \A s, u \in Sessions :
          s # u => session[s].rows \cap session[u].rows = {}

Init == Floor!Init /\ session = [s \in Sessions |-> Idle]

-----------------------------------------------------------------------------
(* Steps *)

Busy(s) == session[s].req # NoRequest
Lockers(s, rows) == {u \in Sessions \ {s} : session[u].rows \cap rows # {}}
Waits(s) == session[s].todo # <<>> /\ Lockers(s, RowsOf(Head(session[s].todo))) # {}

\* A request arrives.  To resolve a booking its table is read first, unlocked.
Begin(s, r) ==
    /\ ~Busy(s)
    /\ r.op = "resolve" => bookings[r.b].table = r.t
    /\ session' = [session EXCEPT ![s] = [Idle EXCEPT !.req = r, !.todo = Plan(r)]]
    /\ UNCHANGED floorVars

\* The next row is locked and read as it is committed now, or read only.
Advance(s) ==
    LET step == Head(session[s].todo)
    IN  /\ session[s].todo # <<>>
        /\ ~Waits(s)
        /\ session' = [session EXCEPT ![s].todo = Tail(@),
                                      ![s].rows = @ \cup RowsOf(step),
                                      ![s].saw = Reading(@, step)]
        /\ UNCHANGED floorVars

Rollback(s) ==
    /\ Busy(s)
    /\ session' = [session EXCEPT ![s] = Idle]
    /\ UNCHANGED floorVars

\* The bookings as s read those of table t; a row is only written by its id.
View(s, t) ==
    [b \in Floor!Bookings |-> IF session[s].saw.bookings[b].table = t
                              THEN session[s].saw.bookings[b] ELSE bookings[b]]

Commits(s, op) ==
    /\ session[s].req.op = op
    /\ session[s].todo = <<>>
    /\ session' = [session EXCEPT ![s] = Idle]

CommitOpen(s) ==
    LET r == session[s].req
        saw == session[s].saw
    IN  /\ Commits(s, "open")
        /\ Floor!MayOpen(saw.status[r.t], saw.orders = "open", View(s, r.t), r.t, r.seat)
        /\ status' = [status EXCEPT ![r.t] = "occupied"]
        /\ seated' = seated \cup {r.t} /\ visited' = visited \cup {r.t}
        /\ bookings' = Floor!SeatedHold(View(s, r.t), r.t, r.seat)

CommitClose(s) ==
    LET r == session[s].req
    IN  /\ Commits(s, "close")
        /\ session[s].saw.orders = "open"
        /\ status' = [status EXCEPT ![r.t] = "free"]
        /\ seated' = seated \ {r.t}
        /\ UNCHANGED <<visited, bookings>>

\* The guests' order and the staff's new line leave the floor alone, and so
\* does a zone edit but for writing every column of its tables back.
CommitOrderWork(s) ==
    /\ Commits(s, "submit") \/ Commits(s, "add")
    /\ UNCHANGED floorVars

CommitZone(s) ==
    /\ Commits(s, "zone")
    /\ status' = [t \in Tables |-> IF Table(t) \in session[s].rows
                                 THEN session[s].saw.status[t] ELSE status[t]]
    /\ UNCHANGED <<seated, visited, bookings>>

CommitHold(s) ==
    LET r == session[s].req
        saw == session[s].saw
    IN  /\ Commits(s, "hold")
        /\ Floor!MayHold(saw.status[r.t], saw.orders = "open")
        /\ Floor!RoomForHold(View(s, r.t), r.t)
        /\ status' = [status EXCEPT ![r.t] = "reserved"]
        /\ bookings' = Floor!HeldFor(View(s, r.t), r.t, r.g)
        /\ UNCHANGED <<seated, visited>>

CommitSchedule(s) ==
    LET r == session[s].req
        view == View(s, r.t)
    IN  /\ Commits(s, "schedule")
        /\ Floor!MaySchedule(session[s].saw.status[r.t]) /\ Floor!RoomFor(bookings)
        /\ Floor!SameGuest(view, r.t, r.g, r.slot)
        /\ bookings' = Floor!ScheduledFor(view, r.t, r.g, r.slot)
        /\ UNCHANGED <<status, seated, visited>>

CommitResolve(s) ==
    LET r == session[s].req
        saw == session[s].saw
        row == saw.bookings[r.b]
    IN  /\ Commits(s, "resolve")
        /\ row.status = "active" /\ row.table = r.t
        /\ status' = [status EXCEPT ![r.t] =
              Floor!FreedBy(saw.status[r.t], saw.orders = "open", row)]
        /\ bookings' = Floor!Resolved(View(s, r.t), r.b, r.outcome)
        /\ UNCHANGED <<seated, visited>>

CommitCancel(s) ==
    LET r == session[s].req
        saw == session[s].saw
        view == View(s, r.t)
    IN  /\ Commits(s, "cancel")
        /\ Floor!MayCancel(saw.status[r.t], saw.orders = "open", Floor!Hold(view, r.t))
        /\ Floor!RoomForHold(view, r.t)
        /\ status' = [status EXCEPT ![r.t] = "free"]
        /\ bookings' = Floor!HoldResolved(view, r.t, "cancelled")
        /\ UNCHANGED <<seated, visited>>

CommitSet(s) ==
    LET r == session[s].req
        saw == session[s].saw
        view == View(s, r.t)
    IN  /\ Commits(s, "set")
        /\ Floor!MaySet(saw.status[r.t], saw.orders = "open", Floor!Hold(view, r.t), r.next)
        /\ Floor!RoomForHold(view, r.t)
        /\ status' = [status EXCEPT ![r.t] = r.next]
        /\ bookings' = Floor!SetBookings(view, r.t, saw.status[r.t], r.next, r.g)
        /\ UNCHANGED <<seated, visited>>

CommitEdit(s) ==
    LET r == session[s].req
        saw == session[s].saw
    IN  /\ Commits(s, "edit")
        /\ saw.status[r.t] # "deleted"
        /\ ~Floor!InService(saw.status[r.t], saw.orders = "open")
        /\ status' = [status EXCEPT ![r.t] = r.next]
        /\ UNCHANGED <<seated, visited, bookings>>

CommitDelete(s) ==
    LET r == session[s].req
        saw == session[s].saw
    IN  /\ Commits(s, "delete")
        /\ saw.status[r.t] # "deleted"
        /\ ~Floor!InService(saw.status[r.t], saw.orders = "open")
        /\ Floor!ActiveBookings(View(s, r.t), r.t) = {}
        /\ saw.orders = "none"
        /\ status' = [status EXCEPT ![r.t] = "deleted"]
        /\ UNCHANGED <<seated, visited, bookings>>

Next ==
    \E s \in Sessions :
       \/ \E r \in Arriving : Begin(s, r)
       \/ Advance(s)
       \/ Rollback(s)
       \/ CommitOpen(s) \/ CommitClose(s) \/ CommitOrderWork(s) \/ CommitZone(s)
       \/ CommitHold(s) \/ CommitSchedule(s) \/ CommitResolve(s) \/ CommitCancel(s)
       \/ CommitSet(s) \/ CommitEdit(s) \/ CommitDelete(s)

Spec == Init /\ [][Next]_vars

-----------------------------------------------------------------------------
(* Properties *)

\* Run as transactions, the handlers still do what they do one at a time: every
\* commit is one step of TableFloor, so the invariants of the floor hold however
\* the sessions overlap.
FloorIsImplemented == Floor!Spec

\* No deadlock: whatever set of transactions is waiting, one of them waits for
\* a transaction outside the set.
SomebodyCanMove ==
    \A S \in (SUBSET Sessions) \ {{}} :
        \E s \in S : ~Waits(s) \/ ~(Lockers(s, RowsOf(Head(session[s].todo))) \subseteq S)

\* "The answer cannot go stale between this check and the write that follows
\* it": while a handler holds its table's row, what it has read of the table,
\* of the orders there and of the table's bookings stays true.
ChecksStayTrue ==
    \A s \in Sessions, t \in Tables :
        LET saw == session[s].saw
            done == Len(Plan(session[s].req)) - Len(session[s].todo)
            Has(step) == \E i \in 1..done : Plan(session[s].req)[i] = step
        IN  Busy(s) /\ Table(t) \in session[s].rows =>
              /\ saw.status[t] = status[t]
              /\ Has(Orders(t)) => saw.orders = OrdersAt(t)
              /\ \A b \in Floor!Bookings :
                    saw.bookings[b].table = t => saw.bookings[b] = bookings[b]

-----------------------------------------------------------------------------
(* A comment of the source that does not hold as it stands (README, section 4) *)

\* ReleaseTableStatus: "touching a single column removes the lost update
\* without taking any new lock at all".  The UPDATE waits for the table's row.
ReleaseTakesNoLock ==
    \A s \in Sessions :
        session[s].req.op = "close" /\ session[s].todo # <<>>
        /\ Head(session[s].todo)[1] = "table" => ~Waits(s)
=============================================================================
