-------------------------- MODULE BillScreenProofs --------------------------
(***************************************************************************)
(* Proofs about the bill on a phone, for any totals and any number of      *)
(* changes and of reads in flight: what its variables hold, that it never  *)
(* goes back, that the spinner always has a load to end it, and that a     *)
(* change made on the phone arrives or closes the payment.                 *)
(***************************************************************************)
EXTENDS BillScreen, TLAPS

USE BillScreenAssumption

\* TypeOK in the parts the steps change, and the bound on the order that keeps
\* its version in range: only payment takes the last one.
OrderTyped == order \in Order /\ (~order.paid => order.ver <= MaxChanges)
LoadTyped == reads \in SUBSET Read /\ loading \in BOOLEAN /\ held \in BOOLEAN
SeenTyped ==
    /\ bill \in Order \cup {NoBill} /\ landed \in BOOLEAN /\ owed \in BOOLEAN
    /\ billStale \in BOOLEAN /\ error \in BOOLEAN
HistoryTyped ==
    /\ told \in [shown : Totals \cup {0}, amount : Totals \cup {0}, warned : BOOLEAN]
    /\ own \in Versions /\ due \in Versions
Typed ==
    /\ OrderTyped /\ LoadTyped /\ SeenTyped /\ HistoryTyped
    /\ focused \in BOOLEAN /\ work \in Work

-----------------------------------------------------------------------------
(* Sets of reads *)

Kinds == {"load", "stream", "reread"}

LEMMA NoBillIsBefore == NoBill.ver = -1 /\ NoBill \notin Order
BY DEF NoBill, Order, Versions

LEMMA AskTyped ==
    ASSUME NEW kind \in Kinds, NEW front \in BOOLEAN
    PROVE  /\ Ask(kind, front) \in Read
           /\ Ask(kind, front).at = "asked" /\ Ask(kind, front).bill = NoBill
           /\ Ask(kind, front).current /\ Ask(kind, front).front = front
           /\ Ask(kind, front).kind = kind
BY DEF Ask, Read, Kinds

LEMMA OvertakenTyped ==
    ASSUME NEW rs \in SUBSET Read
    PROVE  Overtaken(rs) \in SUBSET Read
<1> SUFFICES ASSUME NEW q \in rs PROVE [q EXCEPT !.current = FALSE] \in Read
    BY DEF Overtaken
<1> QED BY DEF Read

LEMMA ReleasedTyped ==
    ASSUME NEW rs \in SUBSET Read
    PROVE  Released(rs) \in SUBSET Read
<1> SUFFICES ASSUME NEW q \in rs PROVE [q EXCEPT !.front = FALSE] \in Read
    BY DEF Released
<1> QED BY DEF Read

LEMMA BeginTyped ==
    ASSUME NEW rs \in SUBSET Read, NEW kind \in Kinds, NEW front \in BOOLEAN,
           Begin(rs, kind, front)
    PROVE  reads' \in SUBSET Read
BY OvertakenTyped, AskTyped DEF Begin

LEMMA FinishTyped ==
    ASSUME NEW r, NEW rs \in SUBSET Read, Finish(r, rs),
           loading \in BOOLEAN, held \in BOOLEAN
    PROVE  LoadTyped'
BY BeginTyped DEF Finish, Kinds, LoadTyped

LEMMA LoadQuietlyTyped ==
    ASSUME NEW rs \in SUBSET Read, NEW kind \in Kinds, LoadQuietly(kind, rs),
           loading \in BOOLEAN, held \in BOOLEAN
    PROVE  LoadTyped'
BY BeginTyped DEF LoadQuietly, LoadTyped

LEMMA LoadAloudTyped ==
    ASSUME reads \in SUBSET Read, LoadAloud, held \in BOOLEAN
    PROVE  LoadTyped'
BY ReleasedTyped, BeginTyped DEF LoadAloud, Kinds, LoadTyped

-----------------------------------------------------------------------------
(* Types *)

LEMMA TypedIsTypeOK == Typed => TypeOK
BY DEF Typed, OrderTyped, LoadTyped, SeenTyped, HistoryTyped, TypeOK

LEMMA StepTyped ==
    ASSUME OrderTyped, NEW o \in Order, Step(o), ~order.paid
    PROVE  OrderTyped' /\ order'.ver = order.ver + 1
<1>1. order.ver + 1 \in Versions
  BY DEF OrderTyped, Order, Versions
<1>2. order' = [o EXCEPT !.ver = order.ver + 1]
  BY DEF Step
<1>3. order' \in Order
  BY <1>1, <1>2 DEF Order
<1>4. order'.paid = o.paid /\ order'.ver = order.ver + 1
  BY <1>2 DEF Order
<1>5. order.ver < MaxChanges \/ o.paid
  BY DEF Step
<1> QED
  BY <1>3, <1>4, <1>5 DEF OrderTyped, Order, Versions

LEMMA MountedTyped ==
    ASSUME Mounted
    PROVE  /\ LoadTyped' /\ SeenTyped' /\ focused' \in BOOLEAN /\ work' \in Work
           /\ own' \in Versions /\ due' \in Versions
<1>1. 0 \in Versions
  BY DEF Versions
<1>2. NoWork \in Work
  BY DEF NoWork, Work
<1> QED
  BY <1>1, <1>2, Zenon DEF Mounted, LoadTyped, SeenTyped

LEMMA ShownTyped ==
    ASSUME Typed, NEW b \in Order \cup {NoBill}, Shown(b), error' \in BOOLEAN
    PROVE  SeenTyped' /\ own' \in Versions /\ due' \in Versions
<1>1. own' \in {0, own} /\ due' \in {0, due}
  BY DEF Shown, CaughtUp
<1>2. 0 \in Versions /\ own \in Versions /\ due \in Versions
  BY DEF Typed, HistoryTyped, Versions
<1> QED
  BY <1>1, <1>2, Zenon DEF Shown, SeenTyped

\* The cashier's next step.
LEMMA WorkTyped ==
    ASSUME Typed
    PROVE  /\ NoWork \in Work
           /\ \A at \in {"landed", "moved", "notDone", "short", "rereading"} :
                 [work EXCEPT !.at = at] \in Work
           /\ \A kind \in Changes \cup {"pay"}, shown \in Totals \cup {0}, cash \in BOOLEAN :
                 [kind |-> kind, shown |-> shown, cash |-> cash, at |-> "sent"] \in Work
BY DEF Typed, Work, NoWork, Changes

LEMMA TypedInit == Init => Typed
<1> SUFFICES ASSUME Init PROVE Typed
  OBVIOUS
<1>1. order \in Order /\ order.ver = 0
  BY DEF Init
<1>2. NoWork \in Work /\ NotTold \in [shown : Totals \cup {0}, amount : Totals \cup {0}, warned : BOOLEAN]
  BY DEF NoWork, Work, NotTold
<1>3. 0 \in Versions /\ order.ver <= MaxChanges
  BY <1>1 DEF Versions
<1> QED
  BY <1>1, <1>2, <1>3, Zenon DEF Init, Typed, OrderTyped, LoadTyped, SeenTyped, HistoryTyped

LEMMA TypedStep == Typed /\ [Next]_vars => Typed'
<1> SUFFICES ASSUME Typed, [Next]_vars PROVE Typed'
  OBVIOUS
<1> USE DEF Typed
<1>1. CASE Focus
  <2>1. LoadTyped'
    BY <1>1, LoadAloudTyped DEF Focus, LoadTyped
  <2>2. due' \in Versions
    BY <1>1 DEF Focus, OrderTyped, Order
  <2>3. told' \in [shown : Totals \cup {0}, amount : Totals \cup {0}, warned : BOOLEAN]
    BY <1>1 DEF Focus, NotTold
  <2> QED
    BY <1>1, <2>1, <2>2, <2>3, Zenon DEF Focus, OrderTyped, SeenTyped, HistoryTyped
<1>2. CASE Blur
  <2>1. reads' \in SUBSET Read
    BY <1>2, ReleasedTyped, OvertakenTyped DEF Blur, LoadTyped
  <2> QED
    BY <1>2, <2>1, Zenon DEF Blur, seen, history, OrderTyped, LoadTyped, SeenTyped, HistoryTyped
<1>3. CASE Leave
  BY <1>3, MountedTyped, Zenon DEF Leave, OrderTyped, HistoryTyped
<1>4. CASE Reload
  <2>1. LoadTyped'
    BY <1>4, LoadQuietlyTyped DEF Reload, LoadTyped, Kinds
  <2> QED
    BY <1>4, <2>1, Zenon DEF Reload, seen, history, OrderTyped, SeenTyped, HistoryTyped
<1>5. CASE Retry
  <2>1. LoadTyped'
    BY <1>5, LoadQuietlyTyped DEF Retry, LoadTyped, Kinds
  <2> QED
    BY <1>5, <2>1, Zenon DEF Retry, history, OrderTyped, SeenTyped, HistoryTyped
<1>6. ASSUME NEW r \in reads, ServerReads(r)
      PROVE  Typed'
  <2>1. [r EXCEPT !.at = "answered", !.bill = order] \in Read
    BY DEF LoadTyped, OrderTyped, Read
  <2>2. reads' \in SUBSET Read
    BY <1>6, <2>1 DEF ServerReads, LoadTyped
  <2> QED
    BY <1>6, <2>2, Zenon DEF ServerReads, seen, history, OrderTyped, LoadTyped, SeenTyped, HistoryTyped
<1>7. ASSUME NEW r \in reads, Land(r)
      PROVE  Typed'
  <2>1. r \in Read /\ r.bill \in Order \cup {NoBill}
    BY DEF LoadTyped, Read
  <2>2. SeenTyped' /\ own' \in Versions /\ due' \in Versions
    BY <1>7, <2>1, ShownTyped DEF Land
  <2>3. CASE r.front /\ ~r.bill.paid
    <3>1. [r EXCEPT !.at = "photos"] \in Read
      BY <2>1 DEF Read
    <3>2. reads' = (reads \ {r}) \cup {[r EXCEPT !.at = "photos"]}
      BY <1>7, <2>3 DEF Land
    <3> QED
      BY <1>7, <2>2, <2>3, <3>1, <3>2, Zenon DEF Land, OrderTyped, LoadTyped, HistoryTyped
  <2>4. CASE ~(r.front /\ ~r.bill.paid)
    <3>1. LoadTyped'
      BY <1>7, <2>4, FinishTyped DEF Land, LoadTyped
    <3> QED
      BY <1>7, <2>2, <3>1, Zenon DEF Land, OrderTyped, HistoryTyped
  <2> QED
    BY <2>3, <2>4
<1>8. ASSUME NEW r \in reads, Photos(r) \/ Drop(r)
      PROVE  Typed'
  <2>1. LoadTyped'
    BY <1>8, FinishTyped DEF Photos, Drop, LoadTyped
  <2> QED
    BY <1>8, <2>1, Zenon DEF Photos, Drop, seen, history, OrderTyped, SeenTyped, HistoryTyped
<1>9. ASSUME NEW r \in reads, Fail(r)
      PROVE  Typed'
  <2>1. LoadTyped'
    BY <1>9, FinishTyped DEF Fail, LoadTyped
  <2> QED
    BY <1>9, <2>1, Zenon DEF Fail, history, OrderTyped, SeenTyped, HistoryTyped
<1>10. ASSUME NEW r \in reads, RereadLands(r)
       PROVE  Typed'
  <2>1. r.bill \in Order \cup {NoBill}
    BY DEF LoadTyped, Read
  <2>2. error' \in BOOLEAN
    BY <1>10, Zenon DEF RereadLands, SeenTyped
  <2>3. SeenTyped' /\ own' \in Versions /\ due' \in Versions
    BY <1>10, <2>1, <2>2, ShownTyped DEF RereadLands
  <2> QED
    BY <1>10, <2>3, WorkTyped, Zenon DEF RereadLands, OrderTyped, LoadTyped, HistoryTyped
<1>11. ASSUME NEW r \in reads, RereadFails(r)
       PROVE  Typed'
  <2>1. r.current \in BOOLEAN
    BY DEF LoadTyped, Read
  <2>2. SeenTyped'
    BY <1>11, <2>1, Zenon DEF RereadFails, IsCurrent, SeenTyped
  <2>3. LoadTyped'
    BY <1>11, Zenon DEF RereadFails, LoadTyped
  <2> QED
    BY <1>11, <2>2, <2>3, WorkTyped, Zenon DEF RereadFails, history, OrderTyped, HistoryTyped
<1>12. CASE DeletePendingItem \/ CancelBillItem \/ SendRoundToKitchen
  <2>1. PICK kind \in Changes : Start(kind)
    BY <1>12 DEF DeletePendingItem, CancelBillItem, SendRoundToKitchen, Changes
  <2>2. work' \in Work
    BY <2>1, WorkTyped DEF Start
  <2>3. due' \in Versions
    BY <2>1 DEF Start, Versions
  <2> QED
    BY <2>1, <2>2, <2>3, Zenon DEF Start, load, OrderTyped, LoadTyped, SeenTyped, HistoryTyped
<1>13. CASE ServeChange
  <2>1. OrderTyped'
    <3>1. CASE UNCHANGED order
      BY <3>1 DEF OrderTyped
    <3>2. CASE order' # order
      <4>1. /\ ~order.paid
            /\ \E t \in Totals \cup {0}, s \in Stages : Step([order EXCEPT !.total = t, !.stage = s])
        BY <1>13, <3>2 DEF ServeChange
      <4>2. PICK t \in Totals \cup {0}, s \in Stages : Step([order EXCEPT !.total = t, !.stage = s])
        BY <4>1
      <4>3. [order EXCEPT !.total = t, !.stage = s] \in Order
        BY DEF OrderTyped, Order
      <4> QED
        BY <4>1, <4>2, <4>3, StepTyped
    <3> QED
      BY <3>1, <3>2
  <2>2. work' \in Work
    BY <1>13, WorkTyped DEF ServeChange
  <2> QED
    BY <1>13, <2>1, <2>2, Zenon DEF ServeChange, load, seen, history, LoadTyped, SeenTyped, HistoryTyped
<1>14. CASE Fails
  <2>1. work' \in Work
    BY <1>14, WorkTyped DEF Fails
  <2> QED
    BY <1>14, <2>1, Zenon DEF Fails, load, seen, history, OrderTyped, LoadTyped, SeenTyped, HistoryTyped
<1>15. CASE ChangeLanded
  <2>1. reads' \in SUBSET Read
    BY <1>15, BeginTyped DEF ChangeLanded, LoadTyped, Kinds
  <2>2. own' \in Versions
    BY <1>15 DEF ChangeLanded, OrderTyped, Order
  <2>3. work' \in Work
    BY <1>15, WorkTyped DEF ChangeLanded
  <2>4. SeenTyped'
    BY <1>15, Zenon DEF ChangeLanded, SeenTyped
  <2> QED
    BY <1>15, <2>1, <2>2, <2>3, <2>4, Zenon DEF ChangeLanded, OrderTyped, LoadTyped, HistoryTyped
<1>16. CASE RoundSent
  BY <1>16, MountedTyped, Zenon DEF RoundSent, OrderTyped, HistoryTyped
<1>17. CASE ChangeRefused
  <2>1. LoadTyped'
    BY <1>17, LoadQuietlyTyped DEF ChangeRefused, LoadTyped, Kinds
  <2> QED
    BY <1>17, <2>1, WorkTyped, Zenon DEF ChangeRefused, seen, history, OrderTyped, SeenTyped, HistoryTyped
<1>18. ASSUME NEW cash \in BOOLEAN, Pay(cash)
       PROVE  Typed'
  <2>1. bill.total \in Totals \cup {0}
    BY DEF SeenTyped, Order, NoBill
  <2>2. work' \in Work
    BY <1>18, <2>1, WorkTyped DEF Pay
  <2>3. due' \in Versions
    BY <1>18 DEF Pay, Versions
  <2> QED
    BY <1>18, <2>2, <2>3, Zenon DEF Pay, load, OrderTyped, LoadTyped, SeenTyped, HistoryTyped
<1>19. CASE ServePayment
  <2>1. OrderTyped'
    <3>1. CASE UNCHANGED order
      BY <3>1 DEF OrderTyped
    <3>2. CASE order' # order
      <4>1. ~order.paid /\ Step([order EXCEPT !.paid = TRUE])
        BY <1>19, <3>2 DEF ServePayment
      <4>2. [order EXCEPT !.paid = TRUE] \in Order
        BY DEF OrderTyped, Order
      <4> QED
        BY <4>1, <4>2, StepTyped
    <3> QED
      BY <3>1, <3>2
  <2>2. work' \in Work
    BY <1>19, WorkTyped DEF ServePayment
  <2> QED
    BY <1>19, <2>1, <2>2, Zenon DEF ServePayment, load, seen, history, LoadTyped, SeenTyped, HistoryTyped
<1>20. CASE Paid
  <2>1. /\ work.shown \in Totals \cup {0} /\ order.total \in Totals \cup {0}
        /\ Repriced \in BOOLEAN
    BY DEF OrderTyped, Order, Work, Repriced
  <2>2. told' \in [shown : Totals \cup {0}, amount : Totals \cup {0}, warned : BOOLEAN]
    BY <1>20, <2>1 DEF Paid
  <2> QED
    BY <1>20, <2>2, MountedTyped, Zenon DEF Paid, OrderTyped, HistoryTyped
<1>21. CASE PaymentRefused
  <2>1. LoadTyped'
    BY <1>21, LoadQuietlyTyped DEF PaymentRefused, LoadTyped, Kinds
  <2> QED
    BY <1>21, <2>1, WorkTyped, Zenon DEF PaymentRefused, history, OrderTyped, SeenTyped, HistoryTyped
<1>22. CASE OthersChange \/ OthersPay
  <2>1. OrderTyped'
    <3>1. CASE OthersChange
      <4>1. PICK t \in Totals \cup {0}, s \in Stages : Step([order EXCEPT !.total = t, !.stage = s])
        BY <3>1 DEF OthersChange
      <4>2. [order EXCEPT !.total = t, !.stage = s] \in Order
        BY DEF OrderTyped, Order
      <4> QED
        BY <3>1, <4>1, <4>2, StepTyped DEF OthersChange
    <3>2. CASE OthersPay
      <4>1. [order EXCEPT !.paid = TRUE] \in Order
        BY DEF OrderTyped, Order
      <4> QED
        BY <3>2, <4>1, StepTyped DEF OthersPay
    <3> QED
      BY <1>22, <3>1, <3>2
  <2> QED
    BY <1>22, <2>1, Zenon DEF OthersChange, OthersPay, load, seen, history, LoadTyped, SeenTyped, HistoryTyped
<1>23. CASE UNCHANGED vars
  BY <1>23, Zenon DEF vars, seen, history, load, OrderTyped, LoadTyped, SeenTyped, HistoryTyped
<1> QED
  BY <1>1, <1>2, <1>3, <1>4, <1>5, <1>6, <1>7, <1>8, <1>9, <1>10, <1>11, <1>12, <1>13, <1>14,
     <1>15, <1>16, <1>17, <1>18, <1>19, <1>20, <1>21, <1>22, <1>23, Zenon DEF Next

\* What the variables of the screen and the order hold, for any bounds.
THEOREM BillTypeCorrect == Spec => []TypeOK
<1>1. Spec => []Typed
  BY TypedInit, TypedStep, PTL DEF Spec
<1> QED
  BY <1>1, TypedIsTypeOK, PTL

-----------------------------------------------------------------------------
(* The spinner *)

\* The read of a change never carries the spinner: it ends without taking it down.
RereadsBehind(rs) == \A r \in rs : r.kind = "reread" => ~r.front
Spins == SpinnerHasItsLoad /\ RereadsBehind(reads)

LEMMA BeginSpins ==
    ASSUME NEW rs \in SUBSET Read, NEW kind \in Kinds, NEW front \in BOOLEAN,
           RereadsBehind(rs), kind = "reread" => ~front, Begin(rs, kind, front)
    PROVE  RereadsBehind(reads') /\ (Front(rs) \/ front => Front(reads'))
<1>1. reads' = Overtaken(rs) \cup {Ask(kind, front)}
  BY DEF Begin
<1>2. Ask(kind, front).front = front /\ Ask(kind, front).kind = kind
  BY AskTyped
<1>3. ASSUME NEW q \in rs
      PROVE  /\ [q EXCEPT !.current = FALSE].front = q.front
             /\ [q EXCEPT !.current = FALSE].kind = q.kind
  BY DEF Read
<1>4. RereadsBehind(Overtaken(rs))
  BY <1>3 DEF RereadsBehind, Overtaken
<1>5. Front(rs) => Front(Overtaken(rs))
  BY <1>3 DEF Front, Overtaken, AwaitedFor
<1> QED
  BY <1>1, <1>2, <1>4, <1>5 DEF RereadsBehind, Front

LEMMA ReleasedSpins ==
    ASSUME NEW rs \in SUBSET Read
    PROVE  RereadsBehind(Released(rs))
<1>1. ASSUME NEW q \in rs
      PROVE  ~[q EXCEPT !.front = FALSE].front
  BY DEF Read
<1> QED
  BY <1>1 DEF RereadsBehind, Released

\* The finally block takes the spinner down with the load that carries it.
LEMMA FinishSpins ==
    ASSUME Typed, Spins, NEW r \in reads, Finish(r, reads \ {r}), UNCHANGED focused
    PROVE  Spins'
<1>1. RereadsBehind(reads \ {r}) /\ reads \ {r} \in SUBSET Read
  BY DEF Spins, RereadsBehind, Typed, LoadTyped
<1>2. CASE r.front
  <2>1. ~loading' /\ ~held'
    BY <1>2 DEF Finish
  <2>2. RereadsBehind(reads')
    BY <1>1, <1>2, BeginSpins DEF Finish, Kinds
  <2> QED
    BY <2>1, <2>2 DEF Spins, SpinnerHasItsLoad
<1>3. CASE ~r.front
  <2>1. reads' = reads \ {r} /\ loading' = loading /\ held' = held
    BY <1>3 DEF Finish
  <2>2. Front(reads) => Front(reads')
    BY <1>3, <2>1 DEF Front
  <2> QED
    BY <1>1, <2>1, <2>2 DEF Spins, SpinnerHasItsLoad
<1> QED
  BY <1>2, <1>3

\* A quiet load waits only behind one that carries the spinner.
LEMMA QuietSpins ==
    ASSUME Typed, Spins, NEW kind \in {"load", "stream"}, LoadQuietly(kind, reads),
           UNCHANGED focused
    PROVE  Spins'
<1>1. RereadsBehind(reads) /\ reads \in SUBSET Read
  BY DEF Spins, Typed, LoadTyped
<1>2. CASE HeldForFirstBill(reads)
  BY <1>1, <1>2 DEF LoadQuietly, HeldForFirstBill, Spins, SpinnerHasItsLoad
<1>3. CASE ~HeldForFirstBill(reads)
  <2>1. RereadsBehind(reads') /\ (Front(reads) => Front(reads'))
    BY <1>1, <1>3, BeginSpins DEF LoadQuietly, Kinds
  <2> QED
    BY <1>3, <2>1 DEF LoadQuietly, Spins, SpinnerHasItsLoad
<1> QED
  BY <1>2, <1>3

LEMMA MountedSpins == ASSUME Mounted PROVE Spins'
BY DEF Mounted, Spins, SpinnerHasItsLoad, RereadsBehind

LEMMA SpinsInit == Init => Spins
BY DEF Init, Spins, SpinnerHasItsLoad, RereadsBehind

LEMMA SpinsStep == Typed /\ Spins /\ [Next]_vars => Spins'
<1> SUFFICES ASSUME Typed, Spins, [Next]_vars PROVE Spins'
  OBVIOUS
<1>0. RereadsBehind(reads) /\ reads \in SUBSET Read
  BY DEF Spins, Typed, LoadTyped
<1>1. CASE Focus
  <2>1. Begin(Released(reads), "load", TRUE)
    BY <1>1 DEF Focus, LoadAloud
  <2>2. RereadsBehind(reads') /\ Front(reads')
    BY <1>0, <2>1, ReleasedTyped, ReleasedSpins, BeginSpins DEF Kinds
  <2> QED
    BY <2>2 DEF Spins, SpinnerHasItsLoad
<1>2. CASE Blur
  <2>1. ASSUME NEW q \in reads
        PROVE  [[q EXCEPT !.front = FALSE] EXCEPT !.current = FALSE].front = FALSE
    BY <1>0 DEF Read
  <2>2. RereadsBehind(Overtaken(Released(reads)))
    BY <2>1 DEF RereadsBehind, Overtaken, Released
  <2> QED
    BY <1>2, <2>2 DEF Blur, Spins, SpinnerHasItsLoad
<1>3. CASE Leave \/ RoundSent \/ Paid
  BY <1>3, MountedSpins DEF Leave, RoundSent, Paid
<1>4. CASE Reload \/ Retry \/ ChangeRefused \/ PaymentRefused
  BY <1>4, QuietSpins DEF Reload, Retry, ChangeRefused, PaymentRefused
<1>5. ASSUME NEW r \in reads, ServerReads(r)
      PROVE  Spins'
  <2>1. /\ [r EXCEPT !.at = "answered", !.bill = order].front = r.front
        /\ [r EXCEPT !.at = "answered", !.bill = order].kind = r.kind
    BY <1>0 DEF Read
  <2>2. RereadsBehind(reads') /\ (Front(reads) => Front(reads'))
    BY <1>0, <1>5, <2>1 DEF ServerReads, RereadsBehind, Front
  <2> QED
    BY <1>5, <2>2 DEF ServerReads, Spins, SpinnerHasItsLoad
<1>6. ASSUME NEW r \in reads, Land(r)
      PROVE  Spins'
  <2>1. CASE r.front /\ ~r.bill.paid
    <3>1. /\ [r EXCEPT !.at = "photos"].front = r.front
          /\ [r EXCEPT !.at = "photos"].kind = r.kind
      BY <1>0 DEF Read
    <3>2. RereadsBehind(reads') /\ Front(reads')
      BY <1>0, <1>6, <2>1, <3>1 DEF Land, RereadsBehind, Front
    <3> QED
      BY <3>2 DEF Spins, SpinnerHasItsLoad
  <2>2. CASE ~(r.front /\ ~r.bill.paid)
    BY <1>6, <2>2, FinishSpins DEF Land
  <2> QED
    BY <2>1, <2>2
<1>7. ASSUME NEW r \in reads, Photos(r) \/ Drop(r) \/ Fail(r)
      PROVE  Spins'
  BY <1>7, FinishSpins DEF Photos, Drop, Fail
<1>8. ASSUME NEW r \in reads, RereadLands(r) \/ RereadFails(r)
      PROVE  Spins'
  <2>1. /\ r.kind = "reread" /\ reads' = reads \ {r}
        /\ loading' = loading /\ held' = held /\ focused' = focused
    BY <1>8 DEF RereadLands, RereadFails
  <2>2. Front(reads) => Front(reads')
    BY <1>0, <2>1 DEF RereadsBehind, Front
  <2> QED
    BY <1>0, <2>1, <2>2 DEF Spins, SpinnerHasItsLoad, RereadsBehind
<1>9. CASE ChangeLanded
  <2>1. RereadsBehind(reads') /\ (Front(reads) => Front(reads'))
    BY <1>0, <1>9, BeginSpins DEF ChangeLanded, Kinds
  <2> QED
    BY <1>9, <2>1 DEF ChangeLanded, Spins, SpinnerHasItsLoad
<1>10. CASE \/ DeletePendingItem \/ CancelBillItem \/ SendRoundToKitchen \/ ServeChange
            \/ Fails \/ (\E cash \in BOOLEAN : Pay(cash)) \/ ServePayment
            \/ OthersChange \/ OthersPay \/ UNCHANGED vars
  <2>1. UNCHANGED <<load, focused>>
    BY <1>10 DEF DeletePendingItem, CancelBillItem, SendRoundToKitchen, Start,
       ServeChange, Fails, Pay, ServePayment, OthersChange, OthersPay, vars
  <2> QED
    BY <2>1 DEF load, Spins, SpinnerHasItsLoad
<1> QED
  BY <1>1, <1>2, <1>3, <1>4, <1>5, <1>6, <1>7, <1>8, <1>9, <1>10, Zenon DEF Next

\* While the screen is in front, a spinner or a reload behind it has the load
\* that will end it still out (the finally block of load).
THEOREM SpinnerIsNeverLeft == Spec => []SpinnerHasItsLoad
<1>1. Spec => []Typed
  BY TypedInit, TypedStep, PTL DEF Spec
<1>2. Spec => []Spins
  BY <1>1, SpinsInit, SpinsStep, PTL DEF Spec
<1>3. Spins => SpinnerHasItsLoad
  BY DEF Spins
<1> QED
  BY <1>2, <1>3, PTL

-----------------------------------------------------------------------------
(* What reads may bring *)

\* At most one read counts; no read knows more than the order o, and one that
\* counts knows the bill on the screen, of version b, and our last change w.
Bring(rs, b, w, o) ==
    /\ \A q, r \in rs : q.current /\ r.current => q = r
    /\ \A r \in rs : /\ r.bill.ver <= o
                     /\ r.current /\ r.at = "answered" => b <= r.bill.ver /\ w <= r.bill.ver
Pending(rs) == \E r \in rs : r.current /\ r.at # "photos"

\* A change the bill does not show is owed, and on its way while staff look on.
InOrder ==
    /\ bill.ver <= order.ver /\ own <= order.ver
    /\ Bring(reads, bill.ver, own, order.ver)
    /\ own > 0 /\ bill.ver < own => owed /\ (focused /\ ~billStale => Pending(reads))

\* A read that begins is the one that counts, and has no answer yet.
LEMMA BeginInOrder ==
    ASSUME NEW rs \in SUBSET Read, NEW kind \in Kinds, NEW front \in BOOLEAN,
           Begin(rs, kind, front), NEW b, NEW w, NEW o \in Nat,
           \A r \in rs : r.bill.ver <= o
    PROVE  Bring(reads', b, w, o) /\ Pending(reads')
<1>1. reads' = Overtaken(rs) \cup {Ask(kind, front)}
  BY DEF Begin
<1>2. ASSUME NEW q \in Overtaken(rs)
      PROVE  ~q.current /\ q.bill.ver <= o
  <2>1. PICK r \in rs : q = [r EXCEPT !.current = FALSE]
    BY DEF Overtaken
  <2>2. q.current = FALSE /\ q.bill = r.bill
    BY <2>1 DEF Read
  <2> QED
    BY <2>2
<1>3. /\ Ask(kind, front).at = "asked" /\ Ask(kind, front).current
      /\ Ask(kind, front).bill.ver <= o
  BY AskTyped, NoBillIsBefore
<1> QED
  BY <1>1, <1>2, <1>3 DEF Bring, Pending

LEMMA ReleasedInOrder ==
    ASSUME NEW rs \in SUBSET Read, NEW o, \A r \in rs : r.bill.ver <= o
    PROVE  \A r \in Released(rs) : r.bill.ver <= o
<1>1. ASSUME NEW r \in rs
      PROVE  [r EXCEPT !.front = FALSE].bill.ver <= o
  BY DEF Read
<1> QED
  BY <1>1 DEF Released

LEMMA FinishInOrder ==
    ASSUME NEW r, NEW rs \in SUBSET Read, Finish(r, rs), NEW b, NEW w, NEW o \in Nat,
           Bring(rs, b, w, o)
    PROVE  Bring(reads', b, w, o) /\ (Pending(rs) => Pending(reads'))
<1>1. CASE reads' = rs
  BY <1>1
<1>2. CASE Begin(rs, "stream", FALSE)
  BY <1>2, BeginInOrder DEF Bring, Kinds
<1> QED
  BY <1>1, <1>2 DEF Finish

LEMMA QuietInOrder ==
    ASSUME NEW rs \in SUBSET Read, NEW kind \in Kinds, LoadQuietly(kind, rs),
           NEW b, NEW w, NEW o \in Nat, Bring(rs, b, w, o)
    PROVE  Bring(reads', b, w, o) /\ (Pending(rs) => Pending(reads'))
<1>1. CASE reads' = rs
  BY <1>1
<1>2. CASE Begin(rs, kind, FALSE)
  BY <1>2, BeginInOrder DEF Bring
<1> QED
  BY <1>1, <1>2 DEF LoadQuietly

LEMMA BringLater ==
    ASSUME NEW rs \in SUBSET Read, NEW b, NEW w, NEW o \in Nat, NEW p \in Nat, o <= p,
           Bring(rs, b, w, o)
    PROVE  Bring(rs, b, w, p)
<1>1. ASSUME NEW r \in rs
      PROVE  r.bill.ver <= p
  <2>1. r.bill.ver \in Int
    BY NoBillIsBefore DEF Read, Order, Versions
  <2> QED
    BY <2>1 DEF Bring
<1> QED
  BY <1>1 DEF Bring

LEMMA MountedInOrder ==
    ASSUME Typed, InOrder, Mounted, UNCHANGED order
    PROVE  InOrder' /\ bill' = NoBill
BY NoBillIsBefore DEF Mounted, InOrder, Bring, Typed, OrderTyped, Order, Versions

\* A read that counts shows no older bill, and settles what was owed.
LEMMA ShownInOrder ==
    ASSUME Typed, InOrder, NEW r \in reads, r.at = "answered", IsCurrent(r), Shown(r.bill)
    PROVE  /\ bill'.ver >= bill.ver /\ bill' = r.bill /\ own' = 0
           /\ bill'.ver <= order.ver
<1>1. r.current
  BY DEF IsCurrent
<1>2. r.bill.ver <= order.ver /\ bill.ver <= r.bill.ver /\ own <= r.bill.ver
  BY <1>1 DEF InOrder, Bring
<1>3. bill.ver \in Int /\ r.bill.ver \in Int /\ own \in Int
  BY NoBillIsBefore DEF Typed, SeenTyped, LoadTyped, HistoryTyped, Read, Order, Versions
<1> QED
  BY <1>2, <1>3 DEF Shown, CaughtUp

LEMMA InOrderInit == Init => InOrder
BY NoBillIsBefore DEF Init, InOrder, Bring, Order, Versions

\* What a step that reads nothing may change.
LEMMA ElsewhereInOrder ==
    ASSUME Typed, Typed', InOrder, order'.ver >= order.ver,
           UNCHANGED <<reads, bill, own, owed, focused, billStale>>
    PROVE  InOrder'
<1>1. /\ order.ver \in Nat /\ order'.ver \in Nat /\ bill.ver \in Int /\ own \in Int
  BY NoBillIsBefore DEF Typed, OrderTyped, SeenTyped, HistoryTyped, Order, Versions
<1>2. Bring(reads, bill.ver, own, order'.ver)
  BY <1>1, BringLater DEF InOrder, Typed, LoadTyped
<1> QED
  BY <1>1, <1>2 DEF InOrder

\* The order only moves on.
LEMMA OrderGrows ==
    ASSUME Typed, \/ Fails \/ ServeChange \/ ServePayment \/ OthersChange \/ OthersPay
                  \/ UNCHANGED vars
    PROVE  order'.ver >= order.ver
<1>0. order.ver \in Nat
  BY DEF Typed, OrderTyped, Order, Versions
<1>1. CASE order' = order
  BY <1>0, <1>1
<1>2. CASE order' # order
  <2>1. ~order.paid
    BY <1>2 DEF Fails, ServeChange, ServePayment, OthersChange, OthersPay, vars
  <2>2. PICK o \in Order : Step(o)
    <3>1. \A t \in Totals \cup {0}, s \in Stages : [order EXCEPT !.total = t, !.stage = s] \in Order
      BY DEF Typed, OrderTyped, Order
    <3>2. [order EXCEPT !.paid = TRUE] \in Order
      BY DEF Typed, OrderTyped, Order
    <3> QED
      BY <1>2, <3>1, <3>2 DEF Fails, ServeChange, ServePayment, OthersChange, OthersPay, vars
  <2>3. order'.ver = order.ver + 1
    BY <2>1, <2>2, StepTyped DEF Typed
  <2> QED
    BY <1>0, <2>3
<1> QED
  BY <1>1, <1>2

LEMMA InOrderStep ==
    Typed /\ Typed' /\ InOrder /\ [Next]_vars =>
        InOrder' /\ (bill' = NoBill \/ bill'.ver >= bill.ver)
<1> SUFFICES ASSUME Typed, Typed', InOrder, [Next]_vars
             PROVE  InOrder' /\ (bill' = NoBill \/ bill'.ver >= bill.ver)
  OBVIOUS
<1> DEFINE Kept == InOrder' /\ (bill' = NoBill \/ bill'.ver >= bill.ver)
<1>0. /\ order.ver \in Nat /\ bill.ver \in Int /\ own \in Int
      /\ reads \in SUBSET Read /\ \A r \in reads : r.bill.ver <= order.ver
  BY NoBillIsBefore DEF Typed, OrderTyped, SeenTyped, LoadTyped, HistoryTyped,
     Order, Versions, InOrder, Bring
<1>1. CASE Focus
  <2>1. Begin(Released(reads), "load", TRUE)
    BY <1>1 DEF Focus, LoadAloud
  <2>2. Bring(reads', bill.ver, own, order.ver) /\ Pending(reads')
    BY <1>0, <2>1, ReleasedTyped, ReleasedInOrder, BeginInOrder DEF Kinds
  <2> QED
    BY <1>0, <1>1, <2>2 DEF Focus, InOrder
<1>2. CASE Blur
  <2>1. ASSUME NEW q \in Overtaken(Released(reads))
        PROVE  ~q.current /\ q.bill.ver <= order.ver
    <3>1. PICK p \in Released(reads) : q = [p EXCEPT !.current = FALSE]
      BY DEF Overtaken
    <3>2. p \in Read /\ p.bill.ver <= order.ver
      BY <1>0, ReleasedTyped, ReleasedInOrder
    <3> QED
      BY <3>1, <3>2 DEF Read
  <2>2. Bring(reads', bill.ver, own, order.ver)
    BY <1>2, <2>1 DEF Blur, Bring
  <2> QED
    BY <1>0, <1>2, <2>2 DEF Blur, seen, history, InOrder
<1>3. CASE Leave \/ RoundSent \/ Paid
  BY <1>3, MountedInOrder DEF Leave, RoundSent, Paid
<1>4. CASE Reload \/ Retry \/ ChangeRefused \/ PaymentRefused
  <2>1. PICK kind \in Kinds : LoadQuietly(kind, reads)
    BY <1>4 DEF Reload, Retry, ChangeRefused, PaymentRefused, Kinds
  <2>2. UNCHANGED <<order, bill, own, owed, focused, billStale>>
    BY <1>4 DEF Reload, Retry, ChangeRefused, PaymentRefused, seen, history
  <2>3. Bring(reads', bill.ver, own, order.ver) /\ (Pending(reads) => Pending(reads'))
    BY <1>0, <2>1, QuietInOrder DEF InOrder
  <2> QED
    BY <1>0, <2>2, <2>3 DEF InOrder
<1>5. ASSUME NEW r \in reads, ServerReads(r)
      PROVE  Kept
  <2> DEFINE a == [r EXCEPT !.at = "answered", !.bill = order]
  <2>1. a.current = r.current /\ a.at = "answered" /\ a.bill = order /\ r.current
    BY <1>0, <1>5 DEF Read, ServerReads, IsCurrent
  <2>2. reads' = (reads \ {r}) \cup {a} /\ UNCHANGED <<order, bill, own, owed, focused, billStale>>
    BY <1>5 DEF ServerReads, seen, history
  <2> HIDE DEF a
  <2>3. Bring(reads', bill.ver, own, order.ver) /\ Pending(reads')
    <3>1. \A q \in reads \ {r} : ~q.current
      BY <2>1 DEF InOrder, Bring
    <3>2. bill.ver <= a.bill.ver /\ own <= a.bill.ver /\ a.bill.ver <= order.ver
      BY <1>0, <2>1 DEF InOrder
    <3> QED
      BY <1>0, <2>1, <2>2, <3>1, <3>2 DEF Bring, Pending
  <2> QED
    BY <1>0, <2>2, <2>3 DEF InOrder
<1>6. ASSUME NEW r \in reads, Land(r)
      PROVE  Kept
  <2>1. r.current /\ r.at = "answered"
    BY <1>6 DEF Land, IsCurrent
  <2>2. bill'.ver >= bill.ver /\ bill' = r.bill /\ own' = 0 /\ bill'.ver <= order.ver
    BY <1>6, ShownInOrder DEF Land
  <2>3. Bring(reads \ {r}, bill'.ver, 0, order.ver)
    BY <2>1 DEF InOrder, Bring
  <2>4. Bring(reads', bill'.ver, 0, order.ver)
    <3>1. CASE r.front /\ ~r.bill.paid
      <4> DEFINE a == [r EXCEPT !.at = "photos"]
      <4>1. a.at = "photos" /\ a.bill = r.bill
        BY <1>0 DEF Read
      <4>2. reads' = (reads \ {r}) \cup {a}
        BY <1>6, <3>1 DEF Land
      <4>3. \A q \in reads \ {r} : ~q.current
        BY <2>1 DEF InOrder, Bring
      <4> HIDE DEF a
      <4> QED
        BY <1>0, <2>3, <4>1, <4>2, <4>3 DEF Bring
    <3>2. CASE ~(r.front /\ ~r.bill.paid)
      BY <1>0, <1>6, <2>3, <3>2, FinishInOrder DEF Land
    <3> QED
      BY <3>1, <3>2
  <2>5. order' = order
    BY <1>6 DEF Land
  <2> QED
    BY <1>0, <2>2, <2>4, <2>5 DEF InOrder
<1>7. ASSUME NEW r \in reads, Photos(r) \/ Drop(r)
      PROVE  Kept
  <2>1. Finish(r, reads \ {r}) /\ UNCHANGED <<order, bill, own, owed, focused, billStale>>
    BY <1>7 DEF Photos, Drop, seen, history
  <2>2. Bring(reads \ {r}, bill.ver, own, order.ver)
    BY DEF InOrder, Bring
  <2>3. Pending(reads) => Pending(reads \ {r})
    BY <1>7 DEF Photos, Drop, IsCurrent, Pending
  <2>4. /\ Bring(reads', bill.ver, own, order.ver)
        /\ Pending(reads \ {r}) => Pending(reads')
    BY <1>0, <2>1, <2>2, FinishInOrder
  <2> QED
    BY <1>0, <2>1, <2>3, <2>4 DEF InOrder
<1>8. ASSUME NEW r \in reads, Fail(r)
      PROVE  Kept
  <2>1. /\ Finish(r, reads \ {r}) /\ UNCHANGED <<order, bill, own, owed, focused>>
        /\ owed => billStale'
    BY <1>8, Zenon DEF Fail, history
  <2>2. Bring(reads \ {r}, bill.ver, own, order.ver)
    BY DEF InOrder, Bring
  <2>3. Bring(reads', bill.ver, own, order.ver)
    BY <1>0, <2>1, <2>2, FinishInOrder
  <2> QED
    BY <1>0, <2>1, <2>3 DEF InOrder
<1>9. ASSUME NEW r \in reads, RereadLands(r)
      PROVE  Kept
  <2>1. r.current /\ r.at = "answered"
    BY <1>9 DEF RereadLands, IsCurrent
  <2>2. bill'.ver >= bill.ver /\ bill' = r.bill /\ own' = 0 /\ bill'.ver <= order.ver
    BY <1>9, ShownInOrder DEF RereadLands
  <2>3. Bring(reads \ {r}, bill'.ver, 0, order.ver)
    BY <2>1 DEF InOrder, Bring
  <2>4. reads' = reads \ {r} /\ order' = order
    BY <1>9 DEF RereadLands
  <2> QED
    BY <1>0, <2>2, <2>3, <2>4 DEF InOrder
<1>10. ASSUME NEW r \in reads, RereadFails(r)
       PROVE  Kept
  <2>1. /\ reads' = reads \ {r} /\ UNCHANGED <<order, bill, own, owed, focused>>
        /\ r.current => billStale'
        /\ billStale => billStale'
    BY <1>10, Zenon DEF RereadFails, IsCurrent, history
  <2>2. Bring(reads \ {r}, bill.ver, own, order.ver)
    BY DEF InOrder, Bring
  <2>3. ~r.current /\ Pending(reads) => Pending(reads \ {r})
    BY DEF Pending
  <2> QED
    BY <1>0, <2>1, <2>2, <2>3 DEF InOrder
<1>11. CASE ChangeLanded
  <2>1. /\ Begin(reads, "reread", FALSE) /\ owed' = TRUE /\ own' = order.ver
        /\ UNCHANGED <<order, bill, focused, billStale>>
    BY <1>11 DEF ChangeLanded
  <2>2. Bring(reads', bill.ver, order.ver, order.ver) /\ Pending(reads')
    BY <1>0, <2>1, BeginInOrder DEF Kinds
  <2> QED
    BY <1>0, <2>1, <2>2 DEF InOrder
<1>12. CASE \/ DeletePendingItem \/ CancelBillItem \/ SendRoundToKitchen
            \/ Fails \/ (\E cash \in BOOLEAN : Pay(cash)) \/ UNCHANGED vars
  <2>1. UNCHANGED <<order, reads, bill, own, owed, focused, billStale>>
    BY <1>12 DEF DeletePendingItem, CancelBillItem, SendRoundToKitchen, Start, Fails, Pay,
       vars, load, seen, history
  <2> QED
    BY <1>0, <2>1, ElsewhereInOrder
<1>13. CASE ServeChange \/ ServePayment \/ OthersChange \/ OthersPay
  <2>1. UNCHANGED <<reads, bill, own, owed, focused, billStale>>
    BY <1>13 DEF ServeChange, ServePayment, OthersChange, OthersPay, load, seen, history
  <2>2. order'.ver >= order.ver
    BY <1>13, OrderGrows
  <2> QED
    BY <1>0, <2>1, <2>2, ElsewhereInOrder
<1> QED
  BY <1>1, <1>2, <1>3, <1>4, <1>5, <1>6, <1>7, <1>8, <1>9, <1>10, <1>11, <1>12, <1>13,
     Zenon DEF Next

LEMMA SpecInOrder == Spec => [](Typed /\ InOrder)
<1>1. Spec => []Typed
  BY TypedInit, TypedStep, PTL DEF Spec
<1> QED
  BY <1>1, InOrderInit, InOrderStep, PTL DEF Spec

\* However reads overlap, the screen never puts back a bill it has passed (the
\* tickets of lib/request-generation.ts), for any number of reads and changes.
THEOREM BillOnlyMovesOn == Spec => BillNeverGoesBack
<1>1. Typed /\ Typed' /\ InOrder /\ [Next]_vars =>
        [bill' = NoBill \/ bill'.ver >= bill.ver]_vars
  BY InOrderStep
<1> QED
  BY <1>1, SpecInOrder, PTL DEF Spec, BillNeverGoesBack

\* A change made on the phone that its bill does not show is on its way in a read
\* that counts, or the bill says that it is behind (refreshBillAfterMutation).
THEOREM ChangesArrive == Spec => []OwnChangesArrive
<1>1. Typed /\ InOrder => OwnChangesArrive
  <2> SUFFICES ASSUME Typed, InOrder, focused, BillShown, bill.ver < own, ~billStale
               PROVE  \E r \in reads : IsCurrent(r) /\ (r.at = "asked" \/ r.bill.ver >= own)
    BY DEF OwnChangesArrive
  <2>1. bill.ver \in Nat /\ own \in Nat
    BY DEF BillShown, Typed, SeenTyped, HistoryTyped, Order, Versions
  <2>2. PICK r \in reads : r.current /\ r.at # "photos"
    BY <2>1 DEF InOrder, Pending
  <2>3. r.at \in {"asked", "answered"} /\ r.bill.ver \in Int
    BY <2>2, NoBillIsBefore DEF Typed, LoadTyped, Read, Order, Versions
  <2> QED
    BY <2>1, <2>2, <2>3 DEF InOrder, Bring, IsCurrent
<1> QED
  BY <1>1, SpecInOrder, PTL

-----------------------------------------------------------------------------
(* A bill from before the screen was left *)

\* A read that counts was asked for after the screen was focused last, and one
\* that came back since has settled what was due.
SaysSo ==
    /\ due <= order.ver
    /\ Bring(reads, bill.ver, due, order.ver)
    /\ landed => due = 0
    /\ focused /\ bill # NoBill /\ bill.ver < due => error \/ billStale \/ Pending(reads)

LEMMA SaysSoInit == Init => SaysSo
BY NoBillIsBefore DEF Init, SaysSo, Bring, Order, Versions

\* A step that settles what was due, or leaves the screen.
LEMMA SettledSaysSo ==
    ASSUME Typed', InOrder', due' = 0
    PROVE  SaysSo'
<1>1. /\ order'.ver \in Nat /\ bill'.ver \in Int /\ own' \in Nat
      /\ \A r \in reads' : r.bill.ver \in Int
  BY NoBillIsBefore DEF Typed, OrderTyped, SeenTyped, LoadTyped, HistoryTyped, Read, Order, Versions
<1>2. \A r \in reads' : own' <= r.bill.ver => 0 <= r.bill.ver
  BY <1>1
<1>3. Bring(reads', bill'.ver, 0, order'.ver)
  BY <1>1, <1>2 DEF InOrder, Bring
<1>4. bill' # NoBill => bill'.ver >= 0
  BY DEF Typed, SeenTyped, Order, Versions
<1> QED
  BY <1>1, <1>3, <1>4 DEF SaysSo

LEMMA SaysSoStep == Typed /\ Typed' /\ InOrder /\ InOrder' /\ SaysSo /\ [Next]_vars => SaysSo'
<1> SUFFICES ASSUME Typed, Typed', InOrder, InOrder', SaysSo, [Next]_vars PROVE SaysSo'
  OBVIOUS
<1>0. /\ order.ver \in Nat /\ bill.ver \in Int /\ due \in Nat
      /\ reads \in SUBSET Read /\ \A r \in reads : r.bill.ver <= order.ver
  BY NoBillIsBefore DEF Typed, OrderTyped, SeenTyped, LoadTyped, HistoryTyped,
     Order, Versions, InOrder, Bring
<1>1. CASE Focus
  <2>1. /\ Begin(Released(reads), "load", TRUE) /\ due' = order.ver /\ ~landed'
        /\ UNCHANGED <<order, bill>>
    BY <1>1, Zenon DEF Focus, LoadAloud
  <2>2. Bring(reads', bill.ver, order.ver, order.ver) /\ Pending(reads')
    BY <1>0, <2>1, ReleasedTyped, ReleasedInOrder, BeginInOrder DEF Kinds
  <2> QED
    BY <1>0, <2>1, <2>2 DEF SaysSo
<1>2. CASE Blur
  <2>1. ASSUME NEW q \in Overtaken(Released(reads))
        PROVE  ~q.current /\ q.bill.ver <= order.ver
    <3>1. PICK p \in Released(reads) : q = [p EXCEPT !.current = FALSE]
      BY DEF Overtaken
    <3>2. p \in Read /\ p.bill.ver <= order.ver
      BY <1>0, ReleasedTyped, ReleasedInOrder
    <3> QED
      BY <3>1, <3>2 DEF Read
  <2>2. Bring(reads', bill.ver, due, order.ver)
    BY <1>2, <2>1 DEF Blur, Bring
  <2> QED
    BY <1>0, <1>2, <2>2 DEF Blur, seen, history, SaysSo
<1>3. CASE Leave \/ RoundSent \/ Paid
  <2>1. due' = 0
    BY <1>3 DEF Leave, RoundSent, Paid, Mounted
  <2> QED
    BY <2>1, SettledSaysSo
<1>4. CASE Reload \/ Retry \/ ChangeRefused \/ PaymentRefused
  <2>1. PICK kind \in Kinds : LoadQuietly(kind, reads)
    BY <1>4 DEF Reload, Retry, ChangeRefused, PaymentRefused, Kinds
  <2>2. UNCHANGED <<order, bill, due, landed, focused, billStale>>
    BY <1>4 DEF Reload, Retry, ChangeRefused, PaymentRefused, seen, history
  <2>3. Bring(reads', bill.ver, due, order.ver) /\ (Pending(reads) => Pending(reads'))
    BY <1>0, <2>1, QuietInOrder DEF SaysSo
  <2>4. bill # NoBill => Pending(reads')
    BY <1>0, <2>1, BeginInOrder DEF LoadQuietly, HeldForFirstBill, BillShown
  <2> QED
    BY <1>0, <2>2, <2>3, <2>4 DEF SaysSo
<1>5. ASSUME NEW r \in reads, ServerReads(r)
      PROVE  SaysSo'
  <2> DEFINE a == [r EXCEPT !.at = "answered", !.bill = order]
  <2>1. a.current = r.current /\ a.at = "answered" /\ a.bill = order /\ r.current
    BY <1>0, <1>5 DEF Read, ServerReads, IsCurrent
  <2>2. /\ reads' = (reads \ {r}) \cup {a}
        /\ UNCHANGED <<order, bill, due, landed, focused, billStale, error>>
    BY <1>5 DEF ServerReads, seen, history
  <2> HIDE DEF a
  <2>3. Bring(reads', bill.ver, due, order.ver) /\ Pending(reads')
    <3>1. \A q \in reads \ {r} : ~q.current
      BY <2>1 DEF SaysSo, Bring
    <3>2. bill.ver <= a.bill.ver /\ due <= a.bill.ver /\ a.bill.ver <= order.ver
      BY <1>0, <2>1 DEF InOrder, SaysSo
    <3> QED
      BY <1>0, <2>1, <2>2, <3>1, <3>2 DEF Bring, Pending
  <2> QED
    BY <1>0, <2>2, <2>3 DEF SaysSo
<1>6. ASSUME NEW r \in reads, Land(r) \/ RereadLands(r)
      PROVE  SaysSo'
  <2>1. r.current /\ r.at = "answered" /\ Shown(r.bill)
    BY <1>6 DEF Land, RereadLands, IsCurrent
  <2>2. due <= r.bill.ver
    BY <2>1 DEF SaysSo, Bring
  <2>3. r.bill.ver \in Int
    BY <1>0, NoBillIsBefore DEF Read, Order, Versions
  <2>4. due' = 0
    BY <1>0, <2>1, <2>2, <2>3 DEF Shown, CaughtUp
  <2> QED
    BY <2>4, SettledSaysSo
<1>7. ASSUME NEW r \in reads, Photos(r) \/ Drop(r)
      PROVE  SaysSo'
  <2>1. /\ Finish(r, reads \ {r})
        /\ UNCHANGED <<order, bill, due, landed, focused, billStale, error>>
    BY <1>7 DEF Photos, Drop, seen, history
  <2>2. Bring(reads \ {r}, bill.ver, due, order.ver)
    BY DEF SaysSo, Bring
  <2>3. Pending(reads) => Pending(reads \ {r})
    BY <1>7 DEF Photos, Drop, IsCurrent, Pending
  <2>4. /\ Bring(reads', bill.ver, due, order.ver)
        /\ Pending(reads \ {r}) => Pending(reads')
    BY <1>0, <2>1, <2>2, FinishInOrder
  <2> QED
    BY <1>0, <2>1, <2>3, <2>4 DEF SaysSo
<1>8. ASSUME NEW r \in reads, Fail(r)
      PROVE  SaysSo'
  <2>1. /\ Finish(r, reads \ {r}) /\ UNCHANGED <<order, bill, due, landed, focused>>
        /\ ~landed => error'
    BY <1>8, Zenon DEF Fail, history
  <2>2. Bring(reads \ {r}, bill.ver, due, order.ver)
    BY DEF SaysSo, Bring
  <2>3. Bring(reads', bill.ver, due, order.ver)
    BY <1>0, <2>1, <2>2, FinishInOrder
  <2>4. bill # NoBill => bill.ver >= 0
    BY DEF Typed, SeenTyped, Order, Versions
  <2> QED
    BY <1>0, <2>1, <2>3, <2>4 DEF SaysSo
<1>9. ASSUME NEW r \in reads, RereadFails(r)
      PROVE  SaysSo'
  <2>1. /\ reads' = reads \ {r} /\ UNCHANGED <<order, bill, due, landed, focused, error>>
        /\ r.current => billStale'
        /\ billStale => billStale'
    BY <1>9, Zenon DEF RereadFails, IsCurrent, history
  <2>2. Bring(reads \ {r}, bill.ver, due, order.ver)
    BY DEF SaysSo, Bring
  <2>3. ~r.current /\ Pending(reads) => Pending(reads \ {r})
    BY DEF Pending
  <2> QED
    BY <1>0, <2>1, <2>2, <2>3 DEF SaysSo
<1>10. CASE ChangeLanded
  <2>1. /\ Begin(reads, "reread", FALSE)
        /\ UNCHANGED <<order, bill, due, landed>>
    BY <1>10 DEF ChangeLanded
  <2>2. Bring(reads', bill.ver, due, order.ver) /\ Pending(reads')
    BY <1>0, <2>1, BeginInOrder DEF Kinds
  <2> QED
    BY <1>0, <2>1, <2>2 DEF SaysSo
<1>11. CASE DeletePendingItem \/ CancelBillItem \/ SendRoundToKitchen \/ \E cash \in BOOLEAN : Pay(cash)
  <2>1. due' = 0
    BY <1>11 DEF DeletePendingItem, CancelBillItem, SendRoundToKitchen, Start, Pay
  <2> QED
    BY <2>1, SettledSaysSo
<1>12. CASE \/ Fails \/ ServeChange \/ ServePayment \/ OthersChange \/ OthersPay
            \/ UNCHANGED vars
  <2>1. UNCHANGED <<reads, bill, due, landed, focused, billStale, error>>
    BY <1>12 DEF Fails, ServeChange, ServePayment, OthersChange, OthersPay,
       vars, load, seen, history
  <2>2. order'.ver \in Nat /\ order'.ver >= order.ver
    BY <1>0, <1>12, OrderGrows DEF Typed, OrderTyped, Order, Versions
  <2>3. Bring(reads, bill.ver, due, order'.ver)
    BY <1>0, <2>2, BringLater DEF SaysSo
  <2> QED
    BY <1>0, <2>1, <2>2, <2>3 DEF SaysSo
<1> QED
  BY <1>1, <1>2, <1>3, <1>4, <1>5, <1>6, <1>7, <1>8, <1>9, <1>10, <1>11, <1>12,
     Zenon DEF Next

\* A bill from before the screen was left is replaced by a read in flight, or says
\* that the latest did not load (the focus effect and the catch block of load).
THEOREM OldBillsAreMarked == Spec => []OldBillsSaySo
<1>1. Spec => []SaysSo
  BY SpecInOrder, SaysSoInit, SaysSoStep, PTL DEF Spec
<1>2. Typed /\ SaysSo => OldBillsSaySo
  <2> SUFFICES ASSUME Typed, SaysSo, focused, BillShown, bill.ver < due, ~error, ~billStale
               PROVE  \E r \in reads : IsCurrent(r) /\ (r.at = "asked" \/ r.bill.ver >= due)
    BY DEF OldBillsSaySo
  <2>1. PICK r \in reads : r.current /\ r.at # "photos"
    BY DEF SaysSo, Pending, BillShown
  <2>2. r.at \in {"asked", "answered"} /\ r.bill.ver \in Int /\ due \in Int
    BY <2>1, NoBillIsBefore DEF Typed, LoadTyped, HistoryTyped, Read, Order, Versions
  <2> QED
    BY <2>1, <2>2 DEF SaysSo, Bring, IsCurrent
<1> QED
  BY <1>1, <1>2, SpecInOrder, PTL
-----------------------------------------------------------------------------
(* Payments *)

\* A payment that came through is on the order, and so is one told of.
Settled ==
    /\ work.kind = "pay" /\ work.at = "landed" => order.paid
    /\ NobodyIsShortchanged

\* Nothing reaches an order that is paid.
LEMMA PaidIsFinal ==
    ASSUME [Next]_vars, order.paid
    PROVE  order' = order
<1>1. CASE UNCHANGED vars
  BY <1>1 DEF vars
<1>2. CASE Focus \/ Blur \/ Leave \/ Reload \/ Retry
  BY <1>2 DEF Focus, Blur, Leave, Reload, Retry
<1>3. ASSUME NEW r \in reads, \/ ServerReads(r) \/ Land(r) \/ Photos(r) \/ Drop(r)
                              \/ Fail(r) \/ RereadLands(r) \/ RereadFails(r)
      PROVE  order' = order
  BY <1>3 DEF ServerReads, Land, Photos, Drop, Fail, RereadLands, RereadFails
<1>4. CASE DeletePendingItem \/ CancelBillItem \/ SendRoundToKitchen
           \/ \E cash \in BOOLEAN : Pay(cash)
  BY <1>4 DEF DeletePendingItem, CancelBillItem, SendRoundToKitchen, Start, Pay
<1>5. CASE ServeChange \/ ServePayment \/ OthersChange \/ OthersPay
  BY <1>5 DEF ServeChange, ServePayment, OthersChange, OthersPay
<1>6. CASE Fails \/ ChangeLanded \/ RoundSent \/ ChangeRefused \/ Paid \/ PaymentRefused
  BY <1>6 DEF Fails, ChangeLanded, RoundSent, ChangeRefused, Paid, PaymentRefused
<1> QED
  BY <1>1, <1>2, <1>3, <1>4, <1>5, <1>6 DEF Next

LEMMA SettledInit == Init => Settled
BY DEF Init, Settled, NobodyIsShortchanged, NoWork

LEMMA SettledStep == Typed /\ Settled /\ [Next]_vars => Settled'
<1> SUFFICES ASSUME Typed, Settled, [Next]_vars PROVE Settled'
  OBVIOUS
<1>1. order.paid => order' = order
  BY PaidIsFinal
<1> DEFINE WorkSettled == work'.kind = "pay" /\ work'.at = "landed" => order'.paid
<1>2. ASSUME WorkSettled, told' \in {told, NotTold}
      PROVE  Settled'
  BY <1>1, <1>2 DEF Settled, NobodyIsShortchanged
<1>3. work' \in {work, NoWork} => WorkSettled
  BY <1>1 DEF Settled, NoWork
<1> HIDE DEF WorkSettled
<1>4. CASE UNCHANGED vars
  BY <1>2, <1>3, <1>4 DEF vars, history
<1>5. CASE Focus \/ Blur \/ Leave \/ Reload \/ Retry
  <2>1. work' \in {work, NoWork} /\ told' \in {told, NotTold}
    BY <1>5 DEF Focus, Blur, Leave, Reload, Retry, Mounted, history
  <2> QED
    BY <1>2, <1>3, <2>1
<1>6. ASSUME NEW r \in reads, \/ ServerReads(r) \/ Land(r) \/ Photos(r) \/ Drop(r)
                              \/ Fail(r) \/ RereadLands(r) \/ RereadFails(r)
      PROVE  Settled'
  <2>1. work' \in {work, NoWork} /\ told' = told
    BY <1>6 DEF ServerReads, Land, Photos, Drop, Fail, RereadLands, RereadFails, history
  <2> QED
    BY <1>2, <1>3, <2>1
<1>7. CASE DeletePendingItem \/ CancelBillItem \/ SendRoundToKitchen
           \/ \E cash \in BOOLEAN : Pay(cash)
  <2>1. work'.at = "sent" /\ told' = told
    BY <1>7 DEF DeletePendingItem, CancelBillItem, SendRoundToKitchen, Start, Pay
  <2>2. WorkSettled
    BY <2>1 DEF WorkSettled
  <2> QED
    BY <1>2, <2>1, <2>2
<1>8. CASE ServeChange \/ ChangeLanded
  <2>1. work'.kind # "pay" /\ told' = told
    BY <1>8 DEF ServeChange, ChangeLanded, Changes, Typed, Work, history
  <2>2. WorkSettled
    BY <2>1 DEF WorkSettled
  <2> QED
    BY <1>2, <2>1, <2>2
<1>9. CASE ServePayment
  <2>1. told' = told
    BY <1>9 DEF ServePayment, history
  <2>2. CASE order.paid
    BY <1>1, <1>2, <2>1, <2>2 DEF WorkSettled
  <2>3. CASE ~order.paid
    <3>1. \/ work' \in {[work EXCEPT !.at = "notDone"], [work EXCEPT !.at = "short"]}
          \/ Step([order EXCEPT !.paid = TRUE])
      BY <1>9, <2>3 DEF ServePayment
    <3>2. ASSUME work' \in {[work EXCEPT !.at = "notDone"], [work EXCEPT !.at = "short"]}
          PROVE  WorkSettled
      BY <3>2 DEF WorkSettled, Typed, Work
    <3>3. ASSUME Step([order EXCEPT !.paid = TRUE])
          PROVE  WorkSettled
      BY <3>3 DEF WorkSettled, Step, Typed, OrderTyped, Order
    <3> QED
      BY <1>2, <2>1, <3>1, <3>2, <3>3
  <2> QED
    BY <2>2, <2>3
<1>10. CASE Fails \/ RoundSent \/ ChangeRefused \/ PaymentRefused
  <2>1. work' = NoWork /\ told' = told
    BY <1>10 DEF Fails, RoundSent, ChangeRefused, PaymentRefused, Mounted, history
  <2> QED
    BY <1>2, <1>3, <2>1
<1>11. CASE Paid
  <2>1. /\ work' = NoWork /\ order' = order /\ order.paid
        /\ told' = [shown |-> work.shown, amount |-> order.total, warned |-> Repriced]
    BY <1>11 DEF Paid, Mounted, Settled
  <2>2. told'.amount = order'.total /\ (told'.amount = told'.shown \/ told'.warned)
    BY <2>1 DEF Repriced
  <2>3. WorkSettled
    BY <1>3, <2>1
  <2> QED
    BY <2>1, <2>2, <2>3 DEF Settled, NobodyIsShortchanged, WorkSettled
<1>12. CASE OthersChange \/ OthersPay
  <2>1. work' = work /\ told' = told
    BY <1>12 DEF OthersChange, OthersPay, history
  <2> QED
    BY <1>2, <1>3, <2>1
<1> QED
  BY <1>4, <1>5, <1>6, <1>7, <1>8, <1>9, <1>10, <1>11, <1>12 DEF Next

\* However the order is priced again or paid by another phone while a payment is
\* under way, the cashier is told what the payment on record is, and warned when
\* it is not the total they confirmed (repricedPaymentLine).
THEOREM PaymentsAreToldTrue == Spec => []NobodyIsShortchanged
<1>1. Spec => []Typed
  BY TypedInit, TypedStep, PTL DEF Spec
<1>2. Settled => NobodyIsShortchanged
  BY DEF Settled
<1> QED
  BY <1>1, <1>2, SettledInit, SettledStep, PTL DEF Spec

=============================================================================
