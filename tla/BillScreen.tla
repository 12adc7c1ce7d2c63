----------------------------- MODULE BillScreen -----------------------------
(***************************************************************************)
(* The bill on a phone (mobile/app/order/bill.tsx): one order's bill read  *)
(* whole, read again after every event of the restaurant, changed and paid *)
(* from the same screen.  Reads overlap and may never be answered; each    *)
(* takes a ticket (lib/request-generation.ts) and its answer counts only   *)
(* while the ticket is the newest.  A change that has landed owes the      *)
(* screen a read; a bill known to be behind is stale and is not paid.      *)
(*                                                                         *)
(* Of the order on the server matters how often it changed, how far its    *)
(* dishes are, and once they are done what they come to.  Of a ticket only *)
(* matters whether it is the newest.  The cash handed over is the total on *)
(* screen (use-cash-tender); the payment sheet is left out.                *)
(***************************************************************************)
EXTENDS Integers, FiniteSets

CONSTANTS
    Totals,      \* what the bill may come to
    MaxChanges,  \* bound: changes of the order before it is paid
    MaxOvertaken \* bound: overtaken reads whose answer is under way

ASSUME BillScreenAssumption ==
    Totals \subseteq Nat \ {0} /\ MaxChanges \in Nat /\ MaxOvertaken \in Nat

VARIABLES
    order,      \* the order on the server
    bill,       \* the bill on the screen
    reads,      \* the reads of the bill in flight
    focused,    \* the screen is in front
    loading,    \* the spinner
    held,       \* pendingQuietReloadRef: a quiet reload waits for the spinner
    landed,     \* landedSinceFocusRef: a read came back since the last focus
    owed,       \* rereadOwedRef: a change landed, no later read came back
    billStale,  \* the bill is known to be behind: it cannot be paid
    error,      \* the panel "could not load the latest bill"
    work,       \* the change or payment under way (saving, payingRef)
    told,       \* what the cashier was told of the last payment
    own,        \* history: the order's version once our last change landed,
    due         \* and when the screen was focused; 0 once the bill shows it
                \* (for due, also once staff's next step closed the panel)

seen == <<bill, landed, owed, billStale, error>>
load == <<reads, loading, held>>
history == <<told, own, due>>
vars == <<order, load, seen, focused, work, history>>

Stages == {"unsent", "cooking", "done"}
Versions == 0..(MaxChanges + 1)
Order == [ver : Versions, total : Totals \cup {0}, stage : Stages,
          paid : BOOLEAN]
PricedOnceDone(o) == o.total # 0 <=> o.stage = "done"
NoBill == [ver |-> 0 - 1, total |-> 0, stage |-> "unsent", paid |-> FALSE]

\* front: it is the read of foregroundRequestRef.
Read == [kind : {"load", "stream", "reread"},
         at : {"asked", "answered", "photos"},
         bill : Order \cup {NoBill}, current : BOOLEAN, front : BOOLEAN]

Changes == {"delete", "cancel", "send"}
Work == [kind : Changes \cup {"none", "pay"}, shown : Totals \cup {0},
         cash : BOOLEAN,
         at : {"none", "sent", "landed", "moved", "notDone", "short",
               "rereading"}]
NoWork == [kind |-> "none", shown |-> 0, cash |-> FALSE, at |-> "none"]
NotTold == [shown |-> 0, amount |-> 0, warned |-> FALSE]

TypeOK ==
    /\ order \in Order
    /\ bill \in Order \cup {NoBill}
    /\ reads \subseteq Read
    /\ \A b \in {focused, loading, held, landed, owed, billStale, error} : b \in BOOLEAN
    /\ work \in Work
    /\ told \in [shown : Totals \cup {0}, amount : Totals \cup {0}, warned : BOOLEAN]
    /\ own \in Versions /\ due \in Versions

\* A screen just mounted.
Mounted ==
    /\ bill' = NoBill /\ reads' = {}
    /\ focused' = FALSE /\ loading' = TRUE /\ held' = FALSE
    /\ landed' = FALSE /\ owed' = FALSE /\ billStale' = FALSE
    /\ error' = FALSE /\ work' = NoWork
    /\ own' = 0 /\ due' = 0

Init ==
    /\ order \in {o \in Order : o.ver = 0 /\ ~o.paid /\ PricedOnceDone(o)}
    /\ bill = NoBill /\ reads = {}
    /\ focused = FALSE /\ loading = TRUE /\ held = FALSE
    /\ landed = FALSE /\ owed = FALSE /\ billStale = FALSE
    /\ error = FALSE /\ work = NoWork
    /\ told = NotTold /\ own = 0 /\ due = 0

-----------------------------------------------------------------------------
(* Tickets *)

BillShown == bill # NoBill
Following == focused /\ ~bill.paid
Saving == work.kind # "none"

\* An overtaken read still to be answered is forgotten, unless the spinner or a
\* change waits for it: it changes nothing when it comes back.
AwaitedFor(r) == r.at = "answered" \/ r.front \/ r.kind = "reread"
Overtaken(rs) == {[r EXCEPT !.current = FALSE] : r \in {q \in rs : AwaitedFor(q)}}
Released(rs) == {[r EXCEPT !.front = FALSE] : r \in rs}
Front(rs) == \E r \in rs : r.front
Ask(kind, front) == [kind |-> kind, at |-> "asked", bill |-> NoBill,
                     current |-> TRUE, front |-> front]

\* Mutant: a read that was overtaken still counts.
AnyRead(r) == TRUE
IsCurrent(r) == r.current

\* begin().
Begin(rs, kind, front) ==
    /\ Cardinality({r \in Overtaken(rs) : r.at = "answered"}) <= MaxOvertaken
    /\ reads' = Overtaken(rs) \cup {Ask(kind, front)}

\* load(quiet, fromStream): aloud with the spinner, quietly without, and kind
\* "stream" when fromStream.
\* Mutant: the spinner's load holds reloads back whatever is on the screen.
HeldForAnyLoad(rs) == Front(rs)
HeldForFirstBill(rs) == Front(rs) /\ ~BillShown

LoadAloud ==
    /\ Begin(Released(reads), "load", TRUE)
    /\ loading' = TRUE
    /\ UNCHANGED held

LoadQuietly(kind, rs) ==
    /\ IF HeldForFirstBill(rs) THEN held' = TRUE /\ reads' = rs
       ELSE Begin(rs, kind, FALSE) /\ UNCHANGED held
    /\ UNCHANGED loading

-----------------------------------------------------------------------------
(* What asks for a read *)

\* Mutant: what an earlier stay brought counts for this one.
FocusKeepsLanded ==
    /\ ~focused
    /\ focused' = TRUE /\ due' = order.ver
    /\ error' = FALSE
    /\ LoadAloud
    /\ UNCHANGED <<order, bill, landed, owed, billStale, work, told, own>>

Focus ==
    /\ ~focused
    /\ focused' = TRUE /\ landed' = FALSE
    /\ due' = order.ver /\ told' = NotTold
    /\ error' = FALSE
    /\ LoadAloud
    /\ UNCHANGED <<order, bill, owed, billStale, work, own>>

\* Leaving lets go of what the reads were holding; the spinner stays.
Blur ==
    /\ focused
    /\ focused' = FALSE
    /\ reads' = Overtaken(Released(reads))
    /\ held' = FALSE
    /\ UNCHANGED <<order, loading, seen, work, history>>

\* Back: the screen is gone, and with it what it was waiting for.
Leave ==
    /\ focused
    /\ Mounted
    /\ UNCHANGED <<order, told>>

\* A batch of the order stream, or the 30 s poll, while the bill is followed.
Reload ==
    /\ Following
    /\ LoadQuietly("stream", reads)
    /\ UNCHANGED <<order, seen, focused, work, history>>

\* The retry beside "total not up to date".
Retry ==
    /\ focused /\ billStale /\ ~bill.paid
    /\ error' = FALSE
    /\ LoadQuietly("load", reads)
    /\ UNCHANGED <<order, bill, landed, owed, billStale, focused, work,
                   history>>

-----------------------------------------------------------------------------
(* Answers of the server *)

\* An answer nobody will look at is not told from a failure.
ServerReads(r) ==
    /\ r.at = "asked" /\ IsCurrent(r)
    /\ reads' = (reads \ {r}) \cup {[r EXCEPT !.at = "answered", !.bill = order]}
    /\ UNCHANGED <<order, loading, held, seen, focused, work, history>>

\* Mutant: only the newest read takes the spinner down.
FinishIfCurrent(r, rs) ==
    IF r.front /\ r.current
    THEN /\ loading' = FALSE /\ held' = FALSE
         /\ IF held THEN Begin(rs, "stream", FALSE) ELSE reads' = rs
    ELSE UNCHANGED <<loading, held>> /\ reads' = rs

\* The finally block of load.
Finish(r, rs) ==
    IF r.front
    THEN /\ loading' = FALSE /\ held' = FALSE
         /\ IF held THEN Begin(rs, "stream", FALSE) ELSE reads' = rs
    ELSE UNCHANGED <<loading, held>> /\ reads' = rs

CaughtUp(b) ==
    /\ own' = IF b.ver >= own THEN 0 ELSE own
    /\ due' = IF b.ver >= due THEN 0 ELSE due

Shown(b) ==
    /\ bill' = b /\ billStale' = FALSE /\ owed' = FALSE /\ landed' = TRUE
    /\ CaughtUp(b)

\* The bill is on the screen; for the load of the spinner, the photos of its
\* rows may take as long again.
Land(r) ==
    /\ r.at = "answered" /\ r.kind # "reread" /\ IsCurrent(r)
    /\ Shown(r.bill) /\ error' = FALSE
    /\ IF r.front /\ ~r.bill.paid
       THEN /\ reads' = (reads \ {r}) \cup {[r EXCEPT !.at = "photos"]}
            /\ UNCHANGED <<loading, held>>
       ELSE Finish(r, reads \ {r})
    /\ UNCHANGED <<order, focused, work, told>>

Photos(r) ==
    /\ r.at = "photos"
    /\ Finish(r, reads \ {r})
    /\ UNCHANGED <<order, seen, focused, work, history>>

\* Answered or failed, after another read began.
Drop(r) ==
    /\ r.at # "photos" /\ r.kind # "reread" /\ ~IsCurrent(r)
    /\ Finish(r, reads \ {r})
    /\ UNCHANGED <<order, seen, focused, work, history>>

\* Mutant: a failed read says nothing of a change it was to bring.
FailForgetsOwed(r) ==
    /\ r.at # "photos" /\ r.kind # "reread" /\ IsCurrent(r)
    /\ error' = (error \/ ~(r.kind = "stream" /\ landed))
    /\ Finish(r, reads \ {r})
    /\ UNCHANGED <<order, bill, landed, owed, billStale, focused, work,
                   history>>

\* Silent only for the stream, over a bill some read brought since the focus.
Fail(r) ==
    /\ r.at # "photos" /\ r.kind # "reread" /\ IsCurrent(r)
    /\ billStale' = (billStale \/ owed)
    /\ error' = (error \/ ~(r.kind = "stream" /\ landed))
    /\ Finish(r, reads \ {r})
    /\ UNCHANGED <<order, bill, landed, owed, focused, work, history>>

-----------------------------------------------------------------------------
(* Changes from this screen *)

CanEdit == focused /\ BillShown /\ ~bill.paid /\ ~Saving
Start(kind) ==
    /\ work' = [kind |-> kind, shown |-> 0, cash |-> FALSE, at |-> "sent"]
    /\ error' = FALSE /\ due' = 0
    /\ UNCHANGED <<order, load, bill, landed, owed, billStale, focused, told,
                   own>>

DeletePendingItem == CanEdit /\ bill.stage = "unsent" /\ Start("delete")
CancelBillItem == CanEdit /\ bill.stage # "unsent" /\ Start("cancel")
SendRoundToKitchen ==
    CanEdit /\ bill.stage = "unsent" /\ ~billStale /\ Start("send")

Step(o) ==
    /\ order.ver < MaxChanges \/ o.paid
    /\ PricedOnceDone(o)
    /\ order' = [o EXCEPT !.ver = order.ver + 1]

\* The server takes the change, or finds that the order has moved on.  Total and
\* stage may become whatever DeleteItem, SendToKitchen and UpdateItemStatus of
\* OrderService can make of them.
ServeChange ==
    /\ work.kind \in Changes /\ work.at = "sent"
    /\ \/ /\ ~order.paid
          /\ (work.kind = "cancel") = (order.stage # "unsent")
          /\ \E t \in Totals \cup {0}, s \in Stages :
                /\ work.kind = "send" => s = "cooking"
                /\ Step([order EXCEPT !.total = t, !.stage = s])
          /\ work' = [work EXCEPT !.at = "landed"]
       \/ /\ order.ver > bill.ver
          /\ work' = [work EXCEPT !.at = "moved"]
          /\ UNCHANGED order
    /\ UNCHANGED <<load, seen, focused, history>>

\* The request or its answer is lost, or refused for a reason of its own.
Fails ==
    /\ work.at \in {"sent", "landed", "moved", "notDone", "short"}
    /\ work' = NoWork
    /\ UNCHANGED <<order, load, seen, focused, history>>

\* refreshBillAfterMutation; after a round is sent the screen is left instead.
ChangeLanded ==
    /\ work.kind \in {"delete", "cancel"} /\ work.at = "landed"
    /\ owed' = TRUE /\ own' = order.ver
    /\ Begin(reads, "reread", FALSE)
    /\ work' = [work EXCEPT !.at = "rereading"]
    /\ UNCHANGED <<order, loading, held, bill, landed, billStale, error, focused,
                   told, due>>

RoundSent ==
    /\ work.kind = "send" /\ work.at = "landed"
    /\ Mounted
    /\ UNCHANGED <<order, told>>

\* The read of refreshBillAfterMutation, answered or failed.
RereadLands(r) ==
    /\ r.kind = "reread" /\ r.at = "answered" /\ IsCurrent(r)
    /\ Shown(r.bill)
    /\ work' = NoWork
    /\ reads' = reads \ {r}
    /\ UNCHANGED <<order, loading, held, error, focused, told>>

RereadFails(r) ==
    /\ r.kind = "reread"
    /\ billStale' = (billStale \/ IsCurrent(r))
    /\ work' = NoWork
    /\ reads' = reads \ {r}
    /\ UNCHANGED <<order, loading, held, bill, landed, owed, error, focused,
                   history>>

\* rereadIfServerMoved.
ChangeRefused ==
    /\ work.at = "moved"
    /\ work' = NoWork
    /\ LoadQuietly("stream", reads)
    /\ UNCHANGED <<order, seen, focused, history>>

-----------------------------------------------------------------------------
(* Payment *)

PaymentReady == BillShown /\ bill.stage = "done" /\ ~bill.paid

\* cashReceivedToSend: the total on screen, in cash or by PromptPay.
Pay(cash) ==
    /\ focused /\ PaymentReady /\ ~billStale /\ ~Saving
    /\ work' = [kind |-> "pay", shown |-> bill.total, cash |-> cash, at |-> "sent"]
    /\ error' = FALSE /\ due' = 0
    /\ UNCHANGED <<order, load, bill, landed, owed, billStale, focused, told,
                   own>>

\* PayOrder: an order paid before is answered as paid; the total is the
\* server's, and cash must cover it.
ServePayment ==
    /\ work.kind = "pay" /\ work.at = "sent"
    /\ IF order.paid
       THEN work' = [work EXCEPT !.at = "landed"] /\ UNCHANGED order
       ELSE IF order.stage # "done"
       THEN work' = [work EXCEPT !.at = "notDone"] /\ UNCHANGED order
       ELSE IF work.cash /\ work.shown < order.total
       THEN work' = [work EXCEPT !.at = "short"] /\ UNCHANGED order
       ELSE /\ work' = [work EXCEPT !.at = "landed"]
            /\ Step([order EXCEPT !.paid = TRUE])
    /\ UNCHANGED <<load, seen, focused, history>>

\* Mutant: the payment is compared with the bill that is on screen by now.
RepricedSinceShown == order.total # bill.total
\* repricedPaymentLine, over the total the cashier confirmed.
Repriced == order.total # work.shown

Paid ==
    /\ work.kind = "pay" /\ work.at = "landed"
    /\ told' = [shown |-> work.shown, amount |-> order.total, warned |-> Repriced]
    /\ Mounted
    /\ UNCHANGED order

PaymentRefused ==
    /\ work.at \in {"notDone", "short"}
    /\ work' = NoWork
    /\ LoadQuietly("load", reads) /\ error' = FALSE
    /\ UNCHANGED <<order, bill, landed, owed, billStale, focused, history>>

-----------------------------------------------------------------------------
(* Other phones, the kitchen, the bill settings *)

OthersChange ==
    /\ ~order.paid
    /\ \E t \in Totals \cup {0}, s \in Stages :
          /\ s = "unsent" \/ order.stage # "unsent" \/ s = "cooking"
          /\ Step([order EXCEPT !.total = t, !.stage = s])
    /\ UNCHANGED <<load, seen, focused, work, history>>

OthersPay ==
    /\ ~order.paid /\ order.stage = "done"
    /\ Step([order EXCEPT !.paid = TRUE])
    /\ UNCHANGED <<load, seen, focused, work, history>>

Next ==
    \/ Focus \/ Blur \/ Leave \/ Reload \/ Retry
    \/ \E r \in reads : \/ ServerReads(r) \/ Land(r) \/ Photos(r) \/ Drop(r) \/ Fail(r)
                        \/ RereadLands(r) \/ RereadFails(r)
    \/ DeletePendingItem \/ CancelBillItem \/ SendRoundToKitchen
    \/ ServeChange \/ Fails \/ ChangeLanded \/ RoundSent \/ ChangeRefused
    \/ (\E cash \in BOOLEAN : Pay(cash)) \/ ServePayment \/ Paid \/ PaymentRefused
    \/ OthersChange \/ OthersPay

\* A followed bill is polled, some answer comes back before the next poll, and
\* what the server has answered arrives or is lost.  A read may hang for ever.
Fairness ==
    /\ WF_vars(Reload)
    /\ SF_vars(\E r \in reads : IsCurrent(r) /\ ServerReads(r))
    /\ SF_vars(\E r \in reads : Land(r) \/ RereadLands(r))
    /\ WF_vars(\E r \in reads : r.at = "answered" /\ (Drop(r) \/ RereadFails(r)))

Spec == Init /\ [][Next]_vars /\ Fairness

-----------------------------------------------------------------------------
(* Properties *)

\* However reads overlap, the screen never puts back a bill it has passed, with
\* payment live on its total again.
BillNeverGoesBack == [][bill' = NoBill \/ bill'.ver >= bill.ver]_vars

\* A change made here that the bill does not show yet is on its way, in a read
\* whose answer counts and was asked for after the change; or payment is closed.
OwnChangesArrive ==
    focused /\ BillShown /\ bill.ver < own /\ ~billStale =>
        \E r \in reads : IsCurrent(r) /\ (r.at = "asked" \/ r.bill.ver >= own)

\* A bill from before the screen was left is replaced by a read in flight, or
\* says that the latest one did not load, until staff take their next step.
OldBillsSaySo ==
    focused /\ BillShown /\ bill.ver < due =>
        \/ error \/ billStale
        \/ \E r \in reads : IsCurrent(r) /\ (r.at = "asked" \/ r.bill.ver >= due)

\* The spinner, and a reload waiting behind it, belong to a load still out.
SpinnerHasItsLoad == focused /\ (loading \/ held) => Front(reads)

\* What the cashier is told of a payment is the payment on record, and it was
\* taken at the total they confirmed or they were warned: the order may be priced
\* again, or paid elsewhere, meanwhile.
NobodyIsShortchanged ==
    told # NotTold =>
        /\ order.paid /\ told.amount = order.total
        /\ told.amount = told.shown \/ told.warned

\* A bill that stays in front catches up with the order.
BillCatchesUp == []<>(~Following \/ ~BillShown \/ bill.ver = order.ver)
=============================================================================
