------------------------------ MODULE ActionPlan ------------------------------
(***************************************************************************)
(* One plan of the assistant: the changes the owner is shown on a card, and *)
(* what their confirmations do with it (claim, execute item by item, record *)
(* each outcome, finish), with retries, a backend that dies, a claim that   *)
(* times out and database writes that fail                                  *)
(* (service/ai_joyboy_command.go, service/ai_action_plan.go,                *)
(* repository/ai_action_plan_repository.go and ai_action_plan_revise.go).   *)
(*                                                                         *)
(* What the items change is the service's.  A "checked" item (a price, a    *)
(* level, a count, a new dish) first looks whether the row is still the one *)
(* on the card, or the name still free, and most of their services read the *)
(* row once more after they wrote it.  A "lenient" item is written without  *)
(* a look (a delivery, an expense) or whenever the look cannot be made (a   *)
(* new ingredient).  Tokens always match; the owner's preferences stay.     *)
(***************************************************************************)
EXTENDS Integers, FiniteSets

CONSTANTS
    NumItems,
    Kind,          \* [Items -> {"checked", "lenient"}]
    Questions,     \* the items whose card asks questions: Setup of create_ingredient
    Requests,      \* confirmations that can run at once
    MaxRevisions,  \* bound: answers given on the card
    MaxCrashes,    \* bound: deaths of the backend
    MaxStalls,     \* bound: claims that time out under a live request
    MaxFaults      \* bound: failed writes of an outcome

Items == 1..NumItems

ASSUME ActionPlanAssumption ==
    /\ NumItems \in Nat \ {0} /\ Kind \in [Items -> {"checked", "lenient"}]
    /\ Questions \subseteq {i \in Items : Kind[i] = "lenient"}
    /\ MaxRevisions \in Nat /\ MaxCrashes \in Nat /\ MaxStalls \in Nat /\ MaxFaults \in Nat

VARIABLES
    plan,      \* the row of ai_action_plans
    items,     \* [Items -> ItemStatus], its rows of ai_action_plan_items
    payload,   \* [Items -> 0..MaxRevisions], their payloads
    row,       \* [Items -> Row], what each item is about, and its look looks at
    runs,      \* history: [Items -> Nat], how often the service wrote it
    audits,    \* [Items -> Nat], audit rows of ai_plan_item
    request,   \* [Requests -> Request]
    unrecorded, \* history: [Items -> Nat], runs no outcome tells of: it was lost,
                \* or the service wrote and then failed to read what it wrote
    mishaps    \* crashes, stalls and faults so far

vars == <<plan, items, payload, row, runs, audits, request, unrecorded, mishaps>>

PlanStatus == {"pending", "executing", "executed", "partial", "failed", "cancelled"}
ItemStatus == {"pending", "executed", "failed"}
\* As on the card, as the item writes it, or as somebody else wrote it since.
Row == {"shown", "ours", "theirs"}
\* over: expires_at has passed; fresh: claimed_at is younger than the timeout.
Plan == [status : PlanStatus, over : BOOLEAN, fresh : BOOLEAN]
\* The items as the claim read them, and where the request is with them.
Request == [phase : {"idle", "next", "looked", "ran"}, at : 1..(NumItems + 1),
            read : [Items -> ItemStatus], payload : [Items -> 0..MaxRevisions],
            outcome : [Items -> {"none", "done", "failed"}]]

TypeOK ==
    /\ plan \in Plan /\ items \in [Items -> ItemStatus]
    /\ payload \in [Items -> 0..MaxRevisions] /\ row \in [Items -> Row]
    /\ runs \in [Items -> Nat] /\ audits \in [Items -> Nat]
    /\ request \in [Requests -> Request] /\ unrecorded \in [Items -> Nat]
    /\ mishaps \in [crashes : 0..MaxCrashes, stalls : 0..MaxStalls, faults : 0..MaxFaults]

Idle == [phase |-> "idle", at |-> 1, read |-> [i \in Items |-> "pending"],
         payload |-> [i \in Items |-> 0], outcome |-> [i \in Items |-> "none"]]

Init ==
    /\ plan = [status |-> "pending", over |-> FALSE, fresh |-> FALSE]
    /\ items = [i \in Items |-> "pending"]
    /\ payload = [i \in Items |-> 0]
    /\ row = [i \in Items |-> "shown"]
    /\ runs = [i \in Items |-> 0] /\ audits = [i \in Items |-> 0]
    /\ request = [q \in Requests |-> Idle]
    /\ unrecorded = [i \in Items |-> 0]
    /\ mishaps = [crashes |-> 0, stalls |-> 0, faults |-> 0]

-----------------------------------------------------------------------------
(* The card. *)

\* Mutant: an answer is taken whatever the plan is at.
ReviseWhileRunning(i) ==
    /\ i \in Questions /\ items[i] = "pending" /\ payload[i] < MaxRevisions
    /\ payload' = [payload EXCEPT ![i] = @ + 1]
    /\ UNCHANGED <<plan, items, row, runs, audits, request, unrecorded, mishaps>>

\* Every answer restarts the window.  Only a pending plan that has not expired.
Revise(i) ==
    /\ plan.status = "pending" /\ ~plan.over
    /\ i \in Questions /\ items[i] = "pending"
    /\ payload[i] < MaxRevisions
    /\ payload' = [payload EXCEPT ![i] = @ + 1]
    /\ UNCHANGED <<plan, items, row, runs, audits, request, unrecorded, mishaps>>

Expire ==
    /\ plan.status = "pending" /\ ~plan.over
    /\ plan' = [plan EXCEPT !.over = TRUE]
    /\ UNCHANGED <<items, payload, row, runs, audits, request, unrecorded, mishaps>>

\* Mutant: a plan at work can be cancelled.
CancelWhileRunning ==
    /\ plan.status \in {"pending", "failed", "executing"}
    /\ plan' = [plan EXCEPT !.status = "cancelled"]
    /\ UNCHANGED <<items, payload, row, runs, audits, request, unrecorded, mishaps>>

\* Cancelling a failed plan is let through as well.
Cancel ==
    /\ plan.status \in {"pending", "failed"}
    /\ plan' = [plan EXCEPT !.status = "cancelled"]
    /\ UNCHANGED <<items, payload, row, runs, audits, request, unrecorded, mishaps>>

-----------------------------------------------------------------------------
(* A confirmation. *)

\* Mutant: the claim is not looked at.
ClaimableAlways == plan.status \in {"pending", "executing"} /\ ~plan.over

\* A claim that is not fresh counts as abandoned.  Claiming an expired plan is
\* refused, and the refusal rolls the "expired" status it wrote back; a plan
\* that finished answers with what is stored.
Claimable ==
    \/ plan.status = "pending" /\ ~plan.over
    \/ plan.status = "executing" /\ ~plan.fresh

Claim(q) ==
    /\ request[q].phase = "idle"
    /\ Claimable
    /\ plan' = [plan EXCEPT !.status = "executing", !.fresh = TRUE]
    /\ request' = [request EXCEPT ![q] = [Idle EXCEPT !.phase = "next", !.read = items,
                                                     !.payload = payload]]
    /\ UNCHANGED <<items, payload, row, runs, audits, unrecorded, mishaps>>

Step(q, i, phase, at, outcome) ==
    request' = [request EXCEPT ![q].phase = phase, ![q].at = at, ![q].outcome[i] = outcome]

\* Mutant: every claim starts from the first item.
\* An item the claim read as executed is not run again.
AlreadyDone(r, i) == r.read[i] = "executed"

SkipItem(q) ==
    LET i == request[q].at IN
    /\ request[q].phase = "next" /\ i \in Items /\ AlreadyDone(request[q], i)
    /\ Step(q, i, "next", i + 1, "done")
    /\ UNCHANGED <<plan, items, payload, row, runs, audits, unrecorded, mishaps>>

\* The look before the write.  A checked item goes on only when it finds the row as
\* shown; it is refused when the row moved and when it cannot be read.  A lenient
\* one is refused by a row of its name, which is not followed.
LookAt(q) ==
    LET i == request[q].at IN
    /\ request[q].phase = "next" /\ i \in Items /\ ~AlreadyDone(request[q], i)
    /\ \/ (Kind[i] = "checked" => row[i] = "shown") /\ Step(q, i, "looked", i, "none")
       \/ Step(q, i, "ran", i, "failed")
    /\ UNCHANGED <<plan, items, payload, row, runs, audits, unrecorded, mishaps>>

\* The service's own transaction.  It may refuse and write nothing; where the row
\* is read once more after the commit, a read that fails is answered as a failure
\* although the row was written.
Execute(q) ==
    LET i == request[q].at IN
    /\ request[q].phase = "looked"
    /\ \/ /\ Step(q, i, "ran", i, "failed")
          /\ UNCHANGED <<row, runs, unrecorded>>
       \/ /\ runs' = [runs EXCEPT ![i] = @ + 1]
          /\ row' = [row EXCEPT ![i] = "ours"]
          /\ \/ /\ Step(q, i, "ran", i, "done")
                /\ UNCHANGED unrecorded
             \/ /\ Kind[i] = "checked"
                /\ Step(q, i, "ran", i, "failed")
                /\ unrecorded' = [unrecorded EXCEPT ![i] = @ + 1]
    /\ UNCHANGED <<plan, items, payload, audits, mishaps>>

StatusOf(outcome) == IF outcome = "done" THEN "executed" ELSE "failed"

\* Mutant: a failed item leaves its audit row as well.
RecordAuditsFailures(q) ==
    LET i == request[q].at IN
    /\ request[q].phase = "ran"
    /\ items' = [items EXCEPT ![i] = IF @ = "executed" THEN @ ELSE StatusOf(request[q].outcome[i])]
    /\ audits' = [audits EXCEPT ![i] = IF items[i] = "executed" THEN @ ELSE @ + 1]
    /\ Step(q, i, "next", i + 1, request[q].outcome[i])
    /\ UNCHANGED <<plan, payload, row, runs, unrecorded, mishaps>>

\* RecordAIActionPlanItem leaves an executed row alone, and the first write of
\* "executed" comes with its audit row.
Record(q) ==
    LET i == request[q].at  status == StatusOf(request[q].outcome[i]) IN
    /\ request[q].phase = "ran"
    /\ items' = IF items[i] = "executed" THEN items ELSE [items EXCEPT ![i] = status]
    /\ audits' = IF items[i] # "executed" /\ status = "executed"
                 THEN [audits EXCEPT ![i] = @ + 1] ELSE audits
    /\ Step(q, i, "next", i + 1, request[q].outcome[i])
    /\ UNCHANGED <<plan, payload, row, runs, unrecorded, mishaps>>

Fault ==
    /\ mishaps.faults < MaxFaults
    /\ mishaps' = [mishaps EXCEPT !.faults = @ + 1]

\* The run goes on when an outcome could not be written.
RecordFails(q) ==
    /\ request[q].phase = "ran"
    /\ Fault
    /\ Step(q, request[q].at, "next", request[q].at + 1, request[q].outcome[request[q].at])
    /\ UNCHANGED <<plan, items, payload, row, runs, audits, unrecorded>>

Succeeded(r) == {i \in Items : r.outcome[i] = "done"}
FinalStatus(r) == IF Succeeded(r) = {} THEN "failed"
                  ELSE IF Succeeded(r) = Items THEN "executed" ELSE "partial"

\* FinishAIActionPlan writes every outcome and the status, whatever is stored.
Finish(q) ==
    /\ request[q].phase = "next" /\ request[q].at = NumItems + 1
    /\ items' = [i \in Items |-> StatusOf(request[q].outcome[i])]
    /\ plan' = [plan EXCEPT !.status = FinalStatus(request[q])]
    /\ request' = [request EXCEPT ![q] = Idle]
    /\ UNCHANGED <<payload, row, runs, audits, unrecorded, mishaps>>

\* What a request ran and no row tells of.
Untold(q) == {i \in Items : request[q].outcome[i] = "done" /\ items[i] # "executed"}
Forget(Q) == unrecorded' = [i \in Items |->
    unrecorded[i] + Cardinality({q \in Q : i \in Untold(q)})]

FinishFails(q) ==
    /\ request[q].phase = "next" /\ request[q].at = NumItems + 1
    /\ Fault
    /\ Forget({q})
    /\ request' = [request EXCEPT ![q] = Idle]
    /\ UNCHANGED <<plan, items, payload, row, runs, audits>>

-----------------------------------------------------------------------------
(* What happens around it. *)

Running == {q \in Requests : request[q].phase # "idle"}

\* Two minutes pass after the claim; a stall if the claimant is still at work.
ClaimAges ==
    /\ plan.status = "executing" /\ plan.fresh
    /\ plan' = [plan EXCEPT !.fresh = FALSE]
    /\ IF Running = {} THEN UNCHANGED mishaps
       ELSE /\ mishaps.stalls < MaxStalls
            /\ mishaps' = [mishaps EXCEPT !.stalls = @ + 1]
    /\ UNCHANGED <<items, payload, row, runs, audits, request, unrecorded>>

Crash ==
    /\ Running # {} /\ mishaps.crashes < MaxCrashes
    /\ mishaps' = [mishaps EXCEPT !.crashes = @ + 1]
    /\ Forget(Running)
    /\ request' = [q \in Requests |-> Idle]
    /\ UNCHANGED <<plan, items, payload, row, runs, audits>>

\* Anybody may also set the row back to what the card shows.
SomebodyEdits(i) ==
    /\ Kind[i] = "checked"
    /\ \E r \in {"shown", "theirs"} : row[i] # r /\ row' = [row EXCEPT ![i] = r]
    /\ UNCHANGED <<plan, items, payload, runs, audits, request, unrecorded, mishaps>>

ConfirmStep(q) == Claim(q) \/ SkipItem(q) \/ LookAt(q) \/ Execute(q) \/ Record(q)
                  \/ RecordFails(q) \/ Finish(q) \/ FinishFails(q)

Next ==
    \/ \E q \in Requests : ConfirmStep(q)
    \/ \E i \in Items : Revise(i) \/ SomebodyEdits(i)
    \/ Expire \/ Cancel \/ ClaimAges \/ Crash

Spec == Init /\ [][Next]_vars

-----------------------------------------------------------------------------
(* Properties.  A stall is a claim that timed out under a request still at   *)
(* work: two requests then run the plan at once, and less can be promised.   *)

NoStalls == mishaps.stalls = 0
Finished == plan.status \in {"executed", "partial", "failed"}

\* However confirmations, crashes and failed writes meet, an item is run again
\* only for a run no outcome tells of, or once more for each stalled claim.
RepeatsAreForMishaps == \A i \in Items : runs[i] <= 1 + unrecorded[i] + mishaps.stalls

\* "executed when every item succeeded, failed when none did, partial in
\* between": the status the owner is told is what the services answered, also
\* after a crash and a second claim (FinishAIActionPlan).
FinishedStatusIsHonest ==
    NoStalls =>
    /\ plan.status = "executed" => \A i \in Items : items[i] = "executed" /\ runs[i] > 0
    /\ plan.status = "partial" => \E i, j \in Items : runs[i] > 0 /\ items[j] = "failed"
    /\ plan.status = "failed" => \A i \in Items : items[i] = "failed"

\* An item a finished plan reports as failed, and any item of a cancelled plan,
\* wrote only in runs whose outcome was lost or whose service failed to read its
\* own write: a plan cannot be cancelled while it runs or after it did, unless
\* all of it failed.
UnreportedItemsWroteUnseen ==
    NoStalls =>
        \A i \in Items :
            (Finished /\ items[i] = "failed") \/ plan.status = "cancelled"
                => runs[i] <= unrecorded[i]

\* What the owner is told of a plan is what its items did to the restaurant, but
\* for the runs no outcome tells of.
ReportIsHonest == FinishedStatusIsHonest /\ UnreportedItemsWroteUnseen

\* Every executed item has one audit row across crashes and re-claims as long as
\* the writes of the outcomes succeed, and no mishap makes two of them: that
\* takes three requests at once, of which one finishes over the record of
\* another (createAIPlanItemAuditLog).
ItemsAreAuditedOnce ==
    \A i \in Items :
        /\ 2 * (audits[i] - 1) <= mishaps.stalls
        /\ NoStalls /\ mishaps.faults = 0 =>
              (audits[i] = 1 <=> items[i] = "executed")

\* No answer on the card changes what a confirmation is already running.
RunsWhatWasConfirmed == \A q \in Running : request[q].payload = payload

-----------------------------------------------------------------------------
(* Statements of the code's comments that do not hold as they stand.       *)

\* ai_action_plan_repository.go:230-233: "instead of running anything twice".
\* Broken by a stall, and by a death between the write and the record.
NothingRunsTwice == \A i \in Items : runs[i] <= 1

\* ai_action_plan_repository.go:360-364: a row for every change.  Broken by an
\* outcome that RecordAIActionPlanItem could not write and FinishAIActionPlan did.
EveryChangeIsAudited == \A i \in Items : Finished /\ items[i] = "executed" => audits[i] = 1

\* ai_action_plan_repository.go:343-344: the row "happens once per write, even
\* when a re-claimed plan records the same item again".  Broken by two stalls: a
\* finish stores "failed" over the item another request recorded.
OneAuditRowPerItem == \A i \in Items : audits[i] <= 1

\* ai_action_plan_repository.go:402: "failed when none did".  Broken by a service
\* that wrote and then failed to read the row again (menu_service.go:324).
FailedPlansWroteNothing ==
    NoStalls /\ plan.status = "failed" /\ mishaps.crashes = 0 /\ mishaps.faults = 0
        => \A i \in Items : runs[i] = 0

\* ai_action_plan.go:198-200: what moved meanwhile "is left unwritten".  Broken
\* by an edit between the look and the service's own transaction.
OthersChangesSurvive ==
    [][\A i \in Items : Kind[i] = "checked" /\ runs'[i] # runs[i] => row[i] # "theirs"]_vars
=============================================================================
