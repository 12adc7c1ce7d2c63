--------------------------- MODULE ActionPlanProofs ---------------------------
(***************************************************************************)
(* Theorems about ActionPlan: how often an item of a plan can run, how many *)
(* audit rows it leaves, what the finished plan tells the owner, and what a *)
(* confirmation runs, for any number of items, confirmations and mishaps.   *)
(***************************************************************************)
EXTENDS ActionPlan, FiniteSetTheorems, TLAPS

-----------------------------------------------------------------------------
(* The invariant *)

Open == plan.status \in {"pending", "executing"}

\* The claim of a plan at work has timed out: another request may take it.
Abandoned == plan.status = "executing" /\ ~plan.fresh

\* A request goes through the items in order, and remembers what it knows.
InOrder(r) ==
    /\ r.phase \in {"looked", "ran"} => r.at \in Items /\ ~AlreadyDone(r, r.at)
    /\ \A i \in Items :
        /\ i > r.at \/ (i = r.at /\ r.phase # "ran") => r.outcome[i] = "none"
        /\ i < r.at /\ AlreadyDone(r, i) => r.outcome[i] = "done"

NotStarted ==
    plan.status = "pending" =>
        /\ Running = {}
        /\ \A i \in Items : items[i] # "executed" /\ runs[i] = 0

\* Every stall lets one more request in: two of them take a stall, and while the
\* claim is abandoned its stall is not spent yet.
FewAtWork ==
    /\ IsFiniteSet(Running)
    /\ Cardinality(Running) <= mishaps.stalls + (IF Abandoned THEN 0 ELSE 1)

\* An item that is done has been run.
WrittenIfDone ==
    \A i \in Items :
        /\ items[i] = "executed" => runs[i] > 0
        /\ \A q \in Running :
              AlreadyDone(request[q], i) \/ request[q].outcome[i] = "done" => runs[i] > 0

Done(i) == {q \in Running : request[q].outcome[i] = "done"}

\* The requests that may still run an item.
MayRun(i) == {q \in Running :
    /\ ~AlreadyDone(request[q], i)
    /\ request[q].at < i \/ (request[q].at = i /\ request[q].phase # "ran")}

\* While the plan is open, a run that is not stored is told by no outcome, or its
\* request is still at work; whatever is stored, every further run is paid for.
RunsAreKnown ==
    Open => \A i \in Items :
        items[i] # "executed" => runs[i] <= unrecorded[i] + Cardinality(Done(i))
RunsArePaidFor ==
    \A i \in Items :
        runs[i] + Cardinality(MayRun(i)) <= 1 + unrecorded[i] + mishaps.stalls

\* The requests that may still write an audit row of an item, or undo one.
Unspent(i) == {q \in Running :
    /\ ~AlreadyDone(request[q], i)
    /\ ~(request[q].at > i /\ request[q].outcome[i] = "done")}

\* In an open plan the audit row is there exactly with the status.  Once a
\* request finished, a second row takes one request to undo the status and one to
\* record the item again.
AuditPaid(i) ==
    IF Open
    THEN /\ audits[i] = IF items[i] = "executed" THEN 1 ELSE 0
         /\ items[i] = "executed" => Cardinality(Unspent(i)) <= mishaps.stalls
    ELSE 2 * (audits[i] - 1) + (IF items[i] = "executed" THEN 0 ELSE 1)
            + Cardinality(Unspent(i)) <= mishaps.stalls
AuditsArePaidFor == \A i \in Items : AuditPaid(i)

\* What the only request at work knows of an item.
Knows(r, i) ==
    /\ items[i] = "executed" => AlreadyDone(r, i) \/ r.outcome[i] = "done"
    /\ mishaps.faults = 0 =>
          (AlreadyDone(r, i) \/ (r.at > i /\ r.outcome[i] = "done") => items[i] = "executed")

\* Without a stall one request works at a time, and it knows what is stored.
AloneAtWork ==
    NoStalls =>
        /\ Running # {} => plan.status = "executing" /\ plan.fresh
        /\ \A p, q \in Running : p = q
        /\ \A q \in Running, i \in Items : Knows(request[q], i)

\* Without a mishap of the writes, the row is there exactly with the status.
AuditedAsStored == NoStalls /\ mishaps.faults = 0 =>
    \A i \in Items : audits[i] = 1 <=> items[i] = "executed"

WorkInv == (\A q \in Requests : InOrder(request[q])) /\ NotStarted /\ FewAtWork
CountsInv == WrittenIfDone /\ RunsAreKnown /\ RunsArePaidFor /\ AuditsArePaidFor
ToldInv == AloneAtWork /\ ReportIsHonest /\ AuditedAsStored

IInv == TypeOK /\ WorkInv /\ CountsInv /\ ToldInv /\ RunsWhatWasConfirmed

-----------------------------------------------------------------------------
(* What a step does to the requests *)

LEMMA IdleType == Idle \in Request
  <1>1. NumItems \in Nat \ {0} /\ MaxRevisions \in Nat
    BY ActionPlanAssumption
  <1>2. 1 \in 1..(NumItems + 1) /\ 0 \in 0..MaxRevisions
    BY <1>1
  <1> QED BY <1>2 DEF Idle, Request, ItemStatus

\* q goes on at the item it is at.
LEMMA StepDoes ==
    ASSUME TypeOK, NEW q \in Requests, NEW i \in Items,
           NEW phase \in {"next", "looked", "ran"}, NEW at \in {i, i + 1},
           NEW outcome \in {"none", "done", "failed"},
           request[q].phase # "idle", Step(q, i, phase, at, outcome)
    PROVE  /\ request' \in [Requests -> Request]
           /\ \A p \in Requests \ {q} : request'[p] = request[p]
           /\ request'[q].phase = phase /\ request'[q].at = at
           /\ request'[q].read = request[q].read
           /\ request'[q].payload = request[q].payload
           /\ request'[q].outcome[i] = outcome
           /\ \A j \in Items \ {i} : request'[q].outcome[j] = request[q].outcome[j]
           /\ Running' = Running
  <1>1. request \in [Requests -> Request] /\ request[q] \in Request
    BY DEF TypeOK
  <1>2. at \in 1..(NumItems + 1)
    BY ActionPlanAssumption DEF Items
  <1> DEFINE r == [request[q] EXCEPT !.phase = phase, !.at = at,
                                     !.outcome = [request[q].outcome EXCEPT ![i] = outcome]]
  <1>3. request' = [request EXCEPT ![q] = r]
    BY <1>1 DEF Step, Request
  <1>4. r \in Request
    BY <1>1, <1>2 DEF Request
  <1>5. /\ r.phase = phase /\ r.at = at /\ r.read = request[q].read
        /\ r.payload = request[q].payload /\ r.outcome[i] = outcome
        /\ \A j \in Items \ {i} : r.outcome[j] = request[q].outcome[j]
    BY <1>1 DEF Request
  <1> HIDE DEF r
  <1>6. /\ request' \in [Requests -> Request] /\ request'[q] = r
        /\ \A p \in Requests \ {q} : request'[p] = request[p]
    BY <1>1, <1>3, <1>4
  <1>7. Running' = Running
    BY <1>5, <1>6 DEF Running
  <1> QED BY <1>5, <1>6, <1>7

\* q claims the plan.
LEMMA ClaimDoes ==
    ASSUME TypeOK, NEW q \in Requests, Claim(q)
    PROVE  /\ request' \in [Requests -> Request]
           /\ \A p \in Requests \ {q} : request'[p] = request[p]
           /\ request'[q].phase = "next" /\ request'[q].at = 1
           /\ request'[q].read = items /\ request'[q].payload = payload
           /\ \A i \in Items : request'[q].outcome[i] = "none"
           /\ q \notin Running /\ Running' = Running \cup {q}
           /\ plan'.status = "executing" /\ plan'.fresh = TRUE /\ plan'.over = plan.over
           /\ Open /\ Open' /\ (plan.status = "pending" \/ Abandoned)
           /\ UNCHANGED <<items, payload, row, runs, audits, unrecorded, mishaps>>
  <1>1. request \in [Requests -> Request] /\ request[q] \in Request
    BY DEF TypeOK
  <1> DEFINE r == [Idle EXCEPT !.phase = "next", !.read = items, !.payload = payload]
  <1>2. request' = [request EXCEPT ![q] = r] /\ request[q].phase = "idle"
    BY DEF Claim
  <1>3. items \in [Items -> ItemStatus] /\ payload \in [Items -> 0..MaxRevisions]
    BY DEF TypeOK
  <1>4. r \in Request
    BY <1>3, IdleType DEF Request
  <1>5. /\ r.phase = "next" /\ r.at = 1 /\ r.read = items /\ r.payload = payload
        /\ \A i \in Items : r.outcome[i] = "none"
    BY DEF Idle
  <1> HIDE DEF r
  <1>6. /\ request' \in [Requests -> Request] /\ request'[q] = r
        /\ \A p \in Requests \ {q} : request'[p] = request[p]
    BY <1>1, <1>2, <1>4
  <1>7. q \notin Running /\ Running' = Running \cup {q}
    BY <1>2, <1>5, <1>6 DEF Running
  <1>8. /\ plan'.status = "executing" /\ plan'.fresh = TRUE /\ plan'.over = plan.over
        /\ plan.status = "pending" \/ Abandoned
    BY DEF Claim, Claimable, Abandoned, TypeOK, Plan
  <1>9. Open /\ Open'
    BY <1>8 DEF Open, Abandoned
  <1> QED BY <1>5, <1>6, <1>7, <1>8, <1>9 DEF Claim

\* The requests of Q stop, and the others go on.
Leave(Q) ==
    /\ Running' = Running \ Q
    /\ \A q \in Running' : request'[q] = request[q]

LEMMA LeaveOne ==
    ASSUME TypeOK, NEW q \in Requests, request' = [request EXCEPT ![q] = Idle]
    PROVE  request' \in [Requests -> Request] /\ Leave({q})
  <1>1. request \in [Requests -> Request] /\ Idle.phase = "idle"
    BY DEF TypeOK, Idle
  <1>2. request'[q] = Idle /\ \A p \in Requests \ {q} : request'[p] = request[p]
    BY <1>1
  <1> QED BY <1>1, <1>2, IdleType DEF Leave, Running

LEMMA LeaveAll ==
    ASSUME request' = [q \in Requests |-> Idle]
    PROVE  request' \in [Requests -> Request] /\ Leave(Running) /\ Running' = {}
  <1>1. Idle.phase = "idle"
    BY DEF Idle
  <1>2. Running' = {}
    BY <1>1 DEF Running
  <1> QED BY <1>2, IdleType DEF Leave

\* What the requests of Q ran and nobody stored is counted as lost.
LEMMA ForgetDoes ==
    ASSUME TypeOK, NEW Q \in SUBSET Requests, IsFiniteSet(Q), Forget(Q)
    PROVE  /\ unrecorded' \in [Items -> Nat]
           /\ \A i \in Items :
               LET lost == {q \in Q : request[q].outcome[i] = "done" /\ items[i] # "executed"} IN
               /\ Cardinality(lost) \in Nat
               /\ unrecorded'[i] = unrecorded[i] + Cardinality(lost)
  <1> DEFINE lost(i) == {q \in Q : request[q].outcome[i] = "done" /\ items[i] # "executed"}
  <1>1. ASSUME NEW i \in Items
        PROVE  Cardinality(lost(i)) \in Nat /\ {q \in Q : i \in Untold(q)} = lost(i)
    <2>1. lost(i) \in SUBSET Q /\ {q \in Q : i \in Untold(q)} = lost(i)
      BY DEF Untold
    <2> HIDE DEF lost
    <2>2. IsFiniteSet(lost(i))
      BY <2>1, FS_Subset
    <2> QED BY <2>1, <2>2, FS_CardinalityType
  <1>2. unrecorded' = [i \in Items |-> unrecorded[i] + Cardinality(lost(i))]
    <2> HIDE DEF lost
    <2> QED BY <1>1 DEF Forget
  <1> HIDE DEF lost
  <1>3. /\ unrecorded' \in [Items -> Nat]
        /\ \A i \in Items : unrecorded'[i] = unrecorded[i] + Cardinality(lost(i))
    BY <1>1, <1>2 DEF TypeOK
  <1> QED BY <1>1, <1>3 DEF lost

\* A failed write costs one of the faults.
LEMMA FaultDoes ==
    ASSUME TypeOK, Fault
    PROVE  /\ mishaps' \in [crashes : 0..MaxCrashes, stalls : 0..MaxStalls, faults : 0..MaxFaults]
           /\ mishaps'.stalls = mishaps.stalls /\ mishaps'.faults = mishaps.faults + 1
  <1> DEFINE M == [crashes : 0..MaxCrashes, stalls : 0..MaxStalls, faults : 0..MaxFaults]
  <1>1. mishaps \in M /\ mishaps' = [mishaps EXCEPT !.faults = mishaps.faults + 1]
    BY DEF TypeOK, Fault
  <1>2. mishaps.faults + 1 \in 0..MaxFaults
    BY <1>1, ActionPlanAssumption DEF Fault
  <1> QED BY <1>1, <1>2

-----------------------------------------------------------------------------
(* Types *)

LEMMA TypeStepConfirm ==
    ASSUME TypeOK, WorkInv, NEW q \in Requests, ConfirmStep(q)
    PROVE  TypeOK'
  <1> DEFINE i == request[q].at
  <1>0. /\ request[q] \in Request /\ i \in 1..(NumItems + 1)
        /\ request[q].phase \in {"looked", "ran"} => i \in Items
    BY DEF TypeOK, Request, WorkInv, InOrder
  <1>1. CASE Claim(q)
    <2>1. plan' \in Plan
      BY <1>1 DEF Claim, TypeOK, Plan, PlanStatus
    <2> QED BY <1>1, <2>1, ClaimDoes DEF TypeOK
  <1>2. CASE SkipItem(q)
    <2>1. Step(q, i, "next", i + 1, "done") /\ i \in Items /\ request[q].phase # "idle"
      BY <1>2 DEF SkipItem
    <2>2. request' \in [Requests -> Request]
      BY <2>1, StepDoes
    <2> QED BY <1>2, <2>2 DEF SkipItem, TypeOK
  <1>3. CASE LookAt(q)
    <2>1. /\ i \in Items /\ request[q].phase # "idle"
          /\ Step(q, i, "looked", i, "none") \/ Step(q, i, "ran", i, "failed")
      BY <1>3 DEF LookAt
    <2>2. request' \in [Requests -> Request]
      BY <2>1, StepDoes
    <2> QED BY <1>3, <2>2 DEF LookAt, TypeOK
  <1>4. CASE Execute(q)
    <2>1. /\ i \in Items /\ request[q].phase # "idle"
          /\ Step(q, i, "ran", i, "done") \/ Step(q, i, "ran", i, "failed")
      BY <1>0, <1>4 DEF Execute
    <2>2. request' \in [Requests -> Request]
      BY <2>1, StepDoes
    <2>3. /\ runs' \in [Items -> Nat] /\ row' \in [Items -> Row]
          /\ unrecorded' \in [Items -> Nat]
      BY <1>4, <2>1 DEF Execute, TypeOK, Row
    <2> QED BY <1>4, <2>2, <2>3 DEF Execute, TypeOK
  <1>5. CASE Record(q)
    <2>1. /\ i \in Items /\ request[q].phase # "idle"
          /\ request[q].outcome[i] \in {"none", "done", "failed"}
          /\ Step(q, i, "next", i + 1, request[q].outcome[i])
      BY <1>0, <1>5 DEF Record, Request
    <2>2. request' \in [Requests -> Request]
      BY <2>1, StepDoes
    <2>3. items' \in [Items -> ItemStatus] /\ audits' \in [Items -> Nat]
      BY <1>5, <2>1 DEF Record, TypeOK, ItemStatus, StatusOf
    <2> QED BY <1>5, <2>2, <2>3 DEF Record, TypeOK
  <1>6. CASE RecordFails(q)
    <2>1. /\ i \in Items /\ request[q].phase # "idle"
          /\ request[q].outcome[i] \in {"none", "done", "failed"}
          /\ Step(q, i, "next", i + 1, request[q].outcome[i])
      BY <1>0, <1>6 DEF RecordFails, Request
    <2>2. request' \in [Requests -> Request]
      BY <2>1, StepDoes
    <2> QED BY <1>6, <2>2, FaultDoes DEF RecordFails, TypeOK
  <1>7. CASE Finish(q)
    <2>1. request' \in [Requests -> Request]
      BY <1>7, LeaveOne DEF Finish
    <2>2. items' \in [Items -> ItemStatus]
      BY <1>7 DEF Finish, StatusOf, ItemStatus
    <2>3. plan' \in Plan
      BY <1>7 DEF Finish, TypeOK, Plan, PlanStatus, FinalStatus
    <2> QED BY <1>7, <2>1, <2>2, <2>3 DEF Finish, TypeOK
  <1>8. CASE FinishFails(q)
    <2>1. request' \in [Requests -> Request]
      BY <1>8, LeaveOne DEF FinishFails
    <2>2. unrecorded' \in [Items -> Nat]
      BY <1>8, ForgetDoes, FS_Singleton DEF FinishFails
    <2> QED BY <1>8, <2>1, <2>2, FaultDoes DEF FinishFails, TypeOK
  <1> QED BY <1>1, <1>2, <1>3, <1>4, <1>5, <1>6, <1>7, <1>8 DEF ConfirmStep

LEMMA TypeStep ==
    ASSUME TypeOK, WorkInv, Next
    PROVE  TypeOK'
  <1>1. CASE \E q \in Requests : ConfirmStep(q)
    BY <1>1, TypeStepConfirm
  <1>2. ASSUME NEW i \in Items, Revise(i) PROVE TypeOK'
    BY <1>2, ActionPlanAssumption DEF Revise, TypeOK
  <1>3. ASSUME NEW i \in Items, SomebodyEdits(i) PROVE TypeOK'
    BY <1>3 DEF SomebodyEdits, TypeOK, Row
  <1>4. CASE Expire
    BY <1>4 DEF Expire, TypeOK, Plan
  <1>5. CASE Cancel
    BY <1>5 DEF Cancel, TypeOK, Plan, PlanStatus
  <1>6. CASE ClaimAges
    <2>1. mishaps' \in [crashes : 0..MaxCrashes, stalls : 0..MaxStalls, faults : 0..MaxFaults]
      BY <1>6, ActionPlanAssumption DEF ClaimAges, TypeOK
    <2>2. plan' \in Plan
      BY <1>6 DEF ClaimAges, TypeOK, Plan
    <2> QED BY <1>6, <2>1, <2>2 DEF ClaimAges, TypeOK
  <1>7. CASE Crash
    <2>1. mishaps' \in [crashes : 0..MaxCrashes, stalls : 0..MaxStalls, faults : 0..MaxFaults]
      BY <1>7, ActionPlanAssumption DEF Crash, TypeOK
    <2>2. Running \in SUBSET Requests
      BY DEF Running
    <2>3. unrecorded' \in [Items -> Nat]
      BY <1>7, <2>2, ForgetDoes DEF Crash, WorkInv, FewAtWork
    <2>4. request' \in [Requests -> Request]
      BY <1>7, LeaveAll DEF Crash
    <2> QED BY <1>7, <2>1, <2>3, <2>4 DEF Crash, TypeOK
  <1> QED BY <1>1, <1>2, <1>3, <1>4, <1>5, <1>6, <1>7 DEF Next

-----------------------------------------------------------------------------
(* What a step does to the sets of requests the counts are about *)

\* A request at item i goes on to its next phase.
Move(q, i, phase, outcome) ==
    /\ i = request[q].at /\ i \in Items /\ request[q].phase # "idle"
    /\ phase = "looked" => request[q].phase = "next" /\ outcome = "none"
    /\ phase = "ran" => request[q].phase # "ran"
    /\ IF AlreadyDone(request[q], i)
       THEN phase = "next" /\ outcome = "done"
       ELSE phase = "next" => request[q].phase = "ran" /\ outcome = request[q].outcome[i]
    /\ Step(q, i, phase, IF phase = "next" THEN i + 1 ELSE i, outcome)
    /\ UNCHANGED <<plan, payload>>

Phases == {"next", "looked", "ran"}
Outcomes == {"none", "done", "failed"}

LEMMA MoveDoes ==
    ASSUME TypeOK, NEW q \in Requests, NEW i \in Items, NEW phase \in Phases,
           NEW outcome \in Outcomes, Move(q, i, phase, outcome)
    PROVE  /\ \A p \in Requests \ {q} : request'[p] = request[p]
           /\ request'[q].phase = phase
           /\ request'[q].at = IF phase = "next" THEN i + 1 ELSE i
           /\ request'[q].read = request[q].read
           /\ request'[q].payload = request[q].payload
           /\ request'[q].outcome[i] = outcome
           /\ \A j \in Items \ {i} : request'[q].outcome[j] = request[q].outcome[j]
           /\ Running' = Running /\ q \in Running /\ i = request[q].at
           /\ UNCHANGED <<plan, payload>>
  <1> DEFINE at == IF phase = "next" THEN i + 1 ELSE i
  <1>1. /\ at \in {i, i + 1} /\ Step(q, i, phase, at, outcome)
        /\ request[q].phase # "idle" /\ i = request[q].at
        /\ UNCHANGED <<plan, payload>>
    BY DEF Move
  <1>2. q \in Running
    BY <1>1 DEF Running
  <1> HIDE DEF at
  <1>3. /\ request' \in [Requests -> Request]
        /\ \A p \in Requests \ {q} : request'[p] = request[p]
        /\ request'[q].phase = phase /\ request'[q].at = at
        /\ request'[q].read = request[q].read
        /\ request'[q].payload = request[q].payload
        /\ request'[q].outcome[i] = outcome
        /\ \A j \in Items \ {i} : request'[q].outcome[j] = request[q].outcome[j]
        /\ Running' = Running
    BY <1>1, StepDoes DEF Phases, Outcomes
  <1> QED BY <1>1, <1>2, <1>3 DEF at

LEMMA MoveSets ==
    ASSUME TypeOK, NEW q \in Requests, InOrder(request[q]), NEW i \in Items,
           NEW phase \in Phases, NEW outcome \in Outcomes, Move(q, i, phase, outcome)
    PROVE  /\ \A j \in Items \ {i} :
               Done(j)' = Done(j) /\ MayRun(j)' = MayRun(j) /\ Unspent(j)' = Unspent(j)
           /\ Done(i)' = IF outcome = "done" THEN Done(i) \cup {q} ELSE Done(i) \ {q}
           /\ MayRun(i)' = IF phase = "looked" THEN MayRun(i) ELSE MayRun(i) \ {q}
           /\ Unspent(i)' = IF phase = "next" /\ outcome = "done"
                            THEN Unspent(i) \ {q} ELSE Unspent(i)
  <1> DEFINE at == IF phase = "next" THEN i + 1 ELSE i
  <1>0. /\ phase = "looked" => request[q].phase = "next"
        /\ i = request[q].at
        /\ at \in {i, i + 1}
        /\ at = IF phase = "next" THEN i + 1 ELSE i
    BY DEF Move
  <1> HIDE DEF at
  <1>1. /\ \A p \in Requests \ {q} : request'[p] = request[p]
        /\ request'[q].phase = phase /\ request'[q].at = at
        /\ request'[q].read = request[q].read
        /\ request'[q].outcome[i] = outcome
        /\ \A j \in Items \ {i} : request'[q].outcome[j] = request[q].outcome[j]
        /\ Running' = Running
    BY MoveDoes DEF at
  <1>2. q \in Running /\ Running \subseteq Requests /\ i \in Int
    BY DEF Running, Items, Move
  <1>3. ASSUME NEW j \in Items \ {i}
        PROVE  Done(j)' = Done(j) /\ MayRun(j)' = MayRun(j) /\ Unspent(j)' = Unspent(j)
    <2>1. j \in Int /\ j # i
      BY DEF Items
    <2>2. (at < j \/ (at = j /\ phase # "ran")) <=> request[q].at < j
      BY <1>0, <1>2, <2>1
    <2>3. (at > j) <=> (request[q].at > j)
      BY <1>0, <1>2, <2>1
    <2>4. Done(j)' = Done(j)
      BY <1>0, <1>1, <1>2 DEF Done
    <2>5. MayRun(j)' = MayRun(j)
      BY <1>1, <1>0, <1>2, <2>1, <2>2 DEF MayRun, AlreadyDone
    <2>6. \A p \in Running :
             /\ (request'[p].at > j) <=> (request[p].at > j)
             /\ request'[p].read = request[p].read
             /\ request'[p].outcome[j] = request[p].outcome[j]
      BY <1>1, <1>0, <1>2, <2>3
    <2>7. Unspent(j)' = Unspent(j)
      BY <1>1, <2>6, Zenon DEF Unspent, AlreadyDone
    <2> QED BY <2>4, <2>5, <2>7
  <1>4. Done(i)' = IF outcome = "done" THEN Done(i) \cup {q} ELSE Done(i) \ {q}
    BY <1>0, <1>1, <1>2 DEF Done
  <1>5. MayRun(i)' = IF phase = "looked" THEN MayRun(i) ELSE MayRun(i) \ {q}
    <2>1. (at < i \/ (at = i /\ phase # "ran")) <=> phase = "looked"
      BY <1>0, <1>2 DEF Phases
    <2>2. phase = "looked" => (request[q].at < i \/ (request[q].at = i /\ request[q].phase # "ran"))
      BY <1>0
    <2> QED BY <1>1, <1>0, <1>2, <2>1, <2>2 DEF MayRun, AlreadyDone
  <1>6. Unspent(i)' = IF phase = "next" /\ outcome = "done"
                      THEN Unspent(i) \ {q} ELSE Unspent(i)
    <2>1. (at > i <=> phase = "next") /\ ~(request[q].at > i)
      BY <1>0, <1>2
    <2> QED BY <1>1, <1>0, <1>2, <2>1 DEF Unspent, AlreadyDone
  <1> QED BY <1>3, <1>4, <1>5, <1>6

LEMMA ClaimSets ==
    ASSUME TypeOK, NEW q \in Requests, Claim(q), NEW i \in Items
    PROVE  /\ Done(i)' = Done(i)
           /\ MayRun(i)' = IF items[i] = "executed" THEN MayRun(i) ELSE MayRun(i) \cup {q}
           /\ Unspent(i)' = IF items[i] = "executed" THEN Unspent(i) ELSE Unspent(i) \cup {q}
  <1>1. /\ \A p \in Requests \ {q} : request'[p] = request[p]
        /\ request'[q].phase = "next" /\ request'[q].at = 1
        /\ request'[q].read = items /\ request'[q].outcome[i] = "none"
        /\ q \notin Running /\ Running' = Running \cup {q}
    BY ClaimDoes
  <1>2. Running \subseteq Requests /\ (1 < i \/ 1 = i)
    BY DEF Running, Items
  <1>3. Done(i)' = Done(i)
    BY <1>1, <1>2 DEF Done
  <1>4. MayRun(i)' = IF items[i] = "executed" THEN MayRun(i) ELSE MayRun(i) \cup {q}
    BY <1>1, <1>2 DEF MayRun, AlreadyDone
  <1>5. Unspent(i)' = IF items[i] = "executed" THEN Unspent(i) ELSE Unspent(i) \cup {q}
    BY <1>1, <1>2 DEF Unspent, AlreadyDone
  <1> QED BY <1>3, <1>4, <1>5

LEMMA LeaveSets ==
    ASSUME NEW Q, Leave(Q), NEW i \in Items
    PROVE  Done(i)' = Done(i) \ Q /\ MayRun(i)' = MayRun(i) \ Q /\ Unspent(i)' = Unspent(i) \ Q
  <1>1. Done(i)' = Done(i) \ Q
    BY DEF Leave, Done
  <1>2. MayRun(i)' = MayRun(i) \ Q
    BY DEF Leave, MayRun
  <1>3. Unspent(i)' = Unspent(i) \ Q
    BY DEF Leave, Unspent
  <1> QED BY <1>1, <1>2, <1>3

LEMMA SameSets ==
    ASSUME UNCHANGED request
    PROVE  /\ Running' = Running
           /\ \A i \in Items : Done(i)' = Done(i) /\ MayRun(i)' = MayRun(i) /\ Unspent(i)' = Unspent(i)
BY DEF Running, Done, MayRun, Unspent

\* All of them are sets of requests at work.
LEMMA Counted ==
    ASSUME WorkInv, NEW i \in Items
    PROVE  /\ IsFiniteSet(Done(i)) /\ IsFiniteSet(MayRun(i)) /\ IsFiniteSet(Unspent(i))
           /\ Cardinality(Done(i)) \in Nat /\ Cardinality(MayRun(i)) \in Nat
           /\ Cardinality(Unspent(i)) \in Nat /\ Cardinality(Running) \in Nat
           /\ Cardinality(Unspent(i)) <= Cardinality(Running)
           /\ Cardinality(Done(i)) + Cardinality(MayRun(i)) <= Cardinality(Running)
  <1>1. IsFiniteSet(Running)
    BY DEF WorkInv, FewAtWork
  <1>2. /\ Done(i) \in SUBSET Running /\ MayRun(i) \in SUBSET Running
        /\ Unspent(i) \in SUBSET Running
    BY DEF Done, MayRun, Unspent
  <1>3. Done(i) \cap MayRun(i) = {}
    <2>1. ASSUME NEW q \in MayRun(i) PROVE request[q].outcome[i] = "none"
      <3>1. q \in Requests /\ i \in Int
        BY DEF MayRun, Running, Items
      <3>2. InOrder(request[q])
        BY <3>1 DEF WorkInv
      <3>3. request[q].at < i \/ (request[q].at = i /\ request[q].phase # "ran")
        BY DEF MayRun
      <3>4. i > request[q].at \/ (i = request[q].at /\ request[q].phase # "ran")
        BY <3>3
      <3> QED BY <3>2, <3>4 DEF InOrder
    <2> QED BY <2>1 DEF Done
  <1>4. /\ IsFiniteSet(Done(i)) /\ IsFiniteSet(MayRun(i)) /\ IsFiniteSet(Unspent(i))
        /\ Cardinality(Unspent(i)) <= Cardinality(Running)
    BY <1>1, <1>2, FS_Subset
  <1>5. /\ Cardinality(Done(i)) \in Nat /\ Cardinality(MayRun(i)) \in Nat
        /\ Cardinality(Unspent(i)) \in Nat /\ Cardinality(Running) \in Nat
    BY <1>1, <1>4, FS_CardinalityType
  <1>6. Cardinality(Done(i) \cup MayRun(i)) = Cardinality(Done(i)) + Cardinality(MayRun(i))
    <2>1. Cardinality(Done(i) \cup MayRun(i))
            = Cardinality(Done(i)) + Cardinality(MayRun(i)) - Cardinality(Done(i) \cap MayRun(i))
      BY <1>4, FS_Union
    <2>2. Cardinality(Done(i) \cap MayRun(i)) = 0
      BY <1>3, FS_EmptySet
    <2> QED BY <1>5, <2>1, <2>2
  <1>7. Done(i) \cup MayRun(i) \in SUBSET Running
    BY <1>2
  <1>8. Cardinality(Done(i) \cup MayRun(i)) <= Cardinality(Running)
    BY <1>1, <1>7, FS_Subset
  <1> QED BY <1>4, <1>5, <1>6, <1>8

\* So after a step.
LEMMA CountedNext ==
    ASSUME WorkInv', NEW i \in Items
    PROVE  /\ Cardinality(Done(i)') \in Nat /\ Cardinality(MayRun(i)') \in Nat
           /\ Cardinality(Unspent(i)') \in Nat /\ Cardinality(Running') \in Nat
           /\ Cardinality(Unspent(i)') <= Cardinality(Running')
  <1>1. IsFiniteSet(Running')
    BY DEF WorkInv, FewAtWork
  <1>2. /\ Done(i)' \in SUBSET Running' /\ MayRun(i)' \in SUBSET Running'
        /\ Unspent(i)' \in SUBSET Running'
    BY DEF Done, MayRun, Unspent
  <1>3. /\ IsFiniteSet(Done(i)') /\ IsFiniteSet(MayRun(i)') /\ IsFiniteSet(Unspent(i)')
        /\ Cardinality(Unspent(i)') <= Cardinality(Running')
    BY <1>1, <1>2, FS_Subset
  <1> QED BY <1>1, <1>3, FS_CardinalityType

\* A set with one member more, or less.
LEMMA OneMore ==
    ASSUME NEW S, IsFiniteSet(S), NEW q
    PROVE  /\ Cardinality(S) \in Nat
           /\ Cardinality(S \cup {q}) \in Nat /\ Cardinality(S \ {q}) \in Nat
           /\ Cardinality(S \cup {q}) >= Cardinality(S)
           /\ Cardinality(S \cup {q}) <= Cardinality(S) + 1
           /\ Cardinality(S \ {q}) <= Cardinality(S)
           /\ q \notin S => Cardinality(S \cup {q}) = Cardinality(S) + 1 /\ S \ {q} = S
           /\ q \in S => Cardinality(S \ {q}) = Cardinality(S) - 1 /\ S \cup {q} = S
  <1>1. IsFiniteSet(S \cup {q}) /\ IsFiniteSet(S \ {q})
    BY FS_AddElement, FS_RemoveElement
  <1>2. /\ Cardinality(S) \in Nat
        /\ Cardinality(S \cup {q}) \in Nat /\ Cardinality(S \ {q}) \in Nat
    BY <1>1, FS_CardinalityType
  <1>3. /\ Cardinality(S \cup {q}) = IF q \in S THEN Cardinality(S) ELSE Cardinality(S) + 1
        /\ Cardinality(S \ {q}) = IF q \in S THEN Cardinality(S) - 1 ELSE Cardinality(S)
    BY FS_AddElement, FS_RemoveElement
  <1>4. (q \notin S => S \ {q} = S) /\ (q \in S => S \cup {q} = S)
    OBVIOUS
  <1> QED BY <1>2, <1>3, <1>4

\* What the steps of a confirmation between its claim and its end are.
LEMMA SkipItemMoves ==
    ASSUME TypeOK, WorkInv, NEW q \in Requests, SkipItem(q)
    PROVE  /\ Move(q, request[q].at, "next", "done") /\ AlreadyDone(request[q], request[q].at)
           /\ UNCHANGED <<items, runs, audits, unrecorded, mishaps>>
BY DEF SkipItem, Move

LEMMA LookAtMoves ==
    ASSUME TypeOK, WorkInv, NEW q \in Requests, LookAt(q)
    PROVE  /\ \/ Move(q, request[q].at, "looked", "none")
              \/ Move(q, request[q].at, "ran", "failed")
           /\ UNCHANGED <<items, runs, audits, unrecorded, mishaps>>
BY DEF LookAt, Move

LEMMA ExecuteMoves ==
    ASSUME TypeOK, WorkInv, NEW q \in Requests, Execute(q)
    PROVE  /\ \/ /\ Move(q, request[q].at, "ran", "done")
                 /\ runs' = [runs EXCEPT ![request[q].at] = @ + 1]
                 /\ unrecorded' = unrecorded
              \/ /\ Move(q, request[q].at, "ran", "failed")
                 /\ UNCHANGED <<runs, unrecorded>>
              \/ /\ Move(q, request[q].at, "ran", "failed")
                 /\ runs' = [runs EXCEPT ![request[q].at] = @ + 1]
                 /\ unrecorded' = [unrecorded EXCEPT ![request[q].at] = @ + 1]
           /\ ~AlreadyDone(request[q], request[q].at)
           /\ UNCHANGED <<items, audits, mishaps>>
  <1> DEFINE i == request[q].at
  <1>1. InOrder(request[q])
    BY DEF WorkInv
  <1>2. i \in Items /\ ~AlreadyDone(request[q], i) /\ request[q].phase \in {"next", "looked"}
    BY <1>1 DEF Execute, InOrder
  <1> QED BY <1>2 DEF Execute, Move

LEMMA RecordMoves ==
    ASSUME TypeOK, WorkInv, NEW q \in Requests, Record(q) \/ RecordFails(q)
    PROVE  /\ request[q].phase = "ran" /\ request[q].at \in Items
           /\ ~AlreadyDone(request[q], request[q].at)
           /\ request[q].outcome[request[q].at] \in Outcomes
           /\ Move(q, request[q].at, "next", request[q].outcome[request[q].at])
           /\ UNCHANGED <<runs, unrecorded>>
  <1> DEFINE i == request[q].at
  <1>1. InOrder(request[q])
    BY DEF WorkInv
  <1>2. request[q].phase = "ran"
    BY DEF Record, RecordFails
  <1>3. i \in Items /\ ~AlreadyDone(request[q], i)
    BY <1>1, <1>2 DEF InOrder
  <1>4. request[q].outcome[i] \in Outcomes
    BY <1>3 DEF TypeOK, Request, Outcomes
  <1>5. /\ Step(q, i, "next", i + 1, request[q].outcome[i])
        /\ UNCHANGED <<plan, payload, runs, unrecorded>>
    BY DEF Record, RecordFails
  <1> QED BY <1>2, <1>3, <1>4, <1>5 DEF Move

\* The steps that leave the requests as they are.
Quiet == Expire \/ Cancel \/ ClaimAges \/ \E i \in Items : Revise(i) \/ SomebodyEdits(i)

LEMMA QuietDoes ==
    ASSUME Quiet
    PROVE  UNCHANGED <<items, runs, audits, request, unrecorded>>
BY DEF Quiet, Expire, Cancel, ClaimAges, Revise, SomebodyEdits

MoveStep(q) == SkipItem(q) \/ LookAt(q) \/ Execute(q) \/ Record(q) \/ RecordFails(q)

LEMMA NextIs ==
    ASSUME Next
    PROVE  \/ \E q \in Requests : Claim(q) \/ MoveStep(q) \/ Finish(q) \/ FinishFails(q)
           \/ Quiet \/ Crash
BY Zenon DEF Next, ConfirmStep, MoveStep, Quiet

\* Each of them is a Move.
LEMMA MoveStepMoves ==
    ASSUME TypeOK, WorkInv, NEW q \in Requests, MoveStep(q)
    PROVE  /\ request[q].at \in Items
           /\ \E phase \in Phases, outcome \in Outcomes : Move(q, request[q].at, phase, outcome)
           /\ mishaps'.stalls = mishaps.stalls
  <1>1. \A phase, outcome : Move(q, request[q].at, phase, outcome) => request[q].at \in Items
    BY DEF Move
  <1>2. {"next", "looked", "ran"} \subseteq Phases /\ {"none", "done", "failed"} \subseteq Outcomes
    BY DEF Phases, Outcomes
  <1>3. CASE SkipItem(q)
    BY <1>1, <1>2, <1>3, SkipItemMoves
  <1>4. CASE LookAt(q)
    BY <1>1, <1>2, <1>4, LookAtMoves
  <1>5. CASE Execute(q)
    BY <1>1, <1>2, <1>5, ExecuteMoves
  <1>6. CASE Record(q)
    BY <1>1, <1>2, <1>6, RecordMoves DEF Record
  <1>7. CASE RecordFails(q)
    BY <1>1, <1>2, <1>7, RecordMoves, FaultDoes DEF RecordFails
  <1> QED BY <1>3, <1>4, <1>5, <1>6, <1>7 DEF MoveStep

-----------------------------------------------------------------------------
(* Who is at work, and where *)

LEMMA InOrderMove ==
    ASSUME TypeOK, NEW q \in Requests, InOrder(request[q]), NEW i \in Items,
           NEW phase \in Phases, NEW outcome \in Outcomes, Move(q, i, phase, outcome)
    PROVE  InOrder(request'[q])
  <1>1. /\ request'[q].phase = phase
        /\ request'[q].at = IF phase = "next" THEN i + 1 ELSE i
        /\ request'[q].read = request[q].read
        /\ request'[q].outcome[i] = outcome
        /\ \A j \in Items \ {i} : request'[q].outcome[j] = request[q].outcome[j]
        /\ request[q].at = i
    BY MoveDoes
  <1>2. phase \in {"looked", "ran"} =>
            request'[q].at \in Items /\ ~AlreadyDone(request'[q], request'[q].at)
    BY <1>1 DEF Move, AlreadyDone
  <1>3. ASSUME NEW j \in Items,
               j > request'[q].at \/ (j = request'[q].at /\ request'[q].phase # "ran")
        PROVE  request'[q].outcome[j] = "none"
    <2>1. i \in Int /\ j \in Int
      BY DEF Items
    <2>2. CASE j = i
      <3>1. phase = "looked"
        BY <1>1, <1>3, <2>1, <2>2 DEF Phases
      <3> QED BY <1>1, <2>2, <3>1 DEF Move
    <2>3. CASE j # i
      <3>1. j > request[q].at
        BY <1>1, <1>3, <2>1, <2>3
      <3> QED BY <1>1, <2>3, <3>1 DEF InOrder
    <2> QED BY <2>2, <2>3
  <1>4. ASSUME NEW j \in Items, j < request'[q].at, AlreadyDone(request'[q], j)
        PROVE  request'[q].outcome[j] = "done"
    <2>1. i \in Int /\ j \in Int /\ AlreadyDone(request[q], j)
      BY <1>1, <1>4 DEF Items, AlreadyDone
    <2>2. CASE j = i
      BY <1>1, <2>1, <2>2 DEF Move
    <2>3. CASE j # i
      <3>1. j < request[q].at
        BY <1>1, <1>4, <2>1, <2>3
      <3> QED BY <1>1, <2>1, <2>3, <3>1 DEF InOrder
    <2> QED BY <2>2, <2>3
  <1> QED BY <1>1, <1>2, <1>3, <1>4, Zenon DEF InOrder

LEMMA InOrderIdle == InOrder(Idle)
BY DEF InOrder, Idle, Items, AlreadyDone

\* The requests that did not change are still in order, and so are idle ones.
LEMMA InOrderStep ==
    ASSUME TypeOK, WorkInv, Next
    PROVE  \A q \in Requests : InOrder(request'[q])
  <1>1. \A q \in Requests : InOrder(request[q])
    BY DEF WorkInv
  <1>2. request \in [Requests -> Request]
    BY DEF TypeOK
  <1>3. ASSUME NEW q \in Requests, Claim(q) PROVE \A p \in Requests : InOrder(request'[p])
    <2>1. /\ \A p \in Requests \ {q} : request'[p] = request[p]
          /\ request'[q].phase = "next" /\ request'[q].at = 1
          /\ \A i \in Items : request'[q].outcome[i] = "none"
      BY <1>3, ClaimDoes
    <2>2. InOrder(request'[q])
      BY <2>1 DEF InOrder, Items
    <2> QED BY <1>1, <2>1, <2>2
  <1>4. ASSUME NEW q \in Requests, MoveStep(q) PROVE \A p \in Requests : InOrder(request'[p])
    <2>1. PICK phase \in Phases, outcome \in Outcomes : Move(q, request[q].at, phase, outcome)
      BY <1>4, MoveStepMoves
    <2>2. request[q].at \in Items
      BY <1>4, MoveStepMoves
    <2>3. InOrder(request'[q])
      BY <1>1, <2>1, <2>2, InOrderMove
    <2>4. \A p \in Requests \ {q} : request'[p] = request[p]
      BY <2>1, <2>2, MoveDoes
    <2> QED BY <1>1, <2>3, <2>4
  <1>5. ASSUME NEW q \in Requests, Finish(q) \/ FinishFails(q)
        PROVE  \A p \in Requests : InOrder(request'[p])
    <2>1. request' = [request EXCEPT ![q] = Idle]
      BY <1>5 DEF Finish, FinishFails
    <2>2. \A p \in Requests : request'[p] = IF p = q THEN Idle ELSE request[p]
      BY <1>2, <2>1
    <2> QED BY <1>1, <2>2, InOrderIdle
  <1>6. CASE Quiet
    BY <1>1, <1>6, QuietDoes
  <1>7. CASE Crash
    BY <1>7, InOrderIdle DEF Crash
  <1> QED BY <1>3, <1>4, <1>5, <1>6, <1>7, NextIs

\* What the quiet steps do to the plan.
LEMMA QuietPlan ==
    ASSUME TypeOK, Quiet
    PROVE  \/ plan' = plan /\ mishaps' = mishaps
           \/ /\ plan'.status = plan.status /\ plan.status = "pending" /\ mishaps' = mishaps
           \/ /\ plan.status \in {"pending", "failed"} /\ plan'.status = "cancelled"
              /\ mishaps' = mishaps
           \/ /\ plan.status = "executing" /\ plan.fresh /\ plan'.status = "executing"
              /\ ~plan'.fresh /\ mishaps'.faults = mishaps.faults
              /\ IF Running = {} THEN mishaps' = mishaps
                 ELSE mishaps'.stalls = mishaps.stalls + 1
  <1>1. plan \in Plan /\ mishaps \in [crashes : Nat, stalls : Nat, faults : Nat]
    BY ActionPlanAssumption DEF TypeOK
  <1>2. CASE Expire
    BY <1>1, <1>2 DEF Expire, Plan
  <1>3. CASE Cancel
    BY <1>1, <1>3 DEF Cancel, Plan
  <1>4. CASE ClaimAges
    BY <1>1, <1>4 DEF ClaimAges, Plan
  <1>5. ASSUME NEW i \in Items, Revise(i) \/ SomebodyEdits(i) PROVE plan' = plan /\ mishaps' = mishaps
    BY <1>5 DEF Revise, SomebodyEdits
  <1> QED BY <1>2, <1>3, <1>4, <1>5 DEF Quiet

\* A request that finishes or fails to is over.
LEMMA FinishDoes ==
    ASSUME TypeOK, NEW q \in Requests, Finish(q) \/ FinishFails(q)
    PROVE  /\ q \in Running /\ request[q].phase = "next" /\ request[q].at = NumItems + 1
           /\ Leave({q}) /\ mishaps'.stalls = mishaps.stalls
           /\ UNCHANGED <<payload, runs, audits>>
           /\ Finish(q) => UNCHANGED <<unrecorded, mishaps>>
           /\ FinishFails(q) => UNCHANGED <<plan, items>>
  <1>1. request[q].phase = "next" /\ request[q].at = NumItems + 1
    BY DEF Finish, FinishFails
  <1>2. q \in Running
    BY <1>1 DEF Running
  <1>3. Leave({q})
    BY LeaveOne DEF Finish, FinishFails
  <1>4. Finish(q) => UNCHANGED <<payload, runs, audits, unrecorded, mishaps>>
    BY DEF Finish
  <1>5. FinishFails(q) => /\ UNCHANGED <<plan, items, payload, runs, audits>>
                         /\ mishaps'.stalls = mishaps.stalls
    BY FaultDoes DEF FinishFails
  <1> QED BY <1>1, <1>2, <1>3, <1>4, <1>5

LEMMA FinishCloses ==
    ASSUME TypeOK, NEW q \in Requests, Finish(q)
    PROVE  /\ plan'.status = FinalStatus(request[q])
           /\ plan'.status \in {"executed", "partial", "failed"} /\ ~Open'
           /\ \A i \in Items :
               items'[i] = IF request[q].outcome[i] = "done" THEN "executed" ELSE "failed"
BY DEF Finish, FinalStatus, StatusOf, TypeOK, Plan, Open

LEMMA NotStartedStep ==
    ASSUME TypeOK, WorkInv, Next
    PROVE  NotStarted'
  <1>1. NotStarted
    BY DEF WorkInv
  <1>2. ASSUME NEW q \in Requests, Claim(q) PROVE NotStarted'
    BY <1>2, ClaimDoes DEF NotStarted
  <1>3. ASSUME NEW q \in Requests, MoveStep(q) PROVE NotStarted'
    <2>1. plan' = plan /\ q \in Running
      BY <1>3, MoveStepMoves, MoveDoes
    <2> QED BY <1>1, <2>1 DEF NotStarted
  <1>4. ASSUME NEW q \in Requests, Finish(q) PROVE NotStarted'
    BY <1>4, FinishCloses DEF NotStarted
  <1>5. ASSUME NEW q \in Requests, FinishFails(q) PROVE NotStarted'
    <2>1. plan' = plan /\ q \in Running
      BY <1>5, FinishDoes DEF FinishFails
    <2> QED BY <1>1, <2>1 DEF NotStarted
  <1>6. CASE Quiet
    <2>1. plan'.status = "pending" => plan.status = "pending"
      BY <1>6, QuietPlan
    <2> QED BY <1>1, <1>6, <2>1, QuietDoes, SameSets DEF NotStarted
  <1>7. CASE Crash
    BY <1>1, <1>7 DEF Crash, NotStarted
  <1> QED BY <1>2, <1>3, <1>4, <1>5, <1>6, <1>7, NextIs

LEMMA FewAtWorkStep ==
    ASSUME TypeOK, WorkInv, Next
    PROVE  FewAtWork'
  <1>1. /\ IsFiniteSet(Running) /\ Cardinality(Running) \in Nat
        /\ Cardinality(Running) <= mishaps.stalls + (IF Abandoned THEN 0 ELSE 1)
    BY FS_CardinalityType DEF WorkInv, FewAtWork
  <1>2. mishaps.stalls \in Nat
    BY ActionPlanAssumption DEF TypeOK
  <1>3. ASSUME NEW q \in Requests, Claim(q) PROVE FewAtWork'
    <2>1. /\ q \notin Running /\ Running' = Running \cup {q}
          /\ plan'.fresh = TRUE /\ mishaps' = mishaps
          /\ plan.status = "pending" \/ Abandoned
      BY <1>3, ClaimDoes
    <2>2. plan.status = "pending" => Cardinality(Running) = 0
      BY FS_EmptySet DEF WorkInv, NotStarted
    <2>3. Cardinality(Running) <= mishaps.stalls
      BY <1>1, <1>2, <2>1, <2>2
    <2>4. IsFiniteSet(Running') /\ Cardinality(Running') = Cardinality(Running) + 1
      BY <1>1, <2>1, FS_AddElement
    <2>5. ~Abandoned'
      BY <2>1 DEF Abandoned
    <2> QED BY <1>1, <1>2, <2>1, <2>3, <2>4, <2>5 DEF FewAtWork
  <1>4. ASSUME NEW q \in Requests, MoveStep(q) PROVE FewAtWork'
    <2>1. plan' = plan /\ Running' = Running /\ mishaps'.stalls = mishaps.stalls
      BY <1>4, MoveStepMoves, MoveDoes
    <2> QED BY <1>1, <2>1 DEF FewAtWork, Abandoned
  <1>5. ASSUME NEW q \in Requests, Finish(q) \/ FinishFails(q) PROVE FewAtWork'
    <2>1. q \in Running /\ Running' = Running \ {q} /\ mishaps'.stalls = mishaps.stalls
      BY <1>5, FinishDoes DEF Leave
    <2>2. IsFiniteSet(Running') /\ Cardinality(Running') = Cardinality(Running) - 1
      BY <1>1, <2>1, FS_RemoveElement
    <2>3. Cardinality(Running') <= mishaps'.stalls
      BY <1>1, <1>2, <2>1, <2>2
    <2>4. Cardinality(Running') <= mishaps'.stalls + (IF Abandoned' THEN 0 ELSE 1)
      BY <1>2, <1>1, <2>1, <2>2, <2>3
    <2> QED BY <2>2, <2>4 DEF FewAtWork
  <1>6. CASE Quiet
    <2>1. Running' = Running
      BY <1>6, QuietDoes, SameSets
    <2>2. Running = {} => Cardinality(Running) = 0
      BY FS_EmptySet
    <2>3. Cardinality(Running) <= mishaps'.stalls + (IF Abandoned' THEN 0 ELSE 1)
      <3>1. CASE plan' = plan /\ mishaps' = mishaps
        BY <1>1, <3>1 DEF Abandoned
      <3>2. CASE plan'.status # "executing" /\ plan.status # "executing" /\ mishaps' = mishaps
        BY <1>1, <3>2 DEF Abandoned
      <3>3. CASE /\ ~Abandoned /\ Abandoned'
                 /\ IF Running = {} THEN mishaps' = mishaps
                    ELSE mishaps'.stalls = mishaps.stalls + 1
        BY <1>1, <1>2, <2>2, <3>3
      <3> QED BY <1>6, <3>1, <3>2, <3>3, QuietPlan DEF Abandoned
    <2> QED BY <1>1, <2>1, <2>3 DEF FewAtWork
  <1>7. CASE Crash
    <2>1. Running' = {} /\ mishaps'.stalls = mishaps.stalls
      BY <1>7, LeaveAll DEF Crash, TypeOK
    <2>2. IsFiniteSet({}) /\ Cardinality({}) = 0
      BY FS_EmptySet
    <2> QED BY <1>2, <2>1, <2>2 DEF FewAtWork
  <1> QED BY <1>3, <1>4, <1>5, <1>6, <1>7, NextIs

LEMMA WorkStep ==
    ASSUME TypeOK, WorkInv, Next
    PROVE  WorkInv'
BY InOrderStep, NotStartedStep, FewAtWorkStep DEF WorkInv

-----------------------------------------------------------------------------
(* What a step does to the counts of an item *)

LEMMA Numbers ==
    ASSUME TypeOK
    PROVE  /\ mishaps.stalls \in Nat /\ mishaps.faults \in Nat
           /\ \A i \in Items : runs[i] \in Nat /\ audits[i] \in Nat /\ unrecorded[i] \in Nat
BY ActionPlanAssumption DEF TypeOK

\* A request that has not run its item yet has no outcome of it, and may run it.
LEMMA BeforeRun ==
    ASSUME TypeOK, WorkInv, NEW q \in Requests, NEW i \in Items, NEW phase \in Phases,
           NEW outcome \in Outcomes, Move(q, i, phase, outcome)
    PROVE  /\ request[q].phase # "ran" => q \notin Done(i)
           /\ request[q].phase # "ran" /\ ~AlreadyDone(request[q], i) => q \in MayRun(i)
           /\ request[q].phase = "ran" => (q \in Done(i) <=> request[q].outcome[i] = "done")
           /\ ~AlreadyDone(request[q], i) => q \in Unspent(i)
           /\ AlreadyDone(request[q], i) => q \notin Unspent(i)
  <1>1. q \in Running /\ request[q].at = i /\ InOrder(request[q])
    BY MoveDoes DEF WorkInv
  <1>2. ~(i > i)
    BY DEF Items
  <1>3. request[q].phase # "ran" => request[q].outcome[i] = "none"
    BY <1>1 DEF InOrder
  <1>4. request[q].phase # "ran" => q \notin Done(i)
    BY <1>3 DEF Done
  <1>5. request[q].phase # "ran" /\ ~AlreadyDone(request[q], i) => q \in MayRun(i)
    BY <1>1 DEF MayRun
  <1>6. request[q].phase = "ran" => (q \in Done(i) <=> request[q].outcome[i] = "done")
    BY <1>1 DEF Done
  <1>7. ~AlreadyDone(request[q], i) => q \in Unspent(i)
    BY <1>1, <1>2 DEF Unspent
  <1>8. AlreadyDone(request[q], i) => q \notin Unspent(i)
    BY DEF Unspent
  <1> QED BY <1>4, <1>5, <1>6, <1>7, <1>8

\* Every run of an item is a done item of its request or one that no outcome
\* tells of, every row a spent request.
MoveCountsOf(j) ==
    /\ runs'[j] >= runs[j] /\ unrecorded'[j] >= unrecorded[j]
    /\ runs'[j] + unrecorded[j] + Cardinality(Done(j))
           <= runs[j] + unrecorded'[j] + Cardinality(Done(j)')
    /\ runs'[j] + Cardinality(MayRun(j)') <= runs[j] + Cardinality(MayRun(j))
    /\ Cardinality(Unspent(j)') <= Cardinality(Unspent(j))
    /\ \/ audits'[j] = audits[j] /\ (items'[j] = "executed" <=> items[j] = "executed")
       \/ /\ audits'[j] = audits[j] + 1 /\ items[j] # "executed" /\ items'[j] = "executed"
          /\ Cardinality(Unspent(j)') = Cardinality(Unspent(j)) - 1

LEMMA MoveCounts ==
    ASSUME TypeOK, WorkInv, NEW q \in Requests, MoveStep(q), NEW j \in Items
    PROVE  MoveCountsOf(j)
  <1> DEFINE i == request[q].at
  <1>0. PICK phase \in Phases, outcome \in Outcomes : Move(q, i, phase, outcome)
    BY MoveStepMoves
  <1>1. i \in Items /\ InOrder(request[q])
    BY MoveStepMoves DEF WorkInv
  <1>2. /\ Cardinality(Done(j)) \in Nat /\ Cardinality(MayRun(j)) \in Nat
        /\ Cardinality(Unspent(j)) \in Nat /\ runs[j] \in Nat /\ audits[j] \in Nat
        /\ unrecorded[j] \in Nat
        /\ IsFiniteSet(Done(j)) /\ IsFiniteSet(MayRun(j)) /\ IsFiniteSet(Unspent(j))
    BY Counted, Numbers
  <1>3. CASE j # i
    <2>1. Done(j)' = Done(j) /\ MayRun(j)' = MayRun(j) /\ Unspent(j)' = Unspent(j)
      BY <1>0, <1>1, <1>3, MoveSets
    <2>2. /\ runs'[j] = runs[j] /\ audits'[j] = audits[j] /\ items'[j] = items[j]
          /\ unrecorded'[j] = unrecorded[j]
      <3>1. CASE SkipItem(q) \/ LookAt(q)
        BY <3>1 DEF SkipItem, LookAt
      <3>2. CASE Execute(q)
        BY <1>3, <3>2 DEF Execute, TypeOK
      <3>3. CASE Record(q)
        BY <1>3, <3>3 DEF Record, TypeOK
      <3>4. CASE RecordFails(q)
        BY <3>4 DEF RecordFails
      <3> QED BY <3>1, <3>2, <3>3, <3>4 DEF MoveStep
    <2> QED BY <1>2, <2>1, <2>2 DEF MoveCountsOf
  <1>4. CASE j = i
    <2>1. ASSUME NEW ph \in Phases, NEW oc \in Outcomes, Move(q, j, ph, oc)
          PROVE  /\ Done(j)' = IF oc = "done" THEN Done(j) \cup {q} ELSE Done(j) \ {q}
                 /\ MayRun(j)' = IF ph = "looked" THEN MayRun(j) ELSE MayRun(j) \ {q}
                 /\ Unspent(j)' = IF ph = "next" /\ oc = "done"
                                  THEN Unspent(j) \ {q} ELSE Unspent(j)
      BY <1>1, <2>1, MoveSets
    <2>2. ASSUME NEW ph \in Phases, NEW oc \in Outcomes, Move(q, j, ph, oc)
          PROVE  /\ request[q].phase # "ran" => q \notin Done(j)
                 /\ request[q].phase # "ran" /\ ~AlreadyDone(request[q], j) => q \in MayRun(j)
                 /\ request[q].phase = "ran" => (q \in Done(j) <=> request[q].outcome[j] = "done")
                 /\ ~AlreadyDone(request[q], j) => q \in Unspent(j)
                 /\ AlreadyDone(request[q], j) => q \notin Unspent(j)
      BY <2>2, BeforeRun
    <2>3. /\ Cardinality(Done(j) \cup {q}) >= Cardinality(Done(j))
          /\ Cardinality(Done(j) \cup {q}) \in Nat
          /\ q \notin Done(j) =>
                /\ Cardinality(Done(j) \cup {q}) = Cardinality(Done(j)) + 1
                /\ Done(j) \ {q} = Done(j)
          /\ q \in Done(j) => Done(j) \cup {q} = Done(j)
      BY <1>2, OneMore, Zenon
    <2>4. /\ Cardinality(MayRun(j) \ {q}) \in Nat
          /\ Cardinality(MayRun(j) \ {q}) <= Cardinality(MayRun(j))
          /\ q \in MayRun(j) => Cardinality(MayRun(j) \ {q}) = Cardinality(MayRun(j)) - 1
      BY <1>2, OneMore, Zenon
    <2>5. /\ Cardinality(Unspent(j) \ {q}) <= Cardinality(Unspent(j))
          /\ q \in Unspent(j) => Cardinality(Unspent(j) \ {q}) = Cardinality(Unspent(j)) - 1
      BY <1>2, OneMore, Zenon
    <2>6. CASE SkipItem(q)
      <3>1. Move(q, j, "next", "done") /\ UNCHANGED <<items, runs, audits, unrecorded>>
        BY <1>4, <2>6, SkipItemMoves
      <3>2. "next" \in Phases /\ "done" \in Outcomes
        BY DEF Phases, Outcomes
      <3>3. /\ Done(j)' = Done(j) \cup {q} /\ MayRun(j)' = MayRun(j) \ {q}
            /\ Unspent(j)' = Unspent(j) \ {q}
        BY <2>1, <3>1, <3>2
      <3>4. /\ Cardinality(Done(j)') >= Cardinality(Done(j))
            /\ Cardinality(MayRun(j)') <= Cardinality(MayRun(j))
            /\ Cardinality(Unspent(j)') <= Cardinality(Unspent(j))
            /\ Cardinality(Done(j)') \in Int /\ Cardinality(MayRun(j)') \in Int
        BY <1>2, <2>3, <2>4, <2>5, <3>3
      <3> QED BY <1>2, <3>1, <3>4 DEF MoveCountsOf
    <2>7. CASE LookAt(q)
      <3>1. /\ Move(q, j, "looked", "none") \/ Move(q, j, "ran", "failed")
            /\ UNCHANGED <<items, runs, audits, unrecorded>> /\ request[q].phase # "ran"
        BY <1>4, <2>7, LookAtMoves DEF LookAt
      <3>2. {"looked", "ran"} \subseteq Phases /\ {"none", "failed"} \subseteq Outcomes
        BY DEF Phases, Outcomes
      <3>3. /\ Done(j)' = Done(j) \ {q} /\ Unspent(j)' = Unspent(j)
            /\ MayRun(j)' = MayRun(j) \/ MayRun(j)' = MayRun(j) \ {q}
        BY <2>1, <3>1, <3>2
      <3>4. q \notin Done(j)
        BY <2>2, <3>1, <3>2
      <3>5. Done(j)' = Done(j) /\ Cardinality(MayRun(j)') <= Cardinality(MayRun(j))
        <4>1. Done(j)' = Done(j)
          BY <2>3, <3>3, <3>4
        <4>2. CASE MayRun(j)' = MayRun(j)
          BY <1>2, <4>1, <4>2
        <4>3. CASE MayRun(j)' = MayRun(j) \ {q}
          BY <2>4, <4>1, <4>3
        <4> QED BY <3>3, <4>2, <4>3
      <3>6. Cardinality(MayRun(j)') \in Int
        BY <1>2, <2>4, <3>3
      <3>7. /\ runs'[j] = runs[j] /\ unrecorded'[j] = unrecorded[j]
            /\ audits'[j] = audits[j] /\ items'[j] = items[j]
            /\ Cardinality(Done(j)') = Cardinality(Done(j))
            /\ Cardinality(Unspent(j)') = Cardinality(Unspent(j))
        BY <3>1, <3>3, <3>5
      <3> QED BY <1>2, <3>5, <3>6, <3>7 DEF MoveCountsOf
    <2>8. CASE Execute(q)
      <3>1. /\ \/ /\ Move(q, j, "ran", "done") /\ runs' = [runs EXCEPT ![j] = @ + 1]
                  /\ unrecorded' = unrecorded
               \/ Move(q, j, "ran", "failed") /\ UNCHANGED <<runs, unrecorded>>
               \/ /\ Move(q, j, "ran", "failed") /\ runs' = [runs EXCEPT ![j] = @ + 1]
                  /\ unrecorded' = [unrecorded EXCEPT ![j] = @ + 1]
            /\ ~AlreadyDone(request[q], j) /\ UNCHANGED <<items, audits>>
        BY <1>4, <2>8, ExecuteMoves
      <3>2. "ran" \in Phases /\ {"done", "failed"} \subseteq Outcomes
        BY DEF Phases, Outcomes
      <3>3. request[q].phase # "ran"
        BY <2>8 DEF Execute
      <3>4. q \notin Done(j) /\ q \in MayRun(j)
        BY <2>2, <3>1, <3>2, <3>3
      <3>5. MayRun(j)' = MayRun(j) \ {q} /\ Unspent(j)' = Unspent(j)
        BY <2>1, <3>1, <3>2
      <3>6. CASE /\ Move(q, j, "ran", "done") /\ runs' = [runs EXCEPT ![j] = @ + 1]
                 /\ unrecorded' = unrecorded
        <4>1. Done(j)' = Done(j) \cup {q}
          BY <2>1, <3>2, <3>6
        <4>2. runs'[j] = runs[j] + 1 /\ unrecorded'[j] = unrecorded[j]
          BY <1>4, <3>6 DEF TypeOK
        <4>3. /\ Cardinality(Done(j)') = Cardinality(Done(j)) + 1
              /\ Cardinality(MayRun(j)') = Cardinality(MayRun(j)) - 1
              /\ Cardinality(Unspent(j)') = Cardinality(Unspent(j))
              /\ audits'[j] = audits[j] /\ items'[j] = items[j]
          BY <2>3, <2>4, <3>1, <3>4, <3>5, <4>1
        <4> QED BY <1>2, <4>2, <4>3 DEF MoveCountsOf
      <3>7. ASSUME Move(q, j, "ran", "failed") PROVE Done(j)' = Done(j)
        <4>1. Done(j)' = Done(j) \ {q}
          BY <2>1, <3>2, <3>7
        <4> QED BY <2>3, <3>4, <4>1
      <3>8. CASE Move(q, j, "ran", "failed") /\ UNCHANGED <<runs, unrecorded>>
        BY <1>2, <2>4, <3>1, <3>4, <3>5, <3>7, <3>8 DEF MoveCountsOf
      <3>9. CASE /\ Move(q, j, "ran", "failed") /\ runs' = [runs EXCEPT ![j] = @ + 1]
                 /\ unrecorded' = [unrecorded EXCEPT ![j] = @ + 1]
        <4>1. runs'[j] = runs[j] + 1 /\ unrecorded'[j] = unrecorded[j] + 1
          BY <1>4, <3>9 DEF TypeOK
        <4> QED BY <1>2, <2>4, <3>1, <3>4, <3>5, <3>7, <3>9, <4>1 DEF MoveCountsOf
      <3> QED BY <3>1, <3>6, <3>8, <3>9
    <2>9. CASE Record(q) \/ RecordFails(q)
      <3> DEFINE oc == request[q].outcome[j]
      <3>1. /\ Move(q, j, "next", oc) /\ oc \in Outcomes /\ ~AlreadyDone(request[q], j)
            /\ request[q].phase = "ran" /\ UNCHANGED <<runs, unrecorded>>
        BY <1>4, <2>9, RecordMoves
      <3>2. "next" \in Phases
        BY DEF Phases
      <3>3. q \in Unspent(j) /\ (q \in Done(j) <=> oc = "done")
        BY <2>2, <3>1, <3>2
      <3>4. /\ Done(j)' = IF oc = "done" THEN Done(j) \cup {q} ELSE Done(j) \ {q}
            /\ MayRun(j)' = MayRun(j) \ {q}
            /\ Unspent(j)' = IF oc = "done" THEN Unspent(j) \ {q} ELSE Unspent(j)
        BY <2>1, <3>1, <3>2
      <3>5. Done(j)' = Done(j)
        BY <2>3, <3>3, <3>4
      <3>6. \/ audits'[j] = audits[j] /\ (items'[j] = "executed" <=> items[j] = "executed")
            \/ /\ audits'[j] = audits[j] + 1 /\ items[j] # "executed" /\ items'[j] = "executed"
               /\ oc = "done"
        <4>1. CASE Record(q)
          BY <1>1, <1>4, <4>1 DEF Record, TypeOK, StatusOf
        <4>2. CASE RecordFails(q)
          BY <4>2 DEF RecordFails
        <4> QED BY <2>9, <4>1, <4>2
      <3> HIDE DEF oc
      <3>7. /\ Cardinality(Unspent(j)') <= Cardinality(Unspent(j))
            /\ oc = "done" => Cardinality(Unspent(j)') = Cardinality(Unspent(j)) - 1
        BY <1>2, <2>5, <3>3, <3>4
      <3>8. /\ Cardinality(MayRun(j)') <= Cardinality(MayRun(j))
            /\ Cardinality(MayRun(j)') \in Int
        BY <1>2, <2>4, <3>4
      <3> QED BY <1>2, <3>1, <3>5, <3>6, <3>7, <3>8 DEF MoveCountsOf
    <2> QED BY <2>6, <2>7, <2>8, <2>9 DEF MoveStep
  <1> QED BY <1>3, <1>4

LEMMA SplitBy ==
    ASSUME NEW S, NEW Q, IsFiniteSet(S \ Q), IsFiniteSet(S \cap Q)
    PROVE  Cardinality(S) = Cardinality(S \ Q) + Cardinality(S \cap Q)
  <1>1. Cardinality((S \ Q) \cup (S \cap Q))
            = Cardinality(S \ Q) + Cardinality(S \cap Q) - Cardinality((S \ Q) \cap (S \cap Q))
    BY FS_Union
  <1>2. (S \ Q) \cup (S \cap Q) = S /\ (S \ Q) \cap (S \cap Q) = {}
    OBVIOUS
  <1>3. Cardinality((S \ Q) \cap (S \cap Q)) = 0
    BY <1>2, FS_EmptySet, Zenon
  <1>4. Cardinality((S \ Q) \cup (S \cap Q)) = Cardinality(S)
    BY <1>2, Zenon
  <1>5. Cardinality(S \ Q) \in Nat /\ Cardinality(S \cap Q) \in Nat
    BY FS_CardinalityType
  <1> QED BY <1>1, <1>3, <1>4, <1>5

LEMMA LeaveCounts ==
    ASSUME TypeOK, WorkInv, NEW Q \in SUBSET Running, Leave(Q),
           Forget(Q) \/ UNCHANGED unrecorded, NEW i \in Items
    PROVE  /\ Cardinality(MayRun(i)') \in Nat /\ Cardinality(Unspent(i)') \in Nat
           /\ Cardinality(MayRun(i)') <= Cardinality(MayRun(i))
           /\ Cardinality(Unspent(i)') <= Cardinality(Unspent(i))
           /\ unrecorded'[i] \in Nat /\ unrecorded'[i] >= unrecorded[i]
           /\ Forget(Q) /\ items[i] # "executed" =>
                 /\ Cardinality(Done(i)') \in Nat
                 /\ unrecorded'[i] + Cardinality(Done(i)') = unrecorded[i] + Cardinality(Done(i))
  <1>1. /\ Done(i)' = Done(i) \ Q /\ MayRun(i)' = MayRun(i) \ Q /\ Unspent(i)' = Unspent(i) \ Q
    BY LeaveSets
  <1>2. /\ IsFiniteSet(Done(i)) /\ IsFiniteSet(MayRun(i)) /\ IsFiniteSet(Unspent(i))
        /\ Cardinality(Done(i)) \in Nat
    BY Counted
  <1>3. \A S : IsFiniteSet(S) =>
            Cardinality(S \ Q) \in Nat /\ Cardinality(S \ Q) <= Cardinality(S)
    <2>1. \A S : (S \ Q) \in SUBSET S
      OBVIOUS
    <2> QED BY <2>1, FS_Subset, FS_CardinalityType
  <1>4. Q \in SUBSET Requests /\ IsFiniteSet(Q)
    <2>1. Q \in SUBSET Running /\ IsFiniteSet(Running) /\ Running \in SUBSET Requests
      BY DEF WorkInv, FewAtWork, Running
    <2> HIDE DEF Running
    <2> QED BY <2>1, FS_Subset
  <1>5. unrecorded[i] \in Nat
    BY Numbers
  <1> DEFINE lost == {q \in Q : request[q].outcome[i] = "done" /\ items[i] # "executed"}
  <1>6. Forget(Q) => /\ Cardinality(lost) \in Nat
                     /\ unrecorded'[i] = unrecorded[i] + Cardinality(lost)
    BY <1>4, ForgetDoes
  <1>7. unrecorded'[i] \in Nat /\ unrecorded'[i] >= unrecorded[i]
    <2> HIDE DEF lost
    <2> QED BY <1>5, <1>6
  <1>8. ASSUME Forget(Q), items[i] # "executed"
        PROVE  /\ Cardinality(Done(i)') \in Nat
               /\ unrecorded'[i] + Cardinality(Done(i)') = unrecorded[i] + Cardinality(Done(i))
    <2>1. lost = Done(i) \cap Q
      BY <1>8 DEF Done
    <2> HIDE DEF lost
    <2> DEFINE D == Done(i)
    <2>2. IsFiniteSet(D \ Q) /\ IsFiniteSet(D \cap Q)
      <3>1. (D \ Q) \in SUBSET D /\ (D \cap Q) \in SUBSET D
        OBVIOUS
      <3> HIDE DEF D
      <3>2. IsFiniteSet(D)
        BY <1>2 DEF D
      <3> QED BY <3>1, <3>2, FS_Subset
    <2>3. Cardinality(D) = Cardinality(D \ Q) + Cardinality(D \cap Q)
      BY <2>2, SplitBy
    <2>4. Cardinality(D \ Q) \in Nat /\ Cardinality(D \cap Q) \in Nat
      BY <2>2, FS_CardinalityType
    <2>5. Done(i)' = D \ Q /\ lost = D \cap Q
      BY <1>1, <2>1
    <2> HIDE DEF D
    <2>6. unrecorded'[i] = unrecorded[i] + Cardinality(D \cap Q)
      BY <1>6, <1>8, <2>5
    <2> QED BY <1>5, <2>3, <2>4, <2>5, <2>6 DEF D
  <1> QED BY <1>1, <1>2, <1>3, <1>7, <1>8

\* The requests of a step that ends some.
LEMMA EndsAre ==
    ASSUME TypeOK, NEW q \in Requests
    PROVE  /\ Finish(q) \/ FinishFails(q) =>
                /\ {q} \in SUBSET Running /\ Leave({q})
                /\ Forget({q}) \/ UNCHANGED unrecorded
           /\ FinishFails(q) => Forget({q})
  <1>1. Finish(q) => UNCHANGED unrecorded
    BY DEF Finish
  <1>2. FinishFails(q) => Forget({q})
    BY DEF FinishFails
  <1> QED BY <1>1, <1>2, FinishDoes

LEMMA CrashDoes ==
    ASSUME TypeOK, Crash
    PROVE  /\ Running \in SUBSET Running /\ Leave(Running) /\ Running' = {} /\ Forget(Running)
           /\ UNCHANGED <<plan, items, payload, runs, audits>>
           /\ mishaps'.stalls = mishaps.stalls /\ mishaps'.faults = mishaps.faults
BY LeaveAll DEF Crash, TypeOK

-----------------------------------------------------------------------------
(* Every run is paid for *)

LEMMA WrittenIfDoneStep ==
    ASSUME TypeOK, WorkInv, WrittenIfDone, Next
    PROVE  WrittenIfDone'
  <1>1. ASSUME NEW q \in Requests, Claim(q) PROVE WrittenIfDone'
    <2>1. /\ \A p \in Requests \ {q} : request'[p] = request[p]
          /\ request'[q].read = items /\ \A i \in Items : request'[q].outcome[i] = "none"
          /\ Running' = Running \cup {q} /\ UNCHANGED <<items, runs>>
      BY <1>1, ClaimDoes
    <2>2. Running \subseteq Requests
      BY DEF Running
    <2> QED BY <2>1, <2>2 DEF WrittenIfDone, AlreadyDone
  <1>2. ASSUME NEW q \in Requests, MoveStep(q), NEW i \in Items
        PROVE  /\ items'[i] = "executed" => runs'[i] > 0
               /\ \A p \in Running' :
                   AlreadyDone(request'[p], i) \/ request'[p].outcome[i] = "done" => runs'[i] > 0
    <2>1. PICK phase \in Phases, outcome \in Outcomes : Move(q, request[q].at, phase, outcome)
      BY <1>2, MoveStepMoves
    <2>2. request[q].at \in Items
      BY <1>2, MoveStepMoves
    <2>3. /\ \A p \in Requests \ {q} : request'[p] = request[p]
          /\ request'[q].read = request[q].read
          /\ \A j \in Items \ {request[q].at} : request'[q].outcome[j] = request[q].outcome[j]
          /\ Running' = Running /\ q \in Running /\ Running \subseteq Requests
      BY <2>1, <2>2, MoveDoes DEF Running
    <2>4. runs'[i] >= runs[i] /\ runs[i] \in Nat /\ runs'[i] \in Nat
      <3>1. TypeOK'
        BY TypeStep
      <3> QED BY <1>2, <3>1, MoveCounts, Numbers DEF MoveCountsOf, TypeOK
    <2>5. request[q].at = i /\ request'[q].outcome[i] = "done" => runs'[i] > 0
      <3>1. CASE request[q].at = i
        <4>1. CASE SkipItem(q)
          BY <3>1, <4>1, <2>3, <2>4, SkipItemMoves DEF WrittenIfDone
        <4>2. CASE LookAt(q)
          <5>1. Move(q, i, "looked", "none") \/ Move(q, i, "ran", "failed")
            BY <3>1, <4>2, LookAtMoves
          <5>2. request'[q].outcome[i] # "done"
            BY <5>1, MoveDoes DEF Phases, Outcomes
          <5> QED BY <5>2
        <4>3. CASE Execute(q)
          <5>1. \/ runs' = [runs EXCEPT ![i] = @ + 1]
                \/ Move(q, i, "ran", "failed")
            BY <3>1, <4>3, ExecuteMoves
          <5>2. CASE runs' = [runs EXCEPT ![i] = @ + 1]
            <6>1. runs'[i] = runs[i] + 1
              BY <5>2 DEF TypeOK
            <6> QED BY <2>4, <6>1
          <5>3. CASE Move(q, i, "ran", "failed")
            BY <5>3, MoveDoes DEF Phases, Outcomes
          <5> QED BY <5>1, <5>2, <5>3
        <4>4. CASE Record(q) \/ RecordFails(q)
          <5>1. Move(q, i, "next", request[q].outcome[i]) /\ request[q].outcome[i] \in Outcomes
            BY <3>1, <4>4, RecordMoves
          <5>2. request'[q].outcome[i] = request[q].outcome[i]
            BY <5>1, MoveDoes DEF Phases
          <5>3. request[q].outcome[i] = "done" => runs[i] > 0
            BY <2>3 DEF WrittenIfDone
          <5> QED BY <2>4, <5>2, <5>3
        <4> QED BY <1>2, <4>1, <4>2, <4>3, <4>4 DEF MoveStep
      <3> QED BY <3>1
    <2>6. ASSUME NEW p \in Running', AlreadyDone(request'[p], i) \/ request'[p].outcome[i] = "done"
          PROVE  runs'[i] > 0
      <3>1. CASE /\ p \in Running
                 /\ AlreadyDone(request[p], i) \/ request[p].outcome[i] = "done"
        BY <2>4, <3>1 DEF WrittenIfDone
      <3>2. CASE p = q /\ request[q].at = i /\ request'[q].outcome[i] = "done"
        BY <2>5, <3>2
      <3> QED BY <2>3, <2>6, <3>1, <3>2 DEF AlreadyDone
    <2>7. items'[i] = "executed" => runs'[i] > 0
      <3>1. CASE items[i] = "executed"
        BY <2>4, <3>1 DEF WrittenIfDone
      <3>2. CASE items[i] # "executed" /\ items'[i] = "executed"
        <4>1. Record(q)
          BY <1>2, <3>2 DEF MoveStep, SkipItem, LookAt, Execute, RecordFails
        <4>2. request[q].at = i /\ request[q].outcome[i] = "done"
          BY <3>2, <4>1, <2>2 DEF Record, StatusOf, TypeOK
        <4> QED BY <2>3, <2>4, <4>2 DEF WrittenIfDone
      <3> QED BY <3>1, <3>2
    <2> QED BY <2>6, <2>7
  <1>3. ASSUME NEW q \in Requests, Finish(q) PROVE WrittenIfDone'
    <2>1. q \in Running /\ Leave({q}) /\ runs' = runs
      BY <1>3, FinishDoes
    <2>2. \A i \in Items : items'[i] = "executed" => request[q].outcome[i] = "done"
      BY <1>3, FinishCloses
    <2> QED BY <2>1, <2>2 DEF Leave, WrittenIfDone
  <1>4. ASSUME NEW q \in Requests, FinishFails(q) PROVE WrittenIfDone'
    <2>1. Leave({q}) /\ runs' = runs /\ items' = items
      BY <1>4, FinishDoes
    <2> QED BY <2>1 DEF Leave, WrittenIfDone
  <1>5. CASE Quiet
    BY <1>5, QuietDoes, SameSets DEF WrittenIfDone
  <1>6. CASE Crash
    BY <1>6, CrashDoes DEF WrittenIfDone
  <1>7. ASSUME NEW q \in Requests, MoveStep(q) PROVE WrittenIfDone'
    BY <1>2, <1>7 DEF WrittenIfDone
  <1> QED BY <1>1, <1>3, <1>4, <1>5, <1>6, <1>7, NextIs

LEMMA RunsAreKnownStep ==
    ASSUME TypeOK, WorkInv, RunsAreKnown, Next
    PROVE  RunsAreKnown'
  <1>1. TypeOK' /\ WorkInv'
    BY TypeStep, WorkStep
  <1>2. ASSUME NEW i \in Items
        PROVE  /\ runs[i] \in Nat /\ unrecorded[i] \in Nat /\ Cardinality(Done(i)) \in Nat
               /\ runs'[i] \in Nat /\ unrecorded'[i] \in Nat
               /\ Cardinality(Done(i)') \in Nat
    <2>1. Cardinality(Done(i)') \in Nat
      BY <1>1, CountedNext
    <2> QED BY <1>1, <2>1, Counted, Numbers DEF TypeOK
  <1>3. ASSUME NEW q \in Requests, Claim(q) PROVE RunsAreKnown'
    <2>1. Open /\ UNCHANGED <<items, runs, unrecorded>>
      BY <1>3, ClaimDoes
    <2>2. \A i \in Items : Done(i)' = Done(i)
      BY <1>3, ClaimSets
    <2> QED BY <2>1, <2>2 DEF RunsAreKnown
  <1>4. ASSUME NEW q \in Requests, MoveStep(q) PROVE RunsAreKnown'
    <2>1. plan' = plan
      BY <1>4, MoveStepMoves, MoveDoes
    <2>2. ASSUME NEW i \in Items, Open, items'[i] # "executed"
          PROVE  runs'[i] <= unrecorded'[i] + Cardinality(Done(i)')
      <3>1. /\ runs'[i] + unrecorded[i] + Cardinality(Done(i))
                   <= runs[i] + unrecorded'[i] + Cardinality(Done(i)')
            /\ items[i] # "executed"
        BY <1>4, <2>2, MoveCounts DEF MoveCountsOf
      <3>2. runs[i] <= unrecorded[i] + Cardinality(Done(i))
        BY <2>2, <3>1 DEF RunsAreKnown
      <3> QED BY <1>2, <2>1, <3>1, <3>2
    <2> QED BY <2>1, <2>2 DEF RunsAreKnown, Open
  <1>5. ASSUME NEW q \in Requests, Finish(q) PROVE RunsAreKnown'
    BY <1>5, FinishCloses DEF RunsAreKnown
  <1>6. ASSUME NEW Q \in SUBSET Running, Leave(Q), Forget(Q), UNCHANGED <<plan, items, runs>>
        PROVE  RunsAreKnown'
    <2>1. ASSUME NEW i \in Items, Open, items[i] # "executed"
          PROVE  runs'[i] <= unrecorded'[i] + Cardinality(Done(i)')
      <3>1. unrecorded'[i] + Cardinality(Done(i)') = unrecorded[i] + Cardinality(Done(i))
        BY <1>6, <2>1, LeaveCounts
      <3>2. runs[i] <= unrecorded[i] + Cardinality(Done(i))
        BY <2>1 DEF RunsAreKnown
      <3> QED BY <1>2, <1>6, <3>1, <3>2
    <2> QED BY <1>6, <2>1 DEF RunsAreKnown, Open
  <1>7. ASSUME NEW q \in Requests, FinishFails(q) PROVE RunsAreKnown'
    BY <1>6, <1>7, EndsAre, FinishDoes
  <1>8. CASE Crash
    BY <1>6, <1>8, CrashDoes
  <1>9. CASE Quiet
    <2>1. Open' => Open
      BY <1>9, QuietPlan DEF Open
    <2>2. UNCHANGED <<items, runs, unrecorded>> /\ \A i \in Items : Done(i)' = Done(i)
      BY <1>9, QuietDoes, SameSets
    <2> QED BY <2>1, <2>2 DEF RunsAreKnown
  <1> QED BY <1>3, <1>4, <1>5, <1>7, <1>8, <1>9, NextIs

LEMMA RunsArePaidForStep ==
    ASSUME TypeOK, WorkInv, RunsAreKnown, RunsArePaidFor, Next
    PROVE  RunsArePaidFor'
  <1>1. TypeOK' /\ WorkInv'
    BY TypeStep, WorkStep
  <1>2. ASSUME NEW i \in Items
        PROVE  /\ runs[i] \in Nat /\ unrecorded[i] \in Nat /\ Cardinality(MayRun(i)) \in Nat
               /\ runs'[i] \in Nat /\ unrecorded'[i] \in Nat
               /\ Cardinality(MayRun(i)') \in Nat
               /\ mishaps.stalls \in Nat /\ mishaps'.stalls \in Nat
               /\ runs[i] + Cardinality(MayRun(i)) <= 1 + unrecorded[i] + mishaps.stalls
    <2>1. Cardinality(MayRun(i)') \in Nat
      BY <1>1, CountedNext
    <2>2. mishaps'.stalls \in Nat
      BY <1>1, ActionPlanAssumption DEF TypeOK
    <2> QED BY <1>1, <2>1, <2>2, Counted, Numbers DEF TypeOK, RunsArePaidFor
  <1>3. ASSUME NEW q \in Requests, Claim(q), NEW i \in Items
        PROVE  runs'[i] + Cardinality(MayRun(i)') <= 1 + unrecorded'[i] + mishaps'.stalls
    <2>1. Open /\ UNCHANGED <<items, runs, unrecorded, mishaps>>
      BY <1>3, ClaimDoes
    <2>2. CASE items[i] = "executed"
      <3>1. MayRun(i)' = MayRun(i)
        BY <1>3, <2>2, ClaimSets
      <3> QED BY <1>2, <2>1, <3>1
    <2>3. CASE items[i] # "executed"
      <3>1. runs[i] <= unrecorded[i] + Cardinality(Done(i))
        BY <2>1, <2>3 DEF RunsAreKnown
      <3>2. /\ Cardinality(Done(i)) \in Nat /\ Cardinality(Running) \in Nat
            /\ Cardinality(Done(i)) + Cardinality(MayRun(i)) <= Cardinality(Running)
            /\ IsFiniteSet(MayRun(i))
        BY Counted
      <3>3. MayRun(i)' = MayRun(i) \cup {q}
        BY <1>3, <2>3, ClaimSets
      <3>4. Cardinality(MayRun(i)') <= Cardinality(MayRun(i)) + 1
        BY <3>2, <3>3, OneMore
      <3>5. Cardinality(Running) <= mishaps.stalls
        <4>1. plan.status = "pending" \/ Abandoned
          BY <1>3, ClaimDoes
        <4>2. CASE plan.status = "pending"
          <5>1. Running = {}
            BY <4>2 DEF WorkInv, NotStarted
          <5>2. Cardinality(Running) = 0
            BY <5>1, FS_EmptySet
          <5> QED BY <1>2, <5>2
        <4>3. CASE Abandoned
          BY <1>2, <4>3 DEF WorkInv, FewAtWork
        <4> QED BY <4>1, <4>2, <4>3
      <3> QED BY <1>2, <2>1, <3>1, <3>2, <3>4, <3>5
    <2> QED BY <2>2, <2>3
  <1>4. ASSUME NEW q \in Requests, MoveStep(q), NEW i \in Items
        PROVE  runs'[i] + Cardinality(MayRun(i)') <= 1 + unrecorded'[i] + mishaps'.stalls
    <2>1. mishaps'.stalls = mishaps.stalls
      BY <1>4, MoveStepMoves
    <2>2. /\ runs'[i] + Cardinality(MayRun(i)') <= runs[i] + Cardinality(MayRun(i))
          /\ unrecorded'[i] >= unrecorded[i]
      BY <1>4, MoveCounts DEF MoveCountsOf
    <2> QED BY <1>2, <2>1, <2>2
  <1>5. ASSUME NEW Q \in SUBSET Running, Leave(Q), Forget(Q) \/ UNCHANGED unrecorded,
               runs' = runs, mishaps'.stalls = mishaps.stalls
        PROVE  RunsArePaidFor'
    <2>1. ASSUME NEW i \in Items
          PROVE  runs'[i] + Cardinality(MayRun(i)') <= 1 + unrecorded'[i] + mishaps'.stalls
      <3>1. /\ Cardinality(MayRun(i)') <= Cardinality(MayRun(i))
            /\ unrecorded'[i] >= unrecorded[i]
        BY <1>5, LeaveCounts
      <3> QED BY <1>2, <1>5, <3>1
    <2> QED BY <2>1 DEF RunsArePaidFor
  <1>6. ASSUME NEW q \in Requests, Finish(q) \/ FinishFails(q) PROVE RunsArePaidFor'
    BY <1>5, <1>6, EndsAre, FinishDoes
  <1>7. CASE Crash
    BY <1>5, <1>7, CrashDoes
  <1>8. ASSUME Quiet, NEW i \in Items
        PROVE  runs'[i] + Cardinality(MayRun(i)') <= 1 + unrecorded'[i] + mishaps'.stalls
    <2>1. UNCHANGED <<runs, unrecorded>> /\ MayRun(i)' = MayRun(i)
      BY <1>8, QuietDoes, SameSets
    <2>2. mishaps'.stalls >= mishaps.stalls
      BY <1>2, <1>8, QuietPlan
    <2> QED BY <1>2, <2>1, <2>2
  <1>9. ASSUME NEW q \in Requests, Claim(q) \/ MoveStep(q) PROVE RunsArePaidFor'
    BY <1>3, <1>4, <1>9 DEF RunsArePaidFor
  <1>10. CASE Quiet
    BY <1>8, <1>10 DEF RunsArePaidFor
  <1> QED BY <1>6, <1>7, <1>9, <1>10, NextIs

LEMMA AuditsArePaidForStep ==
    ASSUME TypeOK, WorkInv, AuditsArePaidFor, Next
    PROVE  AuditsArePaidFor'
  <1>0. TypeOK' /\ WorkInv'
    BY TypeStep, WorkStep
  <1>1. ASSUME NEW i \in Items
        PROVE  /\ audits[i] \in Nat /\ audits'[i] \in Nat
               /\ Cardinality(Unspent(i)) \in Nat /\ Cardinality(Unspent(i)') \in Nat
               /\ mishaps.stalls \in Nat /\ mishaps'.stalls \in Nat
               /\ AuditPaid(i)
    <2>1. Cardinality(Unspent(i)') \in Nat
      BY <1>0, CountedNext
    <2>2. mishaps'.stalls \in Nat
      BY <1>0, ActionPlanAssumption DEF TypeOK
    <2> QED BY <1>0, <2>1, <2>2, Counted, Numbers DEF TypeOK, AuditsArePaidFor, AuditPaid
  <1>2. (\A i \in Items : AuditPaid(i)') => AuditsArePaidFor'
    BY DEF AuditsArePaidFor, AuditPaid
  \* At most one request more than stalls is at work.
  <1>3. ASSUME NEW i \in Items
        PROVE  /\ Cardinality(Running) \in Nat /\ Cardinality(Running) <= mishaps.stalls + 1
               /\ Cardinality(Unspent(i)) <= Cardinality(Running)
    <2>1. /\ Cardinality(Running) \in Nat
          /\ Cardinality(Running) <= mishaps.stalls + (IF Abandoned THEN 0 ELSE 1)
          /\ Cardinality(Unspent(i)) <= Cardinality(Running)
      BY Counted DEF WorkInv, FewAtWork
    <2> QED BY <1>1, <2>1
  <1>4. ASSUME NEW q \in Requests, Claim(q), NEW i \in Items PROVE AuditPaid(i)'
    <2>1. Open /\ Open' /\ UNCHANGED <<items, audits, mishaps>>
      BY <1>4, ClaimDoes
    <2>2. items[i] = "executed" => Unspent(i)' = Unspent(i)
      BY <1>4, ClaimSets
    <2> QED BY <1>1, <2>1, <2>2 DEF AuditPaid
  <1>5. ASSUME NEW q \in Requests, MoveStep(q), NEW i \in Items PROVE AuditPaid(i)'
    <2>1. (Open' <=> Open) /\ mishaps'.stalls = mishaps.stalls
      BY <1>5, MoveStepMoves, MoveDoes DEF Open
    <2>2. /\ Cardinality(Unspent(i)') <= Cardinality(Unspent(i))
          /\ \/ audits'[i] = audits[i] /\ (items'[i] = "executed" <=> items[i] = "executed")
             \/ /\ audits'[i] = audits[i] + 1 /\ items[i] # "executed" /\ items'[i] = "executed"
                /\ Cardinality(Unspent(i)') = Cardinality(Unspent(i)) - 1
      BY <1>5, MoveCounts DEF MoveCountsOf
    <2>3. CASE audits'[i] = audits[i] /\ (items'[i] = "executed" <=> items[i] = "executed")
      BY <1>1, <2>1, <2>2, <2>3 DEF AuditPaid
    <2>4. CASE /\ audits'[i] = audits[i] + 1 /\ items[i] # "executed" /\ items'[i] = "executed"
               /\ Cardinality(Unspent(i)') = Cardinality(Unspent(i)) - 1
      BY <1>1, <1>3, <2>1, <2>4 DEF AuditPaid
    <2> QED BY <2>2, <2>3, <2>4
  <1>6. ASSUME NEW q \in Requests, Finish(q), NEW i \in Items PROVE AuditPaid(i)'
    <2>1. /\ q \in Running /\ request[q].phase = "next" /\ request[q].at = NumItems + 1
          /\ Leave({q}) /\ audits' = audits /\ mishaps' = mishaps
      BY <1>6, FinishDoes
    <2>2. ~Open' /\ items'[i] = IF request[q].outcome[i] = "done" THEN "executed" ELSE "failed"
      BY <1>6, FinishCloses
    <2>3. Unspent(i)' = Unspent(i) \ {q} /\ Cardinality(Running') = Cardinality(Running) - 1
      <3>1. IsFiniteSet(Running) /\ Running' = Running \ {q}
        BY <2>1 DEF WorkInv, FewAtWork, Leave
      <3> QED BY <2>1, <3>1, LeaveSets, OneMore
    <2>4. Cardinality(Unspent(i)') <= Cardinality(Unspent(i))
      BY <2>3, Counted, OneMore
    <2>5. Cardinality(Unspent(i)') <= mishaps.stalls
      <3>1. Cardinality(Unspent(i)') <= Cardinality(Running')
        BY <1>0, CountedNext
      <3>2. Cardinality(Running') = Cardinality(Running) - 1
        BY <2>3
      <3>3. /\ Cardinality(Running) \in Nat /\ Cardinality(Running) <= mishaps.stalls + 1
            /\ mishaps.stalls \in Nat /\ Cardinality(Unspent(i)') \in Nat
        BY <1>1, <1>3
      <3> QED BY <3>1, <3>2, <3>3
    <2>6. CASE request[q].outcome[i] = "done"
      BY <1>1, <2>1, <2>2, <2>4, <2>5, <2>6 DEF AuditPaid
    <2>7. CASE request[q].outcome[i] # "done"
      <3>1. i < request[q].at
        BY <2>1, ActionPlanAssumption DEF Items
      <3>2. ~AlreadyDone(request[q], i)
        BY <2>7, <3>1 DEF WorkInv, InOrder
      <3>3. q \in Unspent(i)
        BY <2>1, <2>7, <3>2 DEF Unspent
      <3>4. Cardinality(Unspent(i)') = Cardinality(Unspent(i)) - 1
        BY <2>3, <3>3, Counted, OneMore
      <3> QED BY <1>1, <2>1, <2>2, <2>5, <2>7, <3>4 DEF AuditPaid
    <2> QED BY <2>6, <2>7
  <1>7. ASSUME NEW Q \in SUBSET Running, Leave(Q), Forget(Q) \/ UNCHANGED unrecorded,
               UNCHANGED <<plan, items, audits>>, mishaps'.stalls = mishaps.stalls,
               NEW i \in Items
        PROVE  AuditPaid(i)'
    <2>1. Cardinality(Unspent(i)') <= Cardinality(Unspent(i))
      BY <1>7, LeaveCounts
    <2> QED BY <1>1, <1>7, <2>1 DEF AuditPaid, Open
  <1>8. ASSUME NEW q \in Requests, FinishFails(q) PROVE \A i \in Items : AuditPaid(i)'
    BY <1>7, <1>8, EndsAre, FinishDoes
  <1>9. CASE Crash
    BY <1>2, <1>7, <1>9, CrashDoes
  <1>10. ASSUME Quiet, NEW i \in Items PROVE AuditPaid(i)'
    <2>1. UNCHANGED <<items, audits>> /\ Unspent(i)' = Unspent(i) /\ Running' = Running
      BY <1>10, QuietDoes, SameSets
    <2>2. mishaps'.stalls >= mishaps.stalls
      BY <1>1, <1>10, QuietPlan
    <2>3. CASE Open' <=> Open
      BY <1>1, <2>1, <2>2, <2>3 DEF AuditPaid
    <2>4. CASE plan.status = "pending" /\ plan'.status = "cancelled"
      <3>1. items[i] # "executed" /\ Running = {}
        BY <2>4 DEF WorkInv, NotStarted
      <3>2. Cardinality(Running) = 0
        BY <3>1, FS_EmptySet
      <3>3. Cardinality(Unspent(i)') = 0
        BY <1>1, <1>3, <2>1, <3>2
      <3>4. Open /\ ~Open'
        BY <2>4 DEF Open
      <3> QED BY <1>1, <2>1, <3>1, <3>3, <3>4 DEF AuditPaid
    <2> QED BY <1>10, <2>3, <2>4, QuietPlan DEF Open
  <1>11. CASE Quiet
    BY <1>2, <1>10, <1>11
  <1>12. ASSUME NEW q \in Requests, Claim(q) \/ MoveStep(q) \/ Finish(q) \/ FinishFails(q)
         PROVE  AuditsArePaidFor'
    BY <1>2, <1>4, <1>5, <1>6, <1>8, <1>12
  <1> QED BY <1>9, <1>11, <1>12, NextIs

LEMMA CountsStep ==
    ASSUME TypeOK, WorkInv, CountsInv, Next
    PROVE  CountsInv'
BY WrittenIfDoneStep, RunsAreKnownStep, RunsArePaidForStep, AuditsArePaidForStep DEF CountsInv

-----------------------------------------------------------------------------
(* What the owner is told *)

\* Mishaps are only counted up.
LEMMA MishapsStay ==
    ASSUME TypeOK, WorkInv, Next
    PROVE  (NoStalls' => NoStalls) /\ (mishaps'.faults = 0 => mishaps.faults = 0)
  <1>1. mishaps.stalls \in Nat /\ mishaps.faults \in Nat
    BY Numbers
  <1>2. ASSUME NEW q \in Requests, Claim(q) PROVE mishaps' = mishaps
    BY <1>2, ClaimDoes
  <1>3. ASSUME NEW q \in Requests, MoveStep(q)
        PROVE  mishaps'.stalls = mishaps.stalls /\ (mishaps'.faults = 0 => mishaps.faults = 0)
    <2>1. CASE RecordFails(q)
      BY <1>1, <2>1, FaultDoes DEF RecordFails
    <2>2. CASE ~RecordFails(q)
      BY <1>3, <2>2 DEF MoveStep, SkipItem, LookAt, Execute, Record
    <2> QED BY <2>1, <2>2
  <1>4. ASSUME NEW q \in Requests, Finish(q) \/ FinishFails(q)
        PROVE  mishaps'.stalls = mishaps.stalls /\ (mishaps'.faults = 0 => mishaps.faults = 0)
    BY <1>1, <1>4, FaultDoes DEF Finish, FinishFails
  <1>5. CASE Quiet
    <2>1. /\ mishaps' = mishaps \/ mishaps'.stalls = mishaps.stalls + 1
          /\ mishaps' = mishaps \/ mishaps'.faults = mishaps.faults
      BY <1>5, QuietPlan
    <2> QED BY <1>1, <2>1 DEF NoStalls
  <1>6. CASE Crash
    BY <1>6, CrashDoes DEF NoStalls
  <1> QED BY <1>2, <1>3, <1>4, <1>5, <1>6, NextIs DEF NoStalls

\* A request at work, without a stall, is the only one, and the plan is open.
LEMMA Alone ==
    ASSUME AloneAtWork, NoStalls, NEW q \in Running
    PROVE  Running = {q} /\ plan.status = "executing" /\ Open
BY DEF AloneAtWork, Open

LEMMA KnowsMove ==
    ASSUME TypeOK, WorkInv, Next, NEW q \in Requests, MoveStep(q), NEW i \in Items,
           Knows(request[q], i)
    PROVE  Knows(request[q], i)'
  <1>1. PICK phase \in Phases, outcome \in Outcomes : Move(q, request[q].at, phase, outcome)
    BY MoveStepMoves
  <1>2. /\ request'[q].phase = phase /\ request'[q].read = request[q].read
        /\ request'[q].at = IF phase = "next" THEN request[q].at + 1 ELSE request[q].at
        /\ request'[q].outcome[request[q].at] = outcome
        /\ \A j \in Items \ {request[q].at} : request'[q].outcome[j] = request[q].outcome[j]
        /\ request[q].at \in Items
    BY <1>1, MoveStepMoves, MoveDoes
  <1>3. /\ items[i] = "executed" => items'[i] = "executed"
        /\ mishaps'.faults = 0 => mishaps.faults = 0
    BY MoveCounts, MishapsStay DEF MoveCountsOf
  <1>4. AlreadyDone(request'[q], i) <=> AlreadyDone(request[q], i)
    BY <1>2 DEF AlreadyDone
  <1>5. CASE request[q].at # i
    <2>1. items'[i] = items[i]
      <3>1. CASE Record(q)
        BY <1>5, <3>1 DEF Record, TypeOK
      <3>2. CASE ~Record(q)
        BY <3>2 DEF MoveStep, SkipItem, LookAt, Execute, RecordFails
      <3> QED BY <3>1, <3>2
    <2>2. request'[q].outcome[i] = request[q].outcome[i]
      BY <1>2, <1>5
    <2>3. request'[q].at > i => request[q].at > i
      BY <1>2, <1>5 DEF Items
    <2> QED BY <1>3, <1>4, <2>1, <2>2, <2>3 DEF Knows
  <1>6. CASE request[q].at = i
    <2>1. items'[i] = "executed" => AlreadyDone(request[q], i) \/ request'[q].outcome[i] = "done"
      <3>1. CASE Record(q) \/ RecordFails(q)
        <4>1. /\ Move(q, i, "next", request[q].outcome[i])
              /\ request[q].outcome[i] \in Outcomes
          BY <1>6, <3>1, RecordMoves
        <4>2. request'[q].outcome[i] = request[q].outcome[i]
          BY <4>1, MoveDoes DEF Phases
        <4>3. items'[i] = "executed" =>
                  items[i] = "executed" \/ request[q].outcome[i] = "done"
          BY <1>2, <1>6, <3>1 DEF Record, RecordFails, TypeOK, StatusOf
        <4> QED BY <4>2, <4>3 DEF Knows
      <3>2. CASE SkipItem(q)
        BY <1>6, <3>2, SkipItemMoves
      <3>3. CASE LookAt(q) \/ Execute(q)
        <4>1. items' = items /\ request[q].phase # "ran"
          BY <3>3 DEF LookAt, Execute
        <4>2. request[q].outcome[i] = "none"
          BY <1>6, <4>1 DEF WorkInv, InOrder
        <4> QED BY <4>1, <4>2 DEF Knows
      <3> QED BY <3>1, <3>2, <3>3 DEF MoveStep
    <2>2. ASSUME mishaps'.faults = 0, request'[q].at > i, request'[q].outcome[i] = "done"
          PROVE  items'[i] = "executed"
      <3>1. phase = "next"
        BY <1>2, <1>6, <2>2 DEF Items
      <3>2. CASE SkipItem(q)
        <4>1. AlreadyDone(request[q], i) /\ items' = items
          BY <1>6, <3>2, SkipItemMoves
        <4> QED BY <1>3, <2>2, <4>1 DEF Knows
      <3>3. CASE Record(q)
        <4>1. /\ Move(q, i, "next", request[q].outcome[i])
              /\ request[q].outcome[i] \in Outcomes
          BY <1>6, <3>3, RecordMoves
        <4>2. request'[q].outcome[i] = request[q].outcome[i]
          BY <4>1, MoveDoes DEF Phases
        <4> QED BY <1>2, <1>6, <2>2, <3>3, <4>2 DEF Record, TypeOK, StatusOf
      <3>4. CASE RecordFails(q)
        <4>1. mishaps'.faults = mishaps.faults + 1 /\ mishaps.faults \in Nat
          BY <3>4, FaultDoes, Numbers DEF RecordFails
        <4> QED BY <2>2, <4>1
      <3>5. CASE LookAt(q) \/ Execute(q)
        <4>1. Move(q, request[q].at, "looked", "none") \/ Move(q, request[q].at, "ran", "failed")
              \/ Move(q, request[q].at, "ran", "done")
          BY <3>5, LookAtMoves, ExecuteMoves
        <4>2. request'[q].phase # "next"
          BY <1>2, <4>1, MoveDoes DEF Phases, Outcomes
        <4> QED BY <1>2, <3>1, <4>2
      <3> QED BY <3>2, <3>3, <3>4, <3>5 DEF MoveStep
    <2>3. mishaps'.faults = 0 /\ AlreadyDone(request[q], i) => items'[i] = "executed"
      BY <1>3 DEF Knows
    <2> QED BY <1>4, <2>1, <2>2, <2>3 DEF Knows
  <1> QED BY <1>5, <1>6

LEMMA AloneAtWorkStep ==
    ASSUME TypeOK, WorkInv, AloneAtWork, Next, NoStalls'
    PROVE  /\ Running' # {} => plan'.status = "executing" /\ plan'.fresh
           /\ \A p, q \in Running' : p = q
           /\ \A q \in Running', i \in Items : Knows(request[q], i)'
  <1> DEFINE Goal ==
        /\ Running' # {} => plan'.status = "executing" /\ plan'.fresh
        /\ \A p, q \in Running' : p = q
        /\ \A q \in Running', i \in Items : Knows(request[q], i)'
  <1>1. NoStalls /\ (mishaps'.faults = 0 => mishaps.faults = 0)
    BY MishapsStay
  <1>2. /\ Running # {} => plan.status = "executing" /\ plan.fresh
        /\ \A p, q \in Running : p = q
        /\ \A q \in Running, i \in Items : Knows(request[q], i)
    BY <1>1 DEF AloneAtWork
  <1>3. Running' = {} => Goal
    OBVIOUS
  <1>4. ASSUME NEW q \in Requests, Claim(q) PROVE Goal
    <2>1. /\ Running' = Running \cup {q} /\ plan'.status = "executing" /\ plan'.fresh = TRUE
          /\ request'[q].read = items /\ \A i \in Items : request'[q].outcome[i] = "none"
          /\ items' = items /\ (plan.status = "pending" \/ Abandoned)
      BY <1>4, ClaimDoes
    <2>2. Running = {}
      BY <1>2, <2>1 DEF WorkInv, NotStarted, Abandoned
    <2>3. Running' = {q}
      BY <2>1, <2>2
    <2>4. ASSUME NEW i \in Items PROVE Knows(request[q], i)'
      BY <2>1 DEF Knows, AlreadyDone
    <2> QED BY <2>1, <2>3, <2>4
  <1>5. ASSUME NEW q \in Requests, MoveStep(q) PROVE Goal
    <2>1. plan' = plan /\ Running' = Running /\ q \in Running
      BY <1>5, MoveStepMoves, MoveDoes
    <2>2. Running = {q}
      BY <1>2, <2>1
    <2>3. \A i \in Items : Knows(request[q], i)'
      BY <1>2, <1>5, <2>1, KnowsMove
    <2> QED BY <1>2, <2>1, <2>2, <2>3
  <1>6. ASSUME NEW q \in Requests, Finish(q) \/ FinishFails(q) PROVE Goal
    <2>1. q \in Running /\ Running' = Running \ {q}
      BY <1>6, FinishDoes DEF Leave
    <2>2. Running' = {}
      BY <1>2, <2>1
    <2> QED BY <1>3, <2>2
  <1>7. CASE Crash
    BY <1>3, <1>7, CrashDoes
  <1>8. CASE Quiet
    <2>1. Running' = Running /\ items' = items /\ request' = request
      BY <1>8, QuietDoes, SameSets
    <2>2. CASE Running = {}
      BY <1>3, <2>1, <2>2
    <2>3. CASE Running # {}
      <3>1. plan.status = "executing" /\ mishaps.stalls = 0 /\ mishaps'.stalls = 0
        BY <1>1, <1>2, <2>3 DEF NoStalls
      <3>2. plan' = plan /\ mishaps' = mishaps
        BY <1>8, <2>3, <3>1, QuietPlan
      <3>3. ASSUME NEW q \in Running, NEW i \in Items PROVE Knows(request[q], i)'
        BY <1>2, <2>1, <3>2 DEF Knows
      <3> QED BY <1>2, <2>1, <3>2, <3>3
    <2> QED BY <2>2, <2>3
  <1> QED BY <1>4, <1>5, <1>6, <1>7, <1>8, NextIs

LEMMA ReportIsHonestStep ==
    ASSUME TypeOK, WorkInv, CountsInv, AloneAtWork, ReportIsHonest, Next
    PROVE  ReportIsHonest'
  <1>1. ASSUME NoStalls', plan'.status \in {"pending", "executing"} PROVE ReportIsHonest'
    BY <1>1 DEF ReportIsHonest, FinishedStatusIsHonest, UnreportedItemsWroteUnseen, Finished
  <1>2. ASSUME ~NoStalls' PROVE ReportIsHonest'
    BY <1>2 DEF ReportIsHonest, FinishedStatusIsHonest, UnreportedItemsWroteUnseen
  <1>3. NoStalls' => NoStalls
    BY MishapsStay
  <1>4. ASSUME NoStalls', NEW q \in Requests, Claim(q) PROVE ReportIsHonest'
    BY <1>1, <1>4, ClaimDoes
  <1>5. ASSUME NoStalls', NEW q \in Requests, MoveStep(q) \/ FinishFails(q) PROVE ReportIsHonest'
    <2>1. plan' = plan /\ q \in Running
      BY <1>5, MoveStepMoves, MoveDoes, FinishDoes
    <2>2. plan'.status = "executing"
      BY <1>3, <1>5, <2>1, Alone
    <2> QED BY <1>1, <1>5, <2>2
  <1>6. ASSUME NoStalls', Crash PROVE ReportIsHonest'
    <2>1. PICK q \in Running : TRUE
      BY <1>6 DEF Crash
    <2>2. plan'.status = "executing"
      BY <1>3, <1>6, <2>1, Alone, CrashDoes
    <2> QED BY <1>1, <1>6, <2>2
  <1>7. ASSUME NoStalls', NEW q \in Requests, Finish(q) PROVE ReportIsHonest'
    <2>1. /\ q \in Running /\ request[q].at = NumItems + 1 /\ UNCHANGED <<runs, unrecorded>>
      BY <1>7, FinishDoes
    <2>2. /\ plan'.status = FinalStatus(request[q])
          /\ plan'.status \in {"executed", "partial", "failed"}
          /\ \A i \in Items :
              items'[i] = IF request[q].outcome[i] = "done" THEN "executed" ELSE "failed"
      BY <1>7, FinishCloses
    <2>3. Running = {q} /\ Open /\ \A i \in Items : Knows(request[q], i)
      BY <1>3, <1>7, <2>1, Alone DEF AloneAtWork
    <2>4. ASSUME NEW i \in Items, request[q].outcome[i] = "done" PROVE runs[i] > 0
      BY <2>1, <2>4 DEF CountsInv, WrittenIfDone
    <2>5. ASSUME NEW i \in Items, request[q].outcome[i] # "done" PROVE runs[i] <= unrecorded[i]
      <3>1. i < request[q].at
        BY <2>1, ActionPlanAssumption DEF Items
      <3>2. ~AlreadyDone(request[q], i)
        BY <2>5, <3>1 DEF WorkInv, InOrder
      <3>3. items[i] # "executed"
        BY <2>3, <2>5, <3>2 DEF Knows
      <3>4. runs[i] <= unrecorded[i] + Cardinality(Done(i))
        BY <2>3, <3>3 DEF CountsInv, RunsAreKnown
      <3>5. Done(i) = {}
        BY <2>3, <2>5 DEF Done
      <3>6. Cardinality(Done(i)) = 0
        BY <3>5, FS_EmptySet
      <3> QED BY <3>4, <3>6, Numbers
    <2>6. plan'.status = "executed" => \A i \in Items : request[q].outcome[i] = "done"
      BY <2>2 DEF FinalStatus, Succeeded
    <2>7. plan'.status = "failed" => \A i \in Items : request[q].outcome[i] # "done"
      <3>1. plan'.status = "failed" => Succeeded(request[q]) = {}
        BY <2>2 DEF FinalStatus
      <3> QED BY <3>1 DEF Succeeded
    <2>8. plan'.status = "partial" =>
            \E i, j \in Items : request[q].outcome[i] = "done" /\ request[q].outcome[j] # "done"
      <3>1. plan'.status = "partial" => Succeeded(request[q]) # {} /\ Succeeded(request[q]) # Items
        BY <2>2 DEF FinalStatus
      <3> QED BY <3>1 DEF Succeeded
    <2>9. FinishedStatusIsHonest'
      BY <2>1, <2>2, <2>4, <2>6, <2>7, <2>8 DEF FinishedStatusIsHonest
    <2>10. UnreportedItemsWroteUnseen'
      BY <2>1, <2>2, <2>5 DEF UnreportedItemsWroteUnseen, Finished
    <2> QED BY <2>9, <2>10 DEF ReportIsHonest
  <1>8. ASSUME NoStalls', Quiet PROVE ReportIsHonest'
    <2>1. UNCHANGED <<items, runs, unrecorded>>
      BY <1>8, QuietDoes
    <2>2. CASE plan'.status = plan.status
      BY <1>3, <1>8, <2>1, <2>2
         DEF ReportIsHonest, FinishedStatusIsHonest, UnreportedItemsWroteUnseen, Finished
    <2>3. CASE plan.status \in {"pending", "failed"} /\ plan'.status = "cancelled"
      <3>1. ASSUME NEW i \in Items PROVE runs[i] <= unrecorded[i]
        <4>1. CASE plan.status = "pending"
          BY <4>1, Numbers DEF WorkInv, NotStarted
        <4>2. CASE plan.status = "failed"
          BY <1>3, <1>8, <4>2
             DEF ReportIsHonest, FinishedStatusIsHonest, UnreportedItemsWroteUnseen, Finished
        <4> QED BY <2>3, <4>1, <4>2
      <3> QED BY <2>1, <2>3, <3>1
            DEF ReportIsHonest, FinishedStatusIsHonest, UnreportedItemsWroteUnseen
    <2> QED BY <1>8, <2>2, <2>3, QuietPlan
  <1> QED BY <1>2, <1>4, <1>5, <1>6, <1>7, <1>8, NextIs

LEMMA AuditedAsStoredStep ==
    ASSUME TypeOK, WorkInv, AuditsArePaidFor, AloneAtWork, AuditedAsStored, Next
    PROVE  AuditedAsStored'
  <1>1. (NoStalls' => NoStalls) /\ (mishaps'.faults = 0 => mishaps.faults = 0)
    BY MishapsStay
  <1>2. Open' => AuditedAsStored'
    <2>1. AuditsArePaidFor'
      BY AuditsArePaidForStep
    <2> QED BY <2>1 DEF AuditsArePaidFor, AuditPaid, AuditedAsStored
  <1>3. ASSUME NEW q \in Requests, Claim(q) PROVE AuditedAsStored'
    BY <1>2, <1>3, ClaimDoes
  <1>4. ASSUME NEW q \in Requests, MoveStep(q) \/ FinishFails(q) PROVE AuditedAsStored'
    <2>1. plan' = plan /\ q \in Running
      BY <1>4, MoveStepMoves, MoveDoes, FinishDoes
    <2>2. NoStalls' => Open'
      BY <1>1, <2>1, Alone DEF Open
    <2> QED BY <1>2, <2>2 DEF AuditedAsStored
  <1>5. CASE Crash
    <2>1. PICK q \in Running : TRUE
      BY <1>5 DEF Crash
    <2>2. NoStalls' => Open'
      BY <1>1, <1>5, <2>1, Alone, CrashDoes DEF Open
    <2> QED BY <1>2, <2>2 DEF AuditedAsStored
  <1>6. ASSUME NEW q \in Requests, Finish(q), NoStalls', mishaps'.faults = 0, NEW i \in Items
        PROVE  audits'[i] = 1 <=> items'[i] = "executed"
    <2>1. q \in Running /\ request[q].at = NumItems + 1 /\ audits' = audits
      BY <1>6, FinishDoes
    <2>2. items'[i] = IF request[q].outcome[i] = "done" THEN "executed" ELSE "failed"
      BY <1>6, FinishCloses
    <2>3. Open /\ Knows(request[q], i)
      BY <1>1, <1>6, <2>1, Alone DEF AloneAtWork
    <2>4. i < request[q].at /\ request[q].at > i
      BY <2>1, ActionPlanAssumption DEF Items
    <2>5. AlreadyDone(request[q], i) => request[q].outcome[i] = "done"
      BY <2>4 DEF WorkInv, InOrder
    <2>6. items[i] = "executed" <=> request[q].outcome[i] = "done"
      BY <1>1, <1>6, <2>3, <2>4, <2>5 DEF Knows
    <2>7. audits[i] = IF items[i] = "executed" THEN 1 ELSE 0
      BY <2>3 DEF AuditsArePaidFor, AuditPaid
    <2> QED BY <2>1, <2>2, <2>6, <2>7
  <1>7. ASSUME NEW q \in Requests, Finish(q) PROVE AuditedAsStored'
    BY <1>6, <1>7 DEF AuditedAsStored
  <1>8. CASE Quiet
    <2>1. UNCHANGED <<items, audits>>
      BY <1>8, QuietDoes
    <2> QED BY <1>1, <2>1 DEF AuditedAsStored
  <1> QED BY <1>3, <1>4, <1>5, <1>7, <1>8, NextIs

LEMMA RunsWhatWasConfirmedStep ==
    ASSUME TypeOK, WorkInv, RunsWhatWasConfirmed, Next
    PROVE  RunsWhatWasConfirmed'
  <1>1. Running \subseteq Requests
    BY DEF Running
  <1>2. ASSUME NEW q \in Requests, Claim(q) PROVE RunsWhatWasConfirmed'
    <2>1. /\ \A p \in Requests \ {q} : request'[p] = request[p]
          /\ request'[q].payload = payload /\ payload' = payload
          /\ Running' = Running \cup {q}
      BY <1>2, ClaimDoes
    <2> QED BY <1>1, <2>1 DEF RunsWhatWasConfirmed
  <1>3. ASSUME NEW q \in Requests, MoveStep(q) PROVE RunsWhatWasConfirmed'
    <2>1. PICK phase \in Phases, outcome \in Outcomes : Move(q, request[q].at, phase, outcome)
      BY <1>3, MoveStepMoves
    <2>2. request[q].at \in Items
      BY <1>3, MoveStepMoves
    <2>3. /\ \A p \in Requests \ {q} : request'[p] = request[p]
          /\ request'[q].payload = request[q].payload /\ payload' = payload
          /\ Running' = Running
      BY <2>1, <2>2, MoveDoes
    <2> QED BY <1>1, <2>3 DEF RunsWhatWasConfirmed
  <1>4. ASSUME NEW q \in Requests, Finish(q) \/ FinishFails(q) PROVE RunsWhatWasConfirmed'
    <2>1. Leave({q}) /\ payload' = payload
      BY <1>4, FinishDoes
    <2> QED BY <2>1 DEF Leave, RunsWhatWasConfirmed
  <1>5. CASE Crash
    BY <1>5, CrashDoes DEF RunsWhatWasConfirmed
  <1>6. CASE Quiet
    <2>1. Running' = Running /\ request' = request
      BY <1>6, QuietDoes, SameSets
    <2>2. payload' = payload \/ plan.status = "pending"
      BY <1>6 DEF Quiet, Revise, SomebodyEdits, Expire, Cancel, ClaimAges
    <2>3. plan.status = "pending" => Running = {}
      BY DEF WorkInv, NotStarted
    <2> QED BY <2>1, <2>2, <2>3 DEF RunsWhatWasConfirmed
  <1> QED BY <1>2, <1>3, <1>4, <1>5, <1>6, NextIs

-----------------------------------------------------------------------------
(* Theorems *)

LEMMA InitIInv ==
    ASSUME Init
    PROVE  IInv
  <1>1. /\ plan = [status |-> "pending", over |-> FALSE, fresh |-> FALSE]
        /\ mishaps = [crashes |-> 0, stalls |-> 0, faults |-> 0]
        /\ \A i \in Items : /\ items[i] = "pending" /\ payload[i] = 0 /\ runs[i] = 0
                            /\ audits[i] = 0 /\ unrecorded[i] = 0
        /\ \A q \in Requests : request[q] = Idle
    BY DEF Init
  <1>2. Running = {} /\ IsFiniteSet({}) /\ Cardinality({}) = 0
    BY <1>1, FS_EmptySet DEF Running, Idle
  <1>3. \A i \in Items : Done(i) = {} /\ MayRun(i) = {} /\ Unspent(i) = {}
    BY <1>2 DEF Done, MayRun, Unspent
  <1>4. TypeOK
    <2>1. 0 \in 0..MaxRevisions /\ 0 \in 0..MaxCrashes /\ 0 \in 0..MaxStalls /\ 0 \in 0..MaxFaults
      BY ActionPlanAssumption
    <2>2. plan \in Plan
      BY <1>1 DEF Plan, PlanStatus
    <2>3. mishaps \in [crashes : 0..MaxCrashes, stalls : 0..MaxStalls, faults : 0..MaxFaults]
      BY <1>1, <2>1
    <2> QED BY <2>1, <2>2, <2>3, IdleType DEF Init, TypeOK, ItemStatus, Row
  <1>5. WorkInv
    BY <1>1, <1>2, InOrderIdle DEF WorkInv, NotStarted, FewAtWork
  <1>6. CountsInv
    <2>1. WrittenIfDone /\ RunsAreKnown
      BY <1>1, <1>2, <1>3 DEF WrittenIfDone, RunsAreKnown
    <2>2. RunsArePaidFor
      BY <1>1, <1>2, <1>3 DEF RunsArePaidFor
    <2>3. AuditsArePaidFor
      BY <1>1 DEF AuditsArePaidFor, AuditPaid, Open
    <2> QED BY <2>1, <2>2, <2>3 DEF CountsInv
  <1>7. ToldInv
    BY <1>1, <1>2 DEF ToldInv, AloneAtWork, ReportIsHonest, FinishedStatusIsHonest,
                      UnreportedItemsWroteUnseen, Finished, AuditedAsStored
  <1>8. RunsWhatWasConfirmed
    BY <1>2 DEF RunsWhatWasConfirmed
  <1> QED BY <1>4, <1>5, <1>6, <1>7, <1>8 DEF IInv

LEMMA NextKeepsIInv ==
    ASSUME IInv, [Next]_vars
    PROVE  IInv'
  <1>1. CASE Next
    <2>1. TypeOK /\ WorkInv /\ CountsInv /\ ToldInv /\ RunsWhatWasConfirmed
      BY DEF IInv
    <2>2. TypeOK' /\ WorkInv' /\ CountsInv'
      BY <1>1, <2>1, TypeStep, WorkStep, CountsStep
    <2>3. AloneAtWork'
      BY <1>1, <2>1, AloneAtWorkStep DEF ToldInv, AloneAtWork
    <2>4. ReportIsHonest' /\ AuditedAsStored'
      BY <1>1, <2>1, ReportIsHonestStep, AuditedAsStoredStep DEF ToldInv, CountsInv
    <2>5. RunsWhatWasConfirmed'
      BY <1>1, <2>1, RunsWhatWasConfirmedStep
    <2> QED BY <2>2, <2>3, <2>4, <2>5 DEF IInv, ToldInv
  <1>2. CASE UNCHANGED vars
    <2>1. request' = request
      BY <1>2 DEF vars
    <2>2. Running' = Running /\ \A i \in Items :
              Done(i)' = Done(i) /\ MayRun(i)' = MayRun(i) /\ Unspent(i)' = Unspent(i)
      BY <2>1, SameSets
    <2> QED
      BY <1>2, <2>2
         DEF vars, IInv, TypeOK, WorkInv, NotStarted, FewAtWork, Abandoned, CountsInv,
             WrittenIfDone, RunsAreKnown, RunsArePaidFor, AuditsArePaidFor, AuditPaid, Open,
             ToldInv, AloneAtWork, Knows, NoStalls, ReportIsHonest, FinishedStatusIsHonest,
             UnreportedItemsWroteUnseen, Finished, AuditedAsStored, RunsWhatWasConfirmed
  <1> QED BY <1>1, <1>2

LEMMA SpecKeepsIInv == Spec => []IInv
BY InitIInv, NextKeepsIInv, PTL DEF Spec

\* The plan, its rows and its requests stay of their types.
THEOREM PlanTypeCorrect == Spec => []TypeOK
<1>1. IInv => TypeOK
  BY DEF IInv
<1> QED
  BY <1>1, SpecKeepsIInv, PTL

\* However confirmations, crashes and failed writes meet, each further run of an
\* item is for one no outcome tells of or one a stalled claim let in.
THEOREM RepeatsArePaidFor == Spec => []RepeatsAreForMishaps
<1>1. IInv => RepeatsAreForMishaps
  <2> SUFFICES ASSUME IInv, NEW i \in Items
               PROVE  runs[i] <= 1 + unrecorded[i] + mishaps.stalls
    BY DEF RepeatsAreForMishaps
  <2>1. runs[i] + Cardinality(MayRun(i)) <= 1 + unrecorded[i] + mishaps.stalls
    BY DEF IInv, CountsInv, RunsArePaidFor
  <2>2. Cardinality(MayRun(i)) \in Nat
    BY Counted DEF IInv
  <2> QED BY <2>1, <2>2, Numbers DEF IInv
<1> QED
  BY <1>1, SpecKeepsIInv, PTL

\* FinishAIActionPlan tells the owner what the items did to the restaurant, but
\* for the runs no outcome tells of.
THEOREM FinishedPlansAreHonest == Spec => []ReportIsHonest
<1>1. IInv => ReportIsHonest
  BY DEF IInv, ToldInv
<1> QED
  BY <1>1, SpecKeepsIInv, PTL

\* An executed item has its audit row, and a second one takes two stalls.
THEOREM AuditsAreOnce == Spec => []ItemsAreAuditedOnce
<1>1. IInv => ItemsAreAuditedOnce
  <2> SUFFICES ASSUME IInv, NEW i \in Items
               PROVE  2 * (audits[i] - 1) <= mishaps.stalls
    BY DEF ItemsAreAuditedOnce, IInv, ToldInv, AuditedAsStored
  <2>1. IF Open
        THEN audits[i] = IF items[i] = "executed" THEN 1 ELSE 0
        ELSE 2 * (audits[i] - 1) + (IF items[i] = "executed" THEN 0 ELSE 1)
                + Cardinality(Unspent(i)) <= mishaps.stalls
    BY DEF IInv, CountsInv, AuditsArePaidFor, AuditPaid
  <2>2. Cardinality(Unspent(i)) \in Nat
    BY Counted DEF IInv
  <2> QED BY <2>1, <2>2, Numbers DEF IInv
<1> QED
  BY <1>1, SpecKeepsIInv, PTL

\* A plan that was claimed is never revised: ReviseAIActionPlan takes an answer
\* only while no confirmation can be at work.
THEOREM ConfirmedIsRun == Spec => []RunsWhatWasConfirmed
<1>1. IInv => RunsWhatWasConfirmed
  BY DEF IInv
<1> QED
  BY <1>1, SpecKeepsIInv, PTL

=============================================================================
