--------------------------- MODULE HubScreenProofs ---------------------------
(***************************************************************************)
(* Proofs about a loader of the hub, for any number of changes, days, shops *)
(* and switches between them: its numbers are the shop's whose name is     *)
(* over them, never go back, and follow every change the hub is told of.   *)
(***************************************************************************)
EXTENDS HubScreen, TLAPS

USE HubScreenAssumption

Numbers == ver \in Versions /\ day \in Days /\ clockDay \in Days /\ owed \in Versions
Places == shop \in Shops /\ scopeRef \in Shops

\* What the store holds is of the shop s and no newer than n.
SlotOf(e, s, n) ==
    /\ e \in Entry /\ e.value.ver <= n
    /\ e.value # NoValue => e.value.shop = s

\* A request q of the scope in force; once the shop has settled as s, it is
\* that shop's, and an answer is no older than v.
RequestOf(q, s, scope, v, n) ==
    q # NoRequest =>
        /\ q \in Request /\ q.scope = scope /\ q.value.ver <= n
        /\ s = scope => /\ q.value.shop = s
                        /\ q.at = "answered" => v <= q.value.ver

Kept ==
    /\ Numbers /\ Places
    /\ rt \in Runtime
    /\ SlotOf(entry, shop, ver)
    /\ RequestOf(rt.request, shop, scopeRef, entry.value.ver, ver)

-----------------------------------------------------------------------------
(* Asking *)

LEMMA NoRequestIsNone == NoRequest \notin Request
BY DEF NoRequest, Request

LEMMA FreshRuntimeTyped == FreshRuntime \in Runtime /\ FreshRuntime.request = NoRequest
BY DEF FreshRuntime, Runtime, Days

\* A request that goes out has nothing to show yet.
LEMMA RunKept ==
    ASSUME NEW r \in Runtime, NEW s \in Shops, NEW scope \in Shops, Numbers, Places,
           NEW v, shop = scope => s = shop
    PROVE  /\ Run(r, s, scope) \in Runtime
           /\ RequestOf(Run(r, s, scope).request, shop, scope, v, ver)
<1> DEFINE q == [at |-> "asked", value |-> [shop |-> s, ver |-> 0],
                 scope |-> scope, day |-> day, stay |-> TRUE]
<1>1. q \in Request
  BY DEF Numbers, Versions, Value, Request
<1>2. RequestOf(q, shop, scope, v, ver)
  BY <1>1 DEF RequestOf, Numbers, Versions
<1> HIDE DEF q
<1>3. Run(r, s, scope) = [r EXCEPT !.gap = TRUE, !.request = q]
  BY DEF Run, q
<1> QED
  BY <1>1, <1>2, <1>3 DEF Runtime

LEMMA AskKept ==
    ASSUME NEW r \in Runtime, NEW m, NEW f, NEW a \in BOOLEAN, Ask(r, m, f, a),
           Numbers, Places, NEW v, RequestOf(r.request, shop, scopeRef, v, ver)
    PROVE  /\ rt' \in Runtime
           /\ RequestOf(rt'.request, shop, scopeRef, v, ver)
<1>1. CASE rt' = r
  BY <1>1
<1>2. CASE rt' = [r EXCEPT !.trailing = @ \/ a]
  <2>1. (r.trailing \/ a) \in BOOLEAN
    BY DEF Runtime
  <2> QED
    BY <1>2, <2>1 DEF Runtime
<1>3. CASE rt' = [r EXCEPT !.timer = TRUE]
  BY <1>3 DEF Runtime
<1>4. CASE \E s \in {shop, scopeRef} : rt' = Run(r, s, scopeRef)
  BY <1>4, RunKept DEF Places
<1> QED
  BY <1>1, <1>2, <1>3, <1>4 DEF Ask

\* The finally block asks again at most.
LEMMA FinallyKept ==
    ASSUME NEW r \in Runtime, Finally(r), Numbers, Places, NEW v
    PROVE  /\ rt' \in Runtime
           /\ RequestOf(rt'.request, shop, scopeRef, v, ver)
<1> DEFINE done == [r EXCEPT !.request = NoRequest, !.trailing = FALSE]
<1>1. done \in Runtime /\ done.request = NoRequest
  BY DEF Runtime
<1>2. RequestOf(done.request, shop, scopeRef, v, ver)
  BY <1>1 DEF RequestOf
<1>3. rt' = done \/ Ask(done, "none", FALSE, TRUE)
  BY DEF Finally
<1> HIDE DEF done
<1> QED
  BY <1>1, <1>2, <1>3, AskKept

-----------------------------------------------------------------------------
(* Steps *)

\* A runtime that changes in other things than its request.
LEMMA SameRequest ==
    ASSUME Kept, rt' \in Runtime, rt'.request = rt.request,
           UNCHANGED <<ver, day, clockDay, owed, store>>
    PROVE  Kept'
BY DEF Kept, Numbers, Places, SlotOf, RequestOf, store

\* A load asked for in a step that leaves the store alone.
LEMMA AskedKept ==
    ASSUME Kept, NEW r \in Runtime, r.request = rt.request, NEW m, NEW f, NEW a \in BOOLEAN,
           Ask(r, m, f, a), UNCHANGED <<ver, day, store>>,
           owed' \in {owed, ver}, clockDay' \in {clockDay, day}
    PROVE  Kept'
<1>1. rt' \in Runtime /\ RequestOf(rt'.request, shop, scopeRef, entry.value.ver, ver)
  BY AskKept DEF Kept
<1> QED
  BY <1>1 DEF Kept, Numbers, Places, SlotOf, RequestOf, store

LEMMA FocusAsksKept ==
    ASSUME Kept, NEW f, FocusAsks(rt, f), UNCHANGED <<ver, day, store>>,
           owed' \in {owed, ver}, clockDay' \in {clockDay, day}
    PROVE  Kept'
<1> DEFINE missed == key \in Light /\ blurred /\ rt.from # "stay"
<1>1. Ask(rt, IF missed THEN "zero" ELSE "own", f, missed)
  BY DEF FocusAsks
<1>2. missed \in BOOLEAN
  OBVIOUS
<1> HIDE DEF missed
<1> QED
  BY <1>1, <1>2, AskedKept DEF Kept

LEMMA InitKept == Init => Kept
<1> SUFFICES ASSUME Init PROVE Kept
  OBVIOUS
<1>1. FirstShop \in Shops
  BY DEF FirstShop
<1>2. NoEntry("loading") \in Entry /\ NoEntry("loading").value = NoValue
  BY DEF NoEntry, Entry, Days
<1> QED
  BY <1>1, <1>2, FreshRuntimeTyped DEF Init, Kept, Numbers, Places, SlotOf, RequestOf,
     Versions, Days, NoValue

LEMMA StepKept ==
    ASSUME Kept, [Next]_vars
    PROVE  Kept'
<1>0. /\ Numbers /\ Places /\ rt \in Runtime /\ SlotOf(entry, shop, ver)
      /\ RequestOf(rt.request, shop, scopeRef, entry.value.ver, ver)
      /\ entry.value.ver \in Nat
  BY DEF Kept, SlotOf, Entry, Value, NoValue, Versions
<1>1. CASE Focus
  <2>1. UNCHANGED <<ver, day, store>> /\ owed' \in {owed, ver} /\ clockDay' = day
    BY <1>1 DEF Focus, FocusFrom
  <2>2. FocusAsks(rt, forced) \/ rt' = rt
    BY <1>1 DEF Focus, FocusFrom
  <2>3. CASE FocusAsks(rt, forced)
    BY <2>1, <2>3, FocusAsksKept
  <2>4. CASE rt' = rt
    BY <1>0, <2>1, <2>4 DEF Kept, Numbers, Places, SlotOf, RequestOf, store
  <2> QED
    BY <2>2, <2>3, <2>4
<1>2. CASE HeavyLoads
  <2>1. FocusAsks(rt, heavyDue = "forced") /\ UNCHANGED <<ver, day, clockDay, owed, store>>
    BY <1>2 DEF HeavyLoads
  <2> QED
    BY <1>0, <2>1, FocusAsksKept
<1>3. CASE Blur
  <2>1. rt' \in Runtime
    <3>1. Busy(rt) => [rt.request EXCEPT !.stay = FALSE] \in Request
      BY <1>0 DEF Busy, RequestOf, Request
    <3>2. ClearTrailing(rt) \in Runtime /\ ClearTrailing(rt).request = rt.request
      BY <1>0 DEF ClearTrailing, Runtime
    <3> QED
      BY <1>0, <1>3, <3>1, <3>2 DEF Blur, Left, Busy, Runtime
  <2>2. \/ rt'.request = NoRequest
        \/ Busy(rt) /\ rt'.request = [rt.request EXCEPT !.stay = FALSE]
    <3>1. ClearTrailing(rt) \in Runtime /\ ClearTrailing(rt).request = rt.request
      BY <1>0 DEF ClearTrailing, Runtime
    <3>2. rt'.request = IF Busy(rt) THEN [ClearTrailing(rt).request EXCEPT !.stay = FALSE]
                        ELSE ClearTrailing(rt).request
      BY <1>3, <3>1 DEF Blur, Left, Runtime
    <3> QED
      BY <3>1, <3>2 DEF Busy
  <2>3. UNCHANGED <<ver, day, clockDay, owed, store>>
    BY <1>3 DEF Blur
  <2>4. RequestOf(rt'.request, shop, scopeRef, entry.value.ver, ver)
    BY <1>0, <2>2 DEF RequestOf, Request, Busy
  <2> QED
    BY <1>0, <2>1, <2>3, <2>4 DEF Kept, Numbers, Places, SlotOf, RequestOf, store
<1>4. CASE NoteOpened
  BY <1>0, <1>4, SameRequest DEF NoteOpened, store
<1>5. CASE OrderEvents
  <2>1. Ask(rt, "none", FALSE, TRUE) /\ UNCHANGED <<ver, day, screen, store>> /\ owed' = ver
    BY <1>5 DEF OrderEvents
  <2> QED
    BY <1>0, <2>1, AskedKept DEF screen
<1>6. CASE Tick
  <2>1. /\ UNCHANGED <<ver, day, store, owed>> /\ clockDay' = day
        /\ Ask(rt, "none", TRUE, FALSE) \/ rt' = rt
    BY <1>6 DEF Tick
  <2>2. CASE rt' = rt
    BY <1>0, <2>1, <2>2 DEF Kept, Numbers, Places, SlotOf, RequestOf, store
  <2> QED
    BY <1>0, <2>1, <2>2, AskedKept
<1>7. CASE Poll
  <2>1. Ask(rt, "none", FALSE, FALSE) /\ UNCHANGED <<ver, day, screen, store, owed>>
    BY <1>7 DEF Poll
  <2> QED
    BY <1>0, <2>1, AskedKept DEF screen
<1>8. CASE Retry
  <2>1. /\ Ask(rt, "none", TRUE, FALSE)
        /\ UNCHANGED <<ver, day, screen, shop, scopeRef, orphans, switches, owed>>
        /\ entry' \in {entry, NoEntry("loading")}
    BY <1>8 DEF Retry
  <2>2. NoEntry("loading") \in Entry /\ NoEntry("loading").value = NoValue
    BY DEF NoEntry, Entry, Days
  <2>3. SlotOf(entry', shop, ver)
    BY <1>0, <2>1, <2>2 DEF SlotOf, NoValue, Numbers, Versions
  <2>4. RequestOf(rt.request, shop, scopeRef, entry'.value.ver, ver)
    BY <1>0, <2>1, <2>2 DEF RequestOf, NoValue, Request, Value, Versions
  <2>5. rt' \in Runtime /\ RequestOf(rt'.request, shop, scopeRef, entry'.value.ver, ver)
    BY <1>0, <2>1, <2>4, AskKept
  <2> QED
    BY <1>0, <2>1, <2>3, <2>5 DEF Kept, Numbers, Places, SlotOf, RequestOf, screen
<1>9. CASE TimerFires
  <2>1. /\ Ask([rt EXCEPT !.timer = FALSE], "none", FALSE, TRUE)
        /\ UNCHANGED <<ver, day, screen, store, owed>>
    BY <1>9 DEF TimerFires
  <2>2. [rt EXCEPT !.timer = FALSE] \in Runtime /\ [rt EXCEPT !.timer = FALSE].request = rt.request
    BY <1>0 DEF Runtime
  <2> QED
    BY <1>0, <2>1, <2>2, AskedKept DEF screen
<1>10. CASE ServerReads
  <2> DEFINE q == [rt.request EXCEPT !.at = "answered", !.value.ver = ver]
  <2>1. rt.request.at = "asked" /\ rt' = [rt EXCEPT !.request = q]
    BY <1>0, <1>10 DEF ServerReads, Runtime
  <2>2. rt.request # NoRequest /\ rt.request \in Request
    BY <1>0, <2>1 DEF NoRequest, RequestOf
  <2>3. /\ q \in Request /\ q.scope = rt.request.scope /\ q.value.ver = ver
        /\ q.value.shop = rt.request.value.shop
    BY <1>0, <2>2 DEF Request, Value, Numbers
  <2> HIDE DEF q
  <2>4. rt' \in Runtime /\ rt'.request = q
    BY <1>0, <2>1, <2>3 DEF Runtime
  <2>5. RequestOf(q, shop, scopeRef, entry.value.ver, ver)
    BY <1>0, <2>2, <2>3 DEF RequestOf, SlotOf, Numbers, Versions
  <2>6. UNCHANGED <<ver, day, clockDay, owed, store>>
    BY <1>10 DEF ServerReads, screen
  <2> QED
    BY <1>0, <2>4, <2>5, <2>6 DEF Kept, Numbers, Places, SlotOf, RequestOf, store
<1>11. CASE Hangs
  <2> DEFINE q == [rt.request EXCEPT !.at = "lost"]
  <2>1. rt.request.at = "asked" /\ rt' = [rt EXCEPT !.request = q]
    BY <1>0, <1>11 DEF Hangs, Runtime
  <2>2. rt.request # NoRequest /\ rt.request \in Request
    BY <1>0, <2>1 DEF NoRequest, RequestOf
  <2>3. /\ q \in Request /\ q.scope = rt.request.scope /\ q.value = rt.request.value
        /\ q.at = "lost"
    BY <1>0, <2>2 DEF Request
  <2> HIDE DEF q
  <2>4. rt' \in Runtime /\ rt'.request = q
    BY <1>0, <2>1, <2>3 DEF Runtime
  <2>5. RequestOf(q, shop, scopeRef, entry.value.ver, ver)
    BY <1>0, <2>2, <2>3 DEF RequestOf
  <2>6. UNCHANGED <<ver, day, clockDay, owed, store>>
    BY <1>11 DEF Hangs, screen
  <2> QED
    BY <1>0, <2>4, <2>5, <2>6 DEF Kept, Numbers, Places, SlotOf, RequestOf, store
<1>12. CASE Land
  <2> DEFINE q == rt.request
             r == [rt EXCEPT !.from = IF q.stay THEN "stay" ELSE "earlier",
                             !.fromDay = q.day, !.young = TRUE]
  <2>1. /\ q.at = "answered" /\ Shown(q) /\ Finally(r)
        /\ owed' \in {owed, 0}
        /\ UNCHANGED <<ver, day, clockDay, shop, scopeRef>>
    BY <1>12 DEF Land, screen
  <2>2. /\ q \in Request /\ q.scope = scopeRef /\ q.value.ver <= ver
        /\ shop = scopeRef => q.value.shop = shop
    BY <1>0, <2>1 DEF NoRequest, RequestOf
  <2>3. r \in Runtime
    BY <1>0, <2>2 DEF Runtime, Request
  <2>4. SlotOf(entry', shop, ver)
    BY <1>0, <2>1, <2>2 DEF Shown, SlotOf, Entry, Request
  <2> HIDE DEF q, r
  <2>5. rt' \in Runtime /\ RequestOf(rt'.request, shop, scopeRef, entry'.value.ver, ver)
    BY <1>0, <2>1, <2>3, FinallyKept
  <2> QED
    BY <1>0, <2>1, <2>4, <2>5 DEF Kept, Numbers, Places, SlotOf, RequestOf, Versions
<1>13. CASE Fail
  <2>1. /\ entry' \in {entry, NoEntry("error")} /\ Finally(rt)
        /\ owed' \in {owed, 0} /\ UNCHANGED <<ver, day, clockDay, shop, scopeRef>>
    BY <1>13 DEF Fail, screen
  <2>2. NoEntry("error") \in Entry /\ NoEntry("error").value = NoValue
    BY DEF NoEntry, Entry, Days
  <2>3. SlotOf(entry', shop, ver)
    BY <1>0, <2>1, <2>2 DEF SlotOf, NoValue, Numbers, Versions
  <2>4. rt' \in Runtime /\ RequestOf(rt'.request, shop, scopeRef, entry'.value.ver, ver)
    BY <1>0, <2>1, FinallyKept
  <2> QED
    BY <1>0, <2>1, <2>3, <2>4 DEF Kept, Numbers, Places, SlotOf, RequestOf, Versions
<1>14. ASSUME NEW q \in orphans, OrphanLands(q) PROVE Kept'
  BY <1>0, <1>14 DEF OrphanLands, screen, Kept, Numbers, Places, SlotOf, RequestOf
<1>15. ASSUME NEW s \in Shops, Switch(s) PROVE Kept'
  <2>1. /\ shop = scopeRef /\ shop' = s /\ s # shop /\ owed' = 0
        /\ entry' = NoEntry("loading")
        /\ UNCHANGED <<ver, day, clockDay, rt, scopeRef>>
    BY <1>15 DEF Switch, Settled, screen
  <2>2. NoEntry("loading") \in Entry /\ NoEntry("loading").value = NoValue
    BY DEF NoEntry, Entry, Days
  <2>3. SlotOf(entry', s, ver)
    BY <1>0, <2>1, <2>2 DEF SlotOf, NoValue, Numbers, Versions
  <2>4. RequestOf(rt.request, s, scopeRef, entry'.value.ver, ver)
    BY <1>0, <2>1 DEF RequestOf
  <2> QED
    BY <1>0, <2>1, <2>3, <2>4 DEF Kept, Numbers, Places, SlotOf, RequestOf, Versions
<1>16. CASE Effects
  <2>1. /\ scopeRef' = shop /\ owed' \in {owed, ver} /\ clockDay' \in {clockDay, day}
        /\ UNCHANGED <<ver, day, shop, entry>>
        /\ rt' \in {FreshRuntime, Run(FreshRuntime, shop, shop)}
    BY <1>16 DEF Effects
  <2>2. rt' \in Runtime /\ RequestOf(rt'.request, shop, shop, entry.value.ver, ver)
    BY <1>0, <2>1, FreshRuntimeTyped, RunKept DEF RequestOf, Places
  <2> QED
    BY <1>0, <2>1, <2>2 DEF Kept, Numbers, Places, SlotOf, RequestOf
<1>17. CASE Ages \/ GapOver
  <2>1. rt' \in Runtime /\ rt'.request = rt.request
    BY <1>0, <1>17 DEF Ages, GapOver, Runtime
  <2> QED
    BY <1>17, <2>1, SameRequest DEF Ages, GapOver, screen
<1>18. CASE Midnight
  <2>1. day' \in Days /\ UNCHANGED <<ver, clockDay, owed, rt, store>>
    BY <1>0, <1>18 DEF Midnight, Numbers, Days, screen
  <2> QED
    BY <1>0, <2>1 DEF Kept, Numbers, Places, SlotOf, RequestOf, store
<1>19. CASE Change
  <2>1. /\ ver' \in Versions /\ ver' = ver + 1 /\ UNCHANGED <<day, clockDay, owed, rt, store>>
    BY <1>0, <1>19 DEF Change, Numbers, Versions, screen
  <2>2. ver \in Nat /\ rt.request \in Request => rt.request.value.ver \in Nat
    BY <1>0 DEF Numbers, Versions, Request, Value
  <2> QED
    BY <1>0, <2>1, <2>2 DEF Kept, Numbers, Places, SlotOf, RequestOf, store
<1>20. CASE UNCHANGED vars
  BY <1>0, <1>20, SameRequest DEF vars, screen, store
<1> QED
  BY <1>1, <1>2, <1>3, <1>4, <1>5, <1>6, <1>7, <1>8, <1>9, <1>10, <1>11, <1>12, <1>13,
     <1>14, <1>15, <1>16, <1>17, <1>18, <1>19, <1>20 DEF Next

\* Only an answer that counts replaces a value by another.
LEMMA StepOnward ==
    ASSUME Kept, [Next]_vars
    PROVE  \/ entry'.value = NoValue \/ entry.value = NoValue
           \/ entry'.value.ver >= entry.value.ver
<1>0. entry.value.ver \in Nat
  BY DEF Kept, SlotOf, Entry, Value, NoValue, Versions
<1>1. CASE Land
  <2> DEFINE q == rt.request
  <2>1. q.at = "answered" /\ Shown(q)
    BY <1>1 DEF Land
  <2>2. q.scope = scopeRef /\ (shop = scopeRef => entry.value.ver <= q.value.ver)
    BY <2>1 DEF Kept, RequestOf, NoRequest
  <2>3. q \in Request
    BY <2>1 DEF Kept, RequestOf, NoRequest
  <2> QED
    BY <1>0, <2>1, <2>2, <2>3 DEF Shown, Request, Value, Versions
<1>2. CASE Retry \/ Fail \/ \E s \in Shops : Switch(s)
  <2>1. entry' = entry \/ \E status \in {"loading", "error"} : entry' = NoEntry(status)
    BY <1>2 DEF Retry, Fail, Switch
  <2> QED
    BY <1>0, <2>1 DEF NoEntry
<1>3. CASE \/ Focus \/ HeavyLoads \/ Blur \/ NoteOpened \/ OrderEvents \/ Tick \/ Poll
           \/ TimerFires \/ ServerReads \/ Hangs \/ (\E q \in orphans : OrphanLands(q))
           \/ Effects \/ Ages \/ GapOver \/ Midnight \/ Change \/ UNCHANGED vars
  <2>1. entry' = entry
    BY <1>3 DEF Focus, HeavyLoads, Blur, NoteOpened, OrderEvents, Tick, Poll, TimerFires,
       ServerReads, Hangs, OrphanLands, Effects, Ages, GapOver, Midnight, Change, vars, store
  <2> QED
    BY <1>0, <2>1
<1> QED
  BY <1>1, <1>2, <1>3 DEF Next

-----------------------------------------------------------------------------
(* Theorems *)

LEMMA KeptAlways == Spec => []Kept
BY InitKept, StepKept, PTL DEF Spec

\* A slot shows the shop whose name is over it, whatever was in flight when the
\* person changed shops (scopeAtStart).
THEOREM NumbersStayWithTheirShop == Spec => []NumbersAreThisShops
<1>1. Kept => NumbersAreThisShops
  BY DEF Kept, SlotOf, NumbersAreThisShops
<1> QED
  BY <1>1, KeptAlways, PTL

\* One request at a time, and none of an earlier generation: a slot never goes
\* back to an older answer.
THEOREM NumbersOnlyMoveOn == Spec => NumbersNeverGoBack
<1>1. Kept /\ [Next]_vars =>
          [\/ entry'.value = NoValue \/ entry.value = NoValue
           \/ entry'.value.ver >= entry.value.ver]_vars
  BY StepOnward
<1> QED
  BY <1>1, KeptAlways, PTL DEF Spec, NumbersNeverGoBack

-----------------------------------------------------------------------------
(* What the hub was told of comes back *)

\* A covered hub asks for nothing, and holds nothing of this stay.
Quiet(r) == ~r.trailing /\ ~r.timer /\ r.from # "stay" /\ (Busy(r) => ~r.request.stay)

\* A covered hub is quiet, and one that was never in front has asked for nothing.
Covered ==
    /\ owed <= ver
    /\ entry.status = "error" => entry.value = NoValue
    /\ key \in Light => heavyDue = "no"
    /\ ~focused => Quiet(rt)
    /\ ~focused /\ ~blurred => rt = FreshRuntime

\* ComesBackWith, of any runtime.
Coming(r, v) ==
    \/ r.request.at \in {"asked", "lost"}
    \/ r.request.at = "answered" /\ r.request.value.ver >= v
    \/ r.trailing \/ r.timer

\* The hub was told of a version its slot does not show, be it empty.
Due == key \in Light /\ focused /\ owed > 0
       /\ (entry.value = NoValue \/ entry.value.ver < owed)
Told == Due => Coming(rt, owed)

ToldInv == Kept /\ Covered /\ Told

LEMMA BusyIsAsked ==
    ASSUME NEW r \in Runtime
    PROVE  /\ Busy(r) <=> r.request \in Request
           /\ r.request.at \in {"asked", "answered", "lost"} <=> Busy(r)
BY NoRequestIsNone DEF Runtime, Busy, Request, NoRequest

LEMMA RunComes ==
    ASSUME NEW r \in Runtime, NEW s, NEW scope, NEW v
    PROVE  Coming(Run(r, s, scope), v)
<1>1. Run(r, s, scope).request =
          [at |-> "asked", value |-> [shop |-> s, ver |-> 0],
           scope |-> scope, day |-> day, stay |-> TRUE]
  BY DEF Run, Runtime
<1> QED
  BY <1>1 DEF Coming

\* Asking again takes nothing back that is on its way.
LEMMA AskKeepsComing ==
    ASSUME NEW r \in Runtime, NEW m, NEW f, NEW a \in BOOLEAN, Ask(r, m, f, a),
           NEW v, Coming(r, v)
    PROVE  Coming(rt', v)
<1>1. CASE rt' = r
  BY <1>1
<1>2. CASE rt' = [r EXCEPT !.trailing = @ \/ a]
  <2>1. rt'.request = r.request /\ rt'.timer = r.timer /\ (r.trailing => rt'.trailing)
    BY <1>2 DEF Runtime
  <2> QED
    BY <2>1 DEF Coming
<1>3. CASE rt' = [r EXCEPT !.timer = TRUE]
  BY <1>3 DEF Runtime, Coming
<1>4. CASE \E s \in {shop, scopeRef} : rt' = Run(r, s, scopeRef)
  BY <1>4, RunComes
<1> QED
  BY <1>1, <1>2, <1>3, <1>4 DEF Ask

\* A load asked for after a change, or with none under way, is not skipped
\* unless the value is young enough for who asks.
LEMMA AskComes ==
    ASSUME NEW r \in Runtime, NEW m, NEW f, NEW a \in BOOLEAN, Ask(r, m, f, a),
           f \/ m # "own" \/ ~r.young, a \/ ~Busy(r), NEW v
    PROVE  Coming(rt', v)
<1>1. CASE Busy(r) /\ a /\ rt' = [r EXCEPT !.trailing = @ \/ a]
  BY <1>1 DEF Runtime, Coming
<1>2. CASE rt' = [r EXCEPT !.timer = TRUE]
  BY <1>2 DEF Runtime, Coming
<1>3. CASE \E s \in {shop, scopeRef} : rt' = Run(r, s, scopeRef)
  BY <1>3, RunComes
<1> QED
  BY <1>1, <1>2, <1>3 DEF Ask

\* So does the finally block, when a change came meanwhile or a timer waits.
LEMMA FinallyComes ==
    ASSUME NEW r \in Runtime, focused, r.trailing \/ r.timer, Finally(r), NEW v
    PROVE  Coming(rt', v)
<1> DEFINE done == [r EXCEPT !.request = NoRequest, !.trailing = FALSE]
<1>1. done \in Runtime /\ ~Busy(done) /\ done.timer = r.timer
  BY DEF Runtime, Busy
<1>2. IF r.trailing THEN Ask(done, "none", FALSE, TRUE) ELSE rt' = done
  BY DEF Finally
<1> HIDE DEF done
<1>3. CASE r.trailing
  BY <1>1, <1>2, <1>3, AskComes
<1>4. CASE ~r.trailing
  BY <1>1, <1>2, <1>4 DEF Coming
<1> QED
  BY <1>3, <1>4

\* What the finally block leaves of a covered hub's runtime.
LEMMA FinallyIsQuiet ==
    ASSUME NEW r \in Runtime, ~focused, ~r.trailing, ~r.timer, r.from # "stay", Finally(r)
    PROVE  Quiet(rt')
<1> DEFINE done == [r EXCEPT !.request = NoRequest, !.trailing = FALSE]
<1>1. rt' = done
  BY DEF Finally
<1> QED
  BY <1>1 DEF Quiet, Busy, Runtime

LEMMA FreshIsQuiet == Quiet(FreshRuntime) /\ ~Busy(FreshRuntime)
BY DEF Quiet, FreshRuntime, Busy

LEMMA LeftIsQuiet ==
    ASSUME NEW r \in Runtime
    PROVE  Quiet(Left(r))
<1> DEFINE c == ClearTrailing(r)
           l == Left(r)
<1>1. /\ c \in Runtime /\ c.request = r.request /\ c.from = r.from
      /\ c.trailing = FALSE /\ c.timer = FALSE
  BY DEF ClearTrailing, Runtime
<1>2. /\ l.trailing = FALSE /\ l.timer = FALSE
      /\ l.from = (IF c.from = "stay" THEN "earlier" ELSE c.from)
      /\ l.request = (IF Busy(r) THEN [c.request EXCEPT !.stay = FALSE] ELSE c.request)
  <2> HIDE DEF c
  <2>1. l = [c EXCEPT !.from = IF @ = "stay" THEN "earlier" ELSE @,
                      !.request = IF Busy(r) THEN [@ EXCEPT !.stay = FALSE] ELSE @]
    BY DEF Left, c
  <2> HIDE DEF l
  <2> QED
    BY <1>1, <2>1 DEF Runtime
<1>3. Busy(r) => r.request \in Request
  BY BusyIsAsked
<1> HIDE DEF c, l
<1>4. Busy(r) => l.request.stay = FALSE
  BY <1>1, <1>2, <1>3 DEF Request
<1>5. ~Busy(r) => ~Busy(l)
  BY <1>1, <1>2 DEF Busy
<1> QED
  BY <1>2, <1>4, <1>5 DEF Quiet, l

\* A step that keeps the hub in front, its slot and what it was told.
LEMMA InFrontIsKept ==
    ASSUME Covered, Told, focused, focused' = TRUE, heavyDue' \in {heavyDue, "no"},
           UNCHANGED <<key, ver, owed, entry>>,
           Coming(rt, owed) => Coming(rt', owed)
    PROVE  Covered' /\ Told'
<1>1. Covered'
  BY DEF Covered
<1>2. Told'
  BY DEF Told, Due, Coming
<1> QED
  BY <1>1, <1>2

\* A step that leaves the screen and what may be asked for.
LEMMA RuntimeIsKept ==
    ASSUME Covered, Told, UNCHANGED <<key, ver, owed, entry, focused, blurred, heavyDue>>,
           ~focused => Quiet(rt'), ~focused /\ ~blurred => rt' = FreshRuntime,
           Coming(rt, owed) => Coming(rt', owed)
    PROVE  Covered' /\ Told'
<1>1. Covered'
  BY DEF Covered
<1>2. Told'
  BY DEF Told, Due, Coming
<1> QED
  BY <1>1, <1>2

LEMMA FocusTold ==
    ASSUME ToldInv, Focus
    PROVE  Covered' /\ Told'
<1>1. /\ Covered /\ rt \in Runtime /\ ver \in Nat
      /\ ~focused /\ focused' = TRUE /\ UNCHANGED <<key, ver, entry>>
  BY DEF ToldInv, Kept, Numbers, Versions, Focus, FocusFrom, store
<1>2. CASE key \in Light
  <2>1. FocusAsks(rt, forced) /\ owed' = ver /\ heavyDue' = "no"
    BY <1>2 DEF Focus, FocusFrom
  <2>2. Coming(rt', ver)
    <3>1. CASE blurred
      <4>1. rt.from # "stay"
        BY <1>1 DEF Covered, Quiet
      <4>2. Ask(rt, "zero", forced, TRUE)
        BY <1>2, <2>1, <3>1, <4>1 DEF FocusAsks
      <4> QED
        BY <1>1, <4>2, AskComes
    <3>2. CASE ~blurred
      <4>1. rt = FreshRuntime
        BY <1>1, <3>2 DEF Covered
      <4>2. ~rt.young /\ ~Busy(rt)
        BY <4>1 DEF FreshRuntime, Busy
      <4>3. Ask(rt, "own", forced, FALSE)
        BY <1>2, <2>1, <3>2 DEF FocusAsks
      <4> QED
        BY <1>1, <4>2, <4>3, AskComes
    <3> QED
      BY <3>1, <3>2
  <2>3. Told'
    BY <1>1, <2>1, <2>2 DEF Told, Coming
  <2> QED
    BY <1>1, <2>1, <2>3 DEF Covered
<1>3. CASE key \notin Light
  <2>1. owed' \in {owed, ver}
    BY <1>3 DEF Focus, FocusFrom
  <2> QED
    BY <1>1, <1>3, <2>1 DEF Covered, Told, Due
<1> QED
  BY <1>2, <1>3

LEMMA LandTold ==
    ASSUME ToldInv, Land
    PROVE  Covered' /\ Told'
<1> DEFINE q == rt.request
           r == [rt EXCEPT !.from = IF q.stay THEN "stay" ELSE "earlier",
                           !.fromDay = q.day, !.young = TRUE]
<1>1. /\ Covered /\ Told /\ rt \in Runtime /\ owed \in Nat /\ ver \in Nat
      /\ SlotOf(entry, shop, ver)
      /\ RequestOf(q, shop, scopeRef, entry.value.ver, ver)
  BY DEF ToldInv, Kept, Numbers, Versions
<1>2. /\ q.at = "answered" /\ Shown(q) /\ Finally(r)
      /\ owed' = (IF q.value.ver >= owed THEN 0 ELSE owed)
      /\ UNCHANGED <<key, ver, focused, blurred, heavyDue>>
  BY DEF Land, screen
<1>3. q \in Request /\ q.scope = scopeRef /\ Busy(rt)
  BY <1>1, <1>2, BusyIsAsked DEF RequestOf, Busy
<1>4. r \in Runtime /\ r.trailing = rt.trailing /\ r.timer = rt.timer
      /\ r.from = (IF q.stay THEN "stay" ELSE "earlier")
  BY <1>1, <1>3 DEF Runtime, Request
<1>5. q.value.ver \in Nat /\ entry.value.ver \in Nat
  BY <1>1, <1>3 DEF Request, Value, Versions, SlotOf, Entry, NoValue
<1> HIDE DEF r
<1>6. entry'.status = "error" => entry'.value = NoValue
  BY <1>1, <1>2 DEF Covered, Shown
<1>7. ~focused => Quiet(rt')
  BY <1>1, <1>2, <1>3, <1>4, FinallyIsQuiet DEF Covered, Quiet
<1>8. focused \/ blurred
  BY <1>1, <1>3, FreshIsQuiet DEF Covered
<1>9. Covered'
  BY <1>1, <1>2, <1>6, <1>7, <1>8 DEF Covered
<1>10. ASSUME Due'
       PROVE  Coming(rt', owed')
  <2>1. owed' = owed /\ q.value.ver < owed /\ key \in Light /\ focused /\ owed > 0
    BY <1>1, <1>2, <1>5, <1>10 DEF Due
  <2>2. Due
    <3>1. CASE q.scope = shop
      BY <1>1, <1>2, <1>3, <1>5, <2>1, <3>1 DEF RequestOf, Due, NoRequest
    <3>2. CASE q.scope # shop
      BY <1>2, <1>10, <2>1, <3>2 DEF Shown, Due
    <3> QED
      BY <3>1, <3>2
  <2>3. rt.trailing \/ rt.timer
    BY <1>1, <1>2, <1>5, <2>1, <2>2 DEF Told, Coming
  <2> QED
    BY <1>2, <1>4, <2>1, <2>3, FinallyComes
<1> QED
  BY <1>9, <1>10 DEF Told, Coming

LEMMA FailTold ==
    ASSUME ToldInv, Fail
    PROVE  Covered' /\ Told'
<1>1. /\ Covered /\ Told /\ rt \in Runtime /\ owed \in Nat /\ ver \in Nat
  BY DEF ToldInv, Kept, Numbers, Versions
<1>2. /\ Busy(rt) /\ Finally(rt) /\ entry' \in {entry, NoEntry("error")}
      /\ owed' = (IF rt.trailing \/ rt.timer THEN owed ELSE 0)
      /\ UNCHANGED <<key, ver, focused, blurred, heavyDue>>
  BY DEF Fail, screen
<1>3. entry'.status = "error" => entry'.value = NoValue
  BY <1>1, <1>2 DEF Covered, NoEntry
<1>4. ~focused => Quiet(rt')
  BY <1>1, <1>2, FinallyIsQuiet DEF Covered, Quiet
<1>5. focused \/ blurred
  BY <1>1, <1>2, FreshIsQuiet DEF Covered
<1>6. Covered'
  BY <1>1, <1>2, <1>3, <1>4, <1>5 DEF Covered
<1>7. ASSUME Due'
      PROVE  Coming(rt', owed')
  <2>1. focused /\ (rt.trailing \/ rt.timer)
    BY <1>2, <1>7 DEF Due
  <2> QED
    BY <1>1, <1>2, <2>1, FinallyComes
<1> QED
  BY <1>6, <1>7 DEF Told, Coming

LEMMA EffectsTold ==
    ASSUME ToldInv, Effects
    PROVE  Covered' /\ Told'
<1>1. Covered /\ Told /\ ver \in Nat /\ owed \in Nat
  BY DEF ToldInv, Kept, Numbers, Versions
<1>2. UNCHANGED <<key, ver, entry>> /\ owed' \in {owed, ver}
  BY DEF Effects
<1>3. CASE focused
  <2>1. focused' = TRUE
    BY <1>3 DEF Effects
  <2>2. CASE key \in Light
    <3>1. rt' = Run(FreshRuntime, shop, shop) /\ heavyDue' = "no"
      BY <1>3, <2>2 DEF Effects
    <3>2. Coming(rt', owed')
      BY <3>1, FreshRuntimeTyped, RunComes
    <3> QED
      BY <1>1, <1>2, <2>1, <3>1, <3>2 DEF Covered, Told, Coming
  <2>3. CASE key \notin Light
    BY <1>1, <1>2, <2>1, <2>3 DEF Covered, Told, Due
  <2> QED
    BY <2>2, <2>3
<1>4. CASE ~focused
  <2>1. rt' = FreshRuntime /\ UNCHANGED <<focused, blurred, heavyDue, owed>>
    BY <1>4 DEF Effects
  <2> QED
    BY <1>1, <1>2, <1>4, <2>1, FreshIsQuiet DEF Covered, Told, Due
<1> QED
  BY <1>3, <1>4

LEMMA StepTold ==
    ASSUME ToldInv, [Next]_vars
    PROVE  Covered' /\ Told'
<1>0. /\ Covered /\ Told /\ rt \in Runtime /\ ver \in Nat /\ owed \in Nat
  BY DEF ToldInv, Kept, Numbers, Versions
<1>1. CASE HeavyLoads
  <2>1. key \notin Light /\ focused /\ UNCHANGED <<key, ver, focused, owed, entry>>
        /\ heavyDue' = "no"
    BY <1>0, <1>1 DEF HeavyLoads, Covered, store
  <2> QED
    BY <1>0, <2>1 DEF Covered, Told, Due
<1>2. CASE Blur
  <2>1. /\ focused' = FALSE /\ blurred' = TRUE /\ heavyDue' = "no" /\ rt' = Left(rt)
        /\ UNCHANGED <<key, ver, owed, entry>>
    BY <1>2 DEF Blur, store
  <2> QED
    BY <1>0, <2>1, LeftIsQuiet DEF Covered, Told, Due
<1>3. CASE NoteOpened
  BY <1>0, <1>3, InFrontIsKept DEF NoteOpened, store
<1>4. CASE OrderEvents
  <2>1. /\ focused /\ Ask(rt, "none", FALSE, TRUE) /\ owed' = ver
        /\ UNCHANGED <<key, ver, focused, blurred, heavyDue, entry>>
    BY <1>4 DEF OrderEvents, screen, store
  <2>2. Coming(rt', owed')
    BY <1>0, <2>1, AskComes
  <2> QED
    BY <1>0, <2>1, <2>2 DEF Covered, Told, Coming
<1>5. CASE Tick
  <2>1. /\ focused /\ (Ask(rt, "none", TRUE, FALSE) \/ rt' = rt)
        /\ UNCHANGED <<key, ver, focused, heavyDue, owed, entry>>
    BY <1>5 DEF Tick, store
  <2>2. Coming(rt, owed) => Coming(rt', owed)
    BY <1>0, <2>1, AskKeepsComing
  <2> QED
    BY <1>0, <2>1, <2>2, InFrontIsKept
<1>6. CASE Poll
  <2>1. /\ focused /\ Ask(rt, "none", FALSE, FALSE)
        /\ UNCHANGED <<key, ver, focused, heavyDue, owed, entry>>
    BY <1>6 DEF Poll, screen, store
  <2>2. Coming(rt, owed) => Coming(rt', owed)
    BY <1>0, <2>1, AskKeepsComing
  <2> QED
    BY <1>0, <2>1, <2>2, InFrontIsKept
<1>7. CASE Retry
  <2>1. /\ focused /\ Ask(rt, "none", TRUE, FALSE)
        /\ entry' = (IF entry.status = "error" THEN NoEntry("loading") ELSE entry)
        /\ UNCHANGED <<key, ver, focused, heavyDue, owed>>
    BY <1>7 DEF Retry, screen
  <2>2. Coming(rt, owed) => Coming(rt', owed)
    BY <1>0, <2>1, AskKeepsComing
  <2>3. entry'.value = entry.value /\ (entry'.status = "error" => entry'.value = NoValue)
    BY <1>0, <2>1 DEF Covered, NoEntry
  <2> QED
    BY <1>0, <2>1, <2>2, <2>3 DEF Covered, Told, Due, Coming
<1>8. CASE TimerFires
  <2> DEFINE r == [rt EXCEPT !.timer = FALSE]
  <2>1. /\ rt.timer /\ Ask(r, "none", FALSE, TRUE)
        /\ UNCHANGED <<key, ver, focused, heavyDue, owed, entry>>
    BY <1>8 DEF TimerFires, screen, store
  <2>2. r \in Runtime
    BY <1>0 DEF Runtime
  <2> HIDE DEF r
  <2>3. Coming(rt', owed)
    BY <2>1, <2>2, AskComes
  <2>4. focused
    BY <1>0, <2>1 DEF Covered, Quiet
  <2> QED
    BY <1>0, <2>1, <2>3, <2>4, InFrontIsKept
<1>9. CASE ServerReads
  <2> DEFINE q == [rt.request EXCEPT !.at = "answered", !.value.ver = ver]
  <2>1. /\ rt.request.at = "asked" /\ rt' = [rt EXCEPT !.request = q]
        /\ UNCHANGED <<key, ver, focused, blurred, heavyDue, owed, entry>>
    BY <1>0, <1>9 DEF ServerReads, Runtime, screen, store
  <2>2. Busy(rt) /\ rt.request \in Request
    BY <1>0, <2>1, BusyIsAsked
  <2>3. q.at = "answered" /\ q.value.ver = ver /\ q.stay = rt.request.stay
    BY <2>2 DEF Request, Value
  <2> HIDE DEF q
  <2>4. /\ rt'.request = q /\ rt'.trailing = rt.trailing /\ rt'.timer = rt.timer
        /\ rt'.from = rt.from
    BY <1>0, <2>1 DEF Runtime
  <2>5. ver >= owed
    BY <1>0 DEF Covered
  <2>6. Coming(rt', owed)
    BY <2>3, <2>4, <2>5 DEF Coming
  <2>7. ~focused => Quiet(rt')
    BY <1>0, <2>2, <2>3, <2>4 DEF Covered, Quiet
  <2>8. focused \/ blurred
    BY <1>0, <2>2, FreshIsQuiet DEF Covered
  <2> QED
    BY <1>0, <2>1, <2>6, <2>7, <2>8, RuntimeIsKept
<1>10. CASE Hangs
  <2> DEFINE q == [rt.request EXCEPT !.at = "lost"]
  <2>1. /\ rt.request.at = "asked" /\ rt' = [rt EXCEPT !.request = q]
        /\ UNCHANGED <<key, ver, focused, blurred, heavyDue, owed, entry>>
    BY <1>0, <1>10 DEF Hangs, Runtime, screen, store
  <2>2. Busy(rt) /\ rt.request \in Request
    BY <1>0, <2>1, BusyIsAsked
  <2>3. q.at = "lost" /\ q.stay = rt.request.stay
    BY <2>2 DEF Request
  <2> HIDE DEF q
  <2>4. /\ rt'.request = q /\ rt'.trailing = rt.trailing /\ rt'.timer = rt.timer
        /\ rt'.from = rt.from
    BY <1>0, <2>1 DEF Runtime
  <2>5. Coming(rt', owed)
    BY <2>3, <2>4 DEF Coming
  <2>6. ~focused => Quiet(rt')
    BY <1>0, <2>2, <2>3, <2>4 DEF Covered, Quiet
  <2>7. focused \/ blurred
    BY <1>0, <2>2, FreshIsQuiet DEF Covered
  <2> QED
    BY <1>0, <2>1, <2>5, <2>6, <2>7, RuntimeIsKept
<1>11. ASSUME NEW q \in orphans, OrphanLands(q)
       PROVE  Covered' /\ Told'
  BY <1>0, <1>11, RuntimeIsKept DEF OrphanLands, screen, Covered
<1>12. ASSUME NEW s \in Shops, Switch(s)
       PROVE  Covered' /\ Told'
  <2>1. /\ owed' = 0 /\ entry' = NoEntry("loading")
        /\ UNCHANGED <<key, ver, rt, focused, blurred, heavyDue>>
    BY <1>12 DEF Switch, screen
  <2> QED
    BY <1>0, <2>1 DEF Covered, Told, Due, NoEntry
<1>13. CASE Ages \/ GapOver
  <2>1. /\ rt'.request = rt.request /\ rt'.trailing = rt.trailing
        /\ rt'.timer = rt.timer /\ rt'.from = rt.from
        /\ UNCHANGED <<key, ver, focused, blurred, heavyDue, owed, entry>>
    BY <1>0, <1>13 DEF Ages, GapOver, Runtime, screen, store
  <2>2. rt # FreshRuntime
    BY <1>13 DEF Ages, GapOver, FreshRuntime
  <2>3. (Coming(rt, owed) => Coming(rt', owed)) /\ (Quiet(rt) => Quiet(rt'))
    BY <2>1 DEF Coming, Quiet, Busy
  <2> QED
    BY <1>0, <2>1, <2>2, <2>3, RuntimeIsKept DEF Covered
<1>14. CASE Midnight
  BY <1>0, <1>14, RuntimeIsKept DEF Midnight, screen, store, Covered
<1>15. CASE Change
  <2>1. /\ ver' = ver + 1
        /\ UNCHANGED <<key, rt, focused, blurred, heavyDue, owed, entry>>
    BY <1>15 DEF Change, screen, store
  <2>2. owed <= ver => owed <= ver + 1
    BY <1>0
  <2> QED
    BY <1>0, <2>1, <2>2 DEF Covered, Told, Due, Coming
<1>16. CASE UNCHANGED vars
  BY <1>0, <1>16, RuntimeIsKept DEF vars, screen, store, Covered
<1> QED
  BY <1>1, <1>2, <1>3, <1>4, <1>5, <1>6, <1>7, <1>8, <1>9, <1>10, <1>11, <1>12, <1>13,
     <1>14, <1>15, <1>16, FocusTold, LandTold, FailTold, EffectsTold DEF Next

LEMMA InitTold == Init => ToldInv
BY InitKept, FreshIsQuiet DEF Init, ToldInv, Covered, Told, Due, NoEntry

\* A change the hub was told of is fetched: a slot from before it is being
\* replaced by a load still to be read, or one more will follow, whatever was in
\* flight, put off or covered meanwhile, for every light loader.
THEOREM ToldChangesComeBack == Spec => []ToldChangesAreFetched
<1>1. ToldInv /\ [Next]_vars => ToldInv'
  BY StepKept, StepTold DEF ToldInv
<1>2. ToldInv => ToldChangesAreFetched
  <2> SUFFICES ASSUME ToldInv, key \in Light, focused, entry.value # NoValue,
                      entry.value.ver < owed
               PROVE  ComesBackWith(owed)
    BY DEF ToldChangesAreFetched, Fetched
  <2>1. entry.value.ver \in Nat /\ owed \in Nat
    BY DEF ToldInv, Kept, SlotOf, Entry, Value, NoValue, Numbers, Versions
  <2>2. Due
    BY <2>1 DEF Due
  <2> QED
    BY <2>2 DEF ToldInv, Told, Coming, ComesBackWith
<1> QED
  BY <1>1, <1>2, InitTold, PTL DEF Spec
=============================================================================
