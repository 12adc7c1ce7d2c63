------------------------------ MODULE HubScreen ------------------------------
(***************************************************************************)
(* The hub of the phone app (hooks/use-hub-data.ts, lib/hub-data.ts): the  *)
(* root screen, which other pages cover and which never unmounts.  Seven   *)
(* loaders each own a slot and share only the screen's focus, its clock    *)
(* and the shop it belongs to, so one loader is followed, of every kind.   *)
(*                                                                         *)
(* A load asked for is skipped, queued behind the one in flight, put off   *)
(* until the gap since the last one is over, or goes out (hubLoadDecision);*)
(* what a covered hub missed is asked for again when it comes back.  Ages  *)
(* and gaps are flags that lapse; requests may fail, or hang for ever.     *)
(***************************************************************************)
EXTENDS Naturals, FiniteSets

CONSTANTS
    Keys,        \* the loaders followed
    Shops,       \* restaurants the person works at
    MaxChanges,  \* bound: changes of what the loader reads
    MaxDays,     \* bound: midnights
    MaxSwitches, \* bound: changes of shop
    MaxOrphans   \* bound: answers under way for a shop that was left

Light == {"floor", "kitchen", "paidToday", "takings"}
Heavy == {"menu", "inventory", "insights"}
DayLoaders == {"takings", "paidToday"}

ASSUME HubScreenAssumption ==
    /\ Keys \subseteq Light \cup Heavy
    /\ Shops # {}
    /\ {MaxChanges, MaxDays, MaxSwitches, MaxOrphans} \subseteq Nat

VARIABLES
    key,       \* the loader followed
    ver,       \* how often what it reads has changed
    day,       \* the Bangkok day
    shop,      \* the member's shop, and the scope of the store
    scopeRef,  \* the shop the effects have run for
    entry,     \* the slot in the store
    rt,        \* the loader's runtime
    orphans,   \* requests of the runtimes of earlier generations
    focused,   \* focusedRef
    blurred,   \* lastBlurAtRef is set
    forced,    \* forcedRef holds the loader: its page was opened
    heavyDue,  \* the heavy loads wait out the animation: no, plain or forced
    clockDay,  \* the day of the clock the slots are drawn by
    switches,  \* history: changes of shop so far
    owed       \* history: the version the hub was told of; 0 once it is held
               \* or the last load of it failed

screen == <<focused, blurred, forced, heavyDue, clockDay>>
store == <<shop, scopeRef, entry, orphans, switches>>
vars == <<key, ver, day, rt, screen, store, owed>>

Days == 0..MaxDays
Versions == 0..MaxChanges
Value == [shop : Shops, ver : Versions]
NoValue == [shop |-> "none", ver |-> 0]

\* scope: scopeAtStart; stay: it left since the hub last lost focus.
Request == [at : {"asked", "answered", "lost"}, value : Value,
            scope : Shops, day : Days, stay : BOOLEAN]
NoRequest == [at |-> "none"]

Entry == [status : {"loading", "ready", "error"}, value : Value \cup {NoValue},
          day : Days]
NoEntry(status) == [status |-> status, value |-> NoValue, day |-> 0]

\* from: when the request left whose value is held.
Runtime == [from : {"never", "earlier", "stay"}, fromDay : Days,
            young : BOOLEAN, gap : BOOLEAN,
            request : Request \cup {NoRequest},
            trailing : BOOLEAN, timer : BOOLEAN]
FreshRuntime == [from |-> "never", fromDay |-> 0, young |-> FALSE, gap |-> FALSE,
                 request |-> NoRequest, trailing |-> FALSE, timer |-> FALSE]

TypeOK ==
    /\ key \in Keys /\ ver \in Versions /\ day \in Days /\ clockDay \in Days
    /\ shop \in Shops /\ scopeRef \in Shops
    /\ entry \in Entry /\ rt \in Runtime
    /\ orphans \subseteq Request
    /\ \A b \in {focused, blurred, forced} : b \in BOOLEAN
    /\ heavyDue \in {"no", "plain", "forced"}
    /\ switches \in 0..MaxSwitches /\ owed \in Versions

\* Any: the shops differ in nothing.
FirstShop == CHOOSE s \in Shops : TRUE

Init ==
    /\ key \in Keys /\ ver = 0 /\ day = 0 /\ clockDay = 0
    /\ shop = FirstShop /\ scopeRef = shop
    /\ entry = NoEntry("loading") /\ rt = FreshRuntime /\ orphans = {}
    /\ focused = FALSE /\ blurred = FALSE /\ forced = FALSE
    /\ heavyDue = "no" /\ switches = 0 /\ owed = 0

-----------------------------------------------------------------------------
(* Asking for a load *)

Busy(r) == r.request # NoRequest
Settled == shop = scopeRef

\* What a request reads is its shop's; while the shop changes, the header may
\* name either.
Run(r, s, scope) ==
    [r EXCEPT !.gap = TRUE,
              !.request = [at |-> "asked", value |-> [shop |-> s, ver |-> 0],
                           scope |-> scope, day |-> day, stay |-> TRUE]]

\* request(key, options), decided by hubLoadDecision.  minAge is "none", "zero"
\* or the loader's "own".
Ask(r, minAge, force, afterChange) ==
    LET fresh == ~force /\ minAge = "own" /\ r.young
        waits == ~force /\ r.gap
    IN  \/ fresh /\ rt' = r
        \/ ~fresh /\ Busy(r) /\ rt' = [r EXCEPT !.trailing = @ \/ afterChange]
        \/ ~fresh /\ ~Busy(r) /\ waits /\ rt' = [r EXCEPT !.timer = TRUE]
        \/ /\ ~fresh /\ ~Busy(r) /\ ~waits
           /\ \E s \in {shop, scopeRef} : rt' = Run(r, s, scopeRef)

\* Mutant: on focus only the age counts.
FocusAsksByAge(r, isForced) == Ask(r, "own", isForced, FALSE)

\* hubFocusLoad: a light value from before the last blur may have missed a
\* change.
FocusAsks(r, isForced) ==
    LET missed == key \in Light /\ blurred /\ r.from # "stay"
    IN  Ask(r, IF missed THEN "zero" ELSE "own", isForced, missed)

ClearTrailing(r) == [r EXCEPT !.trailing = FALSE, !.timer = FALSE]

-----------------------------------------------------------------------------
(* The screen *)

FocusFrom(r) ==
    /\ focused' = TRUE /\ forced' = FALSE
    /\ clockDay' = day
    /\ IF key \in Light
       THEN FocusAsks(r, forced) /\ owed' = ver /\ heavyDue' = "no"
       ELSE /\ heavyDue' = IF forced THEN "forced" ELSE "plain"
            /\ owed' = IF forced THEN ver ELSE owed
            /\ rt' = r

Focus ==
    /\ ~focused /\ Settled
    /\ FocusFrom(rt)
    /\ UNCHANGED <<key, ver, day, blurred, store>>

HeavyLoads ==
    /\ focused /\ heavyDue # "no"
    /\ heavyDue' = "no"
    /\ FocusAsks(rt, heavyDue = "forced")
    /\ UNCHANGED <<key, ver, day, focused, blurred, forced, clockDay, store, owed>>

\* What was asked for until now is from an earlier stay.
Left(r) ==
    [ClearTrailing(r) EXCEPT
        !.from = IF @ = "stay" THEN "earlier" ELSE @,
        !.request = IF Busy(r) THEN [@ EXCEPT !.stay = FALSE] ELSE @]

Blur ==
    /\ focused /\ Settled
    /\ focused' = FALSE /\ blurred' = TRUE /\ heavyDue' = "no"
    /\ rt' = Left(rt)
    /\ UNCHANGED <<key, ver, day, forced, clockDay, store, owed>>

\* A row is opened: its page covers the hub, and may change what the loader
\* reads (HUB_ROW_LOADERS).
NoteOpened ==
    /\ focused /\ ~forced /\ Settled
    /\ forced' = TRUE
    /\ UNCHANGED <<key, ver, day, focused, blurred, heavyDue, clockDay, rt, store,
                   owed>>

\* A batch of the order stream, or its resync.
OrderEvents ==
    /\ focused /\ key \in Light
    /\ Ask(rt, "none", FALSE, TRUE)
    /\ owed' = ver
    /\ UNCHANGED <<key, ver, day, screen, store>>

\* Mutant: whether a day value is stale is seen by what the slot shows.
StaleDayShown == key \in DayLoaders /\ entry.status = "ready" /\ entry.day # day
\* hubStaleDayLoaders.
StaleDay == key \in DayLoaders /\ rt.from # "never" /\ rt.fromDay # day

Tick ==
    /\ focused
    /\ clockDay' = day
    /\ IF StaleDay THEN Ask(rt, "none", TRUE, FALSE) ELSE UNCHANGED rt
    /\ UNCHANGED <<key, ver, day, focused, blurred, forced, heavyDue, store, owed>>

\* hubPollLoaders: the floor, and the kitchen while the stream is down.
Poll ==
    /\ focused /\ key \in {"floor", "kitchen"}
    /\ Ask(rt, "none", FALSE, FALSE)
    /\ UNCHANGED <<key, ver, day, screen, store, owed>>

\* The retry of a slot, and the pull on the whole hub; a tap runs the effects
\* first.
Retry ==
    /\ focused /\ Settled
    /\ entry' = IF entry.status = "error" THEN NoEntry("loading") ELSE entry
    /\ Ask(rt, "none", TRUE, FALSE)
    /\ UNCHANGED <<key, ver, day, screen, shop, scopeRef, orphans, switches, owed>>

TimerFires ==
    /\ rt.timer
    /\ Ask([rt EXCEPT !.timer = FALSE], "none", FALSE, TRUE)
    /\ UNCHANGED <<key, ver, day, screen, store, owed>>

-----------------------------------------------------------------------------
(* Answers *)

ServerReads ==
    /\ rt.request.at = "asked"
    /\ rt' = [rt EXCEPT !.request.at = "answered", !.request.value.ver = ver]
    /\ UNCHANGED <<key, ver, day, screen, store, owed>>

\* No request has a timeout.
Hangs ==
    /\ rt.request.at = "asked"
    /\ rt' = [rt EXCEPT !.request.at = "lost"]
    /\ UNCHANGED <<key, ver, day, screen, store, owed>>

\* The finally block: a change that came meanwhile is followed by one more load.
Finally(r) ==
    LET done == [r EXCEPT !.request = NoRequest, !.trailing = FALSE]
    IN  IF r.trailing /\ focused THEN Ask(done, "none", FALSE, TRUE) ELSE rt' = done

\* Mutant: what the store belongs to by now is not looked at.
ShownWhateverTheShop(q) == entry' = [status |-> "ready", value |-> q.value, day |-> q.day]

Shown(q) ==
    IF q.scope = shop
    THEN entry' = [status |-> "ready", value |-> q.value, day |-> q.day]
    ELSE UNCHANGED entry

Land ==
    LET q == rt.request
    IN  /\ q.at = "answered"
        /\ Shown(q)
        /\ Finally([rt EXCEPT !.from = IF q.stay THEN "stay" ELSE "earlier",
                              !.fromDay = q.day, !.young = TRUE])
        /\ owed' = IF q.value.ver >= owed THEN 0 ELSE owed
        /\ UNCHANGED <<key, ver, day, screen, shop, scopeRef, orphans, switches>>

\* hubHeldValueIsCurrent.
HeldIsCurrent == key \in DayLoaders => entry.day = day

\* A value is kept over a failed reload, unless its day has ended.
Fail ==
    /\ Busy(rt)
    /\ IF rt.request.scope # shop \/ (entry.value # NoValue /\ HeldIsCurrent)
       THEN UNCHANGED entry
       ELSE entry' = NoEntry("error")
    /\ Finally(rt)
    /\ owed' = IF rt.trailing \/ rt.timer THEN owed ELSE 0
    /\ UNCHANGED <<key, ver, day, screen, shop, scopeRef, orphans, switches>>

\* Mutant: what is in flight for the shop that was left still counts.
OrphanLandsInStore(q) ==
    /\ Shown(q)
    /\ orphans' = orphans \ {q}
    /\ UNCHANGED <<key, ver, day, rt, screen, shop, scopeRef, switches, owed>>

\* Its generation is over: it lands nowhere.
OrphanLands(q) ==
    /\ orphans' = orphans \ {q}
    /\ UNCHANGED <<key, ver, day, rt, screen, shop, scopeRef, entry, switches, owed>>

-----------------------------------------------------------------------------
(* Another shop *)

\* The store starts from nothing in the render that sees the new shop.
Switch(s) ==
    /\ Settled /\ s # shop /\ switches < MaxSwitches
    /\ shop' = s /\ switches' = switches + 1
    /\ entry' = NoEntry("loading") /\ owed' = 0
    /\ UNCHANGED <<key, ver, day, rt, screen, scopeRef, orphans>>

\* The bound forgets further orphans, which change nothing.
Abandoned ==
    IF rt.request.at = "answered" /\ Cardinality(orphans) < MaxOrphans
    THEN orphans \cup {rt.request} ELSE orphans

\* The effects follow: a new generation and fresh runtimes; a hub in front is
\* left and focused again.
Effects ==
    /\ ~Settled
    /\ scopeRef' = shop /\ orphans' = Abandoned
    /\ IF focused
       THEN /\ focused' = TRUE /\ forced' = FALSE /\ blurred' = TRUE
            /\ clockDay' = day
            /\ IF key \in Light
               THEN rt' = Run(FreshRuntime, shop, shop) /\ owed' = ver /\ heavyDue' = "no"
               ELSE rt' = FreshRuntime /\ heavyDue' = "plain" /\ UNCHANGED owed
       ELSE /\ rt' = FreshRuntime /\ forced' = FALSE
            /\ UNCHANGED <<focused, blurred, heavyDue, clockDay, owed>>
    /\ UNCHANGED <<key, ver, day, shop, entry, switches>>

-----------------------------------------------------------------------------
(* Time, and the restaurant *)

\* Ten seconds, five minutes for a heavy value; the gap is shorter than either
\* but for the day list's.
Ages ==
    /\ rt.young /\ (rt.gap => key = "takings")
    /\ rt' = [rt EXCEPT !.young = FALSE]
    /\ UNCHANGED <<key, ver, day, screen, store, owed>>

GapOver ==
    /\ rt.gap
    /\ rt' = [rt EXCEPT !.gap = FALSE]
    /\ UNCHANGED <<key, ver, day, screen, store, owed>>

\* Only day values tell the days apart.
Midnight ==
    /\ day < MaxDays /\ key \in DayLoaders
    /\ day' = day + 1
    /\ UNCHANGED <<key, ver, rt, screen, store, owed>>

Change ==
    /\ ver < MaxChanges
    /\ ver' = ver + 1
    /\ UNCHANGED <<key, day, rt, screen, store, owed>>

Next ==
    \/ Focus \/ HeavyLoads \/ Blur \/ NoteOpened
    \/ OrderEvents \/ Tick \/ Poll \/ Retry \/ TimerFires
    \/ ServerReads \/ Hangs \/ Land \/ Fail
    \/ (\E q \in orphans : OrphanLands(q))
    \/ (\E s \in Shops : Switch(s)) \/ Effects
    \/ Ages \/ GapOver \/ Midnight \/ Change

\* The clock ticks, the floor is polled, timers fire and effects run; what the
\* server is asked again and again it answers, and not every answer is lost.
Fairness ==
    /\ WF_vars(Tick) /\ WF_vars(key = "floor" /\ Poll)
    /\ WF_vars(GapOver) /\ WF_vars(TimerFires) /\ WF_vars(Effects)
    /\ SF_vars(ServerReads) /\ SF_vars(Land)

Spec == Init /\ [][Next]_vars /\ Fairness

-----------------------------------------------------------------------------
(* Properties *)

ComesBackWith(v) ==
    \/ rt.request.at \in {"asked", "lost"}
    \/ rt.request.at = "answered" /\ rt.request.value.ver >= v
    \/ rt.trailing \/ rt.timer

Fetched ==
    focused /\ heavyDue = "no" /\ entry.value # NoValue /\ entry.value.ver < owed =>
        ComesBackWith(owed)

\* A light value from before a change the hub was told of, or before it was last
\* covered, is being replaced: by a load still to be read, or one more after it.
ToldChangesAreFetched == key \in Light => Fetched

\* The last shop's numbers are never under the new shop's name.
NumbersAreThisShops == entry.value # NoValue => entry.value.shop = shop

\* A slot never goes back to an older answer: one request at a time, and none
\* from before the shop was left.
NumbersNeverGoBack ==
    [][\/ entry'.value = NoValue \/ entry.value = NoValue
       \/ entry'.value.ver >= entry.value.ver]_vars

\* In front of staff, the floor catches up without an event, and a day value is
\* replaced after midnight however often its reload fails - unless one request
\* hangs for ever, which stops the loader.
Polled ==
    CASE key = "floor" -> entry.value # NoValue /\ entry.value.ver = ver
      [] key \in DayLoaders -> rt.from = "never" \/ rt.fromDay = day
      [] OTHER -> TRUE
PolledValuesCatchUp == []<>~Busy(rt) => []<>(~focused \/ Polled)

\* Does not hold: so is a heavy value that the page just visited may have changed
\* (a load from before the visit is not followed by one more, and a hub left
\* again within the animation forgets the visit).
VisitedPagesAreReloaded == key \in Heavy => Fetched
=============================================================================
