----------------------------- MODULE OrderEvents -----------------------------
(***************************************************************************)
(* How a screen of the staff app learns that an order changed.  A handler  *)
(* commits its transaction and then publishes an event on the OrderHub     *)
(* (realtime/order_events.go), which keeps at most one event queued for a  *)
(* stream and drops the rest.  The stream's handler                        *)
(* (controller/order.go, OrderEvents) greets, forwards the queued event    *)
(* and ends the session now and then; the phone                            *)
(* (mobile/src/hooks/use-order-events.ts) reads the stream, gathers what   *)
(* it read and asks the screen to load its snapshot again.  The browser    *)
(* (frontend/src/hooks/useOrderEvents.ts) does less: a greeting loads      *)
(* nothing, and the page may be loading by itself and turn the load down.  *)
(*                                                                         *)
(* The committed changes are a log; a snapshot is the length of the log it *)
(* was read at.  A phone's own loader is one load at a time here; module   *)
(* KitchenBoard opens it up.  The web page is the POS floor, which lets no *)
(* two loads overlap.  Wire is one TCP connection: in order, lost as a     *)
(* whole.                                                                  *)
(***************************************************************************)
EXTENDS Integers, Sequences

CONSTANTS
    Clients,         \* screens holding one stream each
    Actions,         \* kinds of change: "order.paid", "item.added", ...
    KitchenActions,  \* the kinds isKitchenOrderChangeEvent accepts
    Screens,         \* the screens a phone may be on
    None,            \* no action
    MaxChanges,      \* bound: changes committed
    MaxWire,         \* bound: messages written and not yet read
    MaxDrops,        \* bound: connections lost, trips to the background
    MaxFailures      \* bound: loads that fail

ASSUME OrderEventsAssumption ==
    /\ None \notin Actions
    /\ KitchenActions \subseteq Actions
    /\ Screens \subseteq [filters : BOOLEAN, skips : BOOLEAN, polls : BOOLEAN,
                      web : BOOLEAN]
    /\ MaxChanges \in Nat /\ MaxWire \in Nat \ {0}
    /\ MaxDrops \in Nat /\ MaxFailures \in Nat

VARIABLES
    screen,    \* [Clients -> Screens]: has it an accepts predicate, a window
               \* skipConnectedRefreshWithinMs, a poll of its own; is it a
               \* page of the web app
    log,       \* the committed changes, oldest first
    unsaid,    \* those whose handler has not reached Publish yet
    queue,     \* [Clients -> Actions or None], the buffered channel
    server,    \* [Clients -> state of the handler serving the stream]
    wire,      \* [Clients -> Seq(Message)], written and not read yet
    connected, \* [Clients -> BOOLEAN], the phone is in its read loop
    awake,     \* [Clients -> BOOLEAN], appIsActive; on the web, visible
    pending,   \* [Clients -> SUBSET Actions], pendingActions
    resync,    \* [Clients -> BOOLEAN], pendingResync; on the web refreshQueued
    recent,    \* [Clients -> BOOLEAN], lastResyncAt is within the window
    timer,     \* [Clients -> BOOLEAN], refreshTimer is set
    load,      \* [Clients -> Load], the request the refresh loop awaits
    view,      \* [Clients -> Nat], the snapshot on the screen
    excused,   \* history: the changes a failed load was to bring
    dropped,   \* history: the stream was lost since the last resync
    mishaps    \* [drops, failures], how many there have been

hubVars == <<queue, server>>
hookVars == <<pending, resync, recent, timer, dropped>>
screenVars == <<load, view, excused>>
vars == <<screen, log, unsaid, hubVars, wire, connected, awake, hookVars,
          screenVars, mishaps>>

-----------------------------------------------------------------------------
Greeting == [event |-> "connected", action |-> None]
Goodbye == [event |-> "reconnect", action |-> None]
Changed(a) == [event |-> "orders.changed", action |-> a]
Message == {Greeting, Goodbye} \cup {Changed(a) : a \in Actions}

\* "asked": sent, not read by the server yet; "answered": read at length shows.
\* own: a web page's first load or its poll, which the refresh loop knows not of.
Load == [at : {"idle", "asked", "answered"}, shows : Nat, own : BOOLEAN]
Idle == [at |-> "idle", shows |-> 0, own |-> FALSE]
Asked == [Idle EXCEPT !.at = "asked"]
AskedByItself == [Asked EXCEPT !.own = TRUE]

TypeOK ==
    /\ screen \in [Clients -> Screens]
    /\ log \in Seq(Actions)
    /\ unsaid \subseteq 1..Len(log)
    /\ queue \in [Clients -> Actions \cup {None}]
    /\ server \in [Clients -> {"none", "subscribed", "serving"}]
    /\ wire \in [Clients -> Seq(Message)]
    /\ connected \in [Clients -> BOOLEAN]
    /\ awake \in [Clients -> BOOLEAN]
    /\ pending \in [Clients -> SUBSET Actions]
    /\ resync \in [Clients -> BOOLEAN]
    /\ recent \in [Clients -> BOOLEAN]
    /\ timer \in [Clients -> BOOLEAN]
    /\ load \in [Clients -> Load]
    /\ view \in [Clients -> Nat]
    /\ excused \in [Clients -> Nat]
    /\ dropped \in [Clients -> BOOLEAN]
    /\ mishaps \in [drops : Nat, failures : Nat]
    /\ \A c \in Clients :
          /\ server[c] = "none" => queue[c] = None
          /\ ~connected[c] => server[c] = "none" /\ wire[c] = <<>>

\* The screen loads when the stream is enabled, and that counts as a resync.
Init ==
    /\ screen \in [Clients -> Screens]
    /\ log = <<>>
    /\ unsaid = {}
    /\ queue = [c \in Clients |-> None]
    /\ server = [c \in Clients |-> "none"]
    /\ wire = [c \in Clients |-> <<>>]
    /\ connected = [c \in Clients |-> FALSE]
    /\ awake = [c \in Clients |-> TRUE]
    /\ pending = [c \in Clients |-> {}]
    /\ resync = [c \in Clients |-> FALSE]
    /\ recent = [c \in Clients |-> TRUE]
    /\ timer = [c \in Clients |-> FALSE]
    /\ load = [c \in Clients |-> IF screen[c].web THEN AskedByItself ELSE Asked]
    /\ view = [c \in Clients |-> 0]
    /\ excused = [c \in Clients |-> 0]
    /\ dropped = [c \in Clients |-> FALSE]
    /\ mishaps = [drops |-> 0, failures |-> 0]

-----------------------------------------------------------------------------
(* The backend *)

Commit(a) ==
    /\ Len(log) < MaxChanges
    /\ log' = Append(log, a)
    /\ unsaid' = unsaid \cup {Len(log) + 1}
    /\ UNCHANGED <<screen, hubVars, wire, connected, awake, hookVars,
                   screenVars, mishaps>>

\* ch <- event, or nothing when an event is queued already.
Queued(q, a) == IF q = None THEN a ELSE q

Publish(i) ==
    /\ i \in unsaid
    /\ unsaid' = unsaid \ {i}
    /\ queue' = [c \in Clients |-> IF server[c] = "none" THEN None
                                   ELSE Queued(queue[c], log[i])]
    /\ UNCHANGED <<screen, log, server, wire, connected, awake, hookVars,
                   screenVars, mishaps>>

\* Subscribe comes before the greeting, and the greeting before any event.
Connect(c) ==
    /\ awake[c] \/ screen[c].web
    /\ ~connected[c]
    /\ connected' = [connected EXCEPT ![c] = TRUE]
    /\ server' = [server EXCEPT ![c] = "subscribed"]
    /\ UNCHANGED <<screen, log, unsaid, queue, wire, awake, hookVars,
                   screenVars, mishaps>>

Greet(c) ==
    /\ server[c] = "subscribed"
    /\ server' = [server EXCEPT ![c] = "serving"]
    /\ wire' = [wire EXCEPT ![c] = Append(@, Greeting)]
    /\ UNCHANGED <<screen, log, unsaid, queue, connected, awake, hookVars,
                   screenVars, mishaps>>

Forward(c) ==
    /\ server[c] = "serving" /\ queue[c] # None
    /\ Len(wire[c]) < MaxWire
    /\ wire' = [wire EXCEPT ![c] = Append(@, Changed(queue[c]))]
    /\ queue' = [queue EXCEPT ![c] = None]
    /\ UNCHANGED <<screen, log, unsaid, server, connected, awake, hookVars,
                   screenVars, mishaps>>

\* session.C fires; an event still queued goes with the channel.
EndSession(c) ==
    /\ server[c] = "serving"
    /\ Len(wire[c]) < MaxWire
    /\ wire' = [wire EXCEPT ![c] = Append(@, Goodbye)]
    /\ server' = [server EXCEPT ![c] = "none"]
    /\ queue' = [queue EXCEPT ![c] = None]
    /\ UNCHANGED <<screen, log, unsaid, connected, awake, hookVars, screenVars,
                   mishaps>>

-----------------------------------------------------------------------------
(* The refresh loop *)

WantsLoad(c) == resync[c] \/ pending[c] # {}

\* takePending for each c of C, and the callback with the batch it returned.
TakePending(C) ==
    /\ load' = [c \in Clients |-> IF c \notin C THEN load[c]
                                  ELSE IF WantsLoad(c) THEN Asked ELSE Idle]
    /\ pending' = [c \in Clients |-> IF c \in C THEN {} ELSE pending[c]]
    /\ resync' = [c \in Clients |-> c \notin C /\ resync[c]]

\* The callback rejects: the loop swallows it and takes the next batch.
LoadsFail(C) ==
    /\ excused' = [c \in Clients |-> IF c \notin C THEN excused[c]
                                     ELSE IF load[c].at = "asked" THEN Len(log)
                                     ELSE load[c].shows]
    /\ TakePending(C)

Mishap(kind) == mishaps' = [mishaps EXCEPT ![kind] = @ + 1]

-----------------------------------------------------------------------------
(* The phone *)

QueueRefresh(c) == timer' = [timer EXCEPT ![c] = TRUE]

QueueResync(c) ==
    /\ resync' = [resync EXCEPT ![c] = TRUE]
    /\ recent' = [recent EXCEPT ![c] = TRUE]
    /\ dropped' = [dropped EXCEPT ![c] = FALSE]
    /\ QueueRefresh(c)

QueueAction(c, a) ==
    /\ pending' = IF screen[c].web THEN pending ELSE [pending EXCEPT ![c] = @ \cup {a}]
    /\ QueueRefresh(c)

Accepts(c, a) == screen[c].filters => a \in KitchenActions
SkipsAnyGreeting(c) == recent[c]
SkipsGreeting(c) == screen[c].skips /\ recent[c]

NextMessage(c, event) ==
    /\ connected[c] /\ wire[c] # <<>>
    /\ Head(wire[c]).event = event
    /\ wire' = [wire EXCEPT ![c] = Tail(@)]

ReadGreeting(c) ==
    /\ NextMessage(c, "connected")
    /\ IF screen[c].web \/ SkipsGreeting(c)
       THEN UNCHANGED <<resync, recent, timer, dropped>>
       ELSE QueueResync(c)
    /\ UNCHANGED <<screen, log, unsaid, hubVars, connected, awake, pending,
                   screenVars, mishaps>>

ReadChange(c) ==
    /\ NextMessage(c, "orders.changed")
    /\ LET a == Head(wire[c]).action
       IN  IF Accepts(c, a) THEN QueueAction(c, a) ELSE UNCHANGED <<pending, timer>>
    /\ UNCHANGED <<screen, log, unsaid, hubVars, connected, awake, resync,
                   recent, dropped, screenVars, mishaps>>

ReadGoodbye(c) ==
    /\ NextMessage(c, "reconnect")
    /\ UNCHANGED <<screen, log, unsaid, hubVars, connected, awake, hookVars,
                   screenVars, mishaps>>

\* reader.read says done: connect returns and the loop of run goes round.
ReadEnd(c) ==
    /\ connected[c] /\ wire[c] = <<>> /\ server[c] = "none"
    /\ connected' = [connected EXCEPT ![c] = FALSE]
    /\ dropped' = [dropped EXCEPT ![c] = TRUE]
    /\ UNCHANGED <<screen, log, unsaid, hubVars, wire, awake, pending, resync,
                   recent, timer, screenVars, mishaps>>

\* Both ends are gone, and whatever was between them.
Disconnected(c) ==
    /\ connected' = [connected EXCEPT ![c] = FALSE]
    /\ server' = [server EXCEPT ![c] = "none"]
    /\ queue' = [queue EXCEPT ![c] = None]
    /\ wire' = [wire EXCEPT ![c] = <<>>]

Drop(c) ==
    /\ connected[c] /\ mishaps.drops < MaxDrops
    /\ Disconnected(c)
    /\ dropped' = [dropped EXCEPT ![c] = TRUE]
    /\ Mishap("drops")
    /\ UNCHANGED <<screen, log, unsaid, awake, pending, resync, recent, timer,
                   screenVars>>

\* The hub, the handlers between commit and Publish and the requests the loads
\* wait for live in one process.
CrashBackend ==
    /\ mishaps.drops < MaxDrops
    /\ unsaid' = {}
    /\ queue' = [c \in Clients |-> None]
    /\ server' = [c \in Clients |-> "none"]
    /\ wire' = [c \in Clients |-> <<>>]
    /\ connected' = [c \in Clients |-> FALSE]
    /\ dropped' = [c \in Clients |-> dropped[c] \/ connected[c]]
    /\ LoadsFail({c \in Clients : load[c] # Idle})
    /\ Mishap("drops")
    /\ UNCHANGED <<screen, log, awake, recent, timer, view>>

Background(c) ==
    /\ awake[c] /\ ~screen[c].web /\ mishaps.drops < MaxDrops
    /\ awake' = [awake EXCEPT ![c] = FALSE]
    /\ Disconnected(c)
    /\ dropped' = [dropped EXCEPT ![c] = TRUE]
    /\ Mishap("drops")
    /\ UNCHANGED <<screen, log, unsaid, pending, resync, recent, timer,
                   screenVars>>

Foreground(c) ==
    /\ ~awake[c] /\ ~screen[c].web
    /\ awake' = [awake EXCEPT ![c] = TRUE]
    /\ QueueResync(c)
    /\ UNCHANGED <<screen, log, unsaid, hubVars, wire, connected, pending,
                   screenVars, mishaps>>

\* A hidden page keeps its stream and stops polling; one shown again polls at
\* once.
Hide(c) ==
    /\ screen[c].web /\ awake[c] /\ mishaps.drops < MaxDrops
    /\ awake' = [awake EXCEPT ![c] = FALSE]
    /\ Mishap("drops")
    /\ UNCHANGED <<screen, log, unsaid, hubVars, wire, connected, hookVars,
                   screenVars>>

Show(c) ==
    /\ screen[c].web /\ ~awake[c]
    /\ awake' = [awake EXCEPT ![c] = TRUE]
    /\ load' = [load EXCEPT ![c] = IF @ = Idle THEN AskedByItself ELSE @]
    /\ UNCHANGED <<screen, log, unsaid, hubVars, wire, connected, hookVars,
                   view, excused, mishaps>>

WindowPasses(c) ==
    /\ screen[c].skips /\ recent[c]
    /\ recent' = [recent EXCEPT ![c] = FALSE]
    /\ UNCHANGED <<screen, log, unsaid, hubVars, wire, connected, awake,
                   pending, resync, timer, dropped, screenVars, mishaps>>

-----------------------------------------------------------------------------
(* The timer of the refresh loop, and the load it awaits *)

\* A loop that is running picks the batch up itself.
TimerFires(c) ==
    /\ timer[c] /\ ~screen[c].web
    /\ timer' = [timer EXCEPT ![c] = FALSE]
    /\ IF load[c] = Idle THEN TakePending({c}) ELSE UNCHANGED <<load, pending, resync>>
    /\ UNCHANGED <<screen, log, unsaid, hubVars, wire, connected, awake,
                   recent, dropped, view, excused, mishaps>>

\* The loop is told to go round again; a page that is loading by itself turns
\* the loop's load down (refreshInFlight), and nobody remembers it.
WebTimerFires(c) ==
    /\ timer[c] /\ screen[c].web
    /\ timer' = [timer EXCEPT ![c] = FALSE]
    /\ load' = [load EXCEPT ![c] = IF @ = Idle THEN Asked ELSE @]
    /\ resync' = [resync EXCEPT ![c] = load[c] # Idle /\ ~load[c].own]
    /\ UNCHANGED <<screen, log, unsaid, hubVars, wire, connected, awake, pending,
                   recent, dropped, view, excused, mishaps>>

AnswerLoad(c) ==
    /\ load[c].at = "asked"
    /\ load' = [load EXCEPT ![c].at = "answered", ![c].shows = Len(log)]
    /\ UNCHANGED <<screen, log, unsaid, hubVars, wire, connected, awake,
                   hookVars, view, excused, mishaps>>

LandLoadOnce(c) ==
    /\ load[c].at = "answered"
    /\ view' = [view EXCEPT ![c] = load[c].shows]
    /\ load' = [load EXCEPT ![c] = Idle]
    /\ UNCHANGED <<screen, log, unsaid, hubVars, wire, connected, awake,
                   hookVars, excused, mishaps>>

LandLoad(c) ==
    /\ load[c].at = "answered"
    /\ view' = [view EXCEPT ![c] = load[c].shows]
    /\ TakePending({c})
    /\ UNCHANGED <<screen, log, unsaid, hubVars, wire, connected, awake,
                   recent, timer, dropped, excused, mishaps>>

FailLoad(c) ==
    /\ load[c] # Idle /\ mishaps.failures < MaxFailures
    /\ LoadsFail({c})
    /\ Mishap("failures")
    /\ UNCHANGED <<screen, log, unsaid, hubVars, wire, connected, awake,
                   recent, timer, dropped, view>>

Poll(c) ==
    /\ screen[c].polls /\ awake[c] /\ load[c] = Idle
    /\ load' = [load EXCEPT ![c] = IF screen[c].web THEN AskedByItself ELSE Asked]
    /\ UNCHANGED <<screen, log, unsaid, hubVars, wire, connected, awake,
                   hookVars, view, excused, mishaps>>

-----------------------------------------------------------------------------
Backend(c) == Greet(c) \/ Forward(c)
Reading(c) == ReadGreeting(c) \/ ReadChange(c) \/ ReadGoodbye(c) \/ ReadEnd(c)
Loading(c) == TimerFires(c) \/ WebTimerFires(c) \/ AnswerLoad(c) \/ LandLoad(c)

Next ==
    \/ \E a \in Actions : Commit(a)
    \/ \E i \in unsaid : Publish(i)
    \/ CrashBackend
    \/ \E c \in Clients :
          \/ Backend(c) \/ EndSession(c)
          \/ Connect(c) \/ Reading(c) \/ Drop(c)
          \/ Background(c) \/ Foreground(c) \/ WindowPasses(c)
          \/ Hide(c) \/ Show(c)
          \/ Loading(c) \/ FailLoad(c) \/ Poll(c)

Spec == Init /\ [][Next]_vars

\* Fair: goroutines, the event loop, its timers and the retry loop.  Not fair:
\* staff, the network's mishaps, the session timer.
FairSpec ==
    /\ Spec
    /\ \A i \in 1..MaxChanges : WF_vars(Publish(i))
    /\ \A c \in Clients :
          /\ WF_vars(Backend(c)) /\ WF_vars(Connect(c)) /\ WF_vars(Reading(c))
          /\ WF_vars(TimerFires(c) \/ WebTimerFires(c)) /\ WF_vars(AnswerLoad(c))
          /\ WF_vars(LandLoad(c)) /\ WF_vars(Poll(c))

-----------------------------------------------------------------------------
(* Properties *)

Listening(c) == connected[c] /\ server[c] # "none"

\* What is under way that will put change i on the screen of c.
Coming(c, i) ==
    \/ i \in unsaid
    \/ server[c] = "subscribed" \/ queue[c] # None
    \/ \E k \in 1..Len(wire[c]) : wire[c][k].event # "reconnect"
    \/ timer[c] /\ (screen[c].web \/ WantsLoad(c))
    \/ load[c] # Idle /\ WantsLoad(c)
    \/ load[c].at = "asked"
    \/ load[c].at = "answered" /\ i <= load[c].shows

\* Until a committed change is on the screen of a phone that listens, something
\* is under way that will load it - unless a load that was to bring it failed.
KeepsUp(c) ==
    Listening(c) =>
        \A i \in 1..Len(log) :
            (Accepts(c, log[i]) /\ view[c] < i /\ excused[c] < i) => Coming(c, i)

\* The hub drops events, the phone merges them, batches of failed loads are
\* gone, sessions end: a phone that takes every event and every greeting still
\* never has a change it was not told about.
NothingIsMissed ==
    \A c \in Clients :
        ~screen[c].filters /\ ~screen[c].skips /\ ~screen[c].web => KeepsUp(c)

\* realtime/order_events.go: "One queued invalidation is enough.  A slow client
\* will refetch the complete current state when it consumes that event."
OneQueuedEventIsEnough ==
    \A c \in Clients : ~screen[c].skips /\ ~screen[c].web => KeepsUp(c)

\* Does not hold: the web page that listens has on its way what it was not shown.
\* A change read while the page loads by itself is turned down with its load, and
\* one published between two sessions is greeted and not loaded: both wait for
\* the poll.
WebHearsItsStream == \A c \in Clients : screen[c].web => KeepsUp(c)

\* The option skipConnectedRefreshWithinMs: "A later reconnect, after a drop,
\* still resyncs: events may have been missed then."  It does not hold as it
\* stands: a stream lost and greeted again within the window is skipped too.
ReconnectResyncs ==
    [][\A c \in Clients : dropped[c] /\ ReadGreeting(c) => resync'[c]]_vars

\* A screen that stays in front ends up showing the last change, however
\* sessions end, connections drop and the backend restarts on the way.  A screen
\* that takes every event and every greeting needs no poll for that, unless the
\* last load it asked for failed.
ScreenCatchesUp ==
    \A c \in Clients :
        <>[]awake[c] =>
            <>[]\/ view[c] = Len(log)
                \/ ~screen[c].polls /\ view[c] < excused[c]
=============================================================================
