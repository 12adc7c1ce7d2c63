--------------------------- MODULE LiveScreenProofs ---------------------------
(***************************************************************************)
(* Theorems about the screens that follow the order stream.  For any       *)
(* number of screens, changes, drops and failed loads, the stream leaves   *)
(* no change unannounced (module OrderEvents).  For any number of changes, *)
(* failures and loads in flight, the kitchen screen never goes back to an  *)
(* older snapshot and forgets nothing it was asked to show (module         *)
(* KitchenBoard).                                                          *)
(***************************************************************************)
EXTENDS OrderEvents, KitchenBoard, TLAPS

-----------------------------------------------------------------------------
(* What every screen knows, and what comes to it *)

\* A screen that takes every event and every greeting of a phone's stream.
TakesAll(c) == ~screen[c].filters /\ ~screen[c].skips /\ ~screen[c].web

\* The snapshots of a client are of the log; the one a load has brought is no
\* older than the screen, nor than what a failed load was to show.
SnapshotsFit(c) ==
    /\ load[c].at = "idle" => load[c] = Idle
    /\ view[c] <= Len(log) /\ excused[c] <= Len(log)
    /\ load[c].at = "answered" =>
          /\ load[c].shows <= Len(log)
          /\ view[c] <= load[c].shows /\ excused[c] <= load[c].shows

AllSnapshotsFit == \A c \in Clients : SnapshotsFit(c)
AllKeepUp == \A c \in Clients : TakesAll(c) => KeepsUp(c)

StreamInv == TypeOK /\ AllSnapshotsFit /\ AllKeepUp

\* What a client reads, queues and loads is as it was.
Undisturbed(c) ==
    /\ server'[c] = server[c] /\ queue'[c] = queue[c] /\ wire'[c] = wire[c]
    /\ connected'[c] = connected[c] /\ timer'[c] = timer[c]
    /\ pending'[c] = pending[c] /\ resync'[c] = resync[c]
    /\ load'[c] = load[c] /\ view'[c] = view[c] /\ excused'[c] = excused[c]

\* What was on its way to c still is, if it is not on the screen by now.
StaysComing(c) ==
    \A i \in 1..Len(log) :
        (Coming(c, i) /\ view'[c] < i /\ excused'[c] < i) => Coming(c, i)'

LEMMA UndisturbedStaysComing ==
    ASSUME NEW c \in Clients, Undisturbed(c), UNCHANGED <<screen, log, unsaid>>
    PROVE  StaysComing(c) /\ (Listening(c)' <=> Listening(c))
BY DEF Undisturbed, StaysComing, Coming, WantsLoad, Listening

LEMMA ScreensTakeWhatTheyTook ==
    ASSUME UNCHANGED screen, NEW c
    PROVE  /\ TakesAll(c)' <=> TakesAll(c)
           /\ \A a : Accepts(c, a)' <=> Accepts(c, a)
BY DEF TakesAll, Accepts

\* A client keeps up when nothing that is on its way is lost, and neither its
\* screen nor what it is excused goes back.
LEMMA KeepsUpWhenNothingIsLost ==
    ASSUME TypeOK, NEW c \in Clients, KeepsUp(c), UNCHANGED <<screen, log>>,
           view'[c] \in Nat, excused'[c] \in Nat,
           view[c] <= view'[c], excused[c] <= excused'[c],
           Listening(c)' => Listening(c) /\ StaysComing(c)
    PROVE  KeepsUp(c)'
<1> SUFFICES ASSUME Listening(c)', NEW i \in 1..Len(log)', Accepts(c, log[i])',
                    view'[c] < i, excused'[c] < i
             PROVE  Coming(c, i)'
  BY DEF KeepsUp
<1>1. i \in 1..Len(log) /\ i \in Int /\ view[c] \in Nat /\ excused[c] \in Nat
  BY DEF TypeOK
<1>2. view[c] < i /\ excused[c] < i
  BY <1>1
<1>3. Accepts(c, log[i])
  BY ScreensTakeWhatTheyTook
<1> QED
  BY <1>1, <1>2, <1>3 DEF KeepsUp, StaysComing

\* A step that disturbs one client only.
LEMMA OthersKeepUp ==
    ASSUME StreamInv, NEW d \in Clients, UNCHANGED <<screen, log, unsaid>>,
           \A c \in Clients \ {d} : Undisturbed(c),
           TakesAll(d) /\ KeepsUp(d) => KeepsUp(d)'
    PROVE  AllKeepUp'
<1> SUFFICES ASSUME NEW c \in Clients, TakesAll(c)'
             PROVE  KeepsUp(c)'
  BY DEF AllKeepUp
<1>1. TakesAll(c) /\ KeepsUp(c)
  BY ScreensTakeWhatTheyTook DEF StreamInv, AllKeepUp
<1>2. CASE c = d
  BY <1>1, <1>2
<1>3. CASE c # d
  <2>1. Undisturbed(c)
    BY <1>3
  <2>2. view[c] \in Nat /\ excused[c] \in Nat
    BY DEF StreamInv, TypeOK
  <2>3. view'[c] = view[c] /\ excused'[c] = excused[c]
    BY <2>1 DEF Undisturbed
  <2> QED
    BY <1>1, <2>1, <2>2, <2>3, UndisturbedStaysComing, KeepsUpWhenNothingIsLost
       DEF StreamInv
<1> QED
  BY <1>2, <1>3

\* ... and leaves the screen and the load alone.
LEMMA OneClientKeepsUp ==
    ASSUME StreamInv, NEW d \in Clients, UNCHANGED <<screen, log, unsaid, screenVars>>,
           \A c \in Clients \ {d} : Undisturbed(c),
           TakesAll(d) /\ Listening(d)' => Listening(d) /\ StaysComing(d)
    PROVE  AllSnapshotsFit' /\ AllKeepUp'
<1>1. AllSnapshotsFit'
  BY DEF StreamInv, AllSnapshotsFit, SnapshotsFit, screenVars
<1>2. /\ view'[d] = view[d] /\ excused'[d] = excused[d]
      /\ view[d] \in Nat /\ excused[d] \in Nat
  BY DEF StreamInv, TypeOK, screenVars
<1>3. TakesAll(d) /\ KeepsUp(d) => KeepsUp(d)'
  BY <1>2, KeepsUpWhenNothingIsLost DEF StreamInv
<1> QED
  BY <1>1, <1>3, OthersKeepUp

LEMMA ConnectedWhenServed ==
    ASSUME TypeOK, NEW c \in Clients
    PROVE  /\ server[c] = "none" => queue[c] = None
           /\ ~connected[c] => server[c] = "none" /\ wire[c] = <<>>
BY DEF TypeOK

-----------------------------------------------------------------------------
(* The backend *)

LEMMA RequestsAreLoads ==
    /\ Idle \in Load /\ Asked \in Load /\ AskedByItself \in Load
    /\ Asked.at = "asked" /\ AskedByItself.at = "asked" /\ Idle.at = "idle"
<1>1. Idle \in Load /\ Idle.at = "idle"
  BY DEF Idle, Load
<1>2. Asked \in Load /\ Asked.at = "asked"
  BY <1>1 DEF Asked, Load
<1>3. AskedByItself \in Load /\ AskedByItself.at = "asked"
  BY <1>2 DEF AskedByItself, Load
<1> QED
  BY <1>1, <1>2, <1>3

LEMMA InitKeepsUp == Init => StreamInv
<1> SUFFICES ASSUME Init PROVE StreamInv
  OBVIOUS
<1>1. TypeOK
  <2>1. load \in [Clients -> Load]
    BY RequestsAreLoads DEF Init
  <2>2. log \in Seq(Actions) /\ unsaid \subseteq 1..Len(log)
    BY DEF Init
  <2>3. /\ queue \in [Clients -> Actions \cup {None}]
        /\ server \in [Clients -> {"none", "subscribed", "serving"}]
        /\ wire \in [Clients -> Seq(Message)]
        /\ pending \in [Clients -> SUBSET Actions]
    BY DEF Init
  <2> QED
    BY <2>1, <2>2, <2>3 DEF Init, TypeOK
<1>2. \A c \in Clients : /\ view[c] = 0 /\ excused[c] = 0 /\ Len(log) = 0
                         /\ load[c].at = "asked"
  BY RequestsAreLoads DEF Init
<1>3. AllSnapshotsFit
  <2> SUFFICES ASSUME NEW c \in Clients PROVE SnapshotsFit(c)
    BY DEF AllSnapshotsFit
  <2>1. view[c] = 0 /\ excused[c] = 0 /\ Len(log) = 0 /\ load[c].at = "asked"
    BY <1>2
  <2> QED
    BY <2>1 DEF SnapshotsFit
<1>4. AllKeepUp
  BY <1>2 DEF AllKeepUp, KeepsUp
<1> QED
  BY <1>1, <1>3, <1>4 DEF StreamInv

LEMMA CommitKeepsUp ==
    ASSUME StreamInv, NEW a \in Actions, Commit(a)
    PROVE  StreamInv'
<1> DEFINE n == Len(log)
<1>1. /\ log' \in Seq(Actions) /\ Len(log') = n + 1 /\ n \in Nat
      /\ \A i \in 1..n : log'[i] = log[i]
      /\ unsaid' = unsaid \cup {n + 1}
  BY DEF StreamInv, TypeOK, Commit
<1>2. unsaid' \subseteq 1..Len(log')
  <2>1. unsaid \subseteq 1..n
    BY DEF StreamInv, TypeOK
  <2> HIDE DEF n
  <2> QED
    BY <1>1, <2>1
<1>3. TypeOK'
  BY <1>1, <1>2 DEF StreamInv, TypeOK, Commit, hubVars, hookVars, screenVars
<1>4. AllSnapshotsFit'
  <2> SUFFICES ASSUME NEW c \in Clients PROVE SnapshotsFit(c)'
    BY DEF AllSnapshotsFit
  <2>1. SnapshotsFit(c) /\ load'[c] = load[c] /\ view'[c] = view[c]
        /\ excused'[c] = excused[c]
    BY DEF StreamInv, AllSnapshotsFit, Commit, screenVars
  <2>2. load[c].shows \in Nat /\ view[c] \in Nat /\ excused[c] \in Nat
    BY DEF StreamInv, TypeOK, Load
  <2> QED
    BY <1>1, <2>1, <2>2 DEF SnapshotsFit
<1>5. AllKeepUp'
  <2> SUFFICES ASSUME NEW c \in Clients, TakesAll(c)', Listening(c)',
                      NEW i \in 1..Len(log'), view'[c] < i, excused'[c] < i
               PROVE  Coming(c, i)'
    BY DEF AllKeepUp, KeepsUp
  <2>1. TakesAll(c) /\ KeepsUp(c) /\ Listening(c)
    BY DEF StreamInv, AllKeepUp, TakesAll, Commit, hubVars, Listening
  <2>2. CASE i = n + 1
    BY <1>1, <2>2 DEF Coming
  <2>3. CASE i \in 1..n
    <3>1. Coming(c, i)
      BY <2>1, <2>3 DEF KeepsUp, TakesAll, Accepts, Commit, screenVars
    <3> QED
      BY <3>1, <1>1 DEF Coming, Commit, hubVars, hookVars, screenVars, WantsLoad
  <2> QED
    BY <1>1, <2>2, <2>3
<1> QED
  BY <1>3, <1>4, <1>5 DEF StreamInv

LEMMA PublishKeepsUp ==
    ASSUME StreamInv, NEW i \in unsaid, Publish(i)
    PROVE  StreamInv'
<1>1. log[i] \in Actions
  BY DEF StreamInv, TypeOK
<1>2. \A c \in Clients : queue'[c] = IF server[c] = "none" THEN None
                                      ELSE Queued(queue[c], log[i])
  BY DEF Publish
<1>3. TypeOK'
  <2>1. \A c \in Clients : queue[c] \in Actions \cup {None}
    BY DEF StreamInv, TypeOK
  <2>2. queue' \in [Clients -> Actions \cup {None}]
    BY <1>1, <2>1 DEF Publish, Queued
  <2>3. unsaid' \subseteq 1..Len(log')
    BY DEF StreamInv, TypeOK, Publish
  <2> QED
    BY <1>2, <2>2, <2>3 DEF StreamInv, TypeOK, Publish, hookVars, screenVars
<1>4. AllSnapshotsFit'
  BY DEF StreamInv, AllSnapshotsFit, SnapshotsFit, Publish, screenVars
<1>5. AllKeepUp'
  <2> SUFFICES ASSUME NEW c \in Clients, TakesAll(c)' PROVE KeepsUp(c)'
    BY DEF AllKeepUp
  <2>1. TakesAll(c) /\ KeepsUp(c)
    BY DEF StreamInv, AllKeepUp, TakesAll, Publish
  <2>2. Listening(c)' => Listening(c) /\ queue'[c] # None
    BY <1>1, <1>2, OrderEventsAssumption DEF Listening, Publish, Queued
  <2>3. Listening(c)' => StaysComing(c)
    BY <2>2 DEF StaysComing, Coming
  <2>4. /\ view'[c] = view[c] /\ excused'[c] = excused[c]
        /\ view[c] \in Nat /\ excused[c] \in Nat /\ TypeOK /\ UNCHANGED <<screen, log>>
    BY DEF StreamInv, TypeOK, Publish, screenVars
  <2> QED
    BY <2>1, <2>2, <2>3, <2>4, KeepsUpWhenNothingIsLost
<1> QED
  BY <1>3, <1>4, <1>5 DEF StreamInv

LEMMA ConnectKeepsUp ==
    ASSUME StreamInv, NEW c \in Clients, Connect(c)
    PROVE  StreamInv'
<1>1. TypeOK'
  BY DEF StreamInv, TypeOK, Connect, hookVars, screenVars
<1>2. \A d \in Clients \ {c} : Undisturbed(d)
  BY DEF StreamInv, TypeOK, Connect, Undisturbed, hookVars, screenVars
<1>3. AllSnapshotsFit'
  BY DEF StreamInv, AllSnapshotsFit, SnapshotsFit, Connect, screenVars
<1>4. server'[c] = "subscribed"
  BY DEF StreamInv, TypeOK, Connect
<1>5. KeepsUp(c)'
  BY <1>4 DEF KeepsUp, Coming
<1>6. UNCHANGED <<screen, log, unsaid>>
  BY DEF Connect
<1>7. AllKeepUp'
  BY <1>2, <1>5, <1>6, OthersKeepUp
<1> QED
  BY <1>1, <1>3, <1>7 DEF StreamInv

LEMMA AppendedMessage ==
    ASSUME TypeOK, NEW c \in Clients, NEW m \in Message,
           wire' = [wire EXCEPT ![c] = Append(@, m)]
    PROVE  /\ wire' \in [Clients -> Seq(Message)]
           /\ Len(wire'[c]) = Len(wire[c]) + 1 /\ Len(wire[c]) \in Nat
           /\ wire'[c][Len(wire[c]) + 1] = m
           /\ \A k \in 1..Len(wire[c]) : wire'[c][k] = wire[c][k]
           /\ \A d \in Clients \ {c} : wire'[d] = wire[d]
<1>1. wire \in [Clients -> Seq(Message)] /\ wire[c] \in Seq(Message)
  BY DEF TypeOK
<1>2. wire'[c] = Append(wire[c], m) /\ Append(wire[c], m) \in Seq(Message)
  BY <1>1
<1> QED
  BY <1>1, <1>2

LEMMA GreetKeepsUp ==
    ASSUME StreamInv, NEW c \in Clients, Greet(c)
    PROVE  StreamInv'
<1>1. Greeting \in Message /\ Greeting.event = "connected"
  BY DEF Greeting, Message
<1>2. connected[c]
  BY ConnectedWhenServed DEF Greet, StreamInv
<1>3. TypeOK /\ wire' = [wire EXCEPT ![c] = Append(@, Greeting)]
  BY DEF StreamInv, Greet
<1>4. TypeOK'
  BY <1>1, <1>2, <1>3, AppendedMessage DEF TypeOK, Greet, hookVars, screenVars
<1>5. \A d \in Clients \ {c} : Undisturbed(d)
  BY <1>1, <1>3, AppendedMessage DEF TypeOK, Greet, Undisturbed, hookVars, screenVars
<1>6. \E k \in 1..Len(wire'[c]) : wire'[c][k].event # "reconnect"
  <2> DEFINE k == Len(wire[c]) + 1
  <2>1. Len(wire'[c]) = k /\ Len(wire[c]) \in Nat /\ wire'[c][k] = Greeting
    BY <1>1, <1>3, AppendedMessage
  <2>2. k \in 1..Len(wire'[c])
    BY <2>1
  <2> QED
    BY <1>1, <2>1, <2>2
<1>7. StaysComing(c)
  BY <1>6 DEF StaysComing, Coming
<1>8. Listening(c)' => Listening(c)
  BY DEF Listening, Greet
<1>9. UNCHANGED <<screen, log, unsaid, screenVars>>
  BY DEF Greet
<1> QED
  BY <1>4, <1>5, <1>7, <1>8, <1>9, OneClientKeepsUp DEF StreamInv

LEMMA ForwardKeepsUp ==
    ASSUME StreamInv, NEW c \in Clients, Forward(c)
    PROVE  StreamInv'
<1> DEFINE m == Changed(queue[c])
<1>1. m \in Message /\ m.event = "orders.changed"
  BY DEF StreamInv, TypeOK, Forward, Changed, Message
<1>2. connected[c]
  BY ConnectedWhenServed DEF Forward, StreamInv
<1>3. TypeOK /\ wire' = [wire EXCEPT ![c] = Append(@, m)]
  BY DEF StreamInv, Forward
<1> HIDE DEF m
<1>4. TypeOK'
  BY <1>1, <1>2, <1>3, AppendedMessage DEF TypeOK, Forward, hookVars, screenVars
<1>5. \A d \in Clients \ {c} : Undisturbed(d)
  BY <1>1, <1>3, AppendedMessage DEF TypeOK, Forward, Undisturbed, hookVars, screenVars
<1>6. \E k \in 1..Len(wire'[c]) : wire'[c][k].event # "reconnect"
  <2> DEFINE k == Len(wire[c]) + 1
  <2>1. Len(wire'[c]) = k /\ Len(wire[c]) \in Nat /\ wire'[c][k] = m
    BY <1>1, <1>3, AppendedMessage
  <2>2. k \in 1..Len(wire'[c])
    BY <2>1
  <2> QED
    BY <1>1, <2>1, <2>2
<1>7. StaysComing(c)
  BY <1>6 DEF StaysComing, Coming
<1>8. Listening(c)' => Listening(c)
  BY DEF Listening, Forward
<1>9. UNCHANGED <<screen, log, unsaid, screenVars>>
  BY DEF Forward
<1> QED
  BY <1>4, <1>5, <1>7, <1>8, <1>9, OneClientKeepsUp DEF StreamInv

LEMMA EndSessionKeepsUp ==
    ASSUME StreamInv, NEW c \in Clients, EndSession(c)
    PROVE  StreamInv'
<1>1. Goodbye \in Message
  BY DEF Goodbye, Message
<1>2. connected[c]
  BY ConnectedWhenServed DEF EndSession, StreamInv
<1>3. TypeOK /\ wire' = [wire EXCEPT ![c] = Append(@, Goodbye)]
  BY DEF StreamInv, EndSession
<1>4. TypeOK'
  BY <1>1, <1>2, <1>3, AppendedMessage DEF TypeOK, EndSession, hookVars, screenVars
<1>5. \A d \in Clients \ {c} : Undisturbed(d)
  BY <1>1, <1>3, AppendedMessage DEF TypeOK, EndSession, Undisturbed, hookVars, screenVars
<1>6. ~Listening(c)'
  BY <1>3 DEF Listening, EndSession, TypeOK
<1>7. UNCHANGED <<screen, log, unsaid, screenVars>>
  BY DEF EndSession
<1> QED
  BY <1>4, <1>5, <1>6, <1>7, OneClientKeepsUp DEF StreamInv

-----------------------------------------------------------------------------
(* Reading the stream *)

\* The messages behind the first one are still there.
LEMMA ReadMessage ==
    ASSUME TypeOK, NEW c \in Clients, NEW event, NextMessage(c, event)
    PROVE  /\ wire' \in [Clients -> Seq(Message)]
           /\ Head(wire[c]) \in Message /\ Head(wire[c]).event = event
           /\ connected[c]
           /\ (\E k \in 1..Len(wire[c]) : wire[c][k].event # "reconnect")
                 => \/ event # "reconnect"
                    \/ \E k \in 1..Len(wire'[c]) : wire'[c][k].event # "reconnect"
           /\ \A d \in Clients \ {c} : wire'[d] = wire[d]
<1>1. wire[c] \in Seq(Message) /\ wire[c] # <<>> /\ Head(wire[c]).event = event
  BY DEF TypeOK, NextMessage
<1>2. /\ wire[c][1] = Head(wire[c]) /\ Head(wire[c]) \in Message
      /\ Tail(wire[c]) \in Seq(Message) /\ Len(Tail(wire[c])) = Len(wire[c]) - 1
      /\ Len(wire[c]) \in Nat
      /\ \A k \in 1..(Len(wire[c]) - 1) : Tail(wire[c])[k] = wire[c][k + 1]
  BY <1>1
<1>3. wire' = [wire EXCEPT ![c] = Tail(@)] /\ wire'[c] = Tail(wire[c])
  BY DEF NextMessage, TypeOK
<1>4. wire' \in [Clients -> Seq(Message)] /\ \A d \in Clients \ {c} : wire'[d] = wire[d]
  BY <1>2, <1>3 DEF TypeOK
<1>5. ASSUME NEW k \in 1..Len(wire[c]), wire[c][k].event # "reconnect", event = "reconnect"
      PROVE  \E j \in 1..Len(wire'[c]) : wire'[c][j].event # "reconnect"
  <2>1. k # 1
    BY <1>1, <1>2, <1>5
  <2>2. k - 1 \in 1..(Len(wire[c]) - 1) /\ (k - 1) + 1 = k
    BY <1>2, <2>1
  <2>3. Tail(wire[c])[k - 1] = wire[c][k] /\ k - 1 \in 1..Len(wire'[c])
    BY <1>2, <1>3, <2>2
  <2> QED
    BY <1>3, <1>5, <2>3
<1> QED
  BY <1>1, <1>2, <1>4, <1>5 DEF NextMessage

LEMMA QueueResyncTypes ==
    ASSUME TypeOK, NEW c \in Clients, QueueResync(c)
    PROVE  /\ resync' \in [Clients -> BOOLEAN] /\ recent' \in [Clients -> BOOLEAN]
           /\ timer' \in [Clients -> BOOLEAN] /\ dropped' \in [Clients -> BOOLEAN]
           /\ resync'[c] /\ timer'[c]
BY DEF TypeOK, QueueResync, QueueRefresh

LEMMA ReadGreetingKeepsUp ==
    ASSUME StreamInv, NEW c \in Clients, ReadGreeting(c)
    PROVE  StreamInv'
<1>1. TypeOK /\ NextMessage(c, "connected")
  BY DEF StreamInv, ReadGreeting
<1>2. TypeOK'
  <2>1. wire' \in [Clients -> Seq(Message)] /\ connected[c]
        /\ \A d \in Clients \ {c} : wire'[d] = wire[d]
    BY <1>1, ReadMessage
  <2>2. /\ resync' \in [Clients -> BOOLEAN] /\ recent' \in [Clients -> BOOLEAN]
        /\ timer' \in [Clients -> BOOLEAN] /\ dropped' \in [Clients -> BOOLEAN]
    <3>1. CASE QueueResync(c)
      BY <3>1, QueueResyncTypes DEF StreamInv
    <3>2. CASE UNCHANGED <<resync, recent, timer, dropped>>
      BY <3>2 DEF StreamInv, TypeOK
    <3> QED
      BY <3>1, <3>2 DEF ReadGreeting
  <2> QED
    BY <2>1, <2>2 DEF StreamInv, TypeOK, ReadGreeting, hubVars, screenVars
<1>3. \A d \in Clients \ {c} : Undisturbed(d)
  <2>1. \A d \in Clients \ {c} : wire'[d] = wire[d]
    BY <1>1, ReadMessage
  <2> QED
    BY <1>1, <2>1 DEF TypeOK, ReadGreeting, QueueResync, QueueRefresh, Undisturbed,
                      hubVars, screenVars
<1>4. TakesAll(c) => StaysComing(c)
  <2> SUFFICES ASSUME TakesAll(c) PROVE StaysComing(c)
    OBVIOUS
  <2>1. timer'[c] /\ resync'[c]
    BY <1>1 DEF TakesAll, SkipsGreeting, ReadGreeting, QueueResync, QueueRefresh, TypeOK
  <2> QED
    BY <2>1 DEF StaysComing, Coming, WantsLoad
<1>5. Listening(c)' => Listening(c)
  BY DEF Listening, ReadGreeting, hubVars
<1>6. UNCHANGED <<screen, log, unsaid, screenVars>>
  BY DEF ReadGreeting
<1> QED
  BY <1>2, <1>3, <1>4, <1>5, <1>6, OneClientKeepsUp DEF StreamInv

LEMMA ReadChangeKeepsUp ==
    ASSUME StreamInv, NEW c \in Clients, ReadChange(c)
    PROVE  StreamInv'
<1> DEFINE a == Head(wire[c]).action
<1>1. TypeOK /\ NextMessage(c, "orders.changed")
  BY DEF StreamInv, ReadChange
<1>2. wire' \in [Clients -> Seq(Message)] /\ connected[c]
      /\ \A d \in Clients \ {c} : wire'[d] = wire[d]
  BY <1>1, ReadMessage
<1>3. a \in Actions
  BY <1>1, ReadMessage DEF Message, Greeting, Goodbye, Changed
<1>4. TypeOK'
  <2>1. pending' \in [Clients -> SUBSET Actions] /\ timer' \in [Clients -> BOOLEAN]
    <3>1. CASE QueueAction(c, a)
      BY <1>1, <1>3, <3>1 DEF TypeOK, QueueAction, QueueRefresh
    <3>2. CASE UNCHANGED <<pending, timer>>
      BY <1>1, <3>2 DEF TypeOK
    <3> QED
      BY <3>1, <3>2 DEF ReadChange
  <2> QED
    BY <1>2, <2>1 DEF StreamInv, TypeOK, ReadChange, hubVars, screenVars
<1>5. \A d \in Clients \ {c} : Undisturbed(d)
  BY <1>1, <1>2 DEF TypeOK, ReadChange, QueueAction, QueueRefresh, Undisturbed,
                    hubVars, screenVars
<1>6. TakesAll(c) => StaysComing(c)
  <2> SUFFICES ASSUME TakesAll(c) PROVE StaysComing(c)
    OBVIOUS
  <2>1. timer'[c] /\ a \in pending'[c]
    BY <1>1 DEF TakesAll, Accepts, ReadChange, QueueAction, QueueRefresh, TypeOK
  <2> QED
    BY <2>1 DEF StaysComing, Coming, WantsLoad
<1>7. Listening(c)' => Listening(c)
  BY DEF Listening, ReadChange, hubVars
<1>8. UNCHANGED <<screen, log, unsaid, screenVars>>
  BY DEF ReadChange
<1> QED
  BY <1>5, <1>6, <1>7, <1>4, <1>8, OneClientKeepsUp DEF StreamInv

LEMMA ReadGoodbyeKeepsUp ==
    ASSUME StreamInv, NEW c \in Clients, ReadGoodbye(c)
    PROVE  StreamInv'
<1>1. TypeOK /\ NextMessage(c, "reconnect")
  BY DEF StreamInv, ReadGoodbye
<1>2. /\ wire' \in [Clients -> Seq(Message)] /\ connected[c]
      /\ \A d \in Clients \ {c} : wire'[d] = wire[d]
      /\ (\E k \in 1..Len(wire[c]) : wire[c][k].event # "reconnect")
            => \E k \in 1..Len(wire'[c]) : wire'[c][k].event # "reconnect"
  BY <1>1, ReadMessage
<1>3. TypeOK'
  BY <1>2 DEF StreamInv, TypeOK, ReadGoodbye, hubVars, hookVars, screenVars
<1>4. \A d \in Clients \ {c} : Undisturbed(d)
  BY <1>2 DEF ReadGoodbye, Undisturbed, hubVars, hookVars, screenVars
<1>5. StaysComing(c)
  BY <1>2 DEF StaysComing, Coming, WantsLoad, ReadGoodbye, hubVars, hookVars, screenVars
<1>6. Listening(c)' => Listening(c)
  BY DEF Listening, ReadGoodbye, hubVars
<1>7. UNCHANGED <<screen, log, unsaid, screenVars>>
  BY DEF ReadGoodbye
<1> QED
  BY <1>3, <1>4, <1>5, <1>6, <1>7, OneClientKeepsUp DEF StreamInv

LEMMA ReadEndKeepsUp ==
    ASSUME StreamInv, NEW c \in Clients, ReadEnd(c)
    PROVE  StreamInv'
<1>1. TypeOK'
  BY DEF StreamInv, TypeOK, ReadEnd, hubVars, screenVars
<1>2. \A d \in Clients \ {c} : Undisturbed(d)
  BY DEF StreamInv, TypeOK, ReadEnd, Undisturbed, hubVars, screenVars
<1>3. ~Listening(c)'
  BY DEF StreamInv, TypeOK, Listening, ReadEnd
<1>4. UNCHANGED <<screen, log, unsaid, screenVars>>
  BY DEF ReadEnd
<1> QED
  BY <1>1, <1>2, <1>3, <1>4, OneClientKeepsUp DEF StreamInv

-----------------------------------------------------------------------------
(* Streams that end, and screens that go to the background *)

LEMMA DisconnectedTypes ==
    ASSUME TypeOK, NEW c \in Clients, Disconnected(c)
    PROVE  /\ connected' \in [Clients -> BOOLEAN]
           /\ server' \in [Clients -> {"none", "subscribed", "serving"}]
           /\ queue' \in [Clients -> Actions \cup {None}]
           /\ wire' \in [Clients -> Seq(Message)]
           /\ \A d \in Clients :
                 /\ server'[d] = "none" => queue'[d] = None
                 /\ ~connected'[d] => server'[d] = "none" /\ wire'[d] = <<>>
           /\ ~connected'[c]
           /\ \A d \in Clients \ {c} :
                 /\ server'[d] = server[d] /\ queue'[d] = queue[d]
                 /\ wire'[d] = wire[d] /\ connected'[d] = connected[d]
<1>1. <<>> \in Seq(Message)
  OBVIOUS
<1>2. wire' \in [Clients -> Seq(Message)]
  BY <1>1 DEF TypeOK, Disconnected
<1> QED
  BY <1>2 DEF TypeOK, Disconnected

LEMMA MishapTypes ==
    ASSUME TypeOK, NEW kind \in {"drops", "failures"}, Mishap(kind)
    PROVE  mishaps' \in [drops : Nat, failures : Nat]
<1>1. [drops : Nat, failures : Nat] = [{"drops", "failures"} -> Nat]
  OBVIOUS
<1>2. mishaps \in [{"drops", "failures"} -> Nat]
  BY <1>1 DEF TypeOK
<1>3. mishaps' \in [{"drops", "failures"} -> Nat]
  BY <1>2 DEF Mishap
<1> QED
  BY <1>1, <1>3

LEMMA DropKeepsUp ==
    ASSUME StreamInv, NEW c \in Clients, Drop(c)
    PROVE  StreamInv'
<1>1. TypeOK /\ Disconnected(c) /\ Mishap("drops")
  BY DEF StreamInv, Drop
<1>2. TypeOK'
  BY <1>1, DisconnectedTypes, MishapTypes DEF TypeOK, Drop, screenVars
<1>3. \A d \in Clients \ {c} : Undisturbed(d)
  BY <1>1, DisconnectedTypes DEF Drop, Undisturbed, screenVars
<1>4. ~Listening(c)'
  BY <1>1, DisconnectedTypes DEF Listening
<1>5. UNCHANGED <<screen, log, unsaid, screenVars>>
  BY DEF Drop
<1> QED
  BY <1>2, <1>3, <1>4, <1>5, OneClientKeepsUp DEF StreamInv

LEMMA BackgroundKeepsUp ==
    ASSUME StreamInv, NEW c \in Clients, Background(c)
    PROVE  StreamInv'
<1>1. TypeOK /\ Disconnected(c) /\ Mishap("drops")
  BY DEF StreamInv, Background
<1>2. TypeOK'
  BY <1>1, DisconnectedTypes, MishapTypes DEF TypeOK, Background, screenVars
<1>3. \A d \in Clients \ {c} : Undisturbed(d)
  BY <1>1, DisconnectedTypes DEF Background, Undisturbed, screenVars
<1>4. ~Listening(c)'
  BY <1>1, DisconnectedTypes DEF Listening
<1>5. UNCHANGED <<screen, log, unsaid, screenVars>>
  BY DEF Background
<1> QED
  BY <1>2, <1>3, <1>4, <1>5, OneClientKeepsUp DEF StreamInv

LEMMA ForegroundKeepsUp ==
    ASSUME StreamInv, NEW c \in Clients, Foreground(c)
    PROVE  StreamInv'
<1>1. TypeOK /\ QueueResync(c)
  BY DEF StreamInv, Foreground
<1>2. TypeOK'
  BY <1>1, QueueResyncTypes DEF TypeOK, Foreground, hubVars, screenVars
<1>3. \A d \in Clients \ {c} : Undisturbed(d)
  BY <1>1 DEF TypeOK, Foreground, QueueResync, QueueRefresh, Undisturbed, hubVars, screenVars
<1>4. StaysComing(c)
  BY <1>1, QueueResyncTypes DEF StaysComing, Coming, WantsLoad
<1>5. Listening(c)' => Listening(c)
  BY DEF Listening, Foreground, hubVars
<1>6. UNCHANGED <<screen, log, unsaid, screenVars>>
  BY DEF Foreground
<1> QED
  BY <1>2, <1>3, <1>4, <1>5, <1>6, OneClientKeepsUp DEF StreamInv

LEMMA WindowPassesKeepsUp ==
    ASSUME StreamInv, NEW c \in Clients, WindowPasses(c)
    PROVE  StreamInv'
<1>1. TypeOK'
  BY DEF StreamInv, TypeOK, WindowPasses, hubVars, screenVars
<1>2. \A d \in Clients : Undisturbed(d)
  BY DEF WindowPasses, Undisturbed, hubVars, screenVars
<1>3. UNCHANGED <<screen, log, unsaid, screenVars>>
  BY DEF WindowPasses
<1>4. StaysComing(c) /\ (Listening(c)' <=> Listening(c))
  BY <1>2, <1>3, UndisturbedStaysComing
<1> QED
  BY <1>1, <1>2, <1>3, <1>4, OneClientKeepsUp DEF StreamInv

LEMMA HideKeepsUp ==
    ASSUME StreamInv, NEW c \in Clients, Hide(c)
    PROVE  StreamInv'
<1>1. TypeOK'
  BY MishapTypes DEF StreamInv, TypeOK, Hide, hubVars, hookVars, screenVars
<1>2. \A d \in Clients : Undisturbed(d)
  BY DEF Hide, Undisturbed, hubVars, hookVars, screenVars
<1>3. UNCHANGED <<screen, log, unsaid, screenVars>>
  BY DEF Hide
<1>4. StaysComing(c) /\ (Listening(c)' <=> Listening(c))
  BY <1>2, <1>3, UndisturbedStaysComing
<1> QED
  BY <1>1, <1>2, <1>3, <1>4, OneClientKeepsUp DEF StreamInv

-----------------------------------------------------------------------------
(* The loads *)

\* A step of the refresh loop of one client.
LEMMA OneLoadKeepsUp ==
    ASSUME StreamInv, NEW d \in Clients, UNCHANGED <<screen, log, unsaid>>,
           \A c \in Clients \ {d} : Undisturbed(c),
           SnapshotsFit(d)', view'[d] \in Nat, excused'[d] \in Nat,
           TakesAll(d) => /\ view[d] <= view'[d] /\ excused[d] <= excused'[d]
                          /\ Listening(d)' => Listening(d) /\ StaysComing(d)
    PROVE  AllSnapshotsFit' /\ AllKeepUp'
<1>1. AllSnapshotsFit'
  <2> SUFFICES ASSUME NEW c \in Clients, c # d PROVE SnapshotsFit(c)'
    BY DEF AllSnapshotsFit
  <2>1. SnapshotsFit(c) /\ Undisturbed(c)
    BY DEF StreamInv, AllSnapshotsFit
  <2> QED
    BY <2>1 DEF SnapshotsFit, Undisturbed
<1>2. TakesAll(d) /\ KeepsUp(d) => KeepsUp(d)'
  BY KeepsUpWhenNothingIsLost DEF StreamInv
<1> QED
  BY <1>1, <1>2, OthersKeepUp

\* What the snapshots of a client are, as numbers.
LEMMA Snapshots ==
    ASSUME StreamInv, NEW c \in Clients
    PROVE  /\ view[c] \in Nat /\ excused[c] \in Nat /\ Len(log) \in Nat
           /\ load[c] \in Load /\ load[c].shows \in Nat
           /\ SnapshotsFit(c)
           /\ load[c] # Idle => load[c].at \in {"asked", "answered"}
<1>1. load[c] \in Load /\ SnapshotsFit(c)
  BY DEF StreamInv, TypeOK, AllSnapshotsFit
<1> QED
  BY <1>1 DEF StreamInv, TypeOK, Load, SnapshotsFit

LEMMA TakePendingTypes ==
    ASSUME TypeOK, NEW C \in SUBSET Clients, TakePending(C)
    PROVE  /\ load' \in [Clients -> Load] /\ pending' \in [Clients -> SUBSET Actions]
           /\ resync' \in [Clients -> BOOLEAN]
           /\ \A c \in C : load'[c] = IF WantsLoad(c) THEN Asked ELSE Idle
           /\ \A c \in Clients \ C : /\ load'[c] = load[c] /\ pending'[c] = pending[c]
                                    /\ resync'[c] = resync[c]
<1>1. \A c \in Clients : load'[c] \in Load
  BY RequestsAreLoads DEF TypeOK, TakePending
<1>2. load' \in [Clients -> Load]
  BY <1>1 DEF TakePending
<1>3. pending' \in [Clients -> SUBSET Actions] /\ resync' \in [Clients -> BOOLEAN]
  BY DEF TypeOK, TakePending
<1>4. \A c \in Clients \ C : resync'[c] = resync[c]
  BY DEF TypeOK, TakePending
<1> QED
  BY <1>2, <1>3, <1>4 DEF TakePending

\* A load just asked for, or none, fits whatever the screen shows.
LEMMA FreshLoadFits ==
    ASSUME StreamInv, NEW c \in Clients, UNCHANGED log,
           load'[c] \in {Idle, Asked, AskedByItself},
           view'[c] \in Nat, excused'[c] \in Nat,
           view'[c] <= Len(log), excused'[c] <= Len(log)
    PROVE  SnapshotsFit(c)'
<1>1. load'[c].at = "idle" => load'[c] = Idle
  BY RequestsAreLoads
<1>2. load'[c].at # "answered"
  BY RequestsAreLoads
<1> QED
  BY <1>1, <1>2 DEF SnapshotsFit, Idle

LEMMA TimerFiresKeepsUp ==
    ASSUME StreamInv, NEW c \in Clients, TimerFires(c)
    PROVE  StreamInv'
<1>1. /\ TypeOK /\ ~screen[c].web
      /\ UNCHANGED <<screen, log, unsaid, hubVars, wire, connected, awake,
                      recent, dropped, view, excused, mishaps>>
      /\ timer' \in [Clients -> BOOLEAN] /\ \A d \in Clients \ {c} : timer'[d] = timer[d]
  BY DEF StreamInv, TypeOK, TimerFires
<1>2. CASE load[c] = Idle
  <2>1. TakePending({c})
    BY <1>2 DEF TimerFires
  <2>2. /\ load' \in [Clients -> Load] /\ pending' \in [Clients -> SUBSET Actions]
        /\ resync' \in [Clients -> BOOLEAN]
        /\ load'[c] = IF WantsLoad(c) THEN Asked ELSE Idle
        /\ \A d \in Clients \ {c} : /\ load'[d] = load[d] /\ pending'[d] = pending[d]
                                    /\ resync'[d] = resync[d]
    BY <1>1, <2>1, TakePendingTypes
  <2>3. TypeOK'
    BY <1>1, <2>2 DEF TypeOK, hubVars
  <2>4. \A d \in Clients \ {c} : Undisturbed(d)
    BY <1>1, <2>2 DEF Undisturbed, hubVars
  <2>5. StaysComing(c)
    BY <1>1, <1>2, <2>2, RequestsAreLoads DEF StaysComing, Coming, hubVars
  <2>6. SnapshotsFit(c)'
    BY <1>1, <2>2, Snapshots, FreshLoadFits DEF SnapshotsFit
  <2>7. Listening(c)' => Listening(c)
    BY <1>1 DEF Listening, hubVars
  <2> QED
    BY <1>1, <2>3, <2>4, <2>5, <2>6, <2>7, Snapshots, OneLoadKeepsUp DEF StreamInv
<1>3. CASE load[c] # Idle
  <2>1. UNCHANGED <<load, pending, resync>>
    BY <1>3 DEF TimerFires
  <2>2. TypeOK'
    BY <1>1, <2>1 DEF TypeOK, hubVars
  <2>3. \A d \in Clients \ {c} : Undisturbed(d)
    BY <1>1, <2>1 DEF Undisturbed, hubVars
  <2>4. StaysComing(c)
    BY <1>1, <1>3, <2>1 DEF StaysComing, Coming, WantsLoad, hubVars
  <2>5. Listening(c)' => Listening(c)
    BY <1>1 DEF Listening, hubVars
  <2> QED
    BY <1>1, <2>1, <2>2, <2>3, <2>4, <2>5, OneClientKeepsUp DEF StreamInv, screenVars
<1> QED
  BY <1>2, <1>3

LEMMA WebTimerFiresKeepsUp ==
    ASSUME StreamInv, NEW c \in Clients, WebTimerFires(c)
    PROVE  StreamInv'
<1>1. /\ TypeOK /\ ~TakesAll(c)
      /\ UNCHANGED <<screen, log, unsaid, hubVars, wire, connected, awake, pending,
                      recent, dropped, view, excused, mishaps>>
      /\ timer' \in [Clients -> BOOLEAN] /\ \A d \in Clients \ {c} : timer'[d] = timer[d]
      /\ resync' \in [Clients -> BOOLEAN] /\ \A d \in Clients \ {c} : resync'[d] = resync[d]
  BY DEF StreamInv, TypeOK, WebTimerFires, TakesAll
<1>2. /\ load' \in [Clients -> Load] /\ \A d \in Clients \ {c} : load'[d] = load[d]
      /\ load'[c] = IF load[c] = Idle THEN Asked ELSE load[c]
  BY <1>1, RequestsAreLoads DEF TypeOK, WebTimerFires
<1>3. TypeOK'
  BY <1>1, <1>2 DEF TypeOK, hubVars
<1>4. \A d \in Clients \ {c} : Undisturbed(d)
  BY <1>1, <1>2 DEF Undisturbed, hubVars
<1>5. SnapshotsFit(c)'
  <2>1. CASE load[c] = Idle
    BY <1>1, <1>2, <2>1, Snapshots, FreshLoadFits DEF SnapshotsFit
  <2>2. CASE load[c] # Idle
    BY <1>1, <1>2, <2>2, Snapshots DEF SnapshotsFit
  <2> QED
    BY <2>1, <2>2
<1> QED
  BY <1>1, <1>3, <1>4, <1>5, Snapshots, OneLoadKeepsUp DEF StreamInv

\* A page shown again, and a poll: a load is asked for when there is none.
LEMMA AskingKeepsUp ==
    ASSUME StreamInv, NEW c \in Clients, NEW request \in {Asked, AskedByItself},
           load' = [load EXCEPT ![c] = IF @ = Idle THEN request ELSE @],
           TypeOK => awake' \in [Clients -> BOOLEAN],
           UNCHANGED <<screen, log, unsaid, hubVars, wire, connected, hookVars,
                       view, excused, mishaps>>
    PROVE  StreamInv'
<1>1. /\ load' \in [Clients -> Load] /\ \A d \in Clients \ {c} : load'[d] = load[d]
      /\ load'[c] = IF load[c] = Idle THEN request ELSE load[c]
  BY RequestsAreLoads DEF StreamInv, TypeOK
<1>2. TypeOK'
  BY <1>1 DEF StreamInv, TypeOK, hubVars, hookVars
<1>3. \A d \in Clients \ {c} : Undisturbed(d)
  BY <1>1 DEF Undisturbed, hubVars, hookVars
<1>4. SnapshotsFit(c)'
  <2>1. CASE load[c] = Idle
    BY <1>1, <2>1, Snapshots, FreshLoadFits DEF SnapshotsFit
  <2>2. CASE load[c] # Idle
    BY <1>1, <2>2, Snapshots DEF SnapshotsFit
  <2> QED
    BY <2>1, <2>2
<1>5. StaysComing(c)
  <2>1. CASE load[c] = Idle
    BY <1>1, <2>1, RequestsAreLoads DEF StaysComing, Coming
  <2>2. CASE load[c] # Idle
    BY <1>1, <2>2 DEF StaysComing, Coming, WantsLoad, hubVars, hookVars
  <2> QED
    BY <2>1, <2>2
<1>6. Listening(c)' => Listening(c)
  BY DEF Listening, hubVars
<1> QED
  BY <1>2, <1>3, <1>4, <1>5, <1>6, Snapshots, OneLoadKeepsUp DEF StreamInv

LEMMA ShowKeepsUp ==
    ASSUME StreamInv, NEW c \in Clients, Show(c)
    PROVE  StreamInv'
<1>1. TypeOK => awake' \in [Clients -> BOOLEAN]
  BY DEF TypeOK, Show
<1> QED
  BY <1>1, AskingKeepsUp DEF Show

LEMMA PollKeepsUp ==
    ASSUME StreamInv, NEW c \in Clients, Poll(c)
    PROVE  StreamInv'
<1> DEFINE request == IF screen[c].web THEN AskedByItself ELSE Asked
<1>1. request \in {Asked, AskedByItself}
  OBVIOUS
<1>2. load' = [load EXCEPT ![c] = IF @ = Idle THEN request ELSE @]
  BY DEF Poll
<1>3. TypeOK => awake' \in [Clients -> BOOLEAN]
  BY DEF TypeOK, Poll
<1> HIDE DEF request
<1> QED
  BY <1>1, <1>2, <1>3, AskingKeepsUp DEF Poll

LEMMA AnswerLoadKeepsUp ==
    ASSUME StreamInv, NEW c \in Clients, AnswerLoad(c)
    PROVE  StreamInv'
<1>1. /\ load[c] \in Load /\ load[c].at = "asked" /\ Len(log) \in Nat
      /\ load' = [load EXCEPT ![c] = [[load[c] EXCEPT !.at = "answered"]
                                          EXCEPT !.shows = Len(log)]]
  BY Snapshots DEF AnswerLoad
<1>2. /\ load'[c] \in Load /\ load'[c].at = "answered" /\ load'[c].shows = Len(log)
      /\ \A d \in Clients \ {c} : load'[d] = load[d]
      /\ load' \in [Clients -> Load]
  BY <1>1 DEF StreamInv, TypeOK, Load
<1>3. UNCHANGED <<screen, log, unsaid, hubVars, wire, connected, awake,
                  hookVars, view, excused, mishaps>>
  BY DEF AnswerLoad
<1>4. TypeOK'
  BY <1>2, <1>3 DEF StreamInv, TypeOK, hubVars, hookVars
<1>5. \A d \in Clients \ {c} : Undisturbed(d)
  BY <1>2, <1>3 DEF Undisturbed, hubVars, hookVars
<1>6. SnapshotsFit(c)'
  BY <1>2, <1>3, Snapshots DEF SnapshotsFit
<1>7. StaysComing(c)
  BY <1>2, <1>3 DEF StaysComing, Coming
<1>8. Listening(c)' => Listening(c)
  BY <1>3 DEF Listening, hubVars
<1> QED
  BY <1>3, <1>4, <1>5, <1>6, <1>7, <1>8, Snapshots, OneLoadKeepsUp DEF StreamInv

\* The answer on the screen is no older than what was there.
LEMMA LandLoadKeepsUp ==
    ASSUME StreamInv, NEW c \in Clients, LandLoad(c)
    PROVE  StreamInv'
<1>1. /\ load[c].at = "answered" /\ TypeOK
      /\ view[c] <= load[c].shows /\ load[c].shows <= Len(log)
      /\ UNCHANGED <<screen, log, unsaid, hubVars, wire, connected, awake,
                      recent, timer, dropped, excused, mishaps>>
  BY Snapshots DEF LandLoad, SnapshotsFit, StreamInv
<1>2. /\ view' \in [Clients -> Nat] /\ view'[c] = load[c].shows
      /\ \A d \in Clients \ {c} : view'[d] = view[d]
  BY Snapshots DEF LandLoad, StreamInv, TypeOK
<1>3. /\ load' \in [Clients -> Load] /\ pending' \in [Clients -> SUBSET Actions]
      /\ resync' \in [Clients -> BOOLEAN]
      /\ load'[c] = IF WantsLoad(c) THEN Asked ELSE Idle
      /\ \A d \in Clients \ {c} : /\ load'[d] = load[d] /\ pending'[d] = pending[d]
                                  /\ resync'[d] = resync[d]
  BY <1>1, TakePendingTypes DEF LandLoad
<1>4. TypeOK'
  BY <1>1, <1>2, <1>3 DEF TypeOK, hubVars
<1>5. \A d \in Clients \ {c} : Undisturbed(d)
  BY <1>1, <1>2, <1>3 DEF Undisturbed, hubVars
<1>6. SnapshotsFit(c)'
  BY <1>1, <1>2, <1>3, Snapshots, FreshLoadFits DEF SnapshotsFit
<1>7. StaysComing(c)
  <2> SUFFICES ASSUME NEW i \in 1..Len(log), Coming(c, i), view'[c] < i, ~WantsLoad(c)
               PROVE  Coming(c, i)'
    BY <1>3, RequestsAreLoads DEF StaysComing, Coming
  <2>1. ~(i <= load[c].shows)
    BY <1>2, Snapshots
  <2>2. ~screen[c].web \/ timer'[c] = timer[c]
    BY <1>1
  <2> QED
    BY <1>1, <2>1, <2>2 DEF Coming, hubVars
<1>8. Listening(c)' => Listening(c)
  BY <1>1 DEF Listening, hubVars
<1> QED
  BY <1>1, <1>2, <1>4, <1>5, <1>6, <1>7, <1>8, Snapshots, OneLoadKeepsUp DEF StreamInv

LEMMA LoadsFailTypes ==
    ASSUME StreamInv, NEW C, LoadsFail(C)
    PROVE  /\ excused' \in [Clients -> Nat]
           /\ \A c \in Clients : c \notin C => excused'[c] = excused[c]
           /\ \A c \in Clients : c \in C /\ load[c] # Idle =>
                 /\ excused[c] <= excused'[c] /\ excused'[c] <= Len(log)
                 /\ load[c].at = "answered" => excused'[c] = load[c].shows
                 /\ load[c].at = "asked" => excused'[c] = Len(log)
<1>1. \A c \in Clients : excused'[c] = IF c \notin C THEN excused[c]
                                        ELSE IF load[c].at = "asked" THEN Len(log)
                                        ELSE load[c].shows
  BY DEF LoadsFail
<1>2. ASSUME NEW c \in Clients, c \in C, load[c] # Idle
      PROVE  /\ excused[c] <= excused'[c] /\ excused'[c] <= Len(log)
             /\ load[c].at = "answered" => excused'[c] = load[c].shows
             /\ load[c].at = "asked" => excused'[c] = Len(log)
  BY <1>1, <1>2, Snapshots DEF SnapshotsFit
<1>3. \A c \in Clients : excused'[c] \in Nat
  BY <1>1, Snapshots
<1>4. excused' \in [Clients -> Nat]
  BY <1>3 DEF LoadsFail
<1> QED
  BY <1>1, <1>2, <1>4

LEMMA FailLoadKeepsUp ==
    ASSUME StreamInv, NEW c \in Clients, FailLoad(c)
    PROVE  StreamInv'
<1>1. /\ TypeOK /\ load[c] # Idle /\ TakePending({c})
      /\ UNCHANGED <<screen, log, unsaid, hubVars, wire, connected, awake,
                      recent, timer, dropped, view>>
  BY DEF FailLoad, LoadsFail, StreamInv
<1>2. /\ excused' \in [Clients -> Nat]
      /\ \A d \in Clients \ {c} : excused'[d] = excused[d]
      /\ excused[c] <= excused'[c] /\ excused'[c] <= Len(log)
      /\ load[c].at = "answered" => excused'[c] = load[c].shows
      /\ load[c].at = "asked" => excused'[c] = Len(log)
  <2> DEFINE C == {c}
  <2>1. LoadsFail(C) /\ c \in C /\ \A d \in Clients \ {c} : d \notin C
    BY DEF FailLoad
  <2> HIDE DEF C
  <2> QED
    BY <1>1, <2>1, LoadsFailTypes
<1>3. /\ load' \in [Clients -> Load] /\ pending' \in [Clients -> SUBSET Actions]
      /\ resync' \in [Clients -> BOOLEAN]
      /\ load'[c] = IF WantsLoad(c) THEN Asked ELSE Idle
      /\ \A d \in Clients \ {c} : /\ load'[d] = load[d] /\ pending'[d] = pending[d]
                                  /\ resync'[d] = resync[d]
  BY <1>1, TakePendingTypes
<1>4. TypeOK'
  <2>1. mishaps' \in [drops : Nat, failures : Nat]
    BY <1>1, MishapTypes DEF FailLoad
  <2> QED
    BY <1>1, <1>2, <1>3, <2>1 DEF TypeOK, hubVars
<1>5. \A d \in Clients \ {c} : Undisturbed(d)
  BY <1>1, <1>2, <1>3 DEF Undisturbed, hubVars
<1>6. SnapshotsFit(c)'
  BY <1>1, <1>2, <1>3, Snapshots, FreshLoadFits DEF SnapshotsFit
<1>7. StaysComing(c)
  <2> SUFFICES ASSUME NEW i \in 1..Len(log), Coming(c, i), excused'[c] < i, ~WantsLoad(c)
               PROVE  Coming(c, i)'
    BY <1>3, RequestsAreLoads DEF StaysComing, Coming
  <2>1. load[c].at # "asked" /\ (load[c].at = "answered" => ~(i <= load[c].shows))
    BY <1>2, Snapshots
  <2>2. timer'[c] = timer[c]
    BY <1>1
  <2> QED
    BY <1>1, <2>1, <2>2 DEF Coming, hubVars
<1>8. Listening(c)' => Listening(c)
  BY <1>1 DEF Listening, hubVars
<1> QED
  BY <1>1, <1>2, <1>4, <1>5, <1>6, <1>7, <1>8, Snapshots, OneLoadKeepsUp DEF StreamInv

LEMMA CrashBackendKeepsUp ==
    ASSUME StreamInv, CrashBackend
    PROVE  StreamInv'
<1> DEFINE C == {c \in Clients : load[c] # Idle}
<1>1. /\ TypeOK /\ LoadsFail(C) /\ TakePending(C) /\ C \in SUBSET Clients
      /\ unsaid' = {} /\ UNCHANGED <<screen, log, awake, recent, timer, view>>
      /\ Mishap("drops")
  BY DEF StreamInv, CrashBackend, LoadsFail
<1>2. /\ excused' \in [Clients -> Nat]
      /\ \A c \in Clients : excused'[c] <= Len(log)
  <2>1. \A c \in C : load[c] # Idle
    OBVIOUS
  <2>2. \A c \in Clients : excused[c] <= Len(log)
    BY Snapshots DEF SnapshotsFit
  <2> HIDE DEF C
  <2>3. /\ excused' \in [Clients -> Nat]
        /\ \A c \in Clients \ C : excused'[c] = excused[c]
        /\ \A c \in Clients : c \in C => excused'[c] <= Len(log)
    BY <1>1, <2>1, LoadsFailTypes
  <2> QED
    BY <2>2, <2>3
<1>3. /\ load' \in [Clients -> Load] /\ pending' \in [Clients -> SUBSET Actions]
      /\ resync' \in [Clients -> BOOLEAN]
      /\ \A c \in Clients : load'[c] \in {Idle, Asked}
  <2>1. \A c \in Clients \ C : load[c] = Idle
    OBVIOUS
  <2> HIDE DEF C
  <2> QED
    BY <1>1, <2>1, TakePendingTypes
<1>4. TypeOK'
  <2>1. wire' \in [Clients -> Seq(Message)] /\ \A c \in Clients : wire'[c] = <<>>
    BY DEF CrashBackend
  <2>2. mishaps' \in [drops : Nat, failures : Nat]
    BY <1>1, MishapTypes
  <2>3. dropped' \in [Clients -> BOOLEAN]
    BY DEF StreamInv, TypeOK, CrashBackend
  <2> HIDE DEF C
  <2> QED
    BY <1>1, <1>2, <1>3, <2>1, <2>2, <2>3 DEF TypeOK, CrashBackend
<1>5. AllSnapshotsFit'
  <2> SUFFICES ASSUME NEW c \in Clients PROVE SnapshotsFit(c)'
    BY DEF AllSnapshotsFit
  <2>1. /\ view'[c] \in Nat /\ excused'[c] \in Nat /\ view'[c] <= Len(log)
        /\ excused'[c] <= Len(log) /\ load'[c] \in {Idle, Asked, AskedByItself}
    BY <1>1, <1>2, <1>3, Snapshots DEF SnapshotsFit
  <2> QED
    BY <1>1, <2>1, FreshLoadFits
<1>6. \A c \in Clients : ~Listening(c)'
  BY DEF CrashBackend, Listening
<1>7. AllKeepUp'
  BY <1>6 DEF AllKeepUp, KeepsUp
<1> QED
  BY <1>4, <1>5, <1>7 DEF StreamInv

-----------------------------------------------------------------------------
(* The theorems *)

LEMMA StepKeepsUp == StreamInv /\ [Next]_vars => StreamInv'
<1> SUFFICES ASSUME StreamInv, [Next]_vars PROVE StreamInv'
  OBVIOUS
<1>1. ASSUME NEW a \in Actions, Commit(a) PROVE StreamInv'
  BY <1>1, CommitKeepsUp
<1>2. ASSUME NEW i \in unsaid, Publish(i) PROVE StreamInv'
  BY <1>2, PublishKeepsUp
<1>3. CASE CrashBackend
  BY <1>3, CrashBackendKeepsUp
<1>4. ASSUME NEW c \in Clients, Backend(c) \/ EndSession(c) PROVE StreamInv'
  BY <1>4, GreetKeepsUp, ForwardKeepsUp, EndSessionKeepsUp DEF Backend
<1>5. ASSUME NEW c \in Clients, Connect(c) \/ Reading(c) \/ Drop(c) PROVE StreamInv'
  BY <1>5, ConnectKeepsUp, ReadGreetingKeepsUp, ReadChangeKeepsUp, ReadGoodbyeKeepsUp,
     ReadEndKeepsUp, DropKeepsUp DEF Reading
<1>6. ASSUME NEW c \in Clients,
             Background(c) \/ Foreground(c) \/ WindowPasses(c) \/ Hide(c) \/ Show(c)
      PROVE  StreamInv'
  BY <1>6, BackgroundKeepsUp, ForegroundKeepsUp, WindowPassesKeepsUp, HideKeepsUp,
     ShowKeepsUp
<1>7. ASSUME NEW c \in Clients, Loading(c) \/ FailLoad(c) \/ Poll(c) PROVE StreamInv'
  BY <1>7, TimerFiresKeepsUp, WebTimerFiresKeepsUp, AnswerLoadKeepsUp, LandLoadKeepsUp,
     FailLoadKeepsUp, PollKeepsUp DEF Loading
<1>8. CASE UNCHANGED vars
  BY <1>8 DEF vars, hubVars, hookVars, screenVars, StreamInv, TypeOK, AllSnapshotsFit,
     SnapshotsFit, AllKeepUp, TakesAll, KeepsUp, Listening, Accepts, Coming, WantsLoad
<1> QED
  BY <1>1, <1>2, <1>3, <1>4, <1>5, <1>6, <1>7, <1>8 DEF Next

LEMMA StreamInvariant == Spec => []StreamInv
BY InitKeepsUp, StepKeepsUp, PTL DEF Spec

\* The hub, the wires, the hooks and the loads keep their types, for any number
\* of screens and through crashes, drops and trips to the background; a channel
\* holds an event only while it is subscribed.
THEOREM EventsTypeCorrect == Spec => []TypeOK
<1>1. StreamInv => TypeOK
  BY DEF StreamInv
<1> QED
  BY <1>1, StreamInvariant, PTL

\* A phone that takes every event and greeting, and listens, has on its way
\* every committed change that is not on its screen, though the hub holds one
\* event per stream and drops the others.
THEOREM NothingIsEverMissed == Spec => []NothingIsMissed
<1>1. StreamInv => NothingIsMissed
  BY DEF StreamInv, AllKeepUp, TakesAll, NothingIsMissed
<1> QED
  BY <1>1, StreamInvariant, PTL

-----------------------------------------------------------------------------
(* The kitchen screen: the requests in flight *)

USE KitchenBoardAssumption

Kinds == {"load", "quiet", "reconcile"}
Reconciling(rs) == \E r \in rs : r.kind = "reconcile"

\* Requests of which one counts at most, one holds the screen and one
\* reconciles; none knows more than the log n, and an answer that counts knows
\* the board b.
Sound(rs, b, n) ==
    /\ rs \in SUBSET Request
    /\ \A r, q \in rs : r.current /\ q.current => r = q
    /\ \A r, q \in rs : r.front /\ q.front => r = q
    /\ \A r, q \in rs : r.kind = "reconcile" /\ q.kind = "reconcile" => r = q
    /\ \A r \in rs : r.front => r.kind = "load"
    /\ \A r \in rs : r.shows <= n
    /\ \A r \in rs : r.current /\ r.shows # Unread => b <= r.shows

Numbers ==
    /\ changes \in 0..NumChanges /\ board \in 0..changes /\ due \in 0..changes
    /\ forgone \in 0..changes /\ failures \in 0..NumFailures
Switches ==
    /\ owed \in BOOLEAN /\ focused \in BOOLEAN /\ greeting \in BOOLEAN
    /\ gate \in {"free", "writing", "reconciling"}

\* The tap that holds the gate reconciles with one request.
GateHeld == gate = "reconciling" <=> Reconciling(requests)

Kept == Numbers /\ Switches /\ Sound(requests, board, changes) /\ GateHeld
IInv == Kept /\ NoRefreshIsForgotten

LEMMA KeptIsTypeOK == Kept => BoardTypeOK
BY DEF Kept, Numbers, Switches, Sound, GateHeld, Reconciling, BoardTypeOK

-----------------------------------------------------------------------------
(* Sets of requests *)

LEMMA InvalidatedFields ==
    ASSUME NEW r \in Request
    PROVE  LET q == [r EXCEPT !.current = FALSE]
           IN  /\ q \in Request /\ ~q.current /\ q.front = r.front
               /\ q.kind = r.kind /\ q.shows = r.shows
BY DEF Request

LEMMA ReleasedFields ==
    ASSUME NEW r \in Request
    PROVE  LET q == [r EXCEPT !.front = FALSE]
           IN  /\ q \in Request /\ ~q.front /\ q.current = r.current
               /\ q.kind = r.kind /\ q.shows = r.shows
BY DEF Request

LEMMA NewFields ==
    ASSUME NEW kind \in Kinds
    PROVE  /\ New(kind) \in Request /\ New(kind).current
           /\ New(kind).front <=> kind = "load"
           /\ New(kind).kind = kind /\ New(kind).shows = Unread
BY DEF New, Request, Kinds

LEMMA InvalidatedSound ==
    ASSUME NEW rs, NEW b, NEW n, Sound(rs, b, n)
    PROVE  /\ Sound(Invalidated(rs), b, n)
           /\ \A r \in Invalidated(rs) : ~r.current
           /\ ForegroundPending(Invalidated(rs)) <=> ForegroundPending(rs)
           /\ Reconciling(Invalidated(rs)) <=> Reconciling(rs)
<1>1. ASSUME NEW r \in rs
      PROVE  LET q == [r EXCEPT !.current = FALSE]
             IN  /\ q \in Request /\ ~q.current /\ q.front = r.front
                 /\ q.kind = r.kind /\ q.shows = r.shows
  BY InvalidatedFields DEF Sound
<1>2. \A q \in Invalidated(rs) : \E r \in rs :
          /\ q = [r EXCEPT !.current = FALSE]
          /\ q \in Request /\ ~q.current /\ q.front = r.front
          /\ q.kind = r.kind /\ q.shows = r.shows
  BY <1>1 DEF Invalidated
<1>3. \A r \in rs : \E q \in Invalidated(rs) : q.front = r.front /\ q.kind = r.kind
  BY <1>1 DEF Invalidated
<1>4. Sound(Invalidated(rs), b, n)
  <2>1. ASSUME NEW p \in Invalidated(rs), NEW q \in Invalidated(rs)
        PROVE  /\ p \in Request
               /\ p.current /\ q.current => p = q
               /\ p.front /\ q.front => p = q
               /\ p.kind = "reconcile" /\ q.kind = "reconcile" => p = q
               /\ p.front => p.kind = "load"
               /\ p.shows <= n
               /\ p.current /\ p.shows # Unread => b <= p.shows
    <3>1. PICK x \in rs, y \in rs :
              /\ p = [x EXCEPT !.current = FALSE] /\ q = [y EXCEPT !.current = FALSE]
              /\ p \in Request /\ p.kind = x.kind /\ p.shows = x.shows
              /\ ~p.current /\ ~q.current /\ p.front = x.front /\ q.front = y.front /\ q.kind = y.kind
      BY <1>2
    <3> QED
      BY <3>1 DEF Sound
  <2> QED
    BY <2>1 DEF Sound
<1>5. \A r \in Invalidated(rs) : ~r.current
  BY <1>2
<1>6. ForegroundPending(Invalidated(rs)) <=> ForegroundPending(rs)
  BY <1>2, <1>3, Zenon DEF ForegroundPending
<1>7. Reconciling(Invalidated(rs)) <=> Reconciling(rs)
  <2>1. Reconciling(Invalidated(rs)) => Reconciling(rs)
    BY <1>2 DEF Reconciling
  <2>2. Reconciling(rs) => Reconciling(Invalidated(rs))
    BY <1>3 DEF Reconciling
  <2> QED
    BY <2>1, <2>2
<1> QED
  BY <1>4, <1>5, <1>6, <1>7

LEMMA ReleasedSound ==
    ASSUME NEW rs, NEW b, NEW n, Sound(rs, b, n)
    PROVE  /\ Sound(Released(rs), b, n)
           /\ ~ForegroundPending(Released(rs))
           /\ Reconciling(Released(rs)) <=> Reconciling(rs)
<1>1. ASSUME NEW r \in rs
      PROVE  LET q == [r EXCEPT !.front = FALSE]
             IN  /\ q \in Request /\ ~q.front /\ q.current = r.current
                 /\ q.kind = r.kind /\ q.shows = r.shows
  BY ReleasedFields DEF Sound
<1>2. \A q \in Released(rs) : \E r \in rs :
          /\ q = [r EXCEPT !.front = FALSE]
          /\ q \in Request /\ ~q.front /\ q.current = r.current
          /\ q.kind = r.kind /\ q.shows = r.shows
  BY <1>1 DEF Released
<1>3. \A r \in rs : \E q \in Released(rs) : q.kind = r.kind
  BY <1>1 DEF Released
<1>4. Sound(Released(rs), b, n)
  <2>1. ASSUME NEW p \in Released(rs), NEW q \in Released(rs)
        PROVE  /\ p \in Request
               /\ p.current /\ q.current => p = q
               /\ p.front /\ q.front => p = q
               /\ p.kind = "reconcile" /\ q.kind = "reconcile" => p = q
               /\ p.front => p.kind = "load"
               /\ p.shows <= n
               /\ p.current /\ p.shows # Unread => b <= p.shows
    <3>1. PICK x \in rs, y \in rs :
              /\ p = [x EXCEPT !.front = FALSE] /\ q = [y EXCEPT !.front = FALSE]
              /\ p \in Request /\ p.kind = x.kind /\ p.shows = x.shows
              /\ ~p.front /\ ~q.front /\ p.current = x.current /\ q.current = y.current /\ q.kind = y.kind
      BY <1>2
    <3> QED
      BY <3>1 DEF Sound
  <2> QED
    BY <2>1 DEF Sound
<1>5. ~ForegroundPending(Released(rs))
  BY <1>2, Zenon DEF ForegroundPending
<1>6. Reconciling(Released(rs)) <=> Reconciling(rs)
  <2>1. Reconciling(Released(rs)) => Reconciling(rs)
    BY <1>2 DEF Reconciling
  <2>2. Reconciling(rs) => Reconciling(Released(rs))
    BY <1>3 DEF Reconciling
  <2> QED
    BY <2>1, <2>2
<1> QED
  BY <1>4, <1>5, <1>6

\* A request that begins is the one that counts, and has no answer yet.
LEMMA BeginSound ==
    ASSUME NEW rs, NEW b, NEW n \in Nat, NEW kind \in Kinds, Sound(rs, b, n),
           kind = "load" => ~ForegroundPending(rs),
           kind = "reconcile" => ~Reconciling(rs)
    PROVE  /\ Sound(Begin(rs, kind), b, n)
           /\ \E r \in Begin(rs, kind) : r.current /\ r.shows = Unread
           /\ Reconciling(Begin(rs, kind)) <=> Reconciling(rs) \/ kind = "reconcile"
<1> DEFINE old == Invalidated(rs)
<1>1. /\ Sound(old, b, n) /\ \A r \in old : ~r.current
      /\ ForegroundPending(old) <=> ForegroundPending(rs)
      /\ Reconciling(old) <=> Reconciling(rs)
  BY InvalidatedSound
<1>2. /\ New(kind) \in Request /\ New(kind).current
      /\ New(kind).front <=> kind = "load"
      /\ New(kind).kind = kind /\ New(kind).shows = Unread
  BY NewFields
<1>3. Begin(rs, kind) = old \cup {New(kind)}
  BY DEF Begin
<1> HIDE DEF old
<1>4. Unread <= n
  BY DEF Unread
<1>5. Sound(old \cup {New(kind)}, b, n)
  <2>1. old \cup {New(kind)} \in SUBSET Request
    BY <1>1, <1>2 DEF Sound
  <2>2. \A r, q \in old \cup {New(kind)} : r.current /\ q.current => r = q
    BY <1>1, <1>2, Zenon
  <2>3. \A r, q \in old \cup {New(kind)} : r.front /\ q.front => r = q
    BY <1>1, <1>2 DEF Sound, ForegroundPending
  <2>4. \A r, q \in old \cup {New(kind)} :
            r.kind = "reconcile" /\ q.kind = "reconcile" => r = q
    BY <1>1, <1>2 DEF Sound, Reconciling
  <2>5. \A r \in old \cup {New(kind)} : r.front => r.kind = "load"
    BY <1>1, <1>2 DEF Sound
  <2>6. \A r \in old \cup {New(kind)} : r.shows <= n
    BY <1>1, <1>2, <1>4 DEF Sound
  <2>7. \A r \in old \cup {New(kind)} : r.current /\ r.shows # Unread => b <= r.shows
    BY <1>1, <1>2 DEF Sound
  <2> QED
    BY <2>1, <2>2, <2>3, <2>4, <2>5, <2>6, <2>7 DEF Sound
<1> QED
  BY <1>1, <1>2, <1>3, <1>5 DEF Reconciling

LEMMA FewerSound ==
    ASSUME NEW rs, NEW b, NEW n, Sound(rs, b, n), NEW r
    PROVE  Sound(rs \ {r}, b, n)
BY DEF Sound

\* The log grows, and nobody's answer is newer than it was.
LEMMA LongerLogSound ==
    ASSUME NEW rs, NEW b, NEW n \in Nat, Sound(rs, b, n)
    PROVE  Sound(rs, b, n + 1)
<1>1. \A r \in rs : r.shows <= n + 1
  BY DEF Sound, Request, Unread
<1> QED
  BY <1>1 DEF Sound
-----------------------------------------------------------------------------
(* What load and the finally blocks do to them *)

LEMMA LoadKept ==
    ASSUME Kept, LoadBoard(requests)
    PROVE  /\ Sound(requests', board, changes) /\ owed' = owed
           /\ Reconciling(requests') <=> Reconciling(requests)
           /\ gate = "free" => \E r \in requests' : r.current /\ r.shows = Unread
<1>1. changes \in Nat
  BY DEF Kept, Numbers
<1>2. CASE gate = "free"
  <2>1. requests' = Begin(Released(requests), "load")
    BY <1>2 DEF LoadBoard
  <2> QED
    BY <1>1, <2>1, ReleasedSound, BeginSound DEF LoadBoard, Kept, Kinds
<1>3. CASE gate # "free"
  BY <1>3 DEF LoadBoard, Kept
<1> QED
  BY <1>2, <1>3

\* It goes out, or is owed for a reason that ends.
LEMMA QuietKept ==
    ASSUME Kept, LoadQuietly(requests, gate)
    PROVE  /\ Sound(requests', board, changes) /\ owed' \in BOOLEAN
           /\ Reconciling(requests') <=> Reconciling(requests)
           /\ \/ \E r \in requests' : r.current /\ r.shows = Unread
              \/ owed' /\ (gate # "free" \/ ForegroundPending(requests'))
<1>1. changes \in Nat /\ owed \in BOOLEAN /\ Sound(requests, board, changes)
  BY DEF Kept, Numbers, Switches
<1>2. CASE ShouldStartQuietly(requests, gate)
  <2>1. requests' = Begin(requests, "quiet")
    BY <1>2 DEF LoadQuietly
  <2>2. owed' \in BOOLEAN
    BY <1>1, Zenon DEF LoadQuietly
  <2> QED
    BY <1>1, <2>1, <2>2, BeginSound DEF Kinds
<1>3. CASE ~ShouldStartQuietly(requests, gate)
  <2>1. requests' = requests /\ owed' = TRUE
    BY <1>1, <1>3 DEF LoadQuietly
  <2> QED
    BY <1>1, <1>3, <2>1 DEF ShouldStartQuietly
<1> QED
  BY <1>2, <1>3

\* What is owed goes out, or stays owed for a reason that ends.
LEMMA PayBackKept ==
    ASSUME NEW rs, NEW b, NEW n \in Nat, NEW g, Sound(rs, b, n), owed \in BOOLEAN,
           PayBack(rs, g)
    PROVE  /\ Sound(requests', b, n) /\ owed' \in BOOLEAN
           /\ Reconciling(requests') <=> Reconciling(rs)
           /\ \/ \E r \in requests' : r.current /\ r.shows = Unread
              \/ requests' = rs
           /\ owed => \/ \E r \in requests' : r.current /\ r.shows = Unread
                      \/ owed' /\ (g # "free" \/ ForegroundPending(requests'))
<1>1. CASE ~owed
  BY <1>1 DEF PayBack
<1>2. CASE owed /\ ShouldStartQuietly(rs, g)
  <2>1. requests' = Begin(rs, "quiet") /\ owed' = FALSE
    BY <1>2 DEF PayBack
  <2> QED
    BY <2>1, BeginSound DEF Kinds
<1>3. CASE owed /\ ~ShouldStartQuietly(rs, g)
  <2>1. requests' = rs /\ owed' = TRUE
    BY <1>3 DEF PayBack
  <2> QED
    BY <1>3, <2>1 DEF ShouldStartQuietly
<1> QED
  BY <1>1, <1>2, <1>3

\* An answer settles: the gate opens with the request it waited for, and what
\* is owed goes out or keeps its reason.
LEMMA SettleKept ==
    ASSUME Kept, NEW r \in requests, Settle(r), NEW b, Sound(requests \ {r}, b, changes)
    PROVE  /\ Sound(requests', b, changes) /\ owed' \in BOOLEAN
           /\ gate' \in {gate, "free"} /\ (gate' = "reconciling" <=> Reconciling(requests'))
           /\ gate = "writing" => gate' = "writing"
           /\ \/ \E q \in requests' : q.current /\ q.shows = Unread
              \/ requests' = requests \ {r}
           /\ owed /\ (gate # "free" \/ ForegroundPending(requests)) =>
                  \/ \E q \in requests' : q.current /\ q.shows = Unread
                  \/ owed' /\ (gate' # "free" \/ ForegroundPending(requests'))
<1> DEFINE rs == requests \ {r}
<1>1. changes \in Nat /\ owed \in BOOLEAN
  BY DEF Kept, Numbers, Switches
<1>2. CASE r.kind = "reconcile"
  <2>1. gate = "reconciling" /\ ~Reconciling(rs)
    BY <1>2 DEF Kept, GateHeld, Reconciling, Sound
  <2>2. gate' = "free" /\ PayBack(rs, "free")
    BY <1>2 DEF Settle
  <2> HIDE DEF rs
  <2>3. /\ Sound(requests', b, changes) /\ owed' \in BOOLEAN
        /\ Reconciling(requests') <=> Reconciling(rs)
        /\ \/ \E q \in requests' : q.current /\ q.shows = Unread
           \/ requests' = rs
        /\ owed => \/ \E q \in requests' : q.current /\ q.shows = Unread
                   \/ owed' /\ ForegroundPending(requests')
    BY <1>1, <2>2, PayBackKept DEF rs
  <2> QED
    BY <2>1, <2>2, <2>3 DEF rs
<1>3. CASE r.kind # "reconcile" /\ r.front
  <2>1. Reconciling(rs) <=> Reconciling(requests)
    BY <1>3 DEF Reconciling
  <2>2. gate' = gate /\ PayBack(rs, gate)
    BY <1>3 DEF Settle
  <2> HIDE DEF rs
  <2>3. /\ Sound(requests', b, changes) /\ owed' \in BOOLEAN
        /\ Reconciling(requests') <=> Reconciling(rs)
        /\ \/ \E q \in requests' : q.current /\ q.shows = Unread
           \/ requests' = rs
        /\ owed => \/ \E q \in requests' : q.current /\ q.shows = Unread
                   \/ owed' /\ (gate # "free" \/ ForegroundPending(requests'))
    BY <1>1, <2>2, PayBackKept DEF rs
  <2> QED
    BY <2>1, <2>2, <2>3 DEF rs, Kept, GateHeld
<1>4. CASE r.kind # "reconcile" /\ ~r.front
  <2>1. gate' = gate /\ requests' = rs /\ owed' = owed
    BY <1>4 DEF Settle
  <2>2. /\ Reconciling(rs) <=> Reconciling(requests)
        /\ ForegroundPending(rs) <=> ForegroundPending(requests)
    BY <1>4 DEF Reconciling, ForegroundPending
  <2> QED
    BY <1>1, <2>1, <2>2 DEF Kept, GateHeld
<1> QED
  BY <1>2, <1>3, <1>4

-----------------------------------------------------------------------------
(* The invariant *)

LEMMA InitIInv == BoardInit => IInv
<1> SUFFICES ASSUME BoardInit PROVE IInv
  OBVIOUS
<1>1. Numbers
  BY DEF BoardInit, Numbers
<1>2. Switches
  BY Zenon DEF BoardInit, Switches
<1>3. Sound(requests, board, changes) /\ GateHeld /\ NoRefreshIsForgotten
  BY DEF BoardInit, Sound, GateHeld, Reconciling, NoRefreshIsForgotten
<1> QED
  BY <1>1, <1>2, <1>3 DEF IInv, Kept

\* An answer leaves the reasons of the next load behind, and takes the board to
\* no older snapshot.
LEMMA AnswerIInv ==
    ASSUME IInv, NEW r \in requests, Land(r) \/ Fail(r)
    PROVE  IInv' /\ board' >= board
<1>1. /\ changes \in Nat /\ Sound(requests, board, changes) /\ Kept
      /\ board \in Nat /\ due \in Nat /\ forgone \in Nat /\ board <= changes
  BY DEF IInv, Kept, Numbers
<1>2. Settle(r) /\ UNCHANGED <<changes, focused, greeting, due>>
  BY DEF Land, Fail
<1>3. /\ board' \in 0..changes /\ board' >= board
      /\ r.current => forgone' = due \/ (board' = r.shows /\ r.shows # Unread)
      /\ ~r.current => board' = board /\ forgone' = forgone
      /\ forgone' \in {forgone, due} /\ failures' \in 0..NumFailures
  <2>1. CASE Land(r)
    <3>1. r.shows \in Nat /\ r.shows <= changes /\ (r.current => board <= r.shows)
      BY <1>1, <2>1 DEF Land, Sound, Request
    <3> QED
      BY <1>1, <2>1, <3>1 DEF Land, IsCurrent, IInv, Kept, Numbers
  <2>2. CASE Fail(r)
    <3>1. board' = board /\ failures < NumFailures /\ failures' = failures + 1
      BY <2>2 DEF Fail
    <3>2. /\ r.current => forgone' = due
          /\ ~r.current => forgone' = forgone
      BY <2>2 DEF Fail, IsCurrent
    <3> QED
      BY <1>1, <3>1, <3>2 DEF Kept, Numbers
  <2> QED
    BY <2>1, <2>2
<1>4. Sound(requests \ {r}, board', changes)
  <2>1. CASE r.current
    <3>1. \A q \in requests \ {r} : ~q.current
      BY <1>1, <2>1 DEF Sound
    <3> QED
      BY <1>1, <3>1 DEF Sound
  <2>2. CASE ~r.current
    BY <1>1, <1>3, <2>2, FewerSound
  <2> QED
    BY <2>1, <2>2
<1>5. /\ Sound(requests', board', changes) /\ owed' \in BOOLEAN
      /\ gate' \in {gate, "free"} /\ (gate' = "reconciling" <=> Reconciling(requests'))
      /\ gate = "writing" => gate' = "writing"
      /\ \/ \E q \in requests' : q.current /\ q.shows = Unread
         \/ requests' = requests \ {r}
      /\ owed /\ (gate # "free" \/ ForegroundPending(requests)) =>
             \/ \E q \in requests' : q.current /\ q.shows = Unread
             \/ owed' /\ (gate' # "free" \/ ForegroundPending(requests'))
  BY <1>1, <1>2, <1>4, SettleKept
<1>6. Kept'
  <2>1. Numbers'
    BY <1>1, <1>2, <1>3 DEF Kept, Numbers
  <2>2. Switches'
    BY <1>1, <1>2, <1>5, Zenon DEF Kept, Switches
  <2>3. GateHeld'
    BY <1>5 DEF GateHeld, Reconciling
  <2> QED
    BY <1>2, <1>5, <2>1, <2>2, <2>3 DEF Kept, Sound
<1>7. NoRefreshIsForgotten'
  <2> SUFFICES ASSUME focused, board' < due, forgone' < due, ~greeting, gate' # "writing",
                      ~\E q \in requests' : q.current /\ q.shows = Unread,
                      ~(owed' /\ (gate' # "free" \/ ForegroundPending(requests')))
               PROVE  \E q \in requests' : q.current /\ q.shows >= due
    BY <1>2 DEF NoRefreshIsForgotten, ForegroundPending, IsCurrent
  <2>1. requests' = requests \ {r} /\ gate # "writing"
    BY <1>5
  <2>2. board < due /\ forgone < due
    BY <1>1, <1>3
  <2>3. PICK q \in requests : q.current /\ (q.shows = Unread \/ q.shows >= due)
    BY <1>5, <2>1, <2>2 DEF IInv, NoRefreshIsForgotten, IsCurrent
  <2>4. q # r
    BY <1>1, <1>3, <2>3 DEF Land, Fail
  <2> QED
    BY <2>1, <2>3, <2>4
<1> QED
  BY <1>3, <1>6, <1>7 DEF IInv

LEMMA StepIInv ==
    ASSUME IInv, [BoardNext]_boardVars
    PROVE  IInv' /\ board' >= board
<1>0. /\ Kept /\ Numbers /\ Switches /\ Sound(requests, board, changes) /\ GateHeld
      /\ changes \in Nat /\ board \in Nat /\ due \in Nat /\ forgone \in Nat
      /\ board <= changes /\ due <= changes /\ forgone <= changes
      /\ NoRefreshIsForgotten
  BY DEF IInv, Kept, Numbers
<1>1. CASE Focus
  <2>1. /\ Sound(requests', board, changes) /\ owed' = owed
        /\ Reconciling(requests') <=> Reconciling(requests)
    BY <1>0, <1>1, LoadKept DEF Focus
  <2>2. Numbers' /\ UNCHANGED <<changes, board, gate>>
    BY <1>0, <1>1 DEF Focus, Numbers
  <2>3. Switches' /\ greeting'
    BY <1>0, <1>1, <2>1, Zenon DEF Focus, Switches
  <2>4. GateHeld'
    BY <1>0, <2>1, <2>2 DEF GateHeld, Reconciling
  <2> QED
    BY <1>0, <2>1, <2>2, <2>3, <2>4 DEF IInv, Kept, NoRefreshIsForgotten, Sound
<1>2. CASE PullToRefresh
  <2>1. /\ Sound(requests', board, changes) /\ owed' = owed
        /\ Reconciling(requests') <=> Reconciling(requests)
        /\ gate = "free" => \E r \in requests' : r.current /\ r.shows = Unread
        /\ gate # "free" => requests' = requests /\ due' = due
    BY <1>0, <1>2, LoadKept DEF PullToRefresh, LoadBoard
  <2>2. Numbers' /\ UNCHANGED <<changes, board, gate, forgone, focused, greeting>>
    BY <1>0, <1>2 DEF PullToRefresh, Numbers
  <2>3. Switches'
    BY <1>0, <1>2, <2>1, Zenon DEF PullToRefresh, Switches
  <2>4. GateHeld'
    BY <1>0, <2>1, <2>2 DEF GateHeld, Reconciling
  <2>5. NoRefreshIsForgotten'
    BY <1>0, <2>1, <2>2 DEF NoRefreshIsForgotten, IsCurrent, ForegroundPending
  <2> QED
    BY <1>0, <2>1, <2>2, <2>3, <2>4, <2>5 DEF IInv, Kept, Sound
<1>3. CASE QuietRefresh
  <2>1. /\ Sound(requests', board, changes) /\ owed' \in BOOLEAN
        /\ Reconciling(requests') <=> Reconciling(requests)
        /\ \/ \E r \in requests' : r.current /\ r.shows = Unread
           \/ owed' /\ (gate # "free" \/ ForegroundPending(requests'))
    BY <1>0, <1>3, QuietKept DEF QuietRefresh
  <2>2. Numbers' /\ UNCHANGED <<changes, board, gate>>
    BY <1>0, <1>3 DEF QuietRefresh, Numbers
  <2>3. Switches'
    BY <1>0, <1>3, <2>1, Zenon DEF QuietRefresh, Switches
  <2>4. GateHeld'
    BY <1>0, <2>1, <2>2 DEF GateHeld, Reconciling
  <2>5. NoRefreshIsForgotten'
    BY <2>1, <2>2 DEF NoRefreshIsForgotten, IsCurrent, ForegroundPending
  <2> QED
    BY <1>0, <2>1, <2>2, <2>3, <2>4, <2>5 DEF IInv, Kept, Sound
<1>4. CASE Blur
  <2>1. /\ Sound(requests', board, changes)
        /\ Reconciling(requests') <=> Reconciling(requests)
    BY <1>0, <1>4, ReleasedSound, InvalidatedSound DEF Blur
  <2>2. Numbers' /\ UNCHANGED <<changes, board, gate>> /\ focused' = FALSE
    BY <1>0, <1>4 DEF Blur, Numbers
  <2>3. Switches'
    BY <1>0, <1>4, Zenon DEF Blur, Switches
  <2>4. GateHeld'
    BY <1>0, <2>1, <2>2 DEF GateHeld, Reconciling
  <2> QED
    BY <1>0, <2>1, <2>2, <2>3, <2>4 DEF IInv, Kept, NoRefreshIsForgotten, Sound
<1>5. CASE Tap
  <2>1. /\ Sound(requests', board, changes)
        /\ Reconciling(requests') <=> Reconciling(requests)
    BY <1>0, <1>5, InvalidatedSound DEF Tap
  <2>2. Numbers' /\ UNCHANGED <<changes, board>> /\ gate = "free" /\ gate' = "writing"
    BY <1>0, <1>5 DEF Tap, Numbers
  <2>3. Switches'
    BY <1>0, <1>5, Zenon DEF Tap, Switches
  <2>4. GateHeld'
    BY <1>0, <2>1, <2>2 DEF GateHeld, Reconciling
  <2> QED
    BY <1>0, <2>1, <2>2, <2>3, <2>4 DEF IInv, Kept, NoRefreshIsForgotten, Sound
<1>6. CASE Write \/ OthersChange
  <2>1. /\ changes' = changes + 1 /\ changes < NumChanges
        /\ UNCHANGED <<board, requests, owed, gate, focused, greeting, failures, due,
                       forgone>>
    BY <1>6 DEF Write, OthersChange
  <2>2. Numbers'
    BY <1>0, <2>1 DEF Numbers
  <2>3. Sound(requests', board', changes')
    BY <1>0, <2>1, LongerLogSound
  <2>4. Switches' /\ GateHeld' /\ NoRefreshIsForgotten'
    BY <1>0, <2>1 DEF Switches, GateHeld, Reconciling, NoRefreshIsForgotten, IsCurrent,
       ForegroundPending
  <2> QED
    BY <1>0, <2>1, <2>2, <2>3, <2>4 DEF IInv, Kept, Sound
<1>7. CASE Reconcile
  <2>1. ~Reconciling(requests)
    BY <1>0, <1>7 DEF Reconcile, GateHeld
  <2>2. requests' = Begin(Released(requests), "reconcile") /\ gate' = "reconciling"
    BY <1>7 DEF Reconcile
  <2>3. /\ Sound(requests', board, changes) /\ Reconciling(requests')
        /\ \E r \in requests' : r.current /\ r.shows = Unread
    BY <1>0, <2>1, <2>2, ReleasedSound, BeginSound DEF Kinds
  <2>4. Numbers' /\ UNCHANGED <<changes, board>>
    BY <1>0, <1>7 DEF Reconcile, Numbers
  <2>5. Switches'
    BY <1>0, <1>7, Zenon DEF Reconcile, Switches
  <2>6. GateHeld'
    BY <2>2, <2>3 DEF GateHeld, Reconciling
  <2>7. NoRefreshIsForgotten'
    BY <2>3 DEF NoRefreshIsForgotten, IsCurrent
  <2> QED
    BY <1>0, <2>3, <2>4, <2>5, <2>6, <2>7 DEF IInv, Kept, Sound
<1>8. ASSUME NEW r \in requests, ServerReads(r)
      PROVE  IInv' /\ board' >= board
  <2> DEFINE s == [r EXCEPT !.shows = changes]
  <2>1. /\ s \in Request /\ s.shows = changes /\ s.current = r.current
        /\ s.front = r.front /\ s.kind = r.kind
    BY <1>0 DEF Sound, Request
  <2>2. requests' = (requests \ {r}) \cup {s}
    BY <1>8 DEF ServerReads
  <2>3. UNCHANGED <<changes, board, owed, gate, focused, greeting, failures, due, forgone>>
    BY <1>8 DEF ServerReads
  <2> HIDE DEF s
  <2>4. Sound(requests', board, changes)
    <3>1. ASSUME NEW p \in requests', NEW q \in requests'
          PROVE  /\ p \in Request
                 /\ p.current /\ q.current => p = q
                 /\ p.front /\ q.front => p = q
                 /\ p.kind = "reconcile" /\ q.kind = "reconcile" => p = q
                 /\ p.front => p.kind = "load"
                 /\ p.shows <= changes
                 /\ p.current /\ p.shows # Unread => board <= p.shows
      BY <1>0, <2>1, <2>2 DEF Sound
    <3> QED
      BY <3>1 DEF Sound
  <2>5. Reconciling(requests') <=> Reconciling(requests)
    BY <2>1, <2>2 DEF Reconciling
  <2>6. ForegroundPending(requests) => ForegroundPending(requests')
    BY <2>1, <2>2 DEF ForegroundPending
  <2>7. NoRefreshIsForgotten'
    <3>1. ASSUME NEW q \in requests, q.current, q.shows = Unread \/ q.shows >= due
          PROVE  \E x \in requests' : x.current /\ (x.shows = Unread \/ x.shows >= due)
      BY <1>0, <2>1, <2>2, <3>1
    <3> QED
      BY <1>0, <2>3, <2>6, <3>1 DEF NoRefreshIsForgotten, IsCurrent, ForegroundPending
  <2>8. Numbers' /\ Switches' /\ GateHeld'
    BY <1>0, <2>3, <2>5 DEF Numbers, Switches, GateHeld, Reconciling
  <2> QED
    BY <1>0, <2>3, <2>4, <2>7, <2>8 DEF IInv, Kept, Sound
<1>9. CASE UNCHANGED boardVars
  BY <1>0, <1>9 DEF boardVars, IInv, Kept, Numbers, Switches, Sound, GateHeld, Reconciling,
     NoRefreshIsForgotten, IsCurrent, ForegroundPending
<1> QED
  BY <1>1, <1>2, <1>3, <1>4, <1>5, <1>6, <1>7, <1>8, <1>9, AnswerIInv DEF BoardNext

-----------------------------------------------------------------------------
(* Theorems *)

LEMMA Invariant == BoardSpec => []IInv
<1>1. IInv /\ [BoardNext]_boardVars => IInv'
  BY StepIInv
<1> QED
  BY <1>1, InitIInv, PTL DEF BoardSpec

\* The tickets and the gate: one request counts at most, one holds the screen,
\* and the gate is reconciling while its request is out.
THEOREM BoardTypeCorrect == BoardSpec => []BoardTypeOK
<1>1. IInv => BoardTypeOK
  BY KeptIsTypeOK DEF IInv
<1> QED
  BY <1>1, Invariant, PTL

\* Whatever order the answers of load and reconcileQueue arrive in, the board
\* never shows an older snapshot than before.
THEOREM BoardOnlyMovesOn == BoardSpec => BoardNeverGoesBack
<1>1. IInv /\ [BoardNext]_boardVars => [board' >= board]_boardVars
  BY StepIInv
<1> QED
  BY <1>1, Invariant, PTL DEF BoardSpec, BoardNeverGoesBack

\* A refresh asked for while a load or a tap is in the way is not forgotten.
THEOREM RefreshesAreKept == BoardSpec => []NoRefreshIsForgotten
<1>1. IInv => NoRefreshIsForgotten
  BY DEF IInv
<1> QED
  BY <1>1, Invariant, PTL
=============================================================================
