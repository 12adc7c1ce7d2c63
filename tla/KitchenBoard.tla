---------------------------- MODULE KitchenBoard ----------------------------
(***************************************************************************)
(* The kitchen screen of the staff app (mobile/app/kitchen.tsx): one board *)
(* drawn from whole snapshots, and everything that asks for one.  Loads    *)
(* overlap; each takes a ticket (createRequestGeneration) and its answer   *)
(* is dropped unless the ticket is still the newest.  A cook's tap holds   *)
(* the mutation gate, writes, and then reconciles the board; a quiet load  *)
(* that cannot go out is owed (pendingQuietRefreshRef).                    *)
(*                                                                         *)
(* A snapshot is the number of changes committed when the server read it.  *)
(* Of a ticket only matters whether it is the newest: field current.       *)
(***************************************************************************)
EXTENDS Integers

CONSTANTS
    NumChanges,   \* bound: changes committed
    NumFailures   \* bound: requests that fail

ASSUME KitchenBoardAssumption == NumChanges \in Nat /\ NumFailures \in Nat

VARIABLES
    changes,     \* changes committed so far
    board,       \* the snapshot on the screen
    requests,    \* the GET requests in flight
    owed,        \* pendingQuietRefreshRef
    gate,        \* "free", or what the tap that holds the gate is doing
    focused,     \* the screen is in front
    greeting,    \* the stream was enabled and has not greeted yet
    failures,    \* requests that failed
    due,         \* history: the latest change the board was asked to show
    forgone      \* history: the latest change a failed load was to show

boardVars == <<changes, board, requests, owed, gate, focused, greeting, failures,
               due, forgone>>

Unread == 0 - 1

\* front: it is the request of foregroundRequestRef.
Request == [kind : {"load", "quiet", "reconcile"}, shows : Nat \cup {Unread},
            current : BOOLEAN, front : BOOLEAN]

BoardTypeOK ==
    /\ changes \in 0..NumChanges
    /\ board \in 0..changes /\ due \in 0..changes /\ forgone \in 0..changes
    /\ requests \subseteq Request
    /\ owed \in BOOLEAN /\ focused \in BOOLEAN /\ greeting \in BOOLEAN
    /\ gate \in {"free", "writing", "reconciling"}
    /\ failures \in 0..NumFailures
    /\ \A r, q \in requests : r.current /\ q.current => r = q
    /\ \A r, q \in requests : r.front /\ q.front => r = q
    /\ \A r \in requests : (r.front => r.kind = "load") /\ r.shows <= changes
    /\ gate = "reconciling" <=> \E r \in requests : r.kind = "reconcile"

BoardInit ==
    /\ changes = 0 /\ board = 0 /\ requests = {} /\ owed = FALSE
    /\ gate = "free" /\ focused = FALSE /\ greeting = FALSE
    /\ failures = 0 /\ due = 0 /\ forgone = 0

-----------------------------------------------------------------------------
(* Tickets, and load(quiet) while the requests rs are in flight *)

IsAnswered(r) == r.shows # Unread
IsCurrent(r) == r.current

Invalidated(rs) == {[r EXCEPT !.current = FALSE] : r \in rs}
Released(rs) == {[r EXCEPT !.front = FALSE] : r \in rs}
ForegroundPending(rs) == \E r \in rs : r.front

New(kind) == [kind |-> kind, shows |-> Unread, current |-> TRUE,
              front |-> kind = "load"]

Begin(rs, kind) == Invalidated(rs) \cup {New(kind)}

LoadBoard(rs) ==
    /\ requests' = IF gate = "free" THEN Begin(Released(rs), "load") ELSE rs
    /\ UNCHANGED owed

ShouldStartQuietly(rs, g) == g = "free" /\ ~ForegroundPending(rs)

LoadQuietly(rs, g) ==
    /\ requests' = IF ShouldStartQuietly(rs, g) THEN Begin(rs, "quiet") ELSE rs
    /\ owed' = (owed \/ ~ShouldStartQuietly(rs, g))

\* The end of a foreground load and of a tap: what is owed goes out.
PayBack(rs, g) ==
    IF ~owed THEN requests' = rs /\ UNCHANGED owed
    ELSE /\ requests' = IF ShouldStartQuietly(rs, g) THEN Begin(rs, "quiet") ELSE rs
         /\ owed' = ~ShouldStartQuietly(rs, g)

-----------------------------------------------------------------------------
(* What asks for a load *)

Focus ==
    /\ ~focused
    /\ focused' = TRUE /\ greeting' = TRUE
    /\ due' = changes
    /\ LoadBoard(requests)
    /\ UNCHANGED <<changes, board, gate, failures, forgone>>

PullToRefresh ==
    /\ focused
    /\ due' = IF gate = "free" THEN changes ELSE due
    /\ LoadBoard(requests)
    /\ UNCHANGED <<changes, board, gate, focused, greeting, failures, forgone>>

\* A batch of the order stream, its greeting, or the 60 s poll.
QuietRefresh ==
    /\ focused
    /\ due' = changes
    /\ greeting' \in {greeting, FALSE}
    /\ LoadQuietly(requests, gate)
    /\ UNCHANGED <<changes, board, gate, focused, failures, forgone>>

\* Leaving lets go of whatever is in flight and closes the stream.
Blur ==
    /\ focused
    /\ focused' = FALSE /\ greeting' = FALSE
    /\ requests' = Invalidated(Released(requests))
    /\ owed' = FALSE
    /\ UNCHANGED <<changes, board, gate, failures, due, forgone>>

-----------------------------------------------------------------------------
(* A cook's tap: setItemStatus, markAllDone, recallRound *)

Tap ==
    /\ focused /\ gate = "free"
    /\ gate' = "writing"
    /\ requests' = Invalidated(requests)
    /\ UNCHANGED <<changes, board, owed, focused, greeting, failures, due, forgone>>

\* One line at a time; a write may be refused, or its answer be lost.
Write ==
    /\ gate = "writing" /\ changes < NumChanges
    /\ changes' = changes + 1
    /\ UNCHANGED <<board, requests, owed, gate, focused, greeting, failures, due,
                   forgone>>

\* The writes are over, done or failed: reconcileQueue.
Reconcile ==
    /\ gate = "writing"
    /\ gate' = "reconciling"
    /\ requests' = Begin(Released(requests), "reconcile")
    /\ owed' = (owed /\ ~ForegroundPending(requests))
    /\ due' = IF focused THEN changes ELSE due
    /\ UNCHANGED <<changes, board, focused, greeting, failures, forgone>>

-----------------------------------------------------------------------------
(* Answers *)

OthersChange ==
    /\ changes < NumChanges
    /\ changes' = changes + 1
    /\ UNCHANGED <<board, requests, owed, gate, focused, greeting, failures, due,
                   forgone>>

ServerReads(r) ==
    /\ r.shows = Unread
    /\ requests' = (requests \ {r}) \cup {[r EXCEPT !.shows = changes]}
    /\ UNCHANGED <<changes, board, owed, gate, focused, greeting, failures, due, forgone>>

SettleOwing(r) ==
    /\ requests' = requests \ {r}
    /\ gate' = IF r.kind = "reconcile" THEN "free" ELSE gate
    /\ UNCHANGED owed

\* The finally blocks: of load, and of the tap that r reconciles.
Settle(r) ==
    LET rs == requests \ {r}
    IN  IF r.kind = "reconcile" THEN gate' = "free" /\ PayBack(rs, "free")
        ELSE /\ UNCHANGED gate
             /\ IF r.front THEN PayBack(rs, gate)
                ELSE requests' = rs /\ UNCHANGED owed

Land(r) ==
    /\ r.shows # Unread
    /\ board' = IF IsCurrent(r) THEN r.shows ELSE board
    /\ Settle(r)
    /\ UNCHANGED <<changes, focused, greeting, failures, due, forgone>>

Fail(r) ==
    /\ failures < NumFailures
    /\ failures' = failures + 1
    /\ forgone' = IF IsCurrent(r) THEN due ELSE forgone
    /\ Settle(r)
    /\ UNCHANGED <<changes, board, focused, greeting, due>>

BoardNext ==
    \/ Focus \/ PullToRefresh \/ QuietRefresh \/ Blur
    \/ Tap \/ Write \/ Reconcile \/ OthersChange
    \/ \E r \in requests : ServerReads(r) \/ Land(r) \/ Fail(r)

BoardSpec == BoardInit /\ [][BoardNext]_boardVars

-----------------------------------------------------------------------------
(* Properties *)

\* However loads overlap, an older snapshot never replaces a newer one.
BoardNeverGoesBack == [][board' >= board]_boardVars

\* Whatever the board was last asked to show is on it, or a request whose answer
\* will be taken shows it, or a load is owed and something will pay it back, or
\* the tap will reconcile, or the stream has yet to greet; or that load failed.
NoRefreshIsForgotten ==
    focused /\ board < due /\ forgone < due =>
        \/ \E r \in requests : IsCurrent(r) /\ (r.shows = Unread \/ r.shows >= due)
        \/ owed /\ (gate # "free" \/ ForegroundPending(requests))
        \/ gate = "writing"
        \/ greeting
=============================================================================
