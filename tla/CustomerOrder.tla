---------------------------- MODULE CustomerOrder ----------------------------
(***************************************************************************)
(* Guests ordering from the QR page of one table: the page's cart and      *)
(* submission key (frontend/src/app/customer/t/[token]/page.tsx), a network *)
(* that may lose or delay a request or its answer, and                      *)
(* CustomerOrderService.SubmitOrder with its table of stored submissions    *)
(* (service/customer_order_service.go).                                     *)
(*                                                                         *)
(* A cart line is one portion of a dish, so that changing a quantity adds   *)
(* or removes a line; the request hash is the set of lines.  Every reason   *)
(* to refuse a line (sold out, options changed, ...) is one refusal.  What  *)
(* the kitchen does to a line once sent, and the bill, is OrderService.     *)
(***************************************************************************)
EXTENDS Integers, Sequences, FiniteSets

CONSTANTS
    Guests,      \* the phones at the table
    Lines,       \* portions a guest puts in a cart
    NumOrders,   \* bound: orders opened on the table
    NumKeys,     \* bound: request keys the pages make
    NumSends,    \* bound: POST requests
    NumTokens,   \* bound: QR codes of the table
    Fences       \* what evaluateGeofence can answer in this restaurant

Orders == 1..NumOrders
Keys == 1..NumKeys
Sends == 1..NumSends
Tokens == 1..NumTokens
None == 0

ASSUME CustomerOrderAssumption ==
    /\ NumOrders \in Nat /\ NumKeys \in Nat /\ NumSends \in Nat
    /\ NumTokens \in Nat \ {0}    \* a table is created with a code
    /\ Fences \subseteq {"disabled", "inside", "unverified", "outside"}

VARIABLES
    order,        \* [Orders -> {"none", "open", "closed"}]
    items,        \* Seq(Item), order_items in the order they were created
    submissions,  \* customer_order_submissions
    token,        \* restaurant_tables.customer_token
    page,         \* [Guests -> Page]
    wire,         \* requests that have not reached the server
    answers,      \* answers that have not reached a page
    made,         \* the number of keys made
    sends,        \* the number of requests posted
    crossed       \* history: keys whose cart grew between the tap and the request

vars == <<order, items, submissions, token, page, wire, answers, made, sends, crossed>>

\* submitting is either of: tapped, the cart of the tap while the phone looks for
\* its place, {} when it does not; sending, the request the page waits for.
Page == [token : Tokens, order : Orders \cup {None}, cart : SUBSET Lines,
         key : Keys \cup {None}, tapped : SUBSET Lines, sending : Sends \cup {None}]
Submitting(p) == p.tapped # {} \/ p.sending # None

Item == [order : Orders, key : Keys, line : Lines, status : {"pending", "sent", "cancelled"}]
Submission == [order : Orders, key : Keys, lines : SUBSET Lines]
Request == [send : Sends, guest : Guests, token : Tokens, key : Keys, lines : SUBSET Lines]
Verdict == {"created", "replayed", "conflict", "refused"}
Answer == [to : Request, verdict : Verdict, order : Orders \cup {None}]

TypeOK ==
    /\ order \in [Orders -> {"none", "open", "closed"}]
    /\ items \in Seq(Item) /\ submissions \subseteq Submission
    /\ token \in Tokens
    /\ page \in [Guests -> Page]
    /\ wire \subseteq Request /\ answers \subseteq Answer
    /\ made \in 0..NumKeys /\ sends \in 0..NumSends /\ crossed \subseteq Keys

NewPage == [token |-> 1, order |-> None, cart |-> {}, key |-> None,
            tapped |-> {}, sending |-> None]

Init ==
    /\ order = [o \in Orders |-> "none"]
    /\ items = <<>> /\ submissions = {}
    /\ token = 1
    /\ page = [g \in Guests |-> NewPage]
    /\ wire = {} /\ answers = {}
    /\ made = 0 /\ sends = 0 /\ crossed = {}

OpenOrder == IF \E o \in Orders : order[o] = "open"
             THEN CHOOSE o \in Orders : order[o] = "open" ELSE None

-----------------------------------------------------------------------------
(* The page. *)

\* A scan, or a reload of the page: the cart, the key and a tap that still looks
\* for the place are its memory only.
Scan(g) ==
    /\ page' = [page EXCEPT ![g] = [NewPage EXCEPT !.token = token, !.order = OpenOrder]]
    /\ UNCHANGED <<order, items, submissions, token, wire, answers, made, sends, crossed>>

\* load and refreshMenuInBackground read the table again and keep the cart.
Look(g) ==
    /\ page[g].token = token
    /\ page' = [page EXCEPT ![g].order = OpenOrder]
    /\ UNCHANGED <<order, items, submissions, token, wire, answers, made, sends, crossed>>

\* The cart as a changed cart leaves it: the next submission is a new one.
Edited(p, cart) == [p EXCEPT !.cart = cart, !.key = None]

\* A line nobody has held yet: each portion is followed from cart to order.
Unused(l) ==
    /\ \A g \in Guests : l \notin page[g].cart
    /\ \A i \in DOMAIN items : items[i].line # l
    /\ \A r \in wire : l \notin r.lines

\* The menu stays usable while a submission is under way.
AddToCart(g, l) ==
    /\ page[g].order # None
    /\ Unused(l)
    /\ page' = [page EXCEPT ![g] = Edited(@, @.cart \cup {l})]
    /\ UNCHANGED <<order, items, submissions, token, wire, answers, made, sends, crossed>>

\* The buttons of the summary sheet are disabled while it is.
RemoveFromCart(g, l) ==
    /\ ~Submitting(page[g])
    /\ l \in page[g].cart
    /\ page' = [page EXCEPT ![g] = Edited(@, @.cart \ {l})]
    /\ UNCHANGED <<order, items, submissions, token, wire, answers, made, sends, crossed>>

\* The tap on the submit button: the cart it saw is the one that will be sent.
Tap(g) ==
    LET p == page[g] IN
    /\ p.order # None /\ p.cart # {} /\ ~Submitting(p)
    /\ page' = [page EXCEPT ![g].tapped = p.cart]
    /\ UNCHANGED <<order, items, submissions, token, wire, answers, made, sends, crossed>>

KeyToSend(p) == IF p.key = None THEN made + 1 ELSE p.key

\* The request goes out: at once, or where the restaurant has a geofence when the
\* phone has told its place or given up (readDeviceLocation, up to 8 s).  The cart
\* is the one of the tap, the key is read only now.  A page left meanwhile by a
\* link posts too: that is Post and then Scan.
Post(g) ==
    LET p == page[g]  k == KeyToSend(p) IN
    /\ p.tapped # {}
    /\ k \in Keys /\ sends + 1 \in Sends
    /\ page' = [page EXCEPT ![g] = [p EXCEPT !.key = k, !.tapped = {}, !.sending = sends + 1]]
    /\ wire' = wire \cup {[send |-> sends + 1, guest |-> g, token |-> p.token,
                           key |-> k, lines |-> p.tapped]}
    /\ made' = IF k > made THEN k ELSE made
    /\ sends' = sends + 1
    /\ crossed' = IF p.tapped = p.cart THEN crossed ELSE crossed \cup {k}
    /\ UNCHANGED <<order, items, submissions, token, answers>>

\* The answer to what the page waits for.  A success empties the cart and
\* forgets the key, a failure keeps both for the next try.
Answered(g, a) ==
    LET p == page[g] IN
    /\ a.to.guest = g /\ p.sending = a.to.send
    /\ answers' = answers \ {a}
    /\ page' = [page EXCEPT ![g] =
         IF a.verdict \in {"created", "replayed"}
         THEN [p EXCEPT !.order = a.order, !.cart = {}, !.key = None, !.sending = None]
         ELSE [p EXCEPT !.sending = None]]
    /\ UNCHANGED <<order, items, submissions, token, wire, made, sends, crossed>>

\* The connection breaks: the page stops waiting, the request may still arrive.
ConnectionFails(g) ==
    /\ page[g].sending # None
    /\ page' = [page EXCEPT ![g].sending = None]
    /\ answers' = {a \in answers : a.to.send # page[g].sending}
    /\ UNCHANGED <<order, items, submissions, token, wire, made, sends, crossed>>

RequestIsLost(r) ==
    /\ r \in wire
    /\ wire' = wire \ {r}
    /\ UNCHANGED <<order, items, submissions, token, page, answers, made, sends, crossed>>

-----------------------------------------------------------------------------
(* The server.  SubmitOrder is one transaction that holds the rows of the   *)
(* open order and of the table; an error rolls all of it back.              *)

\* Mutant: a lookup that forgets the order the key belongs to.
StoredForTable(o, k) == {s \in submissions : s.key = k}
Stored(o, k) == {s \in submissions : s.order = o /\ s.key = k}

\* An answer nobody waits for is dropped at once.
Reply(r, verdict, o) ==
    /\ wire' = wire \ {r}
    /\ answers' = IF page[r.guest].sending = r.send
                  THEN answers \cup {[to |-> r, verdict |-> verdict, order |-> o]}
                  ELSE answers
    /\ UNCHANGED <<order, token, page, made, sends, crossed>>

\* No open order, another QR code, outside the fence, or a line it cannot take.
Refuse(r) ==
    /\ r \in wire
    /\ Reply(r, "refused", None)
    /\ UNCHANGED <<items, submissions>>

Known(r) ==
    /\ r \in wire
    /\ OpenOrder # None /\ r.token = token
    /\ \E s \in Stored(OpenOrder, r.key) :
         Reply(r, IF s.lines = r.lines THEN "replayed" ELSE "conflict", OpenOrder)
    /\ UNCHANGED <<items, submissions>>

\* The lines of a set, in some order, as rows of the order.
Rows(r, o) ==
    LET asRow(i, l) == [order |-> o, key |-> r.key, line |-> l, status |-> "pending"]
        n == Cardinality(r.lines)
        f == CHOOSE s \in [1..n -> r.lines] : \A l \in r.lines : \E i \in 1..n : s[i] = l
    IN  [i \in 1..n |-> asRow(i, f[i])]

\* MarkPendingItemsSent: the pending rows among ids go to the kitchen.
MarkSent(rows, ids) ==
    [i \in DOMAIN rows |-> IF i \in ids /\ rows[i].status = "pending"
                           THEN [rows[i] EXCEPT !.status = "sent"] ELSE rows[i]]

\* Mutant: everything pending on the order goes along.
AllIds(rows) == DOMAIN rows
AddedIds(rows) == (Len(items) + 1)..Len(rows)

\* A place nobody could verify leaves its lines pending for the staff.
Accept(r, fence) ==
    LET o == OpenOrder  rows == items \o Rows(r, o) IN
    /\ r \in wire
    /\ o # None /\ r.token = token
    /\ Stored(o, r.key) = {}
    /\ fence # "outside"
    /\ items' = IF fence = "unverified" THEN rows ELSE MarkSent(rows, AddedIds(rows))
    /\ submissions' = submissions \cup {[order |-> o, key |-> r.key, lines |-> r.lines]}
    /\ Reply(r, "created", o)

-----------------------------------------------------------------------------
(* The staff. *)

Open(o) ==
    /\ OpenOrder = None /\ order[o] = "none"
    /\ \A p \in Orders : p < o => order[p] = "closed"
    /\ order' = [order EXCEPT ![o] = "open"]
    /\ UNCHANGED <<items, submissions, token, page, wire, answers, made, sends, crossed>>

\* SendToKitchen sends every pending line of the order.
SendToKitchen(o) ==
    /\ order[o] = "open"
    /\ \E i \in DOMAIN items : items[i].order = o /\ items[i].status = "pending"
    /\ items' = MarkSent(items, {i \in DOMAIN items : items[i].order = o})
    /\ UNCHANGED <<order, submissions, token, page, wire, answers, made, sends, crossed>>

\* Paid, or cancelled with what the kitchen has not served.
Close(o) ==
    /\ order[o] = "open"
    /\ order' = [order EXCEPT ![o] = "closed"]
    /\ items' = [i \in DOMAIN items |->
                   IF items[i].order = o /\ items[i].status = "pending"
                   THEN [items[i] EXCEPT !.status = "cancelled"] ELSE items[i]]
    /\ UNCHANGED <<submissions, token, page, wire, answers, made, sends, crossed>>

\* Mutant: the code is changed whoever is ordering with it.
RegenerateUnderGuests ==
    /\ token + 1 \in Tokens
    /\ token' = token + 1
    /\ UNCHANGED <<order, items, submissions, page, wire, answers, made, sends, crossed>>

\* ensureTableEditable: never under the guests of an active order.
RegenerateCustomerToken ==
    /\ OpenOrder = None /\ token + 1 \in Tokens
    /\ token' = token + 1
    /\ UNCHANGED <<order, items, submissions, page, wire, answers, made, sends, crossed>>

-----------------------------------------------------------------------------
PageStep(g) == Scan(g) \/ Look(g) \/ Tap(g) \/ Post(g) \/ ConnectionFails(g)
               \/ (\E l \in Lines : AddToCart(g, l) \/ RemoveFromCart(g, l))
               \/ (\E a \in answers : Answered(g, a))
ServerStep(r) == Refuse(r) \/ Known(r) \/ (\E fence \in Fences : Accept(r, fence))
StaffStep == RegenerateCustomerToken
             \/ \E o \in Orders : Open(o) \/ SendToKitchen(o) \/ Close(o)

Next ==
    \/ \E g \in Guests : PageStep(g)
    \/ \E r \in wire : ServerStep(r) \/ RequestIsLost(r)
    \/ StaffStep

Spec == Init /\ [][Next]_vars

-----------------------------------------------------------------------------
(* Properties. *)

\* However often a page retries and whatever arrives late, one key puts each
\* of its lines on an order once: the retry finds the stored submission.
OrderedOncePerKey ==
    \A i, j \in DOMAIN items :
        (items[i].order = items[j].order /\ items[i].key = items[j].key
            /\ items[i].line = items[j].line) => i = j

\* One cart, or the cart of the tap and the larger one the next tap saw.
SameCart(x, y) ==
    x.key = y.key => \/ x.lines = y.lines
                     \/ /\ x.key \in crossed
                        /\ x.lines \subseteq y.lines \/ y.lines \subseteq x.lines

\* Editing the cart forgets the key, also while a request is out: only a dish
\* added while the phone looks for its place lets one key travel with two carts,
\* and no other guest meets the 409 of a key used with a different request.
KeyNamesOneCart ==
    /\ \A r \in wire : \A x \in wire \cup submissions : SameCart(r, x)
    /\ \A a \in answers : a.verdict = "conflict" => a.to.key \in crossed

\* An answer that empties a cart comes with the lines on the very order it
\* shows, also when it is the replay of a submission whose answer was lost.
AnsweredLinesAreOnTheOrder ==
    \A a \in answers : a.verdict \in {"created", "replayed"} =>
        \A l \in a.to.lines : \E i \in DOMAIN items :
            items[i].order = a.order /\ items[i].line = l /\ items[i].key = a.to.key

\* A retry is safe: its lines are on the order once however often it arrives,
\* they are there whenever a guest is told so, and it meets a conflict only when
\* its cart grew between the tap and the request.
RetriesOrderOnce == OrderedOncePerKey /\ AnsweredLinesAreOnTheOrder /\ KeyNamesOneCart

\* Staff never replace the QR code under guests who are ordering: a page that
\* shows the open order holds the code its next submission needs.
GuestsKeepTheirCode ==
    \A g \in Guests : (page[g].order # None /\ page[g].order = OpenOrder) => page[g].token = token

\* Lines held back because the place of their guest could not be verified
\* reach the kitchen by a step of the staff, never along with the submission
\* of another guest at the table.
HeldLinesWaitForStaff ==
    [][submissions' # submissions =>
         \A i \in DOMAIN items : items[i].status = "pending" => items'[i].status = "pending"]_vars

-----------------------------------------------------------------------------
(* Three statements that do not hold as they stand (README, section 4). *)

\* entity/order.go:182-184: the table may "reuse a key safely after a new order
\* starts".  Safely: no line a guest chose once is ordered on two bills.  A retry
\* that comes after the next bill was opened orders its lines there again.
KeysAreReusedSafely ==
    \A i, j \in DOMAIN items : items[i].line = items[j].line => items[i].order = items[j].order

\* service/customer_order_service.go:31 refuses a key that "was already used with a
\* different request", as if no page would send one: with a geofence a page does,
\* and its guest is refused at every further tap until the cart is edited.
OneKeyOneCart == \A a \in answers : a.verdict # "conflict"

\* The page reports the order sent and empties the cart: every line of the cart
\* it empties is then on an order.  A line added meanwhile is on none.
EmptiedCartIsOrdered ==
    [][\A g \in Guests, a \in answers :
         (Answered(g, a) /\ page'[g].cart = {}) =>
             \A l \in page[g].cart : \E i \in DOMAIN items : items[i].line = l]_vars
=============================================================================
