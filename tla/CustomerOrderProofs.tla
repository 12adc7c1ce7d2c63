------------------------- MODULE CustomerOrderProofs -------------------------
(***************************************************************************)
(* Theorems about CustomerOrder: what a retried submission may do, whose    *)
(* QR code a page holds, and whose step sends a held line to the kitchen,   *)
(* for any number of phones, portions, keys, requests and QR codes.         *)
(***************************************************************************)
EXTENDS CustomerOrder, SequenceTheorems, FiniteSetTheorems, TLAPS

-----------------------------------------------------------------------------
(* The invariant *)

\* Carts are finite, whatever the menu is.
FiniteCarts ==
    /\ \A g \in Guests : IsFiniteSet(page[g].cart)
    /\ \A r \in wire : IsFiniteSet(r.lines)

OneOpenOrder ==
    \A o, p \in Orders : order[o] = "open" /\ order[p] = "open" => o = p

\* A page shows an order somebody opened.
ShownOrdersExist ==
    \A g \in Guests : page[g].order # None => order[page[g].order] # "none"

Succeeded(a) == a.verdict \in {"created", "replayed"}

\* So does an answer, and while that order is open the code it was sent with is
\* the table's.
AnsweredUnderTheCode ==
    \A a \in answers : Succeeded(a) =>
        /\ a.order \in Orders /\ order[a.order] # "none"
        /\ a.order = OpenOrder => a.to.token = token

\* The requests the pages wait for, or did.
Asked == wire \cup {a.to : a \in answers}

\* A page that waits for a request still shows the code it sent it with.
SentWithTheCode ==
    \A r \in Asked :
        /\ r.send <= sends
        /\ page[r.guest].sending = r.send => page[r.guest].token = r.token

\* A tap that still looks for its place: nothing was taken out of its cart, and
\* what was added has made the page forget the key.
TapsKeepTheirCart ==
    \A g \in Guests :
        /\ page[g].tapped \subseteq page[g].cart
        /\ page[g].tapped # {} => page[g].sending = None
        /\ page[g].tapped # {} /\ page[g].key # None => page[g].tapped = page[g].cart

\* Keys are counted, and a page that keeps its key has the cart it stands for, or
\* one that grew between the tap and the request.
KeysAreCounted ==
    /\ \A g \in Guests : page[g].key <= made
    /\ \A r \in wire : r.key <= made
    /\ \A s \in submissions : s.key <= made
KeysAreOwn ==
    \A g, h \in Guests : page[g].key # None /\ page[g].key = page[h].key => g = h
SentFrom(x, cart) == x.lines = cart \/ (x.key \in crossed /\ x.lines \subseteq cart)
KeysKeepTheirCart ==
    \A g \in Guests : page[g].key # None =>
        \A x \in wire \cup submissions :
            x.key = page[g].key => SentFrom(x, page[g].cart)

\* A stored submission has its lines on the order, and no line is there without.
StoredLinesAreOrdered ==
    \A s \in submissions : \A l \in s.lines : \E i \in DOMAIN items :
        items[i].order = s.order /\ items[i].key = s.key /\ items[i].line = l
ItemsAreStored ==
    \A i \in DOMAIN items : \E s \in submissions :
        s.order = items[i].order /\ s.key = items[i].key

PagesInv == OneOpenOrder /\ ShownOrdersExist /\ AnsweredUnderTheCode
            /\ SentWithTheCode /\ GuestsKeepTheirCode
KeysInv == KeysAreCounted /\ KeysAreOwn /\ KeysKeepTheirCart /\ KeyNamesOneCart
LinesInv == StoredLinesAreOrdered /\ ItemsAreStored /\ OrderedOncePerKey
            /\ AnsweredLinesAreOnTheOrder

IInv == TypeOK /\ FiniteCarts /\ PagesInv /\ TapsKeepTheirCart /\ KeysInv /\ LinesInv

-----------------------------------------------------------------------------
(* What the server's helpers do to the rows of the orders *)

LEMMA OpenOrderIsOpen ==
    /\ OpenOrder # None => OpenOrder \in Orders /\ order[OpenOrder] = "open"
    /\ OpenOrder = None => \A o \in Orders : order[o] # "open"
    /\ OpenOrder \in Orders \cup {None}
BY DEF OpenOrder, Orders, None

\* The rows stay, but for their status.
StatusOnly(rows, new) ==
    /\ new \in Seq(Item) /\ DOMAIN new = DOMAIN rows
    /\ \A i \in DOMAIN rows : /\ new[i].order = rows[i].order
                              /\ new[i].key = rows[i].key
                              /\ new[i].line = rows[i].line

\* Rows rewritten one by one are a sequence of rows again.
LEMMA RewrittenRows ==
    ASSUME NEW rows \in Seq(Item), NEW new, new = [i \in DOMAIN rows |-> new[i]],
           \A i \in DOMAIN rows : new[i] \in Item
    PROVE  new \in Seq(Item)
<1>1. Len(rows) \in Nat /\ DOMAIN rows = 1..Len(rows)
  BY LenProperties
<1>2. new \in [1..Len(rows) -> Item]
  BY <1>1
<1> QED
  BY <1>1, <1>2, SeqDef

LEMMA MarkSentIsStatusOnly ==
    ASSUME NEW rows \in Seq(Item), NEW ids
    PROVE  StatusOnly(rows, MarkSent(rows, ids))
<1> DEFINE new == MarkSent(rows, ids)
<1>1. ASSUME NEW i \in DOMAIN rows
      PROVE  /\ rows[i] \in Item /\ new[i] \in Item
             /\ new[i].order = rows[i].order /\ new[i].key = rows[i].key
             /\ new[i].line = rows[i].line
  <2>1. rows[i] \in Item
    BY LenProperties, ElementOfSeq
  <2>2. new[i] = IF i \in ids /\ rows[i].status = "pending"
                 THEN [rows[i] EXCEPT !.status = "sent"] ELSE rows[i]
    BY DEF MarkSent
  <2> HIDE DEF new
  <2> QED
    BY <2>1, <2>2 DEF Item
<1>2. DOMAIN new = DOMAIN rows /\ new = [i \in DOMAIN rows |-> new[i]]
  BY DEF MarkSent
<1> HIDE DEF new
<1>3. new \in Seq(Item)
  BY <1>1, <1>2, RewrittenRows
<1> QED
  BY <1>1, <1>2, <1>3 DEF StatusOnly, new

\* The rows of a request are its lines, each once.
LEMMA RowsAreTheLines ==
    ASSUME NEW r \in Request, NEW o \in Orders, IsFiniteSet(r.lines)
    PROVE  /\ Rows(r, o) \in Seq(Item)
           /\ \A i \in DOMAIN Rows(r, o) :
                 Rows(r, o)[i].order = o /\ Rows(r, o)[i].key = r.key
           /\ \A l \in r.lines : \E i \in DOMAIN Rows(r, o) : Rows(r, o)[i].line = l
           /\ \A i, j \in DOMAIN Rows(r, o) :
                 Rows(r, o)[i].line = Rows(r, o)[j].line => i = j
<1> DEFINE n == Cardinality(r.lines)
           Lists(f) == \A l \in r.lines : \E i \in 1..n : f[i] = l
           f == CHOOSE q \in [1..n -> r.lines] : Lists(q)
           rows == Rows(r, o)
<1>1. n \in Nat /\ ExistsBijection(1..n, r.lines)
  BY FS_CardinalityType
<1>2. f \in [1..n -> r.lines] /\ Lists(f)
  <2>1. \E q \in [1..n -> r.lines] : Lists(q)
    BY <1>1 DEF ExistsBijection, Bijection, Surjection
  <2> HIDE DEF Lists
  <2> QED
    BY <2>1
<1>3. \A i, j \in 1..n : f[i] = f[j] => i = j
  <2>1. f \in Surjection(1..n, r.lines)
    BY <1>2 DEF Surjection
  <2>2. IsFiniteSet(1..n) /\ Cardinality(1..n) = n
    BY <1>1, FS_Interval
  <2> HIDE DEF f, n
  <2>3. f \in Injection(1..n, r.lines)
    BY <2>1, <2>2, FS_SurjSameCardinalityImpliesInj DEF n
  <2> QED
    BY <2>3 DEF Injection, IsInjective
<1>4. rows = [i \in 1..n |->
                [order |-> o, key |-> r.key, line |-> f[i], status |-> "pending"]]
  BY DEF Rows
<1> HIDE DEF f, n, rows
<1>5. \A i \in 1..n : rows[i] \in Item
  <2>1. r.key \in Keys /\ r.lines \subseteq Lines
    BY DEF Request
  <2> QED
    BY <1>2, <1>4, <2>1 DEF Item
<1>6. DOMAIN rows = 1..n /\ rows \in [1..n -> Item]
  BY <1>4, <1>5
<1>7. rows \in Seq(Item)
  BY <1>1, <1>6, SeqDef
<1>8. \A i \in 1..n : rows[i].order = o /\ rows[i].key = r.key /\ rows[i].line = f[i]
  BY <1>4
<1>9. \A l \in r.lines : \E i \in 1..n : f[i] = l
  BY <1>2
<1> HIDE DEF Lists
<1> QED
  BY <1>3, <1>6, <1>7, <1>8, <1>9 DEF rows

-----------------------------------------------------------------------------
(* The three parts of the invariant, kept by the steps that leave them alone *)

LEMMA LinesStay ==
    ASSUME LinesInv, items' = items \/ StatusOnly(items, items'), UNCHANGED submissions,
           \A a \in answers' : Succeeded(a) => a \in answers
    PROVE  LinesInv'
<1>1. /\ DOMAIN items' = DOMAIN items
      /\ \A i \in DOMAIN items : /\ items'[i].order = items[i].order
                                 /\ items'[i].key = items[i].key
                                 /\ items'[i].line = items[i].line
  BY DEF StatusOnly
<1>2. StoredLinesAreOrdered'
  BY <1>1 DEF LinesInv, StoredLinesAreOrdered
<1>3. ItemsAreStored'
  BY <1>1 DEF LinesInv, ItemsAreStored
<1>4. OrderedOncePerKey'
  BY <1>1 DEF LinesInv, OrderedOncePerKey
<1>5. AnsweredLinesAreOnTheOrder'
  <2> SUFFICES ASSUME NEW a \in answers', Succeeded(a), NEW l \in a.to.lines
               PROVE  \E i \in DOMAIN items' : /\ items'[i].order = a.order
                                               /\ items'[i].line = l
                                               /\ items'[i].key = a.to.key
    BY DEF AnsweredLinesAreOnTheOrder, Succeeded
  <2>1. PICK i \in DOMAIN items :
           items[i].order = a.order /\ items[i].line = l /\ items[i].key = a.to.key
    BY DEF LinesInv, AnsweredLinesAreOnTheOrder, Succeeded
  <2> QED
    BY <1>1, <2>1
<1> QED
  BY <1>2, <1>3, <1>4, <1>5 DEF LinesInv

\* A page keeps its key with its cart, or forgets it.
LEMMA KeysStay ==
    ASSUME KeysInv, TypeOK, UNCHANGED <<submissions, made, crossed>>, wire' \subseteq wire,
           \A a \in answers' : a.verdict = "conflict" => a \in answers \/ a.to.key \in crossed,
           \A g \in Guests : \/ page'[g].key = None
                             \/ page'[g].key = page[g].key /\ page'[g].cart = page[g].cart
    PROVE  KeysInv'
<1>1. KeysAreCounted'
  BY DEF KeysInv, KeysAreCounted, TypeOK, None
<1>2. KeysAreOwn'
  BY DEF KeysInv, KeysAreOwn
<1>3. KeysKeepTheirCart'
  BY DEF KeysInv, KeysKeepTheirCart, SentFrom
<1>4. KeyNamesOneCart'
  BY DEF KeysInv, KeyNamesOneCart, SameCart
<1> QED
  BY <1>1, <1>2, <1>3, <1>4 DEF KeysInv

\* A tap goes on under the cart it saw, or is over.
LEMMA TapsStay ==
    ASSUME TapsKeepTheirCart,
           \A g \in Guests :
               \/ page'[g].tapped = {}
               \/ /\ page'[g].tapped = page[g].tapped /\ page'[g].cart = page[g].cart
                  /\ page'[g].key = page[g].key /\ page'[g].sending \in {None, page[g].sending}
    PROVE  TapsKeepTheirCart'
BY DEF TapsKeepTheirCart

LEMMA FiniteStay ==
    ASSUME FiniteCarts, wire' \subseteq wire,
           \A g \in Guests : page'[g].cart = {} \/ page'[g].cart = page[g].cart
    PROVE  FiniteCarts'
<1>1. IsFiniteSet({})
  BY FS_EmptySet
<1> QED
  BY <1>1 DEF FiniteCarts

LEMMA OpenOrderStays ==
    ASSUME UNCHANGED order
    PROVE  OpenOrder' = OpenOrder
BY DEF OpenOrder

LEMMA PagesStay ==
    ASSUME PagesInv, TypeOK, UNCHANGED <<order, token, sends>>, Asked' \subseteq Asked,
           \A g \in Guests : /\ page'[g].order = page[g].order
                             /\ page'[g].token = page[g].token
                             /\ page'[g].sending \in {None, page[g].sending},
           \A a \in answers' : Succeeded(a) =>
               \/ a \in answers
               \/ a.order = OpenOrder /\ OpenOrder # None /\ a.to.token = token
    PROVE  PagesInv'
<1>1. OpenOrder' = OpenOrder
  BY OpenOrderStays
<1>2. OneOpenOrder'
  BY DEF PagesInv, OneOpenOrder
<1>3. ShownOrdersExist'
  BY DEF PagesInv, ShownOrdersExist
<1>4. AnsweredUnderTheCode'
  <2> SUFFICES ASSUME NEW a \in answers', Succeeded(a)
               PROVE  /\ a.order \in Orders /\ order[a.order] # "none"
                      /\ a.order = OpenOrder => a.to.token = token
    BY <1>1 DEF AnsweredUnderTheCode, Succeeded
  <2>1. CASE a \in answers
    BY <2>1 DEF PagesInv, AnsweredUnderTheCode
  <2>2. CASE a.order = OpenOrder /\ OpenOrder # None /\ a.to.token = token
    BY <2>2, OpenOrderIsOpen
  <2> QED
    BY <2>1, <2>2
<1>5. SentWithTheCode'
  <2> SUFFICES ASSUME NEW r \in Asked'
               PROVE  /\ r.send <= sends
                      /\ page'[r.guest].sending = r.send => page'[r.guest].token = r.token
    BY DEF SentWithTheCode
  <2>1. r \in Asked /\ r \in Request
    BY DEF Asked, TypeOK, Answer
  <2>2. r.guest \in Guests /\ r.send # None
    BY <2>1 DEF Request, Sends, None
  <2> QED
    BY <2>1, <2>2 DEF PagesInv, SentWithTheCode
<1>6. GuestsKeepTheirCode'
  BY <1>1 DEF PagesInv, GuestsKeepTheirCode
<1> QED
  BY <1>2, <1>3, <1>4, <1>5, <1>6 DEF PagesInv

-----------------------------------------------------------------------------
(* The steps of the page *)

\* One page changed to a page.
LEMMA PageIsTyped ==
    ASSUME TypeOK, NEW g \in Guests, NEW p \in Page, page' = [page EXCEPT ![g] = p]
    PROVE  /\ page' \in [Guests -> Page]
           /\ page'[g] = p
           /\ \A h \in Guests : h # g => page'[h] = page[h]
BY DEF TypeOK

LEMMA ScanKeepsIInv ==
    ASSUME IInv, NEW g \in Guests, Scan(g)
    PROVE  IInv'
<1> USE DEF IInv
<1> DEFINE p == [NewPage EXCEPT !.token = token, !.order = OpenOrder]
<1>1. /\ p.token = token /\ p.order = OpenOrder /\ p.cart = {}
      /\ p.key = None /\ p.tapped = {} /\ p.sending = None
  BY DEF NewPage
<1>2. p \in Page
  BY OpenOrderIsOpen DEF NewPage, Page, TypeOK
<1>3. /\ page' \in [Guests -> Page] /\ page'[g] = p
      /\ \A h \in Guests : h # g => page'[h] = page[h]
  BY <1>2, PageIsTyped DEF Scan
<1> HIDE DEF p
<1>4. TypeOK'
  BY <1>3 DEF Scan, TypeOK
<1>5. FiniteCarts'
  <2>1. \A h \in Guests : page'[h].cart = {} \/ page'[h].cart = page[h].cart
    BY <1>1, <1>3
  <2> QED
    BY <2>1, FiniteStay DEF Scan
<1>6. KeysInv'
  <2>1. \A h \in Guests :
           \/ page'[h].key = None
           \/ page'[h].key = page[h].key /\ page'[h].cart = page[h].cart
    BY <1>1, <1>3
  <2>2. /\ UNCHANGED <<submissions, made, crossed>> /\ wire' \subseteq wire
        /\ \A a \in answers' : a.verdict = "conflict" => a \in answers \/ a.to.key \in crossed
    BY DEF Scan
  <2> HIDE DEF IInv
  <2> QED
    BY <2>1, <2>2, KeysStay DEF IInv
<1>7. LinesInv'
  BY LinesStay DEF Scan
<1>8. OpenOrder' = OpenOrder
  BY OpenOrderStays DEF Scan
<1>9. OneOpenOrder' /\ AnsweredUnderTheCode'
  BY <1>8 DEF Scan, PagesInv, OneOpenOrder, AnsweredUnderTheCode
<1>10. ShownOrdersExist'
  BY <1>1, <1>3, OpenOrderIsOpen DEF Scan, PagesInv, ShownOrdersExist
<1>11. SentWithTheCode'
  <2> SUFFICES ASSUME NEW r \in Asked
               PROVE  /\ r.send <= sends
                      /\ page'[r.guest].sending = r.send => page'[r.guest].token = r.token
    BY DEF Scan, SentWithTheCode, Asked
  <2>1. r.guest \in Guests /\ r.send # None
    BY DEF Asked, TypeOK, Answer, Request, Sends, None
  <2> QED
    BY <1>1, <1>3, <2>1 DEF PagesInv, SentWithTheCode
<1>12. GuestsKeepTheirCode'
  BY <1>1, <1>3, <1>8 DEF Scan, PagesInv, GuestsKeepTheirCode
<1>13. TapsKeepTheirCart'
  BY <1>1, <1>3, TapsStay
<1> QED
  BY <1>4, <1>5, <1>6, <1>7, <1>9, <1>10, <1>11, <1>12, <1>13 DEF PagesInv

LEMMA LookKeepsIInv ==
    ASSUME IInv, NEW g \in Guests, Look(g)
    PROVE  IInv'
<1> USE DEF IInv
<1> DEFINE p == [page[g] EXCEPT !.order = OpenOrder]
<1>1. page[g] \in Page
  BY DEF TypeOK
<1>2. /\ p \in Page /\ p.order = OpenOrder /\ p.token = page[g].token
      /\ p.cart = page[g].cart /\ p.key = page[g].key /\ p.sending = page[g].sending
      /\ p.tapped = page[g].tapped
  BY <1>1, OpenOrderIsOpen DEF Page
<1>3. /\ page' \in [Guests -> Page] /\ page'[g] = p
      /\ \A h \in Guests : h # g => page'[h] = page[h]
  BY <1>2, PageIsTyped DEF Look
<1> HIDE DEF p
<1>4. TypeOK'
  BY <1>3 DEF Look, TypeOK
<1>5. FiniteCarts'
  BY <1>2, <1>3, FiniteStay DEF Look
<1>6. KeysInv'
  BY <1>2, <1>3, KeysStay DEF Look
<1>7. LinesInv'
  BY LinesStay DEF Look
<1>8. OpenOrder' = OpenOrder
  BY OpenOrderStays DEF Look
<1>9. OneOpenOrder' /\ AnsweredUnderTheCode'
  BY <1>8 DEF Look, PagesInv, OneOpenOrder, AnsweredUnderTheCode
<1>10. ShownOrdersExist'
  BY <1>2, <1>3, OpenOrderIsOpen DEF Look, PagesInv, ShownOrdersExist
<1>11. SentWithTheCode'
  <2> SUFFICES ASSUME NEW r \in Asked
               PROVE  /\ r.send <= sends
                      /\ page'[r.guest].sending = r.send => page'[r.guest].token = r.token
    BY DEF Look, SentWithTheCode, Asked
  <2>1. r.guest \in Guests
    BY DEF Asked, TypeOK, Answer, Request
  <2> QED
    BY <1>2, <1>3, <2>1 DEF PagesInv, SentWithTheCode
<1>12. GuestsKeepTheirCode'
  BY <1>2, <1>3, <1>8 DEF Look, PagesInv, GuestsKeepTheirCode
<1>13. TapsKeepTheirCart'
  BY <1>2, <1>3, TapsStay
<1> QED
  BY <1>4, <1>5, <1>6, <1>7, <1>9, <1>10, <1>11, <1>12, <1>13 DEF PagesInv

\* A changed cart is finite again and has no key.
LEMMA EditKeepsIInv ==
    ASSUME IInv, NEW g \in Guests, NEW cart \in SUBSET Lines, IsFiniteSet(cart),
           page[g].tapped \subseteq cart,
           page' = [page EXCEPT ![g] = Edited(page[g], cart)],
           UNCHANGED <<order, items, submissions, token, wire, answers, made, sends, crossed>>
    PROVE  IInv'
<1> USE DEF IInv
<1> DEFINE p == Edited(page[g], cart)
<1>1. page[g] \in Page
  BY DEF TypeOK
<1>2. /\ p \in Page /\ p.order = page[g].order /\ p.token = page[g].token
      /\ p.cart = cart /\ p.key = None /\ p.sending = page[g].sending
      /\ p.tapped = page[g].tapped
  BY <1>1 DEF Page, Edited
<1>3. /\ page' \in [Guests -> Page] /\ page'[g] = p
      /\ \A h \in Guests : h # g => page'[h] = page[h]
  BY <1>2, PageIsTyped
<1> HIDE DEF p
<1>4. TypeOK'
  BY <1>3 DEF TypeOK
<1>5. FiniteCarts'
  BY <1>2, <1>3 DEF FiniteCarts
<1>6. KeysInv'
  <2>1. \A h \in Guests :
           \/ page'[h].key = None
           \/ page'[h].key = page[h].key /\ page'[h].cart = page[h].cart
    BY <1>2, <1>3
  <2>2. /\ UNCHANGED <<submissions, made, crossed>> /\ wire' \subseteq wire
        /\ \A a \in answers' : a.verdict = "conflict" => a \in answers \/ a.to.key \in crossed
    OBVIOUS
  <2> HIDE DEF IInv
  <2> QED
    BY <2>1, <2>2, KeysStay DEF IInv
<1>7. LinesInv'
  BY LinesStay
<1>8. PagesInv'
  BY <1>2, <1>3, PagesStay DEF Asked
<1>9. TapsKeepTheirCart'
  BY <1>2, <1>3 DEF TapsKeepTheirCart
<1> QED
  BY <1>4, <1>5, <1>6, <1>7, <1>8, <1>9

LEMMA AddToCartKeepsIInv ==
    ASSUME IInv, NEW g \in Guests, NEW l \in Lines, AddToCart(g, l)
    PROVE  IInv'
<1> DEFINE cart == page[g].cart \cup {l}
<1>1. cart \in SUBSET Lines
  BY DEF IInv, TypeOK, Page
<1>2. IsFiniteSet(cart)
  BY FS_AddElement DEF IInv, FiniteCarts
<1>3. page' = [page EXCEPT ![g] = Edited(page[g], cart)]
  BY DEF AddToCart
<1>4. page[g].tapped \subseteq cart
  BY DEF IInv, TapsKeepTheirCart
<1> HIDE DEF cart
<1> QED
  BY <1>1, <1>2, <1>3, <1>4, EditKeepsIInv DEF AddToCart

LEMMA RemoveFromCartKeepsIInv ==
    ASSUME IInv, NEW g \in Guests, NEW l \in Lines, RemoveFromCart(g, l)
    PROVE  IInv'
<1> DEFINE cart == page[g].cart \ {l}
<1>1. cart \in SUBSET Lines
  BY DEF IInv, TypeOK, Page
<1>2. IsFiniteSet(cart)
  BY FS_RemoveElement DEF IInv, FiniteCarts
<1>3. page' = [page EXCEPT ![g] = Edited(page[g], cart)]
  BY DEF RemoveFromCart
<1>4. page[g].tapped \subseteq cart
  BY DEF RemoveFromCart, Submitting
<1> HIDE DEF cart
<1> QED
  BY <1>1, <1>2, <1>3, <1>4, EditKeepsIInv DEF RemoveFromCart

LEMMA TapKeepsIInv ==
    ASSUME IInv, NEW g \in Guests, Tap(g)
    PROVE  IInv'
<1> DEFINE p == [page[g] EXCEPT !.tapped = page[g].cart]
<1>1. TypeOK /\ FiniteCarts /\ PagesInv /\ TapsKeepTheirCart /\ KeysInv /\ LinesInv
  BY DEF IInv
<1>2. /\ page' = [page EXCEPT ![g] = p] /\ page[g] \in Page /\ page[g].sending = None
      /\ UNCHANGED <<order, items, submissions, token, wire, answers, made, sends, crossed>>
  BY <1>1 DEF TypeOK, Tap, Submitting
<1>3. /\ p \in Page /\ p.order = page[g].order /\ p.token = page[g].token
      /\ p.cart = page[g].cart /\ p.key = page[g].key /\ p.sending = None
      /\ p.tapped = page[g].cart
  BY <1>2 DEF Page
<1>4. /\ page' \in [Guests -> Page] /\ page'[g] = p
      /\ \A h \in Guests : h # g => page'[h] = page[h]
  BY <1>1, <1>2, <1>3, PageIsTyped
<1> HIDE DEF p
<1>5. TypeOK'
  BY <1>1, <1>2, <1>4 DEF TypeOK
<1>6. FiniteCarts'
  BY <1>1, <1>2, <1>3, <1>4, FiniteStay
<1>7. KeysInv'
  BY <1>1, <1>2, <1>3, <1>4, KeysStay
<1>8. LinesInv'
  BY <1>1, <1>2, LinesStay
<1>9. PagesInv'
  BY <1>1, <1>2, <1>3, <1>4, PagesStay DEF Asked
<1>10. TapsKeepTheirCart'
  BY <1>1, <1>3, <1>4 DEF TapsKeepTheirCart
<1> QED
  BY <1>5, <1>6, <1>7, <1>8, <1>9, <1>10 DEF IInv

\* The key of a request: a new one, or the one that stands for the cart of the tap.
LEMMA PostedKeyIsOwn ==
    ASSUME TypeOK, KeysInv, TapsKeepTheirCart, NEW g \in Guests, page[g].tapped # {},
           NEW k, k = KeyToSend(page[g]), k \in Keys
    PROVE  /\ k # None /\ k <= (IF k > made THEN k ELSE made)
           /\ made <= (IF k > made THEN k ELSE made)
           /\ \A x \in wire \cup submissions : x.key = k =>
                 page[g].tapped = page[g].cart /\ SentFrom(x, page[g].cart)
           /\ \A h \in Guests : h # g => page[h].key # k
<1>1. k \in Nat \ {0} /\ made \in Nat
  BY CustomerOrderAssumption DEF Keys, TypeOK
<1>2. k # None /\ k <= (IF k > made THEN k ELSE made)
      /\ made <= (IF k > made THEN k ELSE made)
  BY <1>1 DEF None
<1>3. CASE page[g].key = None
  <2>1. k = made + 1
    BY <1>3 DEF KeyToSend
  <2>2. /\ \A x \in wire \cup submissions : x.key # k
        /\ \A h \in Guests : page[h].key # k
    <3>1. ~ (made + 1 <= made)
      BY <1>1
    <3> QED
      BY <2>1, <3>1 DEF KeysInv, KeysAreCounted
  <2> QED
    BY <1>2, <2>2
<1>4. CASE page[g].key # None
  <2>1. k = page[g].key
    BY <1>4 DEF KeyToSend
  <2>2. page[g].tapped = page[g].cart
    BY <1>4 DEF TapsKeepTheirCart
  <2> QED
    BY <1>2, <1>4, <2>1, <2>2 DEF KeysInv, KeysKeepTheirCart, KeysAreOwn
<1> QED
  BY <1>3, <1>4

LEMMA PostKeepsIInv ==
    ASSUME IInv, NEW g \in Guests, Post(g)
    PROVE  IInv'
<1> DEFINE k == KeyToSend(page[g])
           p == [page[g] EXCEPT !.key = k, !.tapped = {}, !.sending = sends + 1]
           q == [send |-> sends + 1, guest |-> g, token |-> page[g].token,
                 key |-> k, lines |-> page[g].tapped]
<1>1. TypeOK /\ FiniteCarts /\ PagesInv /\ TapsKeepTheirCart /\ KeysInv /\ LinesInv
  BY DEF IInv
<1>2. /\ page[g] \in Page /\ page[g].tapped # {}
      /\ page[g].tapped \subseteq page[g].cart
  BY <1>1 DEF TypeOK, Post, TapsKeepTheirCart
<1>3. k \in Keys /\ sends + 1 \in Sends /\ sends \in Nat
  BY <1>1, CustomerOrderAssumption DEF Post, TypeOK
<1>4. /\ wire' = wire \cup {q} /\ made' = (IF k > made THEN k ELSE made)
      /\ sends' = sends + 1 /\ page' = [page EXCEPT ![g] = p]
      /\ crossed' = IF page[g].tapped = page[g].cart THEN crossed ELSE crossed \cup {k}
      /\ UNCHANGED <<order, items, submissions, token, answers>>
  BY DEF Post
<1>5. /\ k # None /\ k <= made' /\ made <= made'
      /\ \A x \in wire \cup submissions : x.key = k =>
            page[g].tapped = page[g].cart /\ SentFrom(x, page[g].cart)
      /\ \A h \in Guests : h # g => page[h].key # k
  BY <1>1, <1>2, <1>3, <1>4, PostedKeyIsOwn
<1> HIDE DEF k
<1>6. /\ crossed \subseteq crossed' /\ crossed' \subseteq Keys
      /\ page[g].tapped # page[g].cart => k \in crossed'
  BY <1>1, <1>3, <1>4 DEF TypeOK
<1>7. /\ p \in Page /\ p.order = page[g].order /\ p.token = page[g].token
      /\ p.cart = page[g].cart /\ p.key = k /\ p.tapped = {} /\ p.sending = sends + 1
  BY <1>2, <1>3 DEF Page
<1>8. /\ q \in Request /\ q.send = sends + 1 /\ q.guest = g
      /\ q.token = page[g].token /\ q.key = k /\ q.lines = page[g].tapped
  BY <1>2, <1>3 DEF Page, Request
<1>9. /\ page' \in [Guests -> Page] /\ page'[g] = p
      /\ \A h \in Guests : h # g => page'[h] = page[h]
  BY <1>1, <1>4, <1>7, PageIsTyped
<1> HIDE DEF p, q
<1>10. TypeOK'
  <2>1. made' \in 0..NumKeys /\ sends' \in 0..NumSends
    BY <1>1, <1>3, <1>4, CustomerOrderAssumption DEF TypeOK, Keys, Sends
  <2> QED
    BY <1>1, <1>4, <1>6, <1>8, <1>9, <2>1 DEF TypeOK
<1>11. FiniteCarts'
  <2>1. IsFiniteSet(q.lines)
    BY <1>1, <1>2, <1>8, FS_Subset DEF FiniteCarts
  <2> QED
    BY <1>1, <1>4, <1>7, <1>9, <2>1 DEF FiniteCarts
<1>12. LinesInv'
  BY <1>1, <1>4, LinesStay
<1>13. KeysInv'
  <2>1. /\ made \in Nat /\ made' \in Nat /\ k \in Nat
        /\ \A h \in Guests : page[h].key \in Nat
        /\ \A r \in wire : r.key \in Nat
        /\ \A s \in submissions : s.key \in Nat
    BY <1>1, <1>3, <1>10 DEF TypeOK, Page, Request, Submission, Keys, None
  <2>2. KeysAreCounted'
    <3>1. \A n \in Nat : n <= made => n <= made'
      BY <1>5, <2>1
    <3> QED
      BY <1>1, <1>4, <1>5, <1>7, <1>8, <1>9, <2>1, <3>1 DEF KeysInv, KeysAreCounted
  <2>3. KeysAreOwn'
    BY <1>1, <1>5, <1>7, <1>9 DEF KeysInv, KeysAreOwn
  <2>4. KeysKeepTheirCart'
    <3> SUFFICES ASSUME NEW h \in Guests, page'[h].key # None,
                        NEW x \in wire' \cup submissions, x.key = page'[h].key
                 PROVE  \/ x.lines = page'[h].cart
                        \/ x.key \in crossed' /\ x.lines \subseteq page'[h].cart
      BY <1>4 DEF KeysKeepTheirCart, SentFrom
    <3>1. CASE h # g
      BY <1>1, <1>4, <1>5, <1>6, <1>8, <1>9, <3>1 DEF KeysInv, KeysKeepTheirCart, SentFrom
    <3>2. CASE h = g /\ x = q
      BY <1>2, <1>6, <1>7, <1>8, <1>9, <3>2
    <3>3. CASE h = g /\ x # q
      BY <1>4, <1>5, <1>6, <1>7, <1>9, <3>3 DEF SentFrom
    <3> QED
      BY <3>1, <3>2, <3>3
  <2>5. KeyNamesOneCart'
    <3> DEFINE Same(x, y) ==
                 x.key = y.key => \/ x.lines = y.lines
                                  \/ /\ x.key \in crossed'
                                     /\ x.lines \subseteq y.lines \/ y.lines \subseteq x.lines
    <3>1. \A x \in wire \cup submissions : x.key = k =>
             x.lines = q.lines \/ (x.key \in crossed' /\ x.lines \subseteq q.lines)
      BY <1>5, <1>6, <1>8 DEF SentFrom
    <3>2. \A r \in wire, x \in wire \cup submissions : Same(r, x)
      BY <1>1, <1>6 DEF KeysInv, KeyNamesOneCart, SameCart
    <3>3. \A x \in wire \cup submissions : Same(q, x) /\ Same(x, q)
      BY <1>8, <3>1
    <3>4. Same(q, q)
      OBVIOUS
    <3>5. \A a \in answers : a.verdict = "conflict" => a.to.key \in crossed'
      BY <1>1, <1>6 DEF KeysInv, KeyNamesOneCart
    <3> HIDE DEF Same
    <3>6. \A r \in wire' : \A x \in wire' \cup submissions' : Same(r, x)
      BY <1>4, <3>2, <3>3, <3>4
    <3> QED
      BY <1>4, <3>5, <3>6 DEF KeyNamesOneCart, SameCart, Same
  <2> QED
    BY <2>2, <2>3, <2>4, <2>5 DEF KeysInv
<1>14. OpenOrder' = OpenOrder
  BY <1>4, OpenOrderStays
<1>15. OneOpenOrder' /\ ShownOrdersExist' /\ AnsweredUnderTheCode'
  <2>1. OneOpenOrder' /\ AnsweredUnderTheCode'
    BY <1>1, <1>4, <1>14 DEF PagesInv, OneOpenOrder, AnsweredUnderTheCode
  <2>2. ShownOrdersExist'
    BY <1>1, <1>4, <1>7, <1>9 DEF PagesInv, ShownOrdersExist
  <2> QED
    BY <2>1, <2>2
<1>16. SentWithTheCode'
  <2> SUFFICES ASSUME NEW r \in Asked'
               PROVE  /\ r.send <= sends + 1
                      /\ page'[r.guest].sending = r.send => page'[r.guest].token = r.token
    BY <1>4 DEF SentWithTheCode
  <2>1. CASE r = q
    BY <1>3, <1>7, <1>8, <1>9, <2>1
  <2>2. CASE r \in Asked
    <3>1. r.guest \in Guests /\ r.send \in Nat
      BY <1>1, <2>2 DEF Asked, TypeOK, Answer, Request, Sends
    <3>2. /\ r.send <= sends
          /\ page[r.guest].sending = r.send => page[r.guest].token = r.token
      BY <1>1, <2>2 DEF PagesInv, SentWithTheCode
    <3>3. r.send <= sends + 1 /\ r.send # sends + 1
      BY <1>3, <3>1, <3>2
    <3> QED
      BY <1>7, <1>9, <3>1, <3>2, <3>3
  <2> QED
    BY <1>4, <2>1, <2>2 DEF Asked
<1>17. GuestsKeepTheirCode'
  BY <1>1, <1>4, <1>7, <1>9, <1>14 DEF PagesInv, GuestsKeepTheirCode
<1>18. TapsKeepTheirCart'
  BY <1>1, <1>7, <1>9 DEF TapsKeepTheirCart
<1> QED
  BY <1>10, <1>11, <1>12, <1>13, <1>15, <1>16, <1>17, <1>18 DEF IInv, PagesInv

LEMMA AnsweredKeepsIInv ==
    ASSUME IInv, NEW g \in Guests, NEW a \in answers, Answered(g, a)
    PROVE  IInv'
<1> DEFINE p == IF a.verdict \in {"created", "replayed"}
                THEN [page[g] EXCEPT !.order = a.order, !.cart = {}, !.key = None, !.sending = None]
                ELSE [page[g] EXCEPT !.sending = None]
<1>1. TypeOK /\ FiniteCarts /\ PagesInv /\ TapsKeepTheirCart /\ KeysInv /\ LinesInv
  BY DEF IInv
<1>2. /\ page[g] \in Page /\ page[g].sending = a.to.send /\ a.to.guest = g
      /\ a.order \in Orders \cup {None}
  BY <1>1 DEF TypeOK, Answered, Answer
<1>3. /\ answers' = answers \ {a} /\ page' = [page EXCEPT ![g] = p]
      /\ UNCHANGED <<order, items, submissions, token, wire, made, sends, crossed>>
  BY DEF Answered
<1>4. /\ p \in Page /\ p.token = page[g].token /\ p.sending = None
      /\ p.tapped = page[g].tapped
      /\ \/ Succeeded(a) /\ p.order = a.order /\ p.cart = {} /\ p.key = None
         \/ p.order = page[g].order /\ p.cart = page[g].cart /\ p.key = page[g].key
  <2>1. p \in Page
    BY <1>2 DEF Page
  <2>2. p.token = page[g].token /\ p.sending = None /\ p.tapped = page[g].tapped
    BY <1>2 DEF Page
  <2>3. CASE Succeeded(a)
    BY <1>2, <2>1, <2>2, <2>3 DEF Page, Succeeded
  <2>4. CASE ~Succeeded(a)
    BY <1>2, <2>1, <2>2, <2>4 DEF Page, Succeeded
  <2> QED
    BY <2>3, <2>4
<1>5. /\ page' \in [Guests -> Page] /\ page'[g] = p
      /\ \A h \in Guests : h # g => page'[h] = page[h]
  BY <1>1, <1>3, <1>4, PageIsTyped
<1> HIDE DEF p
<1>6. TypeOK'
  BY <1>1, <1>3, <1>5 DEF TypeOK
<1>7. FiniteCarts'
  <2>1. \A h \in Guests : page'[h].cart = {} \/ page'[h].cart = page[h].cart
    BY <1>4, <1>5
  <2> QED
    BY <1>1, <1>3, <2>1, FiniteStay
<1>8. KeysInv'
  <2>1. \A h \in Guests : \/ page'[h].key = None
                          \/ page'[h].key = page[h].key /\ page'[h].cart = page[h].cart
    BY <1>4, <1>5
  <2>2. \A b \in answers' : b.verdict = "conflict" => b \in answers
    BY <1>3
  <2> QED
    BY <1>1, <1>3, <2>1, <2>2, KeysStay
<1>9. LinesInv'
  BY <1>1, <1>3, LinesStay
<1>10. OpenOrder' = OpenOrder
  BY <1>3, OpenOrderStays
<1>11. OneOpenOrder' /\ AnsweredUnderTheCode'
  BY <1>1, <1>3, <1>10 DEF PagesInv, OneOpenOrder, AnsweredUnderTheCode
<1>12. Succeeded(a) => /\ a.order \in Orders /\ order[a.order] # "none"
                       /\ a.order = OpenOrder => page[g].token = token
  <2>1. a.to \in Asked
    BY DEF Asked
  <2> QED
    BY <1>1, <1>2, <2>1 DEF PagesInv, AnsweredUnderTheCode, SentWithTheCode
<1>13. ShownOrdersExist'
  BY <1>1, <1>3, <1>4, <1>5, <1>12 DEF PagesInv, ShownOrdersExist
<1>14. SentWithTheCode'
  <2> SUFFICES ASSUME NEW r \in Asked
               PROVE  /\ r.send <= sends
                      /\ page'[r.guest].sending = r.send => page'[r.guest].token = r.token
    BY <1>3 DEF SentWithTheCode, Asked
  <2>1. r.guest \in Guests /\ r.send # None
    BY <1>1 DEF Asked, TypeOK, Answer, Request, Sends, None
  <2> QED
    BY <1>1, <1>4, <1>5, <2>1 DEF PagesInv, SentWithTheCode
<1>15. GuestsKeepTheirCode'
  BY <1>1, <1>3, <1>4, <1>5, <1>10, <1>12 DEF PagesInv, GuestsKeepTheirCode
<1>16. TapsKeepTheirCart'
  <2>1. page[g].sending # None
    BY <1>1, <1>2 DEF TypeOK, Answer, Request, Sends, None
  <2>2. page[g].tapped = {}
    BY <1>1, <2>1 DEF TapsKeepTheirCart
  <2> QED
    BY <1>1, <1>4, <1>5, <2>2, TapsStay
<1> QED
  BY <1>6, <1>7, <1>8, <1>9, <1>11, <1>13, <1>14, <1>15, <1>16 DEF IInv, PagesInv

LEMMA ConnectionFailsKeepsIInv ==
    ASSUME IInv, NEW g \in Guests, ConnectionFails(g)
    PROVE  IInv'
<1> DEFINE p == [page[g] EXCEPT !.sending = None]
<1>1. TypeOK /\ FiniteCarts /\ PagesInv /\ TapsKeepTheirCart /\ KeysInv /\ LinesInv
  BY DEF IInv
<1>2. /\ answers' \subseteq answers /\ page' = [page EXCEPT ![g] = p]
      /\ UNCHANGED <<order, items, submissions, token, wire, made, sends, crossed>>
  BY <1>1 DEF ConnectionFails, TypeOK
<1>3. /\ p \in Page /\ p.order = page[g].order /\ p.token = page[g].token
      /\ p.cart = page[g].cart /\ p.key = page[g].key /\ p.sending = None
      /\ p.tapped = page[g].tapped
  BY <1>1 DEF TypeOK, Page
<1>4. /\ page' \in [Guests -> Page] /\ page'[g] = p
      /\ \A h \in Guests : h # g => page'[h] = page[h]
  BY <1>1, <1>2, <1>3, PageIsTyped
<1> HIDE DEF p
<1>5. \A h \in Guests : /\ page'[h].order = page[h].order
                        /\ page'[h].token = page[h].token
                        /\ page'[h].cart = page[h].cart /\ page'[h].key = page[h].key
                        /\ page'[h].tapped = page[h].tapped
                        /\ page'[h].sending \in {None, page[h].sending}
  BY <1>3, <1>4
<1>6. TypeOK'
  BY <1>1, <1>2, <1>4 DEF TypeOK
<1>7. FiniteCarts'
  BY <1>1, <1>2, <1>5, FiniteStay
<1>8. KeysInv'
  BY <1>1, <1>2, <1>5, KeysStay
<1>9. LinesInv'
  BY <1>1, <1>2, LinesStay
<1>10. PagesInv'
  <2>1. Asked' \subseteq Asked
    BY <1>2 DEF Asked
  <2> QED
    BY <1>1, <1>2, <1>5, <2>1, PagesStay
<1>11. TapsKeepTheirCart'
  BY <1>1, <1>5, TapsStay
<1> QED
  BY <1>6, <1>7, <1>8, <1>9, <1>10, <1>11 DEF IInv

LEMMA RequestIsLostKeepsIInv ==
    ASSUME IInv, NEW r \in wire, RequestIsLost(r)
    PROVE  IInv'
<1>1. TypeOK /\ FiniteCarts /\ PagesInv /\ TapsKeepTheirCart /\ KeysInv /\ LinesInv
  BY DEF IInv
<1>2. /\ wire' \subseteq wire
      /\ UNCHANGED <<order, items, submissions, token, page, answers, made, sends, crossed>>
  BY DEF RequestIsLost
<1>3. TypeOK'
  BY <1>1, <1>2 DEF TypeOK
<1>4. FiniteCarts'
  BY <1>1, <1>2, FiniteStay
<1>5. KeysInv'
  BY <1>1, <1>2, KeysStay
<1>6. LinesInv'
  BY <1>1, <1>2, LinesStay
<1>7. PagesInv'
  <2>1. Asked' \subseteq Asked
    BY <1>2 DEF Asked
  <2> QED
    BY <1>1, <1>2, <2>1, PagesStay
<1>8. TapsKeepTheirCart'
  BY <1>1, <1>2, TapsStay
<1> QED
  BY <1>3, <1>4, <1>5, <1>6, <1>7, <1>8 DEF IInv

-----------------------------------------------------------------------------
(* The steps of the server *)

\* What an answer leaves in place, and what it adds.
LEMMA ReplyFacts ==
    ASSUME TypeOK, NEW r \in wire, NEW verdict \in Verdict, NEW o \in Orders \cup {None},
           Reply(r, verdict, o)
    PROVE  /\ wire' \subseteq wire /\ wire' \subseteq Request
           /\ UNCHANGED <<order, token, page, made, sends, crossed>>
           /\ answers' \subseteq Answer
           /\ \A a \in answers' : \/ a \in answers
                                  \/ a.to = r /\ a.verdict = verdict /\ a.order = o
           /\ Asked' \subseteq Asked
<1> DEFINE b == [to |-> r, verdict |-> verdict, order |-> o]
<1>1. /\ wire' = wire \ {r} /\ answers' \subseteq answers \cup {b}
      /\ UNCHANGED <<order, token, page, made, sends, crossed>>
  BY DEF Reply
<1>2. b \in Answer /\ b.to = r /\ b.verdict = verdict /\ b.order = o
  BY DEF TypeOK, Answer
<1> HIDE DEF b
<1>3. Asked' \subseteq Asked
  BY <1>1, <1>2 DEF Asked
<1> QED
  BY <1>1, <1>2, <1>3 DEF TypeOK

LEMMA RefuseKeepsIInv ==
    ASSUME IInv, NEW r \in wire, Refuse(r)
    PROVE  IInv'
<1>1. TypeOK /\ FiniteCarts /\ PagesInv /\ TapsKeepTheirCart /\ KeysInv /\ LinesInv
  BY DEF IInv
<1>2. Reply(r, "refused", None) /\ UNCHANGED <<items, submissions>>
  BY DEF Refuse
<1>3. /\ wire' \subseteq wire /\ wire' \subseteq Request
      /\ UNCHANGED <<order, token, page, made, sends, crossed>>
      /\ answers' \subseteq Answer
      /\ \A a \in answers' : a \in answers \/ a.verdict = "refused"
      /\ Asked' \subseteq Asked
  BY <1>1, <1>2, ReplyFacts DEF Verdict
<1>4. TypeOK'
  BY <1>1, <1>2, <1>3 DEF TypeOK
<1>5. FiniteCarts'
  BY <1>1, <1>3, FiniteStay
<1>6. KeysInv'
  BY <1>1, <1>2, <1>3, KeysStay
<1>7. \A a \in answers' : Succeeded(a) => a \in answers
  BY <1>3 DEF Succeeded
<1>8. LinesInv'
  BY <1>1, <1>2, <1>7, LinesStay
<1>9. PagesInv'
  BY <1>1, <1>3, <1>7, PagesStay
<1>10. TapsKeepTheirCart'
  BY <1>1, <1>3, TapsStay
<1> QED
  BY <1>4, <1>5, <1>6, <1>8, <1>9, <1>10 DEF IInv

\* A submission the server knows has the lines of the retry, and they are on
\* the order, or the cart of its key grew between the tap and the request.
LEMMA KnownKeepsIInv ==
    ASSUME IInv, NEW r \in wire, Known(r)
    PROVE  IInv'
<1>1. TypeOK /\ FiniteCarts /\ PagesInv /\ TapsKeepTheirCart /\ KeysInv /\ LinesInv
  BY DEF IInv
<1>2. /\ OpenOrder # None /\ OpenOrder \in Orders /\ r.token = token
      /\ UNCHANGED <<items, submissions>>
  BY OpenOrderIsOpen DEF Known
<1>3. PICK s \in Stored(OpenOrder, r.key) :
         Reply(r, IF s.lines = r.lines THEN "replayed" ELSE "conflict", OpenOrder)
  BY DEF Known
<1>4. s \in submissions /\ s.order = OpenOrder /\ s.key = r.key
  BY DEF Stored
<1>5. s.lines = r.lines \/ r.key \in crossed
  BY <1>1, <1>4 DEF KeysInv, KeyNamesOneCart, SameCart
<1> DEFINE v == IF s.lines = r.lines THEN "replayed" ELSE "conflict"
<1>6. /\ Reply(r, v, OpenOrder) /\ v \in Verdict
      /\ v = "replayed" => s.lines = r.lines
      /\ v # "replayed" => v = "conflict" /\ r.key \in crossed
  BY <1>3, <1>5 DEF Verdict
<1> HIDE DEF v
<1>7. /\ wire' \subseteq wire /\ wire' \subseteq Request
      /\ UNCHANGED <<order, token, page, made, sends, crossed>>
      /\ answers' \subseteq Answer
      /\ \A a \in answers' : \/ a \in answers
                             \/ a.to = r /\ a.verdict = v /\ a.order = OpenOrder
      /\ Asked' \subseteq Asked
  BY <1>1, <1>2, <1>6, ReplyFacts
<1>8. TypeOK'
  BY <1>1, <1>2, <1>7 DEF TypeOK
<1>9. FiniteCarts'
  BY <1>1, <1>7, FiniteStay
<1>10. KeysInv'
  <2>1. \A a \in answers' : a.verdict = "conflict" => a \in answers \/ a.to.key \in crossed
    BY <1>6, <1>7
  <2> QED
    BY <1>1, <1>2, <1>7, <2>1, KeysStay
<1>11. PagesInv'
  <2>1. \A a \in answers' : Succeeded(a) =>
           \/ a \in answers
           \/ a.order = OpenOrder /\ OpenOrder # None /\ a.to.token = token
    BY <1>2, <1>7
  <2> QED
    BY <1>1, <1>7, <2>1, PagesStay
<1>12. LinesInv'
  <2>1. StoredLinesAreOrdered' /\ ItemsAreStored' /\ OrderedOncePerKey'
    BY <1>1, <1>2 DEF LinesInv, StoredLinesAreOrdered, ItemsAreStored, OrderedOncePerKey
  <2>2. AnsweredLinesAreOnTheOrder'
    <3> SUFFICES ASSUME NEW a \in answers', a.verdict \in {"created", "replayed"},
                        NEW l \in a.to.lines
                 PROVE  \E i \in DOMAIN items : /\ items[i].order = a.order
                                                /\ items[i].line = l
                                                /\ items[i].key = a.to.key
      BY <1>2 DEF AnsweredLinesAreOnTheOrder
    <3>1. CASE a \in answers
      BY <1>1, <3>1 DEF LinesInv, AnsweredLinesAreOnTheOrder
    <3>2. CASE a.to = r /\ a.verdict = v /\ a.order = OpenOrder
      <4>1. s.lines = r.lines
        BY <1>6, <3>2
      <4> QED
        BY <1>1, <1>4, <3>2, <4>1 DEF LinesInv, StoredLinesAreOrdered
    <3> QED
      BY <1>7, <3>1, <3>2
  <2> QED
    BY <2>1, <2>2 DEF LinesInv
<1>13. TapsKeepTheirCart'
  BY <1>1, <1>7, TapsStay
<1> QED
  BY <1>8, <1>9, <1>10, <1>11, <1>12, <1>13 DEF IInv

\* The order with the rows of a request: the old ones, and each line once.
LEMMA AcceptedRows ==
    ASSUME items \in Seq(Item), NEW r \in Request, NEW o \in Orders, IsFiniteSet(r.lines),
           LET rows == items \o Rows(r, o)
           IN  items' = rows \/ StatusOnly(rows, items')
    PROVE  /\ items' \in Seq(Item) /\ DOMAIN items \subseteq DOMAIN items'
           /\ \A i \in DOMAIN items : /\ items'[i].order = items[i].order
                                      /\ items'[i].key = items[i].key
                                      /\ items'[i].line = items[i].line
           /\ \A i \in DOMAIN items' \ DOMAIN items :
                 items'[i].order = o /\ items'[i].key = r.key
           /\ \A l \in r.lines : \E i \in DOMAIN items' :
                 items'[i].order = o /\ items'[i].key = r.key /\ items'[i].line = l
           /\ \A i, j \in DOMAIN items' \ DOMAIN items :
                 items'[i].line = items'[j].line => i = j
<1> DEFINE new == Rows(r, o)
           rows == items \o new
           m == Len(items)
           n == Len(new)
<1>1. /\ new \in Seq(Item)
      /\ \A i \in DOMAIN new : new[i].order = o /\ new[i].key = r.key
      /\ \A l \in r.lines : \E i \in DOMAIN new : new[i].line = l
      /\ \A i, j \in DOMAIN new : new[i].line = new[j].line => i = j
  BY RowsAreTheLines
<1> HIDE DEF new
<1>2. m \in Nat /\ n \in Nat /\ DOMAIN items = 1..m /\ DOMAIN new = 1..n
  BY <1>1, LenProperties
<1>3. /\ rows \in Seq(Item) /\ Len(rows) = m + n
      /\ \A i \in 1..Len(rows) : rows[i] = IF i <= m THEN items[i] ELSE new[i - m]
  BY <1>1, ConcatProperties
<1>4. DOMAIN rows = 1..(m + n)
  BY <1>3, LenProperties
<1>5. items' = rows \/ StatusOnly(rows, items')
  BY DEF new
<1> HIDE DEF m, n, rows
<1>6. /\ \A i \in 1..m : i \in 1..(m + n) /\ rows[i] = items[i]
      /\ \A i \in 1..n : i + m \in (1..(m + n)) \ (1..m) /\ rows[i + m] = new[i]
      /\ \A i \in (1..(m + n)) \ (1..m) : i - m \in 1..n /\ rows[i] = new[i - m]
  <2>1. \A i \in 1..m : i \in 1..(m + n) /\ i <= m
    BY <1>2
  <2>2. \A i \in 1..n : /\ i + m \in (1..(m + n)) \ (1..m)
                        /\ ~(i + m <= m) /\ (i + m) - m = i
    BY <1>2
  <2>3. \A i \in (1..(m + n)) \ (1..m) : i - m \in 1..n /\ ~(i <= m)
    BY <1>2
  <2>4. \A i \in 1..(m + n) : rows[i] = IF i <= m THEN items[i] ELSE new[i - m]
    BY <1>3
  <2>5. \A i \in 1..m : rows[i] = items[i]
    BY <2>1, <2>4
  <2>6. \A i \in 1..n : rows[i + m] = new[i]
    BY <2>2, <2>4
  <2>7. \A i \in (1..(m + n)) \ (1..m) : rows[i] = new[i - m]
    BY <2>3, <2>4
  <2> QED
    BY <2>1, <2>2, <2>3, <2>5, <2>6, <2>7
<1>7. /\ items' \in Seq(Item) /\ DOMAIN items' = 1..(m + n)
      /\ \A i \in 1..(m + n) : /\ items'[i].order = rows[i].order
                               /\ items'[i].key = rows[i].key
                               /\ items'[i].line = rows[i].line
  BY <1>3, <1>4, <1>5 DEF StatusOnly
<1>8. DOMAIN items \subseteq DOMAIN items'
  BY <1>2, <1>6, <1>7
<1>9. \A i \in DOMAIN items : /\ items'[i].order = items[i].order
                              /\ items'[i].key = items[i].key
                              /\ items'[i].line = items[i].line
  BY <1>2, <1>6, <1>7
<1>10. \A i \in DOMAIN items' \ DOMAIN items :
          /\ i - m \in DOMAIN new /\ items'[i].line = new[i - m].line
          /\ items'[i].order = o /\ items'[i].key = r.key
  <2> SUFFICES ASSUME NEW i \in (1..(m + n)) \ (1..m)
               PROVE  /\ i - m \in DOMAIN new /\ items'[i].line = new[i - m].line
                      /\ items'[i].order = o /\ items'[i].key = r.key
    BY <1>2, <1>7
  <2>1. i - m \in 1..n /\ rows[i] = new[i - m]
    BY <1>6
  <2> QED
    BY <1>1, <1>2, <1>7, <2>1
<1>11. \A l \in r.lines : \E i \in DOMAIN items' :
          items'[i].order = o /\ items'[i].key = r.key /\ items'[i].line = l
  <2> SUFFICES ASSUME NEW l \in r.lines
               PROVE  \E i \in DOMAIN items' :
                         items'[i].order = o /\ items'[i].key = r.key /\ items'[i].line = l
    OBVIOUS
  <2>1. PICK i \in DOMAIN new : new[i].line = l
    BY <1>1
  <2>2. i + m \in 1..(m + n) /\ rows[i + m] = new[i]
    BY <1>2, <1>6
  <2> QED
    BY <1>1, <1>7, <2>1, <2>2
<1>12. \A i, j \in DOMAIN items' \ DOMAIN items : items'[i].line = items'[j].line => i = j
  <2> SUFFICES ASSUME NEW i \in DOMAIN items' \ DOMAIN items,
                      NEW j \in DOMAIN items' \ DOMAIN items,
                      items'[i].line = items'[j].line
               PROVE  i = j
    OBVIOUS
  <2>1. i - m = j - m
    BY <1>1, <1>10
  <2> QED
    BY <1>2, <1>7, <2>1
<1> QED
  BY <1>7, <1>8, <1>9, <1>10, <1>11, <1>12

LEMMA AcceptKeepsIInv ==
    ASSUME IInv, NEW r \in wire, NEW fence \in Fences, Accept(r, fence)
    PROVE  IInv'
<1> DEFINE o == OpenOrder
           s == [order |-> o, key |-> r.key, lines |-> r.lines]
           rows == items \o Rows(r, o)
<1>1. TypeOK /\ FiniteCarts /\ PagesInv /\ TapsKeepTheirCart /\ KeysInv /\ LinesInv
  BY DEF IInv
<1>2. /\ o # None /\ r.token = token /\ Stored(o, r.key) = {}
      /\ submissions' = submissions \cup {s} /\ Reply(r, "created", o)
      /\ items' = IF fence = "unverified" THEN rows ELSE MarkSent(rows, AddedIds(rows))
  BY DEF Accept
<1>3. o \in Orders /\ r \in Request /\ IsFiniteSet(r.lines) /\ items \in Seq(Item)
  BY <1>1, <1>2, OpenOrderIsOpen DEF TypeOK, FiniteCarts
<1>4. s \in Submission /\ s.order = o /\ s.key = r.key /\ s.lines = r.lines
  BY <1>3 DEF Request, Submission
<1>5. /\ wire' \subseteq wire /\ wire' \subseteq Request
      /\ UNCHANGED <<order, token, page, made, sends, crossed>>
      /\ answers' \subseteq Answer
      /\ \A a \in answers' : \/ a \in answers
                             \/ a.to = r /\ a.verdict = "created" /\ a.order = o
      /\ Asked' \subseteq Asked
  BY <1>1, <1>2, <1>3, ReplyFacts DEF Verdict
<1>6. items' = rows \/ StatusOnly(rows, items')
  <2>1. rows \in Seq(Item)
    BY <1>3, RowsAreTheLines, ConcatProperties
  <2>2. StatusOnly(rows, MarkSent(rows, AddedIds(rows)))
    BY <2>1, MarkSentIsStatusOnly
  <2> QED
    BY <1>2, <2>2
<1>7. /\ items' \in Seq(Item) /\ DOMAIN items \subseteq DOMAIN items'
      /\ \A i \in DOMAIN items : /\ items'[i].order = items[i].order
                                 /\ items'[i].key = items[i].key
                                 /\ items'[i].line = items[i].line
      /\ \A i \in DOMAIN items' \ DOMAIN items :
            items'[i].order = o /\ items'[i].key = r.key
      /\ \A l \in r.lines : \E i \in DOMAIN items' :
            items'[i].order = o /\ items'[i].key = r.key /\ items'[i].line = l
      /\ \A i, j \in DOMAIN items' \ DOMAIN items :
            items'[i].line = items'[j].line => i = j
  <2> HIDE DEF o
  <2> QED
    BY <1>3, <1>6, AcceptedRows
<1>8. \A t \in submissions : ~(t.order = o /\ t.key = r.key)
  BY <1>2 DEF Stored
<1> HIDE DEF s, rows, o
<1>9. TypeOK'
  BY <1>1, <1>2, <1>4, <1>5, <1>7 DEF TypeOK
<1>10. FiniteCarts'
  BY <1>1, <1>5, FiniteStay
<1>11. KeysInv'
  <2>1. KeysAreCounted'
    BY <1>1, <1>2, <1>4, <1>5 DEF KeysInv, KeysAreCounted
  <2>2. KeysAreOwn'
    BY <1>1, <1>5 DEF KeysInv, KeysAreOwn
  <2>3. KeysKeepTheirCart'
    BY <1>1, <1>2, <1>4, <1>5 DEF KeysInv, KeysKeepTheirCart, SentFrom
  <2>4. KeyNamesOneCart'
    <3>1. \A a \in answers' : a.verdict = "conflict" => a.to.key \in crossed
      BY <1>1, <1>5 DEF KeysInv, KeyNamesOneCart
    <3> QED
      BY <1>1, <1>2, <1>4, <1>5, <3>1 DEF KeysInv, KeyNamesOneCart, SameCart
  <2> QED
    BY <2>1, <2>2, <2>3, <2>4 DEF KeysInv
<1>12. PagesInv'
  <2>1. \A a \in answers' : Succeeded(a) =>
           \/ a \in answers
           \/ a.order = OpenOrder /\ OpenOrder # None /\ a.to.token = token
    BY <1>2, <1>5 DEF o
  <2> QED
    BY <1>1, <1>5, <2>1, PagesStay
<1>13. StoredLinesAreOrdered'
  <2> SUFFICES ASSUME NEW t \in submissions', NEW l \in t.lines
               PROVE  \E i \in DOMAIN items' : /\ items'[i].order = t.order
                                               /\ items'[i].key = t.key
                                               /\ items'[i].line = l
    BY DEF StoredLinesAreOrdered
  <2>1. CASE t \in submissions
    <3>1. PICK i \in DOMAIN items :
             items[i].order = t.order /\ items[i].key = t.key /\ items[i].line = l
      BY <1>1, <2>1 DEF LinesInv, StoredLinesAreOrdered
    <3> QED
      BY <1>7, <3>1
  <2>2. CASE t = s
    BY <1>4, <1>7, <2>2
  <2> QED
    BY <1>2, <2>1, <2>2
<1>14. ItemsAreStored'
  <2> SUFFICES ASSUME NEW i \in DOMAIN items'
               PROVE  \E t \in submissions' :
                         t.order = items'[i].order /\ t.key = items'[i].key
    BY DEF ItemsAreStored
  <2>1. CASE i \in DOMAIN items
    BY <1>1, <1>2, <1>7, <2>1 DEF LinesInv, ItemsAreStored
  <2>2. CASE i \notin DOMAIN items
    BY <1>2, <1>4, <1>7, <2>2
  <2> QED
    BY <2>1, <2>2
<1>15. OrderedOncePerKey'
  <2>1. \A i \in DOMAIN items : ~(items'[i].order = o /\ items'[i].key = r.key)
    BY <1>1, <1>7, <1>8 DEF LinesInv, ItemsAreStored
  <2> SUFFICES ASSUME NEW i \in DOMAIN items', NEW j \in DOMAIN items',
                      items'[i].order = items'[j].order, items'[i].key = items'[j].key,
                      items'[i].line = items'[j].line
               PROVE  i = j
    BY DEF OrderedOncePerKey
  <2>2. CASE i \in DOMAIN items /\ j \in DOMAIN items
    BY <1>1, <1>7, <2>2 DEF LinesInv, OrderedOncePerKey
  <2>3. CASE i \notin DOMAIN items /\ j \notin DOMAIN items
    BY <1>7, <2>3
  <2>4. CASE i \in DOMAIN items /\ j \notin DOMAIN items
    BY <1>7, <2>1, <2>4
  <2>5. CASE i \notin DOMAIN items /\ j \in DOMAIN items
    BY <1>7, <2>1, <2>5
  <2> QED
    BY <2>2, <2>3, <2>4, <2>5
<1>16. AnsweredLinesAreOnTheOrder'
  <2> SUFFICES ASSUME NEW a \in answers', a.verdict \in {"created", "replayed"},
                      NEW l \in a.to.lines
               PROVE  \E i \in DOMAIN items' : /\ items'[i].order = a.order
                                               /\ items'[i].line = l
                                               /\ items'[i].key = a.to.key
    BY DEF AnsweredLinesAreOnTheOrder
  <2>1. CASE a \in answers
    <3>1. PICK i \in DOMAIN items :
             items[i].order = a.order /\ items[i].line = l /\ items[i].key = a.to.key
      BY <1>1, <2>1 DEF LinesInv, AnsweredLinesAreOnTheOrder
    <3> QED
      BY <1>7, <3>1
  <2>2. CASE a.to = r /\ a.order = o
    BY <1>7, <2>2
  <2> QED
    BY <1>5, <2>1, <2>2
<1>17. TapsKeepTheirCart'
  BY <1>1, <1>5, TapsStay
<1> QED
  BY <1>9, <1>10, <1>11, <1>12, <1>13, <1>14, <1>15, <1>16, <1>17 DEF IInv, LinesInv

-----------------------------------------------------------------------------
(* The steps of the staff *)

\* What an order does is not the pages' business, but for when it opens.
LEMMA OrdersMove ==
    ASSUME IInv, UNCHANGED <<submissions, token, page, wire, answers, made, sends, crossed>>,
           order' \in [Orders -> {"none", "open", "closed"}],
           items' = items \/ StatusOnly(items, items'),
           \A o \in Orders : order[o] # "none" => order'[o] # "none",
           \A o \in Orders : order'[o] = "open" =>
               \/ order[o] = "open"
               \/ order[o] = "none" /\ OpenOrder = None,
           \A o, p \in Orders : order'[o] = "open" /\ order'[p] = "open" => o = p
    PROVE  IInv'
<1>1. TypeOK /\ FiniteCarts /\ PagesInv /\ TapsKeepTheirCart /\ KeysInv /\ LinesInv
  BY DEF IInv
<1>2. TypeOK'
  BY <1>1 DEF TypeOK, StatusOnly
<1>3. FiniteCarts'
  BY <1>1, FiniteStay
<1>4. KeysInv'
  BY <1>1, KeysStay
<1>5. LinesInv'
  BY <1>1, LinesStay
<1>6. OneOpenOrder' /\ SentWithTheCode'
  BY <1>1 DEF PagesInv, OneOpenOrder, SentWithTheCode, Asked
<1>7. ShownOrdersExist'
  BY <1>1 DEF PagesInv, ShownOrdersExist, TypeOK, Page
<1>8. \A o \in Orders : o = OpenOrder' /\ order[o] # "none" => o = OpenOrder
  <2> SUFFICES ASSUME NEW o \in Orders, o = OpenOrder', order[o] # "none"
               PROVE  o = OpenOrder
    OBVIOUS
  <2>1. order'[o] = "open"
    BY DEF OpenOrder, Orders, None
  <2>2. order[o] = "open"
    BY <2>1
  <2> QED
    BY <1>1, <2>2, OpenOrderIsOpen DEF PagesInv, OneOpenOrder
<1>9. AnsweredUnderTheCode'
  BY <1>1, <1>8 DEF PagesInv, AnsweredUnderTheCode
<1>10. GuestsKeepTheirCode'
  BY <1>1, <1>8 DEF PagesInv, GuestsKeepTheirCode, ShownOrdersExist, TypeOK, Page
<1>11. TapsKeepTheirCart'
  BY <1>1, TapsStay
<1> QED
  BY <1>2, <1>3, <1>4, <1>5, <1>6, <1>7, <1>9, <1>10, <1>11 DEF IInv, PagesInv

LEMMA OpenKeepsIInv ==
    ASSUME IInv, NEW o \in Orders, Open(o)
    PROVE  IInv'
<1>1. /\ OpenOrder = None /\ order[o] = "none"
      /\ order \in [Orders -> {"none", "open", "closed"}]
      /\ order' = [order EXCEPT ![o] = "open"]
      /\ UNCHANGED <<items, submissions, token, page, wire, answers, made, sends, crossed>>
  BY DEF Open, IInv, TypeOK
<1>2. \A p \in Orders : order[p] # "open"
  BY <1>1, OpenOrderIsOpen
<1> QED
  BY <1>1, <1>2, OrdersMove

LEMMA SendToKitchenKeepsIInv ==
    ASSUME IInv, NEW o \in Orders, SendToKitchen(o)
    PROVE  IInv'
<1>1. /\ UNCHANGED <<order, submissions, token, page, wire, answers, made, sends, crossed>>
      /\ items' = MarkSent(items, {i \in DOMAIN items : items[i].order = o})
  BY DEF SendToKitchen
<1>2. /\ items \in Seq(Item) /\ order \in [Orders -> {"none", "open", "closed"}]
      /\ \A p, q \in Orders : order[p] = "open" /\ order[q] = "open" => p = q
  BY DEF IInv, TypeOK, PagesInv, OneOpenOrder
<1>3. StatusOnly(items, items')
  BY <1>1, <1>2, MarkSentIsStatusOnly
<1> QED
  BY <1>1, <1>2, <1>3, OrdersMove

LEMMA CloseKeepsIInv ==
    ASSUME IInv, NEW o \in Orders, Close(o)
    PROVE  IInv'
<1>1. /\ order' = [order EXCEPT ![o] = "closed"]
      /\ UNCHANGED <<submissions, token, page, wire, answers, made, sends, crossed>>
      /\ items' = [i \in DOMAIN items |->
                     IF items[i].order = o /\ items[i].status = "pending"
                     THEN [items[i] EXCEPT !.status = "cancelled"] ELSE items[i]]
  BY DEF Close
<1>2. /\ items \in Seq(Item) /\ order \in [Orders -> {"none", "open", "closed"}]
      /\ \A p, q \in Orders : order[p] = "open" /\ order[q] = "open" => p = q
  BY DEF IInv, TypeOK, PagesInv, OneOpenOrder
<1>3. ASSUME NEW i \in DOMAIN items
      PROVE  /\ items'[i] \in Item /\ items'[i].order = items[i].order
             /\ items'[i].key = items[i].key /\ items'[i].line = items[i].line
  <2>1. items[i] \in Item
    BY <1>2, LenProperties, ElementOfSeq
  <2>2. items'[i] = IF items[i].order = o /\ items[i].status = "pending"
                    THEN [items[i] EXCEPT !.status = "cancelled"] ELSE items[i]
    BY <1>1
  <2> QED
    BY <2>1, <2>2 DEF Item
<1>4. DOMAIN items' = DOMAIN items /\ items' = [i \in DOMAIN items |-> items'[i]]
  BY <1>1
<1>5. items' \in Seq(Item)
  BY <1>2, <1>3, <1>4, RewrittenRows
<1>6. StatusOnly(items, items')
  BY <1>3, <1>4, <1>5 DEF StatusOnly
<1>7. /\ order' \in [Orders -> {"none", "open", "closed"}]
      /\ \A p \in Orders : order[p] # "none" => order'[p] # "none"
      /\ \A p \in Orders : order'[p] = "open" => order[p] = "open"
  BY <1>1, <1>2
<1> QED
  BY <1>1, <1>2, <1>6, <1>7, OrdersMove

LEMMA RegenerateKeepsIInv ==
    ASSUME IInv, RegenerateCustomerToken
    PROVE  IInv'
<1>1. TypeOK /\ FiniteCarts /\ PagesInv /\ TapsKeepTheirCart /\ KeysInv /\ LinesInv
  BY DEF IInv
<1>2. /\ OpenOrder = None /\ token + 1 \in Tokens /\ token' = token + 1
      /\ UNCHANGED <<order, items, submissions, page, wire, answers, made, sends, crossed>>
  BY DEF RegenerateCustomerToken
<1>3. TypeOK'
  BY <1>1, <1>2 DEF TypeOK
<1>4. FiniteCarts'
  BY <1>1, <1>2, FiniteStay
<1>5. KeysInv'
  BY <1>1, <1>2, KeysStay
<1>6. LinesInv'
  BY <1>1, <1>2, LinesStay
<1>7. OpenOrder' = None
  BY <1>2, OpenOrderStays
<1>8. PagesInv'
  <2>1. OneOpenOrder' /\ SentWithTheCode'
    BY <1>1, <1>2 DEF PagesInv, OneOpenOrder, SentWithTheCode, Asked
  <2>2. ShownOrdersExist'
    BY <1>1, <1>2 DEF PagesInv, ShownOrdersExist
  <2>3. AnsweredUnderTheCode'
    BY <1>1, <1>2, <1>7 DEF PagesInv, AnsweredUnderTheCode, Orders, None
  <2>4. GuestsKeepTheirCode'
    BY <1>2, <1>7 DEF GuestsKeepTheirCode
  <2> QED
    BY <2>1, <2>2, <2>3, <2>4 DEF PagesInv
<1>9. TapsKeepTheirCart'
  BY <1>1, <1>2, TapsStay
<1> QED
  BY <1>3, <1>4, <1>5, <1>6, <1>8, <1>9 DEF IInv

-----------------------------------------------------------------------------
(* The theorems *)

LEMMA InitIInv == Init => IInv
<1> SUFFICES ASSUME Init
             PROVE  IInv
  OBVIOUS
<1>1. NewPage \in Page
  BY CustomerOrderAssumption DEF NewPage, Page, Tokens
<1>2. IsFiniteSet({})
  BY FS_EmptySet
<1>3. items \in Seq(Item) /\ DOMAIN items = {}
  BY DEF Init
<1>4. TypeOK
  BY <1>1, <1>3, CustomerOrderAssumption DEF Init, TypeOK, Tokens
<1>5. \A g \in Guests : /\ page[g] = NewPage /\ page[g].cart = {} /\ page[g].key = None
                        /\ page[g].order = None /\ page[g].sending = None
                        /\ page[g].tapped = {}
  BY DEF Init, NewPage
<1>6. FiniteCarts
  BY <1>2, <1>5 DEF Init, FiniteCarts
<1>7. PagesInv
  BY <1>5 DEF Init, PagesInv, OneOpenOrder, ShownOrdersExist, AnsweredUnderTheCode,
              SentWithTheCode, Asked, GuestsKeepTheirCode
<1>8. KeysInv
  BY <1>5 DEF Init, KeysInv, KeysAreCounted, KeysAreOwn, KeysKeepTheirCart,
              KeyNamesOneCart, None
<1>9. LinesInv
  BY <1>3 DEF Init, LinesInv, StoredLinesAreOrdered, ItemsAreStored,
              OrderedOncePerKey, AnsweredLinesAreOnTheOrder
<1>10. TapsKeepTheirCart
  BY <1>5 DEF TapsKeepTheirCart
<1> QED
  BY <1>4, <1>6, <1>7, <1>8, <1>9, <1>10 DEF IInv

LEMMA StutterKeepsIInv ==
    ASSUME IInv, UNCHANGED vars
    PROVE  IInv'
<1>1. TypeOK /\ FiniteCarts /\ PagesInv /\ TapsKeepTheirCart /\ KeysInv /\ LinesInv
  BY DEF IInv
<1>2. UNCHANGED <<order, items, submissions, token, page, wire, answers, made, sends, crossed>>
  BY DEF vars
<1>3. TypeOK' /\ FiniteCarts'
  BY <1>1, <1>2 DEF TypeOK, FiniteCarts
<1>4. KeysInv'
  BY <1>1, <1>2, KeysStay
<1>5. LinesInv'
  BY <1>1, <1>2, LinesStay
<1>6. PagesInv'
  BY <1>1, <1>2, PagesStay DEF Asked
<1>7. TapsKeepTheirCart'
  BY <1>1, <1>2, TapsStay
<1> QED
  BY <1>3, <1>4, <1>5, <1>6, <1>7 DEF IInv

LEMMA NextKeepsIInv == IInv /\ [Next]_vars => IInv'
<1> SUFFICES ASSUME IInv, [Next]_vars
             PROVE  IInv'
  OBVIOUS
<1>1. CASE \E g \in Guests : PageStep(g)
  <2>1. PICK g \in Guests : PageStep(g)
    BY <1>1
  <2> QED
    BY <2>1, ScanKeepsIInv, LookKeepsIInv, TapKeepsIInv, PostKeepsIInv,
       ConnectionFailsKeepsIInv, AddToCartKeepsIInv, RemoveFromCartKeepsIInv,
       AnsweredKeepsIInv DEF PageStep
<1>2. CASE \E r \in wire : ServerStep(r) \/ RequestIsLost(r)
  <2>1. PICK r \in wire : ServerStep(r) \/ RequestIsLost(r)
    BY <1>2
  <2> QED
    BY <2>1, RefuseKeepsIInv, KnownKeepsIInv, AcceptKeepsIInv, RequestIsLostKeepsIInv
       DEF ServerStep
<1>3. CASE StaffStep
  BY <1>3, RegenerateKeepsIInv, OpenKeepsIInv, SendToKitchenKeepsIInv, CloseKeepsIInv
     DEF StaffStep
<1>4. CASE UNCHANGED vars
  BY <1>4, StutterKeepsIInv
<1> QED
  BY <1>1, <1>2, <1>3, <1>4 DEF Next

LEMMA SpecKeepsIInv == Spec => []IInv
BY InitIInv, NextKeepsIInv, PTL DEF Spec

\* Every variable of the page, the server and the network stays of its type.
THEOREM CustomerTypeCorrect == Spec => []TypeOK
<1>1. IInv => TypeOK
  BY DEF IInv
<1> QED
  BY <1>1, SpecKeepsIInv, PTL

\* A retried submission puts each of its lines on the order once, whatever the
\* network loses or delays; the answer that empties the cart comes with them, and
\* the 409 of one key with two carts meets only the guest who added a dish between
\* the tap and the request.
THEOREM RetriesAreSafe == Spec => []RetriesOrderOnce
<1>1. IInv => RetriesOrderOnce
  BY DEF IInv, KeysInv, LinesInv, RetriesOrderOnce
<1> QED
  BY <1>1, SpecKeepsIInv, PTL

\* A page that shows the open order holds the code its next submission needs:
\* regenerateCustomerToken never runs under the guests of an active order.
THEOREM CodesAreKept == Spec => []GuestsKeepTheirCode
<1>1. IInv => GuestsKeepTheirCode
  BY DEF IInv, PagesInv
<1> QED
  BY <1>1, SpecKeepsIInv, PTL

\* A submission sends its own lines to the kitchen and nobody else's: what was
\* held back for the staff is still pending after it.
THEOREM HeldLinesWait == Spec => HeldLinesWaitForStaff
<1> DEFINE Held == submissions' # submissions =>
             \A i \in DOMAIN items : items[i].status = "pending" => items'[i].status = "pending"
<1>1. ASSUME TypeOK, IInv, NEW r \in wire, NEW fence \in Fences, Accept(r, fence),
             NEW i \in DOMAIN items
      PROVE  items'[i] = items[i]
  <2> DEFINE new == Rows(r, OpenOrder)
             rows == items \o new
  <2>1. items' = IF fence = "unverified" THEN rows ELSE MarkSent(rows, AddedIds(rows))
    BY <1>1 DEF Accept
  <2>2. items \in Seq(Item) /\ new \in Seq(Item)
    <3>1. OpenOrder \in Orders /\ r \in Request /\ IsFiniteSet(r.lines)
      BY <1>1, OpenOrderIsOpen DEF Accept, IInv, TypeOK, FiniteCarts
    <3> QED
      BY <1>1, <3>1, RowsAreTheLines DEF TypeOK
  <2> HIDE DEF new
  <2>3. i \in 1..Len(items) /\ Len(items) \in Nat /\ Len(new) \in Nat
    BY <1>1, <2>2, LenProperties
  <2>4. i \in 1..(Len(items) + Len(new)) /\ i <= Len(items) /\ ~(i >= Len(items) + 1)
    BY <2>3
  <2>5. rows[i] = items[i] /\ i \in DOMAIN rows
    BY <2>2, <2>4, ConcatProperties, LenProperties
  <2>6. i \notin AddedIds(rows)
    BY <2>3, <2>4 DEF AddedIds
  <2> HIDE DEF rows
  <2> QED
    BY <2>1, <2>5, <2>6 DEF MarkSent
<1>2. IInv /\ [Next]_vars => [Held]_vars
  <2> SUFFICES ASSUME IInv, Next, submissions' # submissions
               PROVE  \A i \in DOMAIN items : items'[i] = items[i]
    BY DEF vars
  <2>1. PICK r \in wire, fence \in Fences : Accept(r, fence)
    BY DEF Next, PageStep, Scan, Look, Tap, Post, ConnectionFails, AddToCart, RemoveFromCart,
           Answered, ServerStep, Refuse, Known, RequestIsLost, StaffStep,
           RegenerateCustomerToken, Open, SendToKitchen, Close
  <2> QED
    BY <1>1, <2>1 DEF IInv
<1> QED
  BY <1>2, SpecKeepsIInv, PTL DEF Spec, HeldLinesWaitForStaff
=============================================================================
