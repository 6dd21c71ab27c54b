------------------------ MODULE StopsAndBooks_proofs ------------------------
(***************************************************************************)
(* Proofs about Books and about PlannedStops, the two modules of what      *)
(* customers are promised and owe, which share no variable: first Books,   *)
(* then PlannedStops.                                                      *)
(*                                                                         *)
(* Books is proved for any scene of the types of BooksAssumption, any      *)
(* number of customers, vendors and desks, and any number of days, rows,   *)
(* invoices and bills.  What is reported of a day, a customer or a product *)
(* is a sum over rows, and each report is the sum of another one, regrouped*)
(* by the day, the customer or the product: the lemmas of Sums_proofs.     *)
(* What relates the ledger to the documents is inductive: every live sale  *)
(* is posted once under its own document, and a reversal takes back what   *)
(* it posted (SalesBooked).  What relates a draft to the ledger it will be *)
(* stored beside is said of the desk that makes it, read by read           *)
(* (DeskShows).                                                            *)
(***************************************************************************)
EXTENDS Books, PlannedStops, Sums_proofs

-----------------------------------------------------------------------------
(* The rows of the books, and what a step can do to them. *)
EntryTypes == {"OPENING_BALANCE", "DELIVERY_SALE", "ORDER_SALE", "PAYMENT", "ADJUSTMENT"}
SaleTypes == {"DELIVERY_SALE", "ORDER_SALE"}
Documents == {"delivery", "order", "payment", "customer"}
EntryRow == [who : Customers, at : Int, type : EntryTypes, amount : Int,
             of : Documents, id : Nat]
DeliveryRow == [who : Customers, date : Nat, trip : Trips, product : scene.products,
                units : Nat \ {0}, cash : Nat, live : BOOLEAN]
OrderRow == [who : Customers, placed : Int, product : scene.products, units : Nat \ {0},
             fee : Nat, paidAt : Nat, status : {"PLACED", "CANCELLED"}]
OutlayRow == [kind : {"expense", "refill"}, date : Nat, amount : Nat, vehicle : {trip.vehicle : trip \in Trips}]

Ticking == scene \in Scenes /\ now \in Nat /\ scene.first <= now /\ now <= scene.last
BooksTyped ==
    /\ Ticking
    /\ ledger \in Seq(EntryRow) /\ deliveries \in Seq(DeliveryRow) /\ orders \in Seq(OrderRow)
    /\ outlays \in SUBSET OutlayRow /\ IsFiniteSet(outlays)

(* Rows of this moment that sell nothing. *)
NoSale(more) == \A n \in DOMAIN more : more[n].type \notin SaleTypes /\ more[n].at = now
Posts(more) == more \in Seq(EntryRow) /\ NoSale(more) /\ ledger' = ledger \o more
Sells(entry, more) ==
    /\ entry \in EntryRow /\ more \in Seq(EntryRow) /\ NoSale(more)
    /\ ledger' = ledger \o (<<entry>> \o more)
SaleOf(type, of, id, c, amount, entry) ==
    /\ entry.type = type /\ entry.of = of /\ entry.id = id /\ entry.who = c /\ entry.amount = amount
    /\ entry.at = now

Amends == \E i \in DOMAIN ledger, a \in Int :
    /\ ledger[i].type \in {"PAYMENT", "OPENING_BALANCE"} /\ ledger' = [ledger EXCEPT ![i].amount = a]
    /\ UNCHANGED saleVars
PaysOrder == \E i \in DOMAIN orders, at \in Nat : orders' = [orders EXCEPT ![i].paidAt = at]
Records == \E more : Posts(more) /\ deliveries' = deliveries /\ (orders' = orders \/ PaysOrder)
Delivers == \E row \in DeliveryRow : \E entry, more :
    /\ row.live /\ deliveries' = Append(deliveries, row) /\ orders' = orders
    /\ SaleOf("DELIVERY_SALE", "delivery", Len(deliveries) + 1, row.who, Sale(row), entry)
    /\ Sells(entry, more)
Places == \E row \in OrderRow : \E entry, more :
    /\ row.status = "PLACED" /\ orders' = Append(orders, row) /\ deliveries' = deliveries
    /\ SaleOf("ORDER_SALE", "order", Len(orders) + 1, row.who, Total(row), entry)
    /\ Sells(entry, more)
Back(rows, more) == Posts(more) /\ (rows # {} => more # <<>>)
CancelsDelivery == \E i \in DOMAIN deliveries : \E more :
    /\ deliveries' = [deliveries EXCEPT ![i].live = FALSE] /\ orders' = orders
    /\ Back(EntriesFor("delivery", i, {"DELIVERY_SALE", "PAYMENT"}), more)
CancelsOrder == \E i \in DOMAIN orders : \E more :
    /\ orders' = [orders EXCEPT ![i].status = "CANCELLED"] /\ deliveries' = deliveries
    /\ Back(EntriesFor("order", i, {"ORDER_SALE"}), more)
SaleCase == Amends \/ Records \/ Delivers \/ Places \/ CancelsDelivery \/ CancelsOrder
BookCase ==
    /\ scene' = scene /\ now' \in Nat /\ now <= now' /\ now' <= scene.last
    /\ outlays' \in SUBSET OutlayRow /\ IsFiniteSet(outlays')
    /\ SaleCase

(* What a scene is, from the assumptions. *)
LEMMA SceneIs ==
    ASSUME NEW s \in Scenes
    PROVE  /\ Inputs(s) /\ Clock(s) /\ IsFiniteSet(s.products) /\ s.trips \subseteq Trips
           /\ s.who \subseteq Customers
           /\ s.first \in Nat /\ s.last \in Nat /\ s.step \in Nat \ {0} /\ s.zone \in -1..1
           /\ s.fees \subseteq Nat /\ s.amounts \subseteq Nat \ {0} /\ s.dates \subseteq Nat \ {0}
           /\ \A lot \in s.lots : lot.product \in s.products /\ lot.units \in Nat \ {0} /\ lot.cash \in Nat
<1>1. Inputs(s) /\ Clock(s)
  BY BooksAssumption
<1>2. \A lot \in Lot(s) : lot.product \in s.products /\ lot.units \in Nat \ {0} /\ lot.cash \in Nat
  BY DEF Lot
<1> QED
  BY <1>1, <1>2 DEF Inputs, Clock

LEMMA PricesAre == Price \in Nat \ {0} /\ IsFiniteSet(Customers) /\ IsFiniteSet(Trips)
  BY BooksAssumption

LEMMA ProductNat == \A x, y \in Nat : x * y \in Nat
  OBVIOUS

LEMMA ProductPositive == \A x, y \in Nat \ {0} : x * y \in Nat \ {0}
  OBVIOUS

(* An entry is one row, or none. *)
LEMMA EntryIs ==
    ASSUME Ticking, NEW c \in Customers, NEW type \in EntryTypes, NEW amount \in Int,
           NEW of \in Documents, NEW id \in Nat
    PROVE  LET e == Entry(c, type, amount, of, id) IN
           /\ e \in Seq(EntryRow) /\ \A n \in DOMAIN e : e[n].type = type /\ e[n].at = now
           /\ amount # 0 => \E row \in EntryRow : e = <<row>> /\ SaleOf(type, of, id, c, amount, row)
<1> DEFINE e == Entry(c, type, amount, of, id)
<1> SUFFICES /\ e \in Seq(EntryRow) /\ \A n \in DOMAIN e : e[n].type = type /\ e[n].at = now
             /\ amount # 0 => \E row \in EntryRow : e = <<row>> /\ SaleOf(type, of, id, c, amount, row)
  OBVIOUS
<1>1. CASE amount = 0
  <2>1. e = <<>>
    BY <1>1 DEF Entry
  <2> HIDE DEF e
  <2>2. e \in Seq(EntryRow) /\ DOMAIN e = {}
    BY <2>1
  <2> QED
    BY <1>1, <2>2
<1>2. CASE amount # 0
  <2> DEFINE row == [who |-> c, at |-> now, type |-> type, amount |-> amount, of |-> of, id |-> id]
  <2>1. row \in EntryRow /\ SaleOf(type, of, id, c, amount, row)
    BY DEF EntryRow, SaleOf, Ticking
  <2>2. e = <<row>>
    BY <1>2 DEF Entry
  <2> HIDE DEF row, e
  <2>3. e \in Seq(EntryRow) /\ \A n \in DOMAIN e : e[n].type = type /\ e[n].at = now
    BY <2>1, <2>2 DEF SaleOf
  <2> QED
    BY <2>1, <2>2, <2>3
<1> QED
  BY <1>1, <1>2

(* An entry that is not of a sale sells nothing. *)
LEMMA EntryAside ==
    ASSUME Ticking, NEW c \in Customers, NEW type \in EntryTypes \ SaleTypes, NEW amount \in Int,
           NEW of \in Documents, NEW id \in Nat
    PROVE  Entry(c, type, amount, of, id) \in Seq(EntryRow) /\ NoSale(Entry(c, type, amount, of, id))
<1> DEFINE e == Entry(c, type, amount, of, id)
<1>1. type \in EntryTypes
  OBVIOUS
<1>2. e \in Seq(EntryRow) /\ \A n \in DOMAIN e : e[n].type = type /\ e[n].at = now
  BY <1>1, EntryIs
<1> HIDE DEF e
<1>3. NoSale(e)
  BY <1>2 DEF NoSale
<1> QED
  BY <1>2, <1>3 DEF e

LEMMA Turned ==
    ASSUME Ticking, NEW e \in EntryRow
    PROVE  LET row == [e EXCEPT !.at = now, !.type = "ADJUSTMENT", !.amount = -@]
           IN  row \in EntryRow /\ row.type = "ADJUSTMENT" /\ row.at = now
<1>1. now \in Int /\ -e.amount \in Int /\ "ADJUSTMENT" \in EntryTypes
  BY DEF Ticking, EntryRow, EntryTypes
<1> DEFINE a == [e EXCEPT !.at = now]
           t == [a EXCEPT !.type = "ADJUSTMENT"]
           row == [t EXCEPT !.amount = -e.amount]
<1>2. a \in EntryRow /\ a.at = now
  BY <1>1 DEF EntryRow
<1>3. t \in EntryRow /\ t.type = "ADJUSTMENT" /\ t.at = now
  <2> HIDE DEF a
  <2> QED
    BY <1>1, <1>2 DEF EntryRow
<1>4. row \in EntryRow /\ row.type = "ADJUSTMENT" /\ row.at = now
  <2> HIDE DEF t
  <2> QED
    BY <1>1, <1>3 DEF EntryRow
<1>5. row = [e EXCEPT !.at = now, !.type = "ADJUSTMENT", !.amount = -@]
  OBVIOUS
<1> QED
  BY <1>4, <1>5

LEMMA TakenBack ==
    ASSUME Ticking, ledger \in Seq(EntryRow), NEW rows \in SUBSET (DOMAIN ledger), TakeBack(rows)
    PROVE  \E more : Back(rows, more)
<1>1. PICK found \in [1..Cardinality(rows) -> rows] :
          Post([k \in DOMAIN found |->
                    [ledger[found[k]] EXCEPT !.at = now, !.type = "ADJUSTMENT", !.amount = -@]])
  BY DEF TakeBack
<1>2. IsFiniteSet(rows) /\ Cardinality(rows) \in Nat /\ (rows # {} => Cardinality(rows) # 0)
  <2>1. IsFiniteSet(rows)
    BY SeqDomain, FS_Subset
  <2> QED
    BY <2>1, FS_CardinalityType, FS_EmptySet
<1> DEFINE n == Cardinality(rows)
           row(k) == [ledger[found[k]] EXCEPT !.at = now, !.type = "ADJUSTMENT", !.amount = -@]
           more == [k \in 1..n |-> row(k)]
<1>3. \A k \in 1..n : row(k) \in EntryRow /\ row(k).type = "ADJUSTMENT" /\ row(k).at = now
  <2> SUFFICES ASSUME NEW k \in 1..n PROVE row(k) \in EntryRow /\ row(k).type = "ADJUSTMENT" /\ row(k).at = now
    OBVIOUS
  <2>1. ledger[found[k]] \in EntryRow
    BY <1>1, SeqDomain
  <2> QED
    BY <2>1, Turned
<1>4. more \in [1..n -> EntryRow] /\ \A k \in DOMAIN more : more[k].type = "ADJUSTMENT" /\ more[k].at = now
  <2> HIDE DEF row
  <2> QED
    BY <1>3
<1>5. more \in Seq(EntryRow) /\ DOMAIN more = 1..n
  <2> HIDE DEF row
  <2> QED
    BY <1>2, <1>4
<1>6. ledger' = ledger \o more
  BY <1>1 DEF Post
<1>7. rows # {} => more # <<>>
  <2> HIDE DEF more
  <2>1. rows # {} => 1 \in DOMAIN more
    BY <1>2, <1>5
  <2> QED
    BY <2>1
<1>8. NoSale(more)
  <2> HIDE DEF more
  <2> QED
    BY <1>4 DEF NoSale, SaleTypes
<1> QED
  BY <1>5, <1>6, <1>7, <1>8 DEF Back, Posts

LEMMA Unposted == ASSUME ledger \in Seq(EntryRow), ledger' = ledger PROVE Posts(<<>>)
<1>1. <<>> \in Seq(EntryRow) /\ NoSale(<<>>)
  BY DEF NoSale
<1>2. ledger \o <<>> = ledger
  OBVIOUS
<1> QED
  BY <1>1, <1>2 DEF Posts

(* The clock and the outlays of a step that leaves them alone. *)
Aside == scene' = scene /\ now' = now /\ outlays' = outlays
LEMMA AsideCase == ASSUME BooksTyped, Aside, SaleCase PROVE BookCase
BY DEF BooksTyped, Aside, BookCase, Ticking, OutlayRow

LEMMA TickCase == ASSUME BooksTyped, Tick PROVE BookCase
<1>1. scene.step \in Nat /\ now \in Nat /\ now <= scene.last /\ scene.last \in Nat
  BY SceneIs DEF BooksTyped, Ticking
<1>2. now' = now + scene.step /\ now' <= scene.last /\ scene' = scene /\ outlays' = outlays
  BY DEF Tick
<1>3. ledger' = ledger /\ deliveries' = deliveries /\ orders' = orders
  BY DEF Tick, ledgerVars, saleVars
<1>4. Records
  BY <1>3, Unposted DEF Records, BooksTyped
<1> QED
  BY <1>1, <1>2, <1>4 DEF BookCase, SaleCase, BooksTyped, OutlayRow

LEMMA SpendCase ==
    ASSUME BooksTyped, NEW kind \in {"expense", "refill"}, NEW date \in scene.dates,
           NEW amount \in scene.amounts, NEW trip \in scene.trips, Spend(kind, date, amount, trip.vehicle)
    PROVE  BookCase
<1>1. scene \in Scenes /\ now \in Nat /\ now <= scene.last
  BY DEF BooksTyped, Ticking
<1>2. date \in Nat /\ amount \in Nat /\ trip \in Trips
  BY <1>1, SceneIs
<1> DEFINE row == [kind |-> kind, date |-> date, amount |-> amount, vehicle |-> trip.vehicle]
<1>3. row \in OutlayRow
  BY <1>2 DEF OutlayRow
<1>4. outlays' = outlays \cup {row} /\ scene' = scene /\ now' = now
  BY DEF Spend
<1>5. ledger' = ledger /\ deliveries' = deliveries /\ orders' = orders
  BY DEF Spend, ledgerVars, saleVars
<1>6. Records
  BY <1>5, Unposted DEF Records, BooksTyped
<1> HIDE DEF row
<1>7. outlays' \in SUBSET OutlayRow' /\ IsFiniteSet(outlays')
  BY <1>3, <1>4, FS_AddElement DEF BooksTyped, OutlayRow
<1> QED
  BY <1>1, <1>4, <1>6, <1>7 DEF BookCase, SaleCase, OutlayRow

LEMMA DeliverCase ==
    ASSUME BooksTyped, NEW c \in Customers, NEW lot \in scene.lots, NEW date \in scene.dates,
           NEW trip \in scene.trips, Deliver(c, date, lot, trip)
    PROVE  BookCase
<1>1. /\ scene \in Scenes /\ Ticking /\ ledger \in Seq(EntryRow) /\ deliveries \in Seq(DeliveryRow)
      /\ Len(deliveries) \in Nat
  BY DEF BooksTyped, Ticking
<1>2. /\ date \in Nat /\ trip \in Trips /\ lot.product \in scene.products
      /\ lot.units \in Nat \ {0} /\ lot.cash \in Nat
  BY <1>1, SceneIs
<1>3. Price * lot.units \in Nat \ {0} /\ -lot.cash \in Int
  BY <1>2, PricesAre, ProductPositive
<1> DEFINE row == [who |-> c, date |-> date, trip |-> trip, product |-> lot.product,
                   units |-> lot.units, cash |-> lot.cash, live |-> TRUE]
           n == Len(deliveries) + 1
           sale == Entry(c, "DELIVERY_SALE", Price * lot.units, "delivery", n)
           more == Entry(c, "PAYMENT", -lot.cash, "delivery", n)
<1>4. row \in DeliveryRow /\ row.live /\ Sale(row) = Price * lot.units /\ row.who = c
  BY <1>2 DEF DeliveryRow, Sale
<1>5. Aside /\ orders' = orders /\ deliveries' = Append(deliveries, row) /\ ledger' = ledger \o (sale \o more)
  BY DEF Deliver, Post, Aside
<1>6. \E entry \in EntryRow : sale = <<entry>> /\ SaleOf("DELIVERY_SALE", "delivery", n, c, Price * lot.units, entry)
  <2>1. "DELIVERY_SALE" \in EntryTypes /\ n \in Nat /\ "delivery" \in Documents
    BY <1>1 DEF EntryTypes, Documents
  <2> DEFINE amount == Price * lot.units
             e == Entry(c, "DELIVERY_SALE", amount, "delivery", n)
  <2>2. amount \in Int /\ amount # 0
    BY <1>3
  <2> HIDE DEF amount, n
  <2>3. \E entry \in EntryRow : e = <<entry>> /\ SaleOf("DELIVERY_SALE", "delivery", n, c, amount, entry)
    BY ONLY <1>1, <2>1, <2>2, c \in Customers, EntryIs
  <2> QED
    BY <2>3 DEF amount
<1>7. more \in Seq(EntryRow) /\ NoSale(more)
  <2>1. Ticking /\ "PAYMENT" \in EntryTypes \ SaleTypes /\ "delivery" \in Documents /\ n \in Nat
    BY <1>1 DEF EntryTypes, SaleTypes, Documents
  <2> DEFINE amount == -lot.cash
  <2>2. amount \in Int
    BY <1>3
  <2> HIDE DEF n, amount
  <2>3. Entry(c, "PAYMENT", amount, "delivery", n) \in Seq(EntryRow) /\ NoSale(Entry(c, "PAYMENT", amount, "delivery", n))
    BY ONLY <2>1, <2>2, c \in Customers, EntryAside
  <2> QED
    BY <2>3 DEF amount
<1> HIDE DEF row, sale, more
<1>8. Delivers
  <2>1. PICK entry \in EntryRow : sale = <<entry>> /\ SaleOf("DELIVERY_SALE", "delivery", n, row.who, Sale(row), entry)
    BY <1>4, <1>6
  <2>2. Sells(entry, more)
    BY <1>5, <1>7, <2>1 DEF Sells
  <2> QED
    BY <1>4, <1>5, <2>1, <2>2 DEF Delivers
<1> QED
  BY <1>5, <1>8, AsideCase DEF SaleCase

LEMMA PlaceCase ==
    ASSUME BooksTyped, NEW c \in Customers, NEW lot \in scene.lots, NEW fee \in scene.fees,
           PlaceOrder(c, lot, fee)
    PROVE  BookCase
<1>1. /\ scene \in Scenes /\ Ticking /\ ledger \in Seq(EntryRow) /\ orders \in Seq(OrderRow)
      /\ Len(orders) \in Nat /\ now \in Int
  BY DEF BooksTyped, Ticking
<1>2. fee \in Nat /\ lot.product \in scene.products /\ lot.units \in Nat \ {0} /\ lot.cash \in Nat
  BY <1>1, SceneIs
<1>3. Price * lot.units + fee \in Nat \ {0}
  <2>1. Price * lot.units \in Nat \ {0}
    BY <1>2, PricesAre, ProductPositive
  <2> QED
    BY <1>2, <2>1
<1> DEFINE row == [who |-> c, placed |-> now, product |-> lot.product,
                   units |-> lot.units, fee |-> fee, paidAt |-> 0, status |-> "PLACED"]
           n == Len(orders) + 1
           sale == Entry(c, "ORDER_SALE", Price * lot.units + fee, "order", n)
<1>4. row \in OrderRow /\ row.status = "PLACED" /\ Total(row) = Price * lot.units + fee /\ row.who = c
  BY <1>1, <1>2 DEF OrderRow, Total
<1>5. Aside /\ deliveries' = deliveries /\ orders' = Append(orders, row) /\ ledger' = ledger \o sale
  BY DEF PlaceOrder, Post, Aside
<1>6. \E entry \in EntryRow : sale = <<entry>> /\ SaleOf("ORDER_SALE", "order", n, c, Price * lot.units + fee, entry)
  <2>1. "ORDER_SALE" \in EntryTypes /\ n \in Nat /\ "order" \in Documents
    BY <1>1 DEF EntryTypes, Documents
  <2> DEFINE amount == Price * lot.units + fee
             e == Entry(c, "ORDER_SALE", amount, "order", n)
  <2>2. amount \in Int /\ amount # 0
    BY <1>3
  <2> HIDE DEF amount, n
  <2>3. \E entry \in EntryRow : e = <<entry>> /\ SaleOf("ORDER_SALE", "order", n, c, amount, entry)
    BY ONLY <1>1, <2>1, <2>2, c \in Customers, EntryIs
  <2> QED
    BY <2>3 DEF amount
<1> HIDE DEF row, sale
<1>8. Places
  <2>1. PICK entry \in EntryRow : sale = <<entry>> /\ SaleOf("ORDER_SALE", "order", n, row.who, Total(row), entry)
    BY <1>4, <1>6
  <2>2. <<>> \in Seq(EntryRow) /\ NoSale(<<>>) /\ <<entry>> \o <<>> = <<entry>>
    BY DEF NoSale
  <2>3. Sells(entry, <<>>)
    BY <1>5, <2>1, <2>2 DEF Sells
  <2> QED
    BY <1>4, <1>5, <2>1, <2>3 DEF Places
<1> QED
  BY <1>5, <1>8, AsideCase DEF SaleCase

LEMMA PaidPosts ==
    ASSUME BooksTyped, NEW c \in Customers, NEW amount \in Int,
           NEW type \in EntryTypes \ SaleTypes,
           NEW of \in Documents, NEW id \in Nat,
           Post(Entry(c, type, amount, of, id))
    PROVE  \E more : Posts(more)
<1> DEFINE e == Entry(c, type, amount, of, id)
<1>1. e \in Seq(EntryRow) /\ NoSale(e)
  <2>1. Ticking
    BY DEF BooksTyped
  <2> QED
    BY ONLY <2>1, c \in Customers, type \in EntryTypes \ SaleTypes, amount \in Int, of \in Documents, id \in Nat, EntryAside
<1>2. ledger' = ledger \o e
  BY DEF Post
<1> HIDE DEF e
<1> QED
  BY <1>1, <1>2 DEF Posts

LEMMA TotalIs == ASSUME BooksTyped, NEW i \in DOMAIN orders PROVE orders[i] \in OrderRow /\ Total(orders[i]) \in Nat
<1>1. orders[i] \in OrderRow
  BY SeqDomain DEF BooksTyped
<1>2. orders[i].units \in Nat /\ orders[i].fee \in Nat
  BY <1>1 DEF OrderRow
<1>3. Price * orders[i].units \in Nat
  BY <1>2, PricesAre, ProductNat
<1> QED
  BY <1>1, <1>2, <1>3 DEF Total

LEMMA PayOrderCase == ASSUME BooksTyped, NEW i \in DOMAIN orders, PayOrder(i) PROVE BookCase
<1>1. orders[i] \in OrderRow /\ Total(orders[i]) \in Nat /\ orders[i].who \in Customers /\ now \in Nat /\ i \in Nat
  BY TotalIs, SeqDomain DEF OrderRow, BooksTyped, Ticking
<1>2. Aside /\ deliveries' = deliveries /\ orders' = [orders EXCEPT ![i].paidAt = now]
  BY DEF PayOrder, Aside
<1>3. Post(Entry(orders[i].who, "PAYMENT", -Total(orders[i]), "order", i))
  BY DEF PayOrder
<1>4. -Total(orders[i]) \in Int /\ "PAYMENT" \in EntryTypes \ SaleTypes /\ "order" \in Documents
  BY <1>1 DEF EntryTypes, SaleTypes, Documents
<1>5. \E more : Posts(more)
  BY <1>1, <1>3, <1>4, PaidPosts
<1>6. Records
  BY <1>1, <1>2, <1>5 DEF Records, PaysOrder
<1> QED
  BY <1>2, <1>6, AsideCase DEF SaleCase

LEMMA RecordCase ==
    ASSUME BooksTyped, NEW c \in Customers, NEW date, NEW amount \in scene.amounts, RecordPayment(c, date, amount)
    PROVE  BookCase
<1>1. amount \in Nat /\ Len(ledger) + 1 \in Nat
  BY SceneIs DEF BooksTyped, Ticking
<1>2. Aside /\ deliveries' = deliveries /\ orders' = orders
  BY DEF RecordPayment, Aside, saleVars
<1>3. Post(Entry(c, "PAYMENT", -amount, "payment", Len(ledger) + 1))
  BY DEF RecordPayment
<1>4. -amount \in Int /\ "PAYMENT" \in EntryTypes \ SaleTypes /\ "payment" \in Documents
  BY <1>1 DEF EntryTypes, SaleTypes, Documents
<1>5. \E more : Posts(more)
  BY <1>1, <1>3, <1>4, PaidPosts
<1>6. Records
  BY <1>2, <1>5 DEF Records
<1> QED
  BY <1>2, <1>6, AsideCase DEF SaleCase

LEMMA LeastRow ==
    ASSUME BooksTyped, NEW rows \in SUBSET (DOMAIN ledger), rows # {} PROVE Min(rows) \in rows
<1>1. rows \in SUBSET Int /\ IsFiniteSet(rows)
  BY SeqDomain, FS_Subset DEF BooksTyped
<1> QED
  BY <1>1, MinIs

LEMMA EditCase ==
    ASSUME BooksTyped, NEW p, NEW date, NEW amount \in scene.amounts, EditPayment(p, date, amount)
    PROVE  BookCase
<1>1. -amount \in Int
  BY SceneIs DEF BooksTyped, Ticking
<1>2. Aside /\ saleVars' = saleVars
  BY DEF EditPayment, Aside
<1>3. Linked(p) # {} /\ ledger' = [ledger EXCEPT ![Min(Linked(p))].amount = -amount]
  BY DEF EditPayment
<1>4. \A i \in Linked(p) : i \in DOMAIN ledger /\ ledger[i].type = "PAYMENT"
  BY DEF Linked, EntriesFor
<1>5. Min(Linked(p)) \in Linked(p)
  BY <1>3, <1>4, LeastRow
<1>6. Amends
  BY <1>1, <1>2, <1>3, <1>4, <1>5 DEF Amends
<1> QED
  BY <1>2, <1>6, AsideCase DEF SaleCase

LEMMA OpeningCase ==
    ASSUME BooksTyped, NEW c \in Customers, NEW amount \in scene.amounts, SetOpening(c, amount)
    PROVE  BookCase
<1> DEFINE found == {i \in DOMAIN ledger : ledger[i].who = c /\ ledger[i].type = "OPENING_BALANCE"}
<1>1. amount \in Int
  BY SceneIs DEF BooksTyped, Ticking
<1>2. Aside /\ saleVars' = saleVars /\ deliveries' = deliveries /\ orders' = orders
  BY DEF SetOpening, Aside, saleVars
<1>3. CASE found = {}
  <2>1. Post(Entry(c, "OPENING_BALANCE", amount, "customer", 0))
    BY <1>3 DEF SetOpening
  <2>2. "OPENING_BALANCE" \in EntryTypes \ SaleTypes /\ "customer" \in Documents /\ 0 \in Nat
    BY DEF EntryTypes, SaleTypes, Documents
  <2>3. \E more : Posts(more)
    BY <1>1, <2>1, <2>2, PaidPosts
  <2>4. Records
    BY <1>2, <2>3 DEF Records
  <2> QED
    BY <1>2, <2>4, AsideCase DEF SaleCase
<1>4. CASE found # {}
  <2>1. ledger' = [ledger EXCEPT ![Min(found)].amount = amount]
    BY <1>4 DEF SetOpening
  <2>2. Min(found) \in found
    BY <1>4, LeastRow
  <2>3. Amends
    BY <1>1, <1>2, <2>1, <2>2 DEF Amends
  <2> QED
    BY <1>2, <2>3, AsideCase DEF SaleCase
<1> QED
  BY <1>3, <1>4

LEMMA RemoveCase == ASSUME BooksTyped, NEW p, RemovePayment(p) PROVE BookCase
<1>1. Aside /\ deliveries' = deliveries /\ orders' = orders /\ TakeBack(Linked(p))
  BY DEF RemovePayment, Aside, saleVars
<1>2. Linked(p) \in SUBSET (DOMAIN ledger)
  BY DEF Linked, EntriesFor
<1>3. \E more : Back(Linked(p), more)
  BY <1>1, <1>2, TakenBack DEF BooksTyped
<1>4. Records
  BY <1>1, <1>3 DEF Records, Back
<1> QED
  BY <1>1, <1>4, AsideCase DEF SaleCase

LEMMA CancelDeliveryCase == ASSUME BooksTyped, NEW i \in DOMAIN deliveries, CancelDelivery(i) PROVE BookCase
<1> DEFINE rows == EntriesFor("delivery", i, {"DELIVERY_SALE", "PAYMENT"})
<1>1. /\ Aside /\ orders' = orders /\ deliveries' = [deliveries EXCEPT ![i].live = FALSE] /\ TakeBack(rows)
  BY DEF CancelDelivery, Aside
<1>2. rows \in SUBSET (DOMAIN ledger)
  BY DEF EntriesFor
<1>3. \E more : Back(rows, more)
  <2> HIDE DEF rows
  <2> QED
    BY <1>1, <1>2, TakenBack DEF BooksTyped
<1>4. CancelsDelivery
  BY <1>1, <1>3 DEF CancelsDelivery
<1> QED
  BY <1>1, <1>4, AsideCase DEF SaleCase

LEMMA CancelOrderCase == ASSUME BooksTyped, NEW i \in DOMAIN orders, CancelOrder(i) PROVE BookCase
<1> DEFINE rows == EntriesFor("order", i, {"ORDER_SALE"})
<1>1. /\ Aside /\ deliveries' = deliveries /\ orders' = [orders EXCEPT ![i].status = "CANCELLED"] /\ TakeBack(rows)
  BY DEF CancelOrder, Aside
<1>2. rows \in SUBSET (DOMAIN ledger)
  BY DEF EntriesFor
<1>3. \E more : Back(rows, more)
  <2> HIDE DEF rows
  <2> QED
    BY <1>1, <1>2, TakenBack DEF BooksTyped
<1>4. CancelsOrder
  BY <1>1, <1>3 DEF CancelsOrder
<1> QED
  BY <1>1, <1>4, AsideCase DEF SaleCase

(* Every step of the books is of one of these cases. *)
LEMMA BookCases == ASSUME BooksTyped, BookStep PROVE BookCase
<1>1. scene.trips \subseteq Trips
  BY SceneIs DEF BooksTyped, Ticking
<1> QED
  BY TickCase, DeliverCase, PlaceCase, CancelDeliveryCase, PayOrderCase, CancelOrderCase, OpeningCase,
     RecordCase, EditCase, SpendCase, RemoveCase DEF BookStep

-----------------------------------------------------------------------------
(* The requests on the desks, and what a step of one can do. *)
InvoiceRow == [who : Customers, from : Nat, to : Nat, status : {"DRAFT", "ISSUED", "VOID", "none"},
               number : Nat, closing : Int]
Covers(f) == f.who \in Customers /\ f.from \in Nat /\ f.to \in Nat /\ f.from <= f.to
FrameTyped(f, ids) ==
    \/ f = Idle
    \/ f.op = "reads" /\ Covers(f) /\ f.opening \in Int /\ f.sales \in Int
    \/ f.op = "draft" /\ Covers(f) /\ f.closing \in Int /\ f.replaces \in SUBSET ids
    \/ f.op = "issue" /\ f.invoice \in ids /\ f.number \in Nat \ {0}
    \/ f.op \in {"void", "remove"} /\ f.invoice \in ids
DeskTyped ==
    /\ invoices \in Seq(InvoiceRow) /\ lastInvoiceSeq \in Nat
    /\ desk = [k \in Desks |-> desk[k]] /\ \A k \in Desks : FrameTyped(desk[k], DOMAIN invoices)

(* Two requests at one invoice cross it; one alone finds it as it saw it. *)
Alone == \A k, n \in Desks : k # n => Handled(desk[k]) \cap Handled(desk[n]) \subseteq crossed
Seen(rows, f, i) == rows[i].status = IF f.op = "void" THEN "ISSUED" ELSE "DRAFT"
Current == \A k \in Desks : \A i \in Handled(desk[k]) \ crossed : Seen(invoices, desk[k], i)

(* The numbers, and what a request to issue still knows of them. *)
Free(rows, i) == \A j \in DOMAIN rows \ {i} :
    ~(rows[j].who = rows[i].who /\ rows[j].status = "ISSUED" /\ rows[i].from <= rows[j].to /\ rows[i].to >= rows[j].from)
Issuable(rows, last, f) ==
    f.op = "issue" =>
        /\ f.number <= last + 1
        /\ f.number = last + 1 => Free(rows, f.invoice)
Numbered ==
    /\ \A i \in DOMAIN invoices : invoices[i].status \in {"DRAFT", "none"} => invoices[i].number = NoNumber
    /\ {invoices[i].number : i \in DOMAIN invoices} \ {NoNumber} = 1..lastInvoiceSeq
    /\ \A i, j \in DOMAIN invoices : i # j /\ invoices[i].number = invoices[j].number => invoices[i].number = NoNumber
    /\ \A i \in DOMAIN invoices : invoices[i].status = "ISSUED" => Free(invoices, i)
    /\ \A k \in Desks : Issuable(invoices, lastInvoiceSeq, desk[k])
DeskKept == DeskTyped /\ Alone /\ Current /\ (crossed = {} => Numbered)

TakesUp(k, f) ==
    /\ desk' = [desk EXCEPT ![k] = f] /\ invoices' = invoices /\ lastInvoiceSeq' = lastInvoiceSeq
    /\ crossed \subseteq crossed' /\ \A n \in Desks \ {k} : Handled(f) \cap Handled(desk[n]) \subseteq crossed'
    /\ FrameTyped(f, DOMAIN invoices) /\ (\A i \in Handled(f) : Seen(invoices, f, i)) /\ Issuable(invoices, lastInvoiceSeq, f)

Kept(k) ==
    /\ desk' = [desk EXCEPT ![k] = Idle] /\ crossed' = crossed /\ invoices' \in Seq(InvoiceRow)
    /\ DOMAIN invoices \subseteq DOMAIN invoices'
    /\ \A i \in DOMAIN invoices \ Handled(desk[k]) : invoices'[i] = invoices[i]
Drops(k) ==
    /\ Kept(k) /\ lastInvoiceSeq' = lastInvoiceSeq
    /\ \A i \in DOMAIN invoices :
           \/ invoices'[i] = invoices[i]
           \/ desk[k].op # "void" /\ invoices'[i] = [invoices[i] EXCEPT !.status = "none"]
           \/ desk[k].op = "void" /\ invoices'[i] = [invoices[i] EXCEPT !.status = "VOID"]
    /\ \A i \in DOMAIN invoices' \ DOMAIN invoices :
           invoices'[i].status = "DRAFT" /\ invoices'[i].number = NoNumber
Issues(k) ==
    /\ Kept(k) /\ DOMAIN invoices' = DOMAIN invoices /\ desk[k].op = "issue" /\ lastInvoiceSeq' = desk[k].number
    /\ invoices'[desk[k].invoice] = [invoices[desk[k].invoice] EXCEPT !.status = "ISSUED", !.number = desk[k].number]
    /\ \A j \in DOMAIN invoices \ {desk[k].invoice} :
           invoices[j].number = desk[k].number => invoices[j].status = "none"
DeskCase(k) == (\E f : TakesUp(k, f)) \/ Drops(k) \/ Issues(k)

LEMMA FreeIs ==
    ASSUME NEW i PROVE NoOverlappingIssued(invoices[i].who, invoices[i].from, invoices[i].to, {i}) <=> Free(invoices, i)
BY DEF Free, NoOverlappingIssued, Overlaps

LEMMA HandledIs ==
    ASSUME NEW f, NEW ids, FrameTyped(f, ids)
    PROVE  /\ Handled(f) \subseteq ids
           /\ f.op = "draft" => Handled(f) = f.replaces
           /\ f.op \in {"issue", "void", "remove"} => Handled(f) = {f.invoice}
           /\ f.op \in {"none", "reads"} => Handled(f) = {}
BY DEF FrameTyped, Handled, Idle

LEMMA IdleIs == Idle.op = "none" /\ Handled(Idle) = {} /\ \A ids : FrameTyped(Idle, ids)
BY DEF Idle, Handled, FrameTyped

LEMMA GrownIds == ASSUME NEW f, NEW ids, NEW more, ids \subseteq more, FrameTyped(f, ids) PROVE FrameTyped(f, more)
BY DEF FrameTyped

LEMMA DeskPut ==
    ASSUME DeskTyped, NEW k \in Desks, NEW f, desk' = [desk EXCEPT ![k] = f]
    PROVE  desk' = [n \in Desks |-> desk'[n]] /\ desk'[k] = f /\ \A n \in Desks \ {k} : desk'[n] = desk[n]
<1>1. desk = [n \in Desks |-> desk[n]]
  BY DEF DeskTyped
<1> QED
  BY <1>1

(* A request taken up keeps the desks in order. *)
LEMMA TakenUp ==
    ASSUME DeskKept, NEW k \in Desks, NEW f, TakesUp(k, f) PROVE DeskKept'
<1>1. DeskTyped /\ Alone /\ Current
  BY DEF DeskKept
<1>2. /\ invoices' = invoices /\ lastInvoiceSeq' = lastInvoiceSeq /\ crossed \subseteq crossed'
      /\ FrameTyped(f, DOMAIN invoices) /\ Issuable(invoices, lastInvoiceSeq, f)
      /\ \A n \in Desks \ {k} : Handled(f) \cap Handled(desk[n]) \subseteq crossed'
      /\ \A i \in Handled(f) : Seen(invoices, f, i)
  BY DEF TakesUp
<1>3. desk' = [n \in Desks |-> desk'[n]] /\ desk'[k] = f /\ \A n \in Desks \ {k} : desk'[n] = desk[n]
  BY <1>1, DeskPut DEF TakesUp
<1>4. DeskTyped'
  BY <1>1, <1>2, <1>3 DEF DeskTyped
<1>5. Alone'
  <2> SUFFICES ASSUME NEW a \in Desks, NEW b \in Desks, a # b
               PROVE  Handled(desk'[a]) \cap Handled(desk'[b]) \subseteq crossed'
    BY DEF Alone, Handled
  <2>1. CASE a = k
    BY <1>2, <1>3, <2>1
  <2>2. CASE b = k
    BY <1>2, <1>3, <2>2
  <2>3. CASE a # k /\ b # k
    BY <1>1, <1>2, <1>3, <2>3 DEF Alone
  <2> QED
    BY <2>1, <2>2, <2>3
<1>6. Current'
  <2> SUFFICES ASSUME NEW n \in Desks, NEW i \in Handled(desk'[n]) \ crossed' PROVE Seen(invoices', desk'[n], i)
    BY DEF Current, Handled
  <2>1. CASE n = k
    BY <1>2, <1>3, <2>1 DEF Seen
  <2>2. CASE n # k
    BY <1>1, <1>2, <1>3, <2>2 DEF Current, Seen
  <2> QED
    BY <2>1, <2>2
<1>7. ASSUME crossed' = {} PROVE Numbered'
  <2>1. Numbered
    BY <1>2, <1>7 DEF DeskKept
  <2>2. \A n \in Desks : Issuable(invoices', lastInvoiceSeq', desk'[n])
    BY <1>2, <1>3, <2>1 DEF Numbered
  <2> QED
    BY <1>2, <2>1, <2>2 DEF Numbered
<1> QED
  BY <1>4, <1>5, <1>6, <1>7 DEF DeskKept

(* So does one that ends. *)
LEMMA KeptDesks ==
    ASSUME DeskKept, NEW k \in Desks, Kept(k), lastInvoiceSeq' \in Nat
    PROVE  DeskTyped' /\ Alone' /\ Current' /\ \A n \in Desks : n # k => desk'[n] = desk[n]
<1>1. DeskTyped /\ Alone /\ Current
  BY DEF DeskKept
<1>2. /\ crossed' = crossed /\ invoices' \in Seq(InvoiceRow) /\ DOMAIN invoices \subseteq DOMAIN invoices'
      /\ \A i \in DOMAIN invoices \ Handled(desk[k]) : invoices'[i] = invoices[i]
  BY DEF Kept
<1>3. desk' = [n \in Desks |-> desk'[n]] /\ desk'[k] = Idle /\ \A n \in Desks \ {k} : desk'[n] = desk[n]
  BY <1>1, DeskPut DEF Kept
<1>4. DeskTyped'
  <2>1. \A n \in Desks : FrameTyped(desk'[n], DOMAIN invoices')
    BY <1>1, <1>2, <1>3, IdleIs, GrownIds DEF DeskTyped
  <2> QED
    BY <1>2, <1>3, <2>1 DEF DeskTyped
<1>5. \A n \in Desks : Handled(desk'[n]) \subseteq Handled(desk[n])
  BY <1>3, IdleIs
<1>6. Alone'
  <2> SUFFICES ASSUME NEW a \in Desks, NEW b \in Desks, a # b
               PROVE  Handled(desk'[a]) \cap Handled(desk'[b]) \subseteq crossed'
    BY DEF Alone, Handled
  <2> QED
    BY <1>1, <1>2, <1>5 DEF Alone
<1>7. Current'
  <2> SUFFICES ASSUME NEW n \in Desks, NEW i \in Handled(desk'[n]) \ crossed' PROVE Seen(invoices', desk'[n], i)
    BY DEF Current, Handled
  <2>1. n # k
    BY <1>3, IdleIs
  <2>2. desk'[n] = desk[n] /\ i \in Handled(desk[n]) \ crossed
    BY <1>2, <1>3, <2>1
  <2>3. i \notin Handled(desk[k])
    BY <1>1, <2>1, <2>2 DEF Alone
  <2>4. i \in DOMAIN invoices
    BY <1>1, <2>2, HandledIs DEF DeskTyped
  <2>5. invoices'[i] = invoices[i] /\ Seen(invoices, desk[n], i)
    BY <1>1, <1>2, <2>2, <2>3, <2>4 DEF Current
  <2> QED
    BY <2>2, <2>5 DEF Seen
<1> QED
  BY <1>3, <1>4, <1>6, <1>7

LEMMA NumberedParts ==
    ASSUME DeskTyped, Numbered
    PROVE  /\ \A i \in DOMAIN invoices : invoices[i].status \in {"DRAFT", "none"} => invoices[i].number = NoNumber
           /\ {invoices[i].number : i \in DOMAIN invoices} \ {NoNumber} = 1..lastInvoiceSeq
           /\ \A i, j \in DOMAIN invoices : i # j /\ invoices[i].number = invoices[j].number => invoices[i].number = NoNumber
           /\ \A i \in DOMAIN invoices : invoices[i].status = "ISSUED" => Free(invoices, i)
           /\ \A k \in Desks : Issuable(invoices, lastInvoiceSeq, desk[k])
           /\ \A i \in DOMAIN invoices : invoices[i].number \in Nat
<1>1. \A i \in DOMAIN invoices : invoices[i].number \in Nat
  <2>1. \A i \in DOMAIN invoices : invoices[i] \in InvoiceRow
    BY SeqDomain DEF DeskTyped
  <2> QED
    BY <2>1 DEF InvoiceRow
<1> QED
  BY <1>1 DEF Numbered

(* Rows that cover what they covered, and of which no more are issued, leave the free ones free. *)
SameCover(a, b) == a.who = b.who /\ a.from = b.from /\ a.to = b.to
LEMMA StillFree ==
    ASSUME NEW i \in DOMAIN invoices, Free(invoices, i), DOMAIN invoices \subseteq DOMAIN invoices',
           \A j \in DOMAIN invoices : SameCover(invoices[j], invoices'[j]),
           \A j \in DOMAIN invoices' : invoices'[j].status = "ISSUED" =>
               j = i \/ (j \in DOMAIN invoices /\ invoices[j].status = "ISSUED")
    PROVE  Free(invoices', i)
<1>2. SameCover(invoices[i], invoices'[i])
  OBVIOUS
<1> SUFFICES ASSUME NEW j \in DOMAIN invoices' \ {i},
                    invoices'[j].who = invoices'[i].who, invoices'[j].status = "ISSUED",
                    invoices'[i].from <= invoices'[j].to, invoices'[i].to >= invoices'[j].from
             PROVE  FALSE
  BY DEF Free
<1>3. j \in DOMAIN invoices \ {i} /\ invoices[j].status = "ISSUED" /\ SameCover(invoices[j], invoices'[j])
  OBVIOUS
<1> QED
  BY <1>2, <1>3 DEF SameCover, Free

LEMMA DroppedRow ==
    ASSUME DeskTyped, NEW k \in Desks, Drops(k), NEW i \in DOMAIN invoices
    PROVE  /\ SameCover(invoices[i], invoices'[i]) /\ invoices'[i].number = invoices[i].number
           /\ invoices'[i].status \in {invoices[i].status, "none", "VOID"}
<1>1. invoices[i] \in InvoiceRow
  BY SeqDomain DEF DeskTyped
<1> QED
  BY <1>1 DEF Drops, SameCover, InvoiceRow

LEMMA DropsKeep == ASSUME DeskKept, NEW k \in Desks, Drops(k) PROVE DeskKept'
<1>1. DeskTyped /\ Current /\ lastInvoiceSeq' \in Nat /\ Kept(k) /\ lastInvoiceSeq' = lastInvoiceSeq
  BY DEF DeskKept, DeskTyped, Drops
<1>2. DeskTyped' /\ Alone' /\ Current' /\ \A n \in Desks : n # k => desk'[n] = desk[n]
  BY <1>1, KeptDesks
<1>3. \A i \in DOMAIN invoices :
          /\ SameCover(invoices[i], invoices'[i]) /\ invoices'[i].number = invoices[i].number
          /\ invoices'[i].status \in {invoices[i].status, "none", "VOID"}
  BY <1>1, DroppedRow
<1>4. /\ crossed' = crossed /\ desk' = [desk EXCEPT ![k] = Idle] /\ DOMAIN invoices \subseteq DOMAIN invoices'
      /\ \A i \in DOMAIN invoices \ Handled(desk[k]) : invoices'[i] = invoices[i]
  BY <1>1 DEF Kept
<1>5. \A i \in DOMAIN invoices' \ DOMAIN invoices : invoices'[i].status = "DRAFT" /\ invoices'[i].number = NoNumber
  BY DEF Drops
<1>6. ASSUME crossed' = {} PROVE Numbered'
  <2>1. Numbered
    BY <1>4, <1>6 DEF DeskKept
  <2>2. /\ \A i \in DOMAIN invoices : invoices[i].status \in {"DRAFT", "none"} => invoices[i].number = NoNumber
        /\ {invoices[i].number : i \in DOMAIN invoices} \ {NoNumber} = 1..lastInvoiceSeq
        /\ \A i, j \in DOMAIN invoices : i # j /\ invoices[i].number = invoices[j].number => invoices[i].number = NoNumber
        /\ \A i \in DOMAIN invoices : invoices[i].status = "ISSUED" => Free(invoices, i)
        /\ \A n \in Desks : Issuable(invoices, lastInvoiceSeq, desk[n])
    BY <1>1, <2>1, NumberedParts
  <2>3. \A i \in DOMAIN invoices' : invoices'[i].status \in {"DRAFT", "none"} => invoices'[i].number = NoNumber
    <3> SUFFICES ASSUME NEW i \in DOMAIN invoices, invoices'[i].status \in {"DRAFT", "none"}
                 PROVE  invoices'[i].number = NoNumber
      BY <1>5
    <3>1. CASE invoices'[i] = invoices[i]
      BY <2>2, <3>1
    <3>2. CASE invoices'[i] # invoices[i]
      <4>1. i \in Handled(desk[k]) \ crossed /\ invoices[i] \in InvoiceRow
        BY <1>1, <1>4, <1>6, <3>2, SeqDomain DEF DeskTyped
      <4>2. desk[k].op # "void"
        BY <1>1, <3>2, <4>1 DEF Drops, InvoiceRow
      <4>3. invoices[i].status = "DRAFT"
        BY <1>1, <4>1, <4>2 DEF Current, Seen
      <4> QED
        BY <1>3, <2>2, <4>3
    <3> QED
      BY <3>1, <3>2
  <2>4. {invoices'[i].number : i \in DOMAIN invoices'} \ {NoNumber} = 1..lastInvoiceSeq'
    BY <1>1, <1>3, <1>4, <1>5, <2>2
  <2>5. \A i, j \in DOMAIN invoices' : i # j /\ invoices'[i].number = invoices'[j].number => invoices'[i].number = NoNumber
    BY <1>3, <1>5, <2>2
  <2>6. \A i \in DOMAIN invoices : Free(invoices, i) => Free(invoices', i)
    <3>1. \A j \in DOMAIN invoices' : invoices'[j].status = "ISSUED" => j \in DOMAIN invoices /\ invoices[j].status = "ISSUED"
      BY <1>3, <1>5
    <3> QED
      BY <1>3, <1>4, <3>1, StillFree
  <2>7. \A i \in DOMAIN invoices' : invoices'[i].status = "ISSUED" => Free(invoices', i)
    BY <1>3, <1>5, <2>2, <2>6
  <2>8. \A n \in Desks : Issuable(invoices', lastInvoiceSeq', desk'[n])
    <3> SUFFICES ASSUME NEW n \in Desks, desk'[n].op = "issue"
                 PROVE  /\ desk'[n].number <= lastInvoiceSeq' + 1
                        /\ desk'[n].number = lastInvoiceSeq' + 1 => Free(invoices', desk'[n].invoice)
      BY DEF Issuable
    <3>1. n # k
      BY <1>1, <1>4, DeskPut, IdleIs
    <3>2. desk'[n] = desk[n] /\ Issuable(invoices, lastInvoiceSeq, desk[n]) /\ desk[n].op = "issue"
      BY <1>2, <2>2, <3>1
    <3>3. desk[n].invoice \in DOMAIN invoices
      BY <1>1, <3>2 DEF DeskTyped, FrameTyped, Idle
    <3>4. /\ desk[n].number <= lastInvoiceSeq' + 1
          /\ desk[n].number = lastInvoiceSeq' + 1 => Free(invoices', desk[n].invoice)
      BY <1>1, <2>6, <3>2, <3>3 DEF Issuable
    <3> QED
      BY <3>2, <3>4
  <2> QED
    BY <2>3, <2>4, <2>5, <2>7, <2>8 DEF Numbered
<1> QED
  BY <1>2, <1>6 DEF DeskKept

(* A number is given only if it is the next one, and then to a free period. *)
LEMMA IssuesKeep == ASSUME DeskKept, NEW k \in Desks, Issues(k) PROVE DeskKept'
<1> DEFINE f == desk[k]
           x == f.invoice
           n == f.number
<1>1. DeskTyped /\ Current /\ Kept(k) /\ f.op = "issue" /\ lastInvoiceSeq' = n /\ DOMAIN invoices' = DOMAIN invoices
  BY DEF DeskKept, Issues
<1>2. x \in DOMAIN invoices /\ n \in Nat \ {0} /\ Handled(f) = {x} /\ lastInvoiceSeq \in Nat
  BY <1>1, HandledIs DEF DeskTyped, FrameTyped, Idle
<1>3. DeskTyped' /\ Alone' /\ Current' /\ \A m \in Desks : m # k => desk'[m] = desk[m]
  BY <1>1, <1>2, KeptDesks
<1>4. /\ crossed' = crossed /\ desk' = [desk EXCEPT ![k] = Idle]
      /\ \A i \in DOMAIN invoices \ {x} : invoices'[i] = invoices[i]
  BY <1>1, <1>2 DEF Kept
<1>5. /\ invoices'[x] = [invoices[x] EXCEPT !.status = "ISSUED", !.number = n]
      /\ \A j \in DOMAIN invoices \ {x} : invoices[j].number = n => invoices[j].status = "none"
  BY DEF Issues
<1>6. SameCover(invoices[x], invoices'[x]) /\ invoices'[x].status = "ISSUED" /\ invoices'[x].number = n
  <2>1. invoices[x] \in InvoiceRow
    BY <1>1, <1>2, SeqDomain DEF DeskTyped
  <2> QED
    BY <1>5, <2>1 DEF SameCover, InvoiceRow
<1>7. ASSUME crossed' = {} PROVE Numbered'
  <2>1. Numbered
    BY <1>4, <1>7 DEF DeskKept
  <2>2. /\ \A i \in DOMAIN invoices : invoices[i].status \in {"DRAFT", "none"} => invoices[i].number = NoNumber
        /\ {invoices[i].number : i \in DOMAIN invoices} \ {NoNumber} = 1..lastInvoiceSeq
        /\ \A i, j \in DOMAIN invoices : i # j /\ invoices[i].number = invoices[j].number => invoices[i].number = NoNumber
        /\ \A i \in DOMAIN invoices : invoices[i].status = "ISSUED" => Free(invoices, i)
        /\ \A m \in Desks : Issuable(invoices, lastInvoiceSeq, desk[m])
        /\ \A i \in DOMAIN invoices : invoices[i].number \in Nat
    BY <1>1, <2>1, NumberedParts
  <2>3. invoices[x].status = "DRAFT" /\ invoices[x].number = NoNumber
    <3>1. x \in Handled(f) \ crossed
      BY <1>2, <1>4, <1>7
    <3>2. invoices[x].status = "DRAFT"
      BY <1>1, <3>1 DEF Current, Seen
    <3> QED
      BY <1>2, <2>2, <3>2
  <2>4. n = lastInvoiceSeq + 1 /\ Free(invoices, x)
    <3>1. n <= lastInvoiceSeq + 1 /\ (n = lastInvoiceSeq + 1 => Free(invoices, x))
      BY <1>1, <2>2 DEF Issuable
    <3>2. ASSUME n <= lastInvoiceSeq PROVE FALSE
      <4>1. n \in {invoices[i].number : i \in DOMAIN invoices} \ {NoNumber}
        BY <1>2, <2>2, <3>2
      <4>2. PICK j \in DOMAIN invoices : invoices[j].number = n
        BY <4>1
      <4>3. j # x /\ n # NoNumber
        BY <1>2, <2>3, <4>2 DEF NoNumber
      <4>4. invoices[j].status = "none"
        BY <1>5, <4>2, <4>3
      <4> QED
        BY <2>2, <4>2, <4>3, <4>4
    <3> QED
      BY <1>2, <3>1, <3>2
  <2> HIDE DEF f, x, n
  <2>5. \A i \in DOMAIN invoices' : invoices'[i].status \in {"DRAFT", "none"} => invoices'[i].number = NoNumber
    BY <1>1, <1>4, <1>6, <2>2
  <2>6. {invoices'[i].number : i \in DOMAIN invoices'} \ {NoNumber} = 1..lastInvoiceSeq'
    <3>1. {invoices'[i].number : i \in DOMAIN invoices'} = {invoices[i].number : i \in DOMAIN invoices \ {x}} \cup {n}
      BY <1>1, <1>2, <1>4, <1>6
    <3>2. {invoices[i].number : i \in DOMAIN invoices \ {x}} \ {NoNumber} = 1..lastInvoiceSeq
      BY <1>2, <2>2, <2>3
    <3>3. 1..lastInvoiceSeq' = 1..lastInvoiceSeq \cup {n}
      BY <1>1, <1>2, <2>4
    <3> QED
      BY <1>2, <3>1, <3>2, <3>3 DEF NoNumber
  <2>7. \A i \in DOMAIN invoices \ {x} : invoices[i].number # n
    <3> SUFFICES ASSUME NEW i \in DOMAIN invoices \ {x}, invoices[i].number = n PROVE FALSE
      OBVIOUS
    <3>1. n \in {invoices[j].number : j \in DOMAIN invoices} \ {NoNumber}
      BY <1>2 DEF NoNumber
    <3> QED
      BY <1>2, <2>2, <2>4, <3>1
  <2>8. \A i, j \in DOMAIN invoices' : i # j /\ invoices'[i].number = invoices'[j].number => invoices'[i].number = NoNumber
    BY <1>1, <1>4, <1>6, <2>2, <2>7
  <2>9. \A i \in DOMAIN invoices' : invoices'[i].status = "ISSUED" => Free(invoices', i)
    <3>1. Free(invoices', x)
      <4>1. \A j \in DOMAIN invoices : SameCover(invoices[j], invoices'[j])
        BY <1>4, <1>6 DEF SameCover
      <4>2. \A j \in DOMAIN invoices' : invoices'[j].status = "ISSUED" =>
                j = x \/ (j \in DOMAIN invoices /\ invoices[j].status = "ISSUED")
        BY <1>1, <1>4
      <4> QED
        BY ONLY <1>1, <1>2, <2>4, <4>1, <4>2, StillFree
    <3>2. ASSUME NEW i \in DOMAIN invoices \ {x}, invoices[i].status = "ISSUED" PROVE Free(invoices', i)
      <4>1. invoices'[i] = invoices[i] /\ invoices[i] \in InvoiceRow /\ Free(invoices, i) /\ invoices[x] \in InvoiceRow
        BY <1>1, <1>2, <1>4, <2>2, <3>2, SeqDomain DEF DeskTyped
      <4> SUFFICES ASSUME NEW j \in DOMAIN invoices' \ {i},
                          invoices'[j].who = invoices'[i].who, invoices'[j].status = "ISSUED",
                          invoices'[i].from <= invoices'[j].to, invoices'[i].to >= invoices'[j].from
                   PROVE  FALSE
        BY DEF Free
      <4>3. CASE j = x
        BY <1>6, <2>4, <3>2, <4>1, <4>3 DEF SameCover, Free, InvoiceRow
      <4>4. CASE j # x
        <5>1. j \in DOMAIN invoices \ {i} /\ invoices'[j] = invoices[j]
          BY <1>1, <1>4, <4>4
        <5> QED
          BY <4>1, <5>1 DEF Free
      <4> QED
        BY <4>3, <4>4
    <3> QED
      BY <1>1, <1>4, <3>1, <3>2
  <2>10. \A m \in Desks : Issuable(invoices', lastInvoiceSeq', desk'[m])
    <3> SUFFICES ASSUME NEW m \in Desks, desk'[m].op = "issue"
                 PROVE  desk'[m].number \in Nat /\ lastInvoiceSeq' \in Nat /\ desk'[m].number <= lastInvoiceSeq'
      BY DEF Issuable
    <3>1. m # k
      BY <1>1, <1>4, DeskPut, IdleIs
    <3>2. desk'[m] = desk[m] /\ desk[m].number <= lastInvoiceSeq + 1 /\ desk[m].number \in Nat
      BY <1>1, <1>3, <2>2, <3>1 DEF Issuable, DeskTyped, FrameTyped, Idle
    <3> QED
      BY <1>1, <1>2, <2>4, <3>2
  <2> QED
    BY <2>5, <2>6, <2>8, <2>9, <2>10 DEF Numbered
<1> QED
  BY <1>3, <1>7 DEF DeskKept

-----------------------------------------------------------------------------
(* The books keep their types. *)
LEMMA JoinedLedger ==
    ASSUME ledger \in Seq(EntryRow), NEW more \in Seq(EntryRow), ledger' = ledger \o more
    PROVE  /\ ledger' \in Seq(EntryRow) /\ Len(ledger') = Len(ledger) + Len(more)
           /\ Len(ledger) \in Nat /\ Len(more) \in Nat
BY AddRows

LEMMA SoldLedger ==
    ASSUME ledger \in Seq(EntryRow), NEW entry, NEW more, Sells(entry, more)
    PROVE  /\ ledger' \in Seq(EntryRow) /\ Len(ledger') > Len(ledger) /\ Len(ledger) \in Nat /\ Len(ledger') \in Nat
           /\ <<entry>> \o more \in Seq(EntryRow)
<1>1. <<entry>> \in Seq(EntryRow) /\ more \in Seq(EntryRow) /\ Len(<<entry>>) = 1
  BY DEF Sells
<1>2. <<entry>> \o more \in Seq(EntryRow) /\ Len(<<entry>> \o more) = 1 + Len(more) /\ Len(more) \in Nat
  BY <1>1, AddRows
<1>3. ledger' = ledger \o (<<entry>> \o more)
  BY DEF Sells
<1>4. ledger' \in Seq(EntryRow) /\ Len(ledger') = Len(ledger) + Len(<<entry>> \o more) /\ Len(ledger) \in Nat
  BY <1>2, <1>3, AddRows
<1> QED
  BY <1>2, <1>4

LEMMA AmendedLedger ==
    ASSUME ledger \in Seq(EntryRow), NEW i \in DOMAIN ledger, NEW a \in Int, ledger' = [ledger EXCEPT ![i].amount = a]
    PROVE  /\ ledger' \in Seq(EntryRow) /\ DOMAIN ledger' = DOMAIN ledger /\ Len(ledger') = Len(ledger)
           /\ \A n \in DOMAIN ledger :
                  ledger'[n].type = ledger[n].type /\ ledger'[n].of = ledger[n].of /\ ledger'[n].id = ledger[n].id
                  /\ ledger'[n].who = ledger[n].who /\ ledger'[n].at = ledger[n].at
                  /\ (n # i => ledger'[n] = ledger[n])
<1> DEFINE row == [ledger[i] EXCEPT !.amount = a]
<1>1. ledger[i] \in EntryRow
  BY SeqDomain
<1>2. row \in EntryRow /\ row.type = ledger[i].type /\ row.of = ledger[i].of /\ row.id = ledger[i].id
      /\ row.who = ledger[i].who /\ row.at = ledger[i].at
  BY <1>1 DEF EntryRow
<1>3. ledger' = [ledger EXCEPT ![i] = row]
  OBVIOUS
<1> HIDE DEF row
<1>4. /\ ledger' \in Seq(EntryRow) /\ DOMAIN ledger' = DOMAIN ledger /\ Len(ledger') = Len(ledger)
      /\ \A n \in DOMAIN ledger : ledger'[n] = IF n = i THEN row ELSE ledger[n]
  BY <1>2, <1>3, PutRow
<1> QED
  BY <1>2, <1>4

(* What a step makes of the rows that are sold. *)
SameGoods == DOMAIN deliveries' = DOMAIN deliveries /\ DOMAIN orders' = DOMAIN orders
             /\ (\A i \in DOMAIN deliveries : deliveries'[i].who = deliveries[i].who /\ Sale(deliveries'[i]) = Sale(deliveries[i]))
             /\ (\A i \in DOMAIN orders : orders'[i].who = orders[i].who /\ Total(orders'[i]) = Total(orders[i]))
SameSales == deliveries' = deliveries /\ DOMAIN orders' = DOMAIN orders
             /\ \A i \in DOMAIN orders : /\ orders'[i].who = orders[i].who /\ Total(orders'[i]) = Total(orders[i])
                                         /\ orders'[i].status = orders[i].status /\ orders'[i].placed = orders[i].placed

LEMMA PaidOrder ==
    ASSUME orders \in Seq(OrderRow), NEW i \in DOMAIN orders, NEW at \in Nat, orders' = [orders EXCEPT ![i].paidAt = at]
    PROVE  /\ orders' \in Seq(OrderRow) /\ DOMAIN orders' = DOMAIN orders
           /\ \A n \in DOMAIN orders : orders'[n].who = orders[n].who /\ Total(orders'[n]) = Total(orders[n])
                 /\ orders'[n].status = orders[n].status /\ orders'[n].placed = orders[n].placed
<1> DEFINE row == [orders[i] EXCEPT !.paidAt = at]
<1>1. orders[i] \in OrderRow
  BY SeqDomain
<1>2. row \in OrderRow /\ row.who = orders[i].who /\ Total(row) = Total(orders[i]) /\ row.status = orders[i].status
      /\ row.placed = orders[i].placed
  BY <1>1 DEF OrderRow, Total
<1>3. orders' = [orders EXCEPT ![i] = row]
  OBVIOUS
<1> HIDE DEF row
<1>4. orders' \in Seq(OrderRow) /\ DOMAIN orders' = DOMAIN orders /\ \A n \in DOMAIN orders : orders'[n] = IF n = i THEN row ELSE orders[n]
  BY <1>2, <1>3, PutRow
<1> QED
  BY <1>2, <1>4

LEMMA CancelledOrder ==
    ASSUME orders \in Seq(OrderRow), NEW i \in DOMAIN orders, orders' = [orders EXCEPT ![i].status = "CANCELLED"]
    PROVE  /\ orders' \in Seq(OrderRow) /\ DOMAIN orders' = DOMAIN orders
           /\ \A n \in DOMAIN orders : orders'[n].who = orders[n].who /\ Total(orders'[n]) = Total(orders[n])
<1> DEFINE row == [orders[i] EXCEPT !.status = "CANCELLED"]
<1>1. orders[i] \in OrderRow
  BY SeqDomain
<1>2. row \in OrderRow /\ row.who = orders[i].who /\ Total(row) = Total(orders[i])
  BY <1>1 DEF OrderRow, Total
<1>3. orders' = [orders EXCEPT ![i] = row]
  OBVIOUS
<1> HIDE DEF row
<1>4. orders' \in Seq(OrderRow) /\ DOMAIN orders' = DOMAIN orders /\ \A n \in DOMAIN orders : orders'[n] = IF n = i THEN row ELSE orders[n]
  BY <1>2, <1>3, PutRow
<1> QED
  BY <1>2, <1>4

LEMMA CancelledDelivery ==
    ASSUME deliveries \in Seq(DeliveryRow), NEW i \in DOMAIN deliveries, deliveries' = [deliveries EXCEPT ![i].live = FALSE]
    PROVE  /\ deliveries' \in Seq(DeliveryRow) /\ DOMAIN deliveries' = DOMAIN deliveries
           /\ \A n \in DOMAIN deliveries : deliveries'[n].who = deliveries[n].who /\ Sale(deliveries'[n]) = Sale(deliveries[n])
<1> DEFINE row == [deliveries[i] EXCEPT !.live = FALSE]
<1>1. deliveries[i] \in DeliveryRow
  BY SeqDomain
<1>2. row \in DeliveryRow /\ row.who = deliveries[i].who /\ Sale(row) = Sale(deliveries[i])
  BY <1>1 DEF DeliveryRow, Sale
<1>3. deliveries' = [deliveries EXCEPT ![i] = row]
  OBVIOUS
<1> HIDE DEF row
<1>4. deliveries' \in Seq(DeliveryRow) /\ DOMAIN deliveries' = DOMAIN deliveries
      /\ \A n \in DOMAIN deliveries : deliveries'[n] = IF n = i THEN row ELSE deliveries[n]
  BY <1>2, <1>3, PutRow
<1> QED
  BY <1>2, <1>4

LEMMA RecordsGoods ==
    ASSUME BooksTyped, deliveries' = deliveries, orders' = orders \/ PaysOrder
    PROVE  orders' \in Seq(OrderRow) /\ SameSales
<1>1. orders \in Seq(OrderRow)
  BY DEF BooksTyped
<1>2. CASE orders' = orders
  BY <1>1, <1>2 DEF SameSales
<1>3. CASE PaysOrder
  BY <1>1, <1>3, PaidOrder DEF SameSales, PaysOrder
<1> QED
  BY <1>2, <1>3

LEMMA SameGoodsIs == ASSUME SameSales PROVE SameGoods
BY DEF SameSales, SameGoods

LEMMA BookTyped == ASSUME BooksTyped, BookCase PROVE BooksTyped'
<1>1. /\ Ticking /\ ledger \in Seq(EntryRow) /\ deliveries \in Seq(DeliveryRow) /\ orders \in Seq(OrderRow)
  BY DEF BooksTyped
<1>2. /\ scene' = scene /\ now' \in Nat /\ now <= now' /\ now' <= scene.last
      /\ outlays' \in SUBSET OutlayRow /\ IsFiniteSet(outlays') /\ SaleCase
  BY DEF BookCase
<1>3. Ticking' /\ OutlayRow' = OutlayRow
  <2>1. scene.first \in Nat /\ now \in Nat /\ scene.first <= now
    BY <1>1, SceneIs DEF Ticking
  <2> QED
    BY <1>1, <1>2, <2>1 DEF Ticking, OutlayRow
<1>4. DeliveryRow' = DeliveryRow
  BY <1>2 DEF DeliveryRow
<1>5. OrderRow' = OrderRow /\ EntryRow' = EntryRow
  BY <1>2 DEF OrderRow, EntryRow
<1>6. ledger' \in Seq(EntryRow) /\ deliveries' \in Seq(DeliveryRow) /\ orders' \in Seq(OrderRow)
  <2>1. CASE Amends
    BY <1>1, <2>1, AmendedLedger DEF Amends, saleVars
  <2>2. CASE Records
    BY <1>1, <2>2, RecordsGoods, JoinedLedger DEF Records, Posts
  <2>3. CASE Delivers
    BY <1>1, <2>3, SoldLedger, Appended DEF Delivers
  <2>4. CASE Places
    BY <1>1, <2>4, SoldLedger, Appended DEF Places
  <2>5. CASE CancelsDelivery
    BY <1>1, <2>5, CancelledDelivery, JoinedLedger DEF CancelsDelivery, Back, Posts
  <2>6. CASE CancelsOrder
    BY <1>1, <2>6, CancelledOrder, JoinedLedger DEF CancelsOrder, Back, Posts
  <2> QED
    BY <1>2, <2>1, <2>2, <2>3, <2>4, <2>5, <2>6 DEF SaleCase
<1>7. ledger' \in Seq(EntryRow') /\ deliveries' \in Seq(DeliveryRow') /\ orders' \in Seq(OrderRow')
  BY <1>4, <1>5, <1>6
<1>8. outlays' \in SUBSET OutlayRow' /\ IsFiniteSet(outlays')
  BY <1>2, <1>3
<1> QED
  BY <1>3, <1>7, <1>8 DEF BooksTyped

-----------------------------------------------------------------------------
(* Each sale has one entry, of its customer and its amount, and each entry of a sale has its sale. *)
Goods(of) == IF of = "delivery" THEN [d \in DOMAIN deliveries |-> [who |-> deliveries[d].who, amount |-> Sale(deliveries[d])]]
             ELSE [o \in DOMAIN orders |-> [who |-> orders[o].who, amount |-> Total(orders[o])]]
TypeOf(of) == IF of = "delivery" THEN "DELIVERY_SALE" ELSE "ORDER_SALE"
Booked(rows, goods, type, of) ==
    /\ \A i \in DOMAIN rows : rows[i].type = type =>
           /\ rows[i].of = of /\ rows[i].id \in DOMAIN goods
           /\ rows[i].who = goods[rows[i].id].who /\ rows[i].amount = goods[rows[i].id].amount
    /\ \A i, j \in DOMAIN rows : rows[i].type = type /\ rows[j].type = type /\ rows[i].id = rows[j].id => i = j
    /\ \A d \in DOMAIN goods : \E i \in DOMAIN rows : rows[i].type = type /\ rows[i].id = d
SalesBooked == \A of \in {"delivery", "order"} : Booked(ledger, Goods(of), TypeOf(of), of)

LEMMA BookedMore ==
    ASSUME NEW S, NEW rows \in Seq(S), NEW goods, NEW type, NEW of, Booked(rows, goods, type, of), NEW more \in Seq(S),
           \A n \in DOMAIN more : more[n].type # type
    PROVE  Booked(rows \o more, goods, type, of)
<1> DEFINE t == rows \o more
<1>1. /\ DOMAIN rows = 1..Len(rows) /\ DOMAIN more = 1..Len(more) /\ DOMAIN t = 1..(Len(rows) + Len(more))
      /\ Len(rows) \in Nat /\ Len(more) \in Nat
      /\ (\A n \in DOMAIN rows : t[n] = rows[n]) /\ (\A n \in DOMAIN more : t[Len(rows) + n] = more[n])
  BY AddRows
<1> HIDE DEF t
<1>2. \A n \in DOMAIN t : n \notin DOMAIN rows => t[n].type # type
  <2> SUFFICES ASSUME NEW n \in DOMAIN t, n \notin DOMAIN rows PROVE t[n].type # type
    OBVIOUS
  <2>1. n - Len(rows) \in DOMAIN more /\ n = Len(rows) + (n - Len(rows))
    BY <1>1
  <2> QED
    BY <1>1, <2>1
<1>3. DOMAIN rows \subseteq DOMAIN t
  BY <1>1
<1> QED
  BY <1>1, <1>2, <1>3 DEF Booked, t

LEMMA BookedSale ==
    ASSUME NEW S, NEW rows \in Seq(S), NEW goods, NEW type, NEW of, Booked(rows, goods, type, of), NEW entry \in S,
           NEW n, n \notin DOMAIN goods, NEW more, DOMAIN more = DOMAIN goods \cup {n},
           \A d \in DOMAIN goods : more[d] = goods[d],
           entry.type = type, entry.of = of, entry.id = n, entry.who = more[n].who, entry.amount = more[n].amount
    PROVE  Booked(Append(rows, entry), more, type, of)
<1> DEFINE t == Append(rows, entry)
           x == Len(rows) + 1
<1>1. /\ DOMAIN t = DOMAIN rows \cup {x} /\ x \notin DOMAIN rows /\ t[x] = entry
      /\ \A m \in DOMAIN rows : t[m] = rows[m]
  BY Appended
<1> HIDE DEF t, x
<1> QED
  BY <1>1 DEF Booked, t

LEMMA BookedAmended ==
    ASSUME NEW rows, NEW goods, NEW type, NEW of, Booked(rows, goods, type, of), NEW i, rows[i].type # type,
           NEW t, DOMAIN t = DOMAIN rows, \A n \in DOMAIN rows : t[n].type = rows[n].type /\ (n # i => t[n] = rows[n])
    PROVE  Booked(t, goods, type, of)
BY DEF Booked

LEMMA SameGoodsAre == ASSUME SameGoods PROVE \A of \in {"delivery", "order"} : Goods(of)' = Goods(of)
BY DEF SameGoods, Goods

LEMMA TypesOfSales == \A of \in {"delivery", "order"} : TypeOf(of) \in SaleTypes
BY DEF TypeOf, SaleTypes

LEMMA UnsoldIs ==
    ASSUME NEW more, NoSale(more) PROVE \A of \in {"delivery", "order"} : \A n \in DOMAIN more : more[n].type # TypeOf(of)
BY TypesOfSales DEF NoSale

LEMMA PostsBooked ==
    ASSUME BooksTyped, SalesBooked, NEW more, Posts(more), SameGoods PROVE SalesBooked'
<1> SUFFICES ASSUME NEW of \in {"delivery", "order"} PROVE Booked(ledger', Goods(of)', TypeOf(of), of)
  BY DEF SalesBooked, TypeOf
<1>1. /\ ledger \in Seq(EntryRow) /\ more \in Seq(EntryRow) /\ ledger' = ledger \o more
      /\ \A n \in DOMAIN more : more[n].type # TypeOf(of)
  BY UnsoldIs DEF BooksTyped, Posts
<1>2. Booked(ledger, Goods(of), TypeOf(of), of)
  BY DEF SalesBooked
<1>3. Booked(ledger \o more, Goods(of), TypeOf(of), of)
  BY ONLY <1>1, <1>2, BookedMore
<1> QED
  BY <1>1, <1>3, SameGoodsAre

LEMMA AmendsBooked == ASSUME BooksTyped, SalesBooked, Amends PROVE SalesBooked'
<1>1. PICK i \in DOMAIN ledger, a \in Int :
          /\ ledger[i].type \in {"PAYMENT", "OPENING_BALANCE"} /\ ledger' = [ledger EXCEPT ![i].amount = a]
          /\ UNCHANGED saleVars
  BY DEF Amends
<1> SUFFICES ASSUME NEW of \in {"delivery", "order"} PROVE Booked(ledger', Goods(of)', TypeOf(of), of)
  BY DEF SalesBooked, TypeOf
<1>2. Goods(of)' = Goods(of)
  BY <1>1 DEF saleVars, Goods
<1>3. DOMAIN ledger' = DOMAIN ledger /\ \A n \in DOMAIN ledger : ledger'[n].type = ledger[n].type /\ (n # i => ledger'[n] = ledger[n])
  BY <1>1, AmendedLedger DEF BooksTyped
<1>4. ledger[i].type # TypeOf(of)
  BY <1>1 DEF TypeOf
<1>5. Booked(ledger, Goods(of), TypeOf(of), of)
  BY DEF SalesBooked
<1> QED
  BY <1>2, <1>3, <1>4, <1>5, BookedAmended

(* A sale with its entry, and the goods of the other kind. *)
LEMMA SellsBooked ==
    ASSUME BooksTyped, SalesBooked, NEW entry, NEW more, Sells(entry, more),
           NEW of \in {"delivery", "order"}, NEW n, n \notin DOMAIN Goods(of), DOMAIN Goods(of)' = DOMAIN Goods(of) \cup {n},
           \A d \in DOMAIN Goods(of) : Goods(of)'[d] = Goods(of)[d],
           SaleOf(TypeOf(of), of, n, Goods(of)'[n].who, Goods(of)'[n].amount, entry),
           \A o \in {"delivery", "order"} \ {of} : Goods(o)' = Goods(o)
    PROVE  SalesBooked'
<1>1. /\ ledger \in Seq(EntryRow) /\ entry \in EntryRow /\ more \in Seq(EntryRow) /\ NoSale(more)
      /\ ledger' = ledger \o (<<entry>> \o more)
  BY DEF BooksTyped, Sells
<1>2. ledger' = Append(ledger, entry) \o more /\ Append(ledger, entry) \in Seq(EntryRow) /\ ledger \o <<entry>> = Append(ledger, entry)
  <2>1. ledger \o <<entry>> = Append(ledger, entry) /\ Append(ledger, entry) \in Seq(EntryRow)
    BY <1>1
  <2>2. ledger \o (<<entry>> \o more) = (ledger \o <<entry>>) \o more
    BY <1>1
  <2> QED
    BY <1>1, <2>1, <2>2
<1> SUFFICES ASSUME NEW o \in {"delivery", "order"} PROVE Booked(ledger', Goods(o)', TypeOf(o), o)
  BY DEF SalesBooked, TypeOf
<1>3. Booked(ledger, Goods(o), TypeOf(o), o)
  BY DEF SalesBooked
<1>4. Booked(Append(ledger, entry), Goods(o)', TypeOf(o), o)
  <2>1. CASE o = of
    <3> DEFINE g == Goods(of)
               h == Goods(of)'
    <3>1. /\ Booked(ledger, g, TypeOf(of), of) /\ ledger \in Seq(EntryRow) /\ entry \in EntryRow
          /\ n \notin DOMAIN g /\ DOMAIN h = DOMAIN g \cup {n} /\ (\A d \in DOMAIN g : h[d] = g[d])
          /\ entry.type = TypeOf(of) /\ entry.of = of /\ entry.id = n /\ entry.who = h[n].who /\ entry.amount = h[n].amount
      BY <1>1, <1>3, <2>1 DEF SaleOf
    <3> HIDE DEF g, h
    <3>2. Booked(Append(ledger, entry), h, TypeOf(of), of)
      BY ONLY <3>1, BookedSale
    <3> QED
      BY <2>1, <3>2 DEF h
  <2>2. CASE o # of
    <3>1. entry.type # TypeOf(o)
      BY <2>2 DEF SaleOf, TypeOf
    <3>2. /\ <<entry>> \in Seq(EntryRow) /\ \A m \in DOMAIN <<entry>> : <<entry>>[m].type # TypeOf(o)
      BY <1>1, <3>1
    <3>3. Booked(ledger \o <<entry>>, Goods(o), TypeOf(o), o)
      BY ONLY <1>1, <1>3, <3>2, BookedMore
    <3> QED
      BY <1>2, <2>2, <3>3
  <2> QED
    BY <2>1, <2>2
<1>5. \A m \in DOMAIN more : more[m].type # TypeOf(o)
  BY <1>1, UnsoldIs
<1>6. Booked(Append(ledger, entry) \o more, Goods(o)', TypeOf(o), o)
  BY ONLY <1>1, <1>2, <1>4, <1>5, BookedMore
<1> QED
  BY <1>2, <1>6

LEMMA DeliversBooked == ASSUME BooksTyped, SalesBooked, Delivers PROVE SalesBooked'
<1>1. PICK row \in DeliveryRow : \E entry, more :
          /\ row.live /\ deliveries' = Append(deliveries, row) /\ orders' = orders
          /\ SaleOf("DELIVERY_SALE", "delivery", Len(deliveries) + 1, row.who, Sale(row), entry)
          /\ Sells(entry, more)
  BY DEF Delivers
<1>2. PICK entry, more :
          /\ deliveries' = Append(deliveries, row) /\ orders' = orders
          /\ SaleOf("DELIVERY_SALE", "delivery", Len(deliveries) + 1, row.who, Sale(row), entry)
          /\ Sells(entry, more)
  BY <1>1
<1> DEFINE n == Len(deliveries) + 1
           g == Goods("delivery")
           h == Goods("delivery")'
<1>3. /\ DOMAIN deliveries' = DOMAIN deliveries \cup {n} /\ n \notin DOMAIN deliveries /\ deliveries'[n] = row
      /\ \A d \in DOMAIN deliveries : deliveries'[d] = deliveries[d]
  BY <1>2, Appended DEF BooksTyped
<1> HIDE DEF n
<1>4. n \notin DOMAIN g /\ DOMAIN h = DOMAIN g \cup {n} /\ (\A d \in DOMAIN g : h[d] = g[d])
      /\ h[n].who = row.who /\ h[n].amount = Sale(row)
  BY <1>3 DEF Goods
<1>5. \A o \in {"delivery", "order"} \ {"delivery"} : Goods(o)' = Goods(o)
  BY <1>2 DEF Goods
<1>6. SaleOf(TypeOf("delivery"), "delivery", n, h[n].who, h[n].amount, entry)
  BY <1>2, <1>4 DEF TypeOf, n
<1> QED
  BY <1>2, <1>4, <1>5, <1>6, SellsBooked

LEMMA PlacesBooked == ASSUME BooksTyped, SalesBooked, Places PROVE SalesBooked'
<1>1. PICK row \in OrderRow : \E entry, more :
          /\ orders' = Append(orders, row) /\ deliveries' = deliveries
          /\ SaleOf("ORDER_SALE", "order", Len(orders) + 1, row.who, Total(row), entry)
          /\ Sells(entry, more)
  BY DEF Places
<1>2. PICK entry, more :
          /\ orders' = Append(orders, row) /\ deliveries' = deliveries
          /\ SaleOf("ORDER_SALE", "order", Len(orders) + 1, row.who, Total(row), entry)
          /\ Sells(entry, more)
  BY <1>1
<1> DEFINE n == Len(orders) + 1
           g == Goods("order")
           h == Goods("order")'
<1>3. /\ DOMAIN orders' = DOMAIN orders \cup {n} /\ n \notin DOMAIN orders /\ orders'[n] = row
      /\ \A d \in DOMAIN orders : orders'[d] = orders[d]
  BY <1>2, Appended DEF BooksTyped
<1> HIDE DEF n
<1>4. n \notin DOMAIN g /\ DOMAIN h = DOMAIN g \cup {n} /\ (\A d \in DOMAIN g : h[d] = g[d])
      /\ h[n].who = row.who /\ h[n].amount = Total(row)
  BY <1>3 DEF Goods
<1>5. \A o \in {"delivery", "order"} \ {"order"} : Goods(o)' = Goods(o)
  BY <1>2 DEF Goods
<1>6. SaleOf(TypeOf("order"), "order", n, h[n].who, h[n].amount, entry)
  BY <1>2, <1>4 DEF TypeOf, n
<1> QED
  BY <1>2, <1>4, <1>5, <1>6, SellsBooked

LEMMA BookBooked == ASSUME BooksTyped, SalesBooked, BookCase PROVE SalesBooked'
<1>1. orders \in Seq(OrderRow) /\ deliveries \in Seq(DeliveryRow)
  BY DEF BooksTyped
<1>2. CASE Amends
  BY <1>2, AmendsBooked
<1>3. CASE Records
  BY <1>3, RecordsGoods, SameGoodsIs, PostsBooked DEF Records
<1>4. CASE Delivers
  BY <1>4, DeliversBooked
<1>5. CASE Places
  BY <1>5, PlacesBooked
<1>6. CASE CancelsDelivery
  <2>1. SameGoods /\ \E more : Posts(more)
    BY <1>1, <1>6, CancelledDelivery DEF CancelsDelivery, Back, SameGoods
  <2> QED
    BY <2>1, PostsBooked
<1>7. CASE CancelsOrder
  <2>1. SameGoods /\ \E more : Posts(more)
    BY <1>1, <1>7, CancelledOrder DEF CancelsOrder, Back, SameGoods
  <2> QED
    BY <2>1, PostsBooked
<1> QED
  BY <1>2, <1>3, <1>4, <1>5, <1>6, <1>7 DEF BookCase, SaleCase

(* While the ledger is as long as it was, the sales are what they were. *)
LEMMA LongerOrSame ==
    ASSUME BooksTyped, SalesBooked, BookCase
    PROVE  /\ Len(ledger) \in Nat /\ Len(ledger') \in Nat /\ Len(ledger) <= Len(ledger')
           /\ Len(ledger') = Len(ledger) => SameSales
<1>1. /\ orders \in Seq(OrderRow) /\ deliveries \in Seq(DeliveryRow) /\ ledger \in Seq(EntryRow) /\ Len(ledger) \in Nat
  BY DEF BooksTyped
<1>2. CASE Amends
  BY <1>1, <1>2, AmendedLedger DEF Amends, SameSales, saleVars
<1>3. CASE Records
  BY <1>1, <1>3, RecordsGoods, JoinedLedger DEF Records, Posts
<1>4. CASE Delivers
  BY <1>1, <1>4, SoldLedger DEF Delivers
<1>5. CASE Places
  BY <1>1, <1>5, SoldLedger DEF Places
<1>6. CASE CancelsDelivery
  <2>1. PICK i \in DOMAIN deliveries : \E more : Back(EntriesFor("delivery", i, {"DELIVERY_SALE", "PAYMENT"}), more)
    BY <1>6 DEF CancelsDelivery
  <2>2. EntriesFor("delivery", i, {"DELIVERY_SALE", "PAYMENT"}) # {}
    <3>1. Booked(ledger, Goods("delivery"), "DELIVERY_SALE", "delivery")
      BY DEF SalesBooked, TypeOf
    <3>2. i \in DOMAIN Goods("delivery")
      BY DEF Goods
    <3>3. PICK j \in DOMAIN ledger : ledger[j].type = "DELIVERY_SALE" /\ ledger[j].id = i /\ ledger[j].of = "delivery"
      BY <3>1, <3>2 DEF Booked
    <3> QED
      BY <3>3 DEF EntriesFor
  <2>3. PICK more : Posts(more) /\ more # <<>>
    BY <2>1, <2>2 DEF Back
  <2>4. more \in Seq(EntryRow) /\ Len(more) # 0
    BY <2>3 DEF Posts
  <2> QED
    BY <1>1, <2>3, <2>4, JoinedLedger DEF Posts
<1>7. CASE CancelsOrder
  <2>1. PICK i \in DOMAIN orders : \E more : Back(EntriesFor("order", i, {"ORDER_SALE"}), more)
    BY <1>7 DEF CancelsOrder
  <2>2. EntriesFor("order", i, {"ORDER_SALE"}) # {}
    <3>1. Booked(ledger, Goods("order"), "ORDER_SALE", "order")
      BY DEF SalesBooked, TypeOf
    <3>2. i \in DOMAIN Goods("order")
      BY DEF Goods
    <3>3. PICK j \in DOMAIN ledger : ledger[j].type = "ORDER_SALE" /\ ledger[j].id = i /\ ledger[j].of = "order"
      BY <3>1, <3>2 DEF Booked
    <3> QED
      BY <3>3 DEF EntriesFor
  <2>3. PICK more : Posts(more) /\ more # <<>>
    BY <2>1, <2>2 DEF Back
  <2>4. more \in Seq(EntryRow) /\ Len(more) # 0
    BY <2>3 DEF Posts
  <2> QED
    BY <1>1, <2>3, <2>4, JoinedLedger DEF Posts
<1> QED
  BY <1>2, <1>3, <1>4, <1>5, <1>6, <1>7 DEF BookCase, SaleCase

-----------------------------------------------------------------------------
(* What is read of the books is a number. *)
LEMMA EntryAmounts == ASSUME BooksTyped PROVE IsFiniteSet(DOMAIN ledger) /\ \A i \in DOMAIN ledger : ledger[i].amount \in Int
<1>1. IsFiniteSet(DOMAIN ledger) /\ \A i \in DOMAIN ledger : ledger[i] \in EntryRow
  BY SeqDomain DEF BooksTyped
<1> QED
  BY <1>1 DEF EntryRow

LEMMA SumIsInt == ASSUME BooksTyped, NEW rows \in SUBSET (DOMAIN ledger) PROVE IsFiniteSet(rows) /\ Sum(rows) \in Int
<1> DEFINE f == [i \in rows |-> ledger[i].amount]
<1>1. IsFiniteSet(rows) /\ IsFiniteSet(DOMAIN f) /\ \A i \in DOMAIN f : f[i] \in Int
  BY EntryAmounts, FS_Subset
<1> HIDE DEF f
<1>2. SumFunction(f) \in Int
  BY <1>1, TotalInt
<1> QED
  BY <1>1, <1>2 DEF Sum, f

LEMMA GoodsAmounts ==
    ASSUME BooksTyped
    PROVE  /\ IsFiniteSet(DOMAIN deliveries) /\ IsFiniteSet(DOMAIN orders)
           /\ \A i \in DOMAIN deliveries : Sale(deliveries[i]) \in Nat /\ deliveries[i] \in DeliveryRow
           /\ \A i \in DOMAIN orders : Total(orders[i]) \in Nat /\ orders[i] \in OrderRow
<1>1. /\ IsFiniteSet(DOMAIN deliveries) /\ IsFiniteSet(DOMAIN orders)
      /\ \A i \in DOMAIN deliveries : deliveries[i] \in DeliveryRow
  BY SeqDomain DEF BooksTyped
<1>2. ASSUME NEW i \in DOMAIN deliveries PROVE Sale(deliveries[i]) \in Nat
  <2>1. deliveries[i].units \in Nat
    BY <1>1 DEF DeliveryRow
  <2> QED
    BY <2>1, PricesAre, ProductNat DEF Sale
<1> QED
  BY <1>1, <1>2, TotalIs

LEMMA SalesOfInt == ASSUME BooksTyped, NEW rows \in SUBSET (DOMAIN deliveries) PROVE IsFiniteSet(rows) /\ SalesOf(rows) \in Int
<1> DEFINE f == [i \in rows |-> Sale(deliveries[i])]
<1>1. IsFiniteSet(rows) /\ IsFiniteSet(DOMAIN f) /\ \A i \in DOMAIN f : f[i] \in Int
  BY GoodsAmounts, FS_Subset
<1> HIDE DEF f
<1>2. SumFunction(f) \in Int
  BY <1>1, TotalInt
<1> QED
  BY <1>1, <1>2 DEF SalesOf, f

LEMMA TotalOfInt == ASSUME BooksTyped, NEW rows \in SUBSET (DOMAIN orders) PROVE IsFiniteSet(rows) /\ TotalOf(rows) \in Int
<1> DEFINE f == [i \in rows |-> Total(orders[i])]
<1>1. IsFiniteSet(rows) /\ IsFiniteSet(DOMAIN f) /\ \A i \in DOMAIN f : f[i] \in Int
  BY GoodsAmounts, FS_Subset
<1> HIDE DEF f
<1>2. SumFunction(f) \in Int
  BY <1>1, TotalInt
<1> QED
  BY <1>1, <1>2 DEF TotalOf, f

LEMMA SalesTotalInt == ASSUME BooksTyped, NEW c, NEW from, NEW to PROVE SalesTotal(c, from, to) \in Int
<1>1. DeliveryLines(c, from, to) \in SUBSET (DOMAIN deliveries) /\ OrderLines(c, from, to) \in SUBSET (DOMAIN orders)
  BY DEF DeliveryLines, OrderLines, Billable
<1>2. SalesOf(DeliveryLines(c, from, to)) \in Int /\ TotalOf(OrderLines(c, from, to)) \in Int
  BY <1>1, SalesOfInt, TotalOfInt
<1> QED
  BY <1>2 DEF SalesTotal

LEMMA OpeningInt == ASSUME BooksTyped, NEW c, NEW from PROVE OpeningBalance(c, from) \in Int
<1>1. {i \in EntriesOf(c) : ledger[i].at < Midnight(from) - scene.zone} \in SUBSET (DOMAIN ledger)
  BY DEF EntriesOf
<1> QED
  BY <1>1, SumIsInt DEF OpeningBalance, Before

LEMMA PaidAndAdjustedInt ==
    ASSUME BooksTyped, NEW c, NEW from, NEW to
    PROVE  PaymentsTotal(c, from, to) \in Int /\ AdjustmentsTotal(c, from, to) \in Int
<1>1. /\ {i \in Period(c, from, to) : ledger[i].type = "PAYMENT"} \in SUBSET (DOMAIN ledger)
      /\ {i \in Period(c, from, to) : ledger[i].type \in {"ADJUSTMENT", "OPENING_BALANCE"}} \in SUBSET (DOMAIN ledger)
  BY DEF Period, EntriesOf
<1>2. /\ Sum({i \in Period(c, from, to) : ledger[i].type = "PAYMENT"}) \in Int
      /\ Sum({i \in Period(c, from, to) : ledger[i].type \in {"ADJUSTMENT", "OPENING_BALANCE"}}) \in Int
  BY <1>1, SumIsInt
<1>3. \A x \in Int : -x \in Int
  OBVIOUS
<1> QED
  BY <1>2, <1>3 DEF PaymentsTotal, AdjustmentsTotal

-----------------------------------------------------------------------------
(* Every step of a request is of one of the cases. *)
LEMMA PeriodsAre == ASSUME NEW p \in Periods PROVE p.from \in Nat /\ p.to \in Nat /\ p.from <= p.to
BY BooksAssumption

LEMMA BegunGenerate ==
    ASSUME BooksTyped, NEW k \in Desks, NEW c \in Customers, NEW p \in Periods, BeginGenerate(k, c, p)
    PROVE  \E f : TakesUp(k, f)
<1> DEFINE f == [op |-> "reads", who |-> c, from |-> p.from, to |-> p.to,
                 opening |-> OpeningBalance(c, p.from), sales |-> SalesTotal(c, p.from, p.to), seen |-> {ledger}]
<1>1. /\ desk' = [desk EXCEPT ![k] = f] /\ invoices' = invoices /\ lastInvoiceSeq' = lastInvoiceSeq /\ crossed' = crossed
  BY DEF BeginGenerate, Starts
<1>2. FrameTyped(f, DOMAIN invoices) /\ f.op = "reads"
  <2>1. OpeningBalance(c, p.from) \in Int /\ SalesTotal(c, p.from, p.to) \in Int
    BY OpeningInt, SalesTotalInt
  <2> QED
    BY <2>1, PeriodsAre DEF FrameTyped, Covers
<1> HIDE DEF f
<1>3. Handled(f) = {} /\ Issuable(invoices, lastInvoiceSeq, f)
  BY <1>2, HandledIs DEF Issuable
<1> QED
  BY <1>1, <1>2, <1>3 DEF TakesUp

LEMMA CrossedIs ==
    ASSUME NEW k \in Desks, NEW ids, Crossing(k, ids)
    PROVE  crossed \subseteq crossed' /\ \A n \in Desks \ {k} : ids \cap Handled(desk[n]) \subseteq crossed'
BY DEF Crossing

LEMMA ReadBegun ==
    ASSUME BooksTyped, DeskTyped, NEW k \in Desks, ReadLedger(k)
    PROVE  \E f : TakesUp(k, f)
<1> DEFINE g == desk[k]
           drafts == {i \in DOMAIN invoices : /\ invoices[i].status = "DRAFT" /\ invoices[i].who = g.who
                                              /\ invoices[i].from = g.from /\ invoices[i].to = g.to}
           closing == g.opening + g.sales - PaymentsTotal(g.who, g.from, g.to) + AdjustmentsTotal(g.who, g.from, g.to)
           f == [op |-> "draft", who |-> g.who, from |-> g.from, to |-> g.to, replaces |-> drafts,
                 seen |-> g.seen \cup {ledger}, closing |-> closing]
<1>1. g.op = "reads" /\ desk' = [desk EXCEPT ![k] = f] /\ invoices' = invoices /\ lastInvoiceSeq' = lastInvoiceSeq
      /\ Crossing(k, drafts)
  BY DEF ReadLedger, Holds
<1>2. Covers(g) /\ g.opening \in Int /\ g.sales \in Int
  BY <1>1 DEF DeskTyped, FrameTyped, Idle
<1>3. closing \in Int
  <2>1. PaymentsTotal(g.who, g.from, g.to) \in Int /\ AdjustmentsTotal(g.who, g.from, g.to) \in Int
    BY PaidAndAdjustedInt
  <2> QED
    BY <1>2, <2>1
<1>4. drafts \in SUBSET (DOMAIN invoices) /\ \A i \in drafts : invoices[i].status = "DRAFT"
  OBVIOUS
<1>5. crossed \subseteq crossed' /\ \A n \in Desks \ {k} : drafts \cap Handled(desk[n]) \subseteq crossed'
  <2> HIDE DEF drafts
  <2> QED
    BY <1>1, CrossedIs
<1> HIDE DEF closing, drafts
<1>6. FrameTyped(f, DOMAIN invoices) /\ f.op = "draft" /\ f.replaces = drafts
  BY <1>2, <1>3, <1>4 DEF FrameTyped, Covers
<1> HIDE DEF f
<1>7. Handled(f) = drafts /\ Issuable(invoices, lastInvoiceSeq, f) /\ \A i \in Handled(f) : Seen(invoices, f, i)
  BY <1>4, <1>6, HandledIs DEF Issuable, Seen
<1> QED
  BY <1>1, <1>5, <1>6, <1>7 DEF TakesUp

LEMMA RowTaken ==
    ASSUME DeskTyped, NEW k \in Desks, NEW i \in DOMAIN invoices, NEW f, FrameTyped(f, DOMAIN invoices),
           f.op \in {"issue", "void", "remove"}, f.invoice = i, Issuable(invoices, lastInvoiceSeq, f),
           Seen(invoices, f, i), Starts(k, f), Crossing(k, {i}), invoices' = invoices, lastInvoiceSeq' = lastInvoiceSeq
    PROVE  TakesUp(k, f)
<1>1. Handled(f) = {i}
  BY HandledIs
<1>2. crossed \subseteq crossed' /\ \A n \in Desks \ {k} : {i} \cap Handled(desk[n]) \subseteq crossed'
  BY CrossedIs
<1>3. desk' = [desk EXCEPT ![k] = f]
  BY DEF Starts
<1> QED
  BY <1>1, <1>2, <1>3 DEF TakesUp

LEMMA BegunRows ==
    ASSUME DeskTyped, NEW k \in Desks, NEW i \in DOMAIN invoices,
           BeginIssue(k, i) \/ BeginVoid(k, i) \/ BeginRemoveDraft(k, i)
    PROVE  \E f : TakesUp(k, f)
<1>1. CASE BeginIssue(k, i)
  <2> DEFINE f == [op |-> "issue", invoice |-> i, number |-> lastInvoiceSeq + 1]
  <2>1. /\ invoices[i].status = "DRAFT" /\ Free(invoices, i) /\ Starts(k, f) /\ Crossing(k, {i})
        /\ invoices' = invoices /\ lastInvoiceSeq' = lastInvoiceSeq
    BY <1>1, FreeIs DEF BeginIssue
  <2>2. /\ FrameTyped(f, DOMAIN invoices) /\ f.op \in {"issue", "void", "remove"} /\ f.invoice = i
        /\ Issuable(invoices, lastInvoiceSeq, f) /\ Seen(invoices, f, i)
    BY <2>1 DEF FrameTyped, Issuable, Seen, DeskTyped
  <2> HIDE DEF f
  <2> QED
    BY <2>1, <2>2, RowTaken
<1>2. CASE BeginVoid(k, i)
  <2> DEFINE f == [op |-> "void", invoice |-> i]
  <2>1. /\ invoices[i].status = "ISSUED" /\ Starts(k, f) /\ Crossing(k, {i})
        /\ invoices' = invoices /\ lastInvoiceSeq' = lastInvoiceSeq
    BY <1>2 DEF BeginVoid
  <2>2. /\ FrameTyped(f, DOMAIN invoices) /\ f.op \in {"issue", "void", "remove"} /\ f.invoice = i
        /\ Issuable(invoices, lastInvoiceSeq, f) /\ Seen(invoices, f, i)
    BY <2>1 DEF FrameTyped, Issuable, Seen
  <2> HIDE DEF f
  <2> QED
    BY <2>1, <2>2, RowTaken
<1>3. CASE BeginRemoveDraft(k, i)
  <2> DEFINE f == [op |-> "remove", invoice |-> i]
  <2>1. /\ invoices[i].status = "DRAFT" /\ Starts(k, f) /\ Crossing(k, {i})
        /\ invoices' = invoices /\ lastInvoiceSeq' = lastInvoiceSeq
    BY <1>3 DEF BeginRemoveDraft
  <2>2. /\ FrameTyped(f, DOMAIN invoices) /\ f.op \in {"issue", "void", "remove"} /\ f.invoice = i
        /\ Issuable(invoices, lastInvoiceSeq, f) /\ Seen(invoices, f, i)
    BY <2>1 DEF FrameTyped, Issuable, Seen
  <2> HIDE DEF f
  <2> QED
    BY <2>1, <2>2, RowTaken
<1> QED
  BY <1>1, <1>2, <1>3

LEMMA GoneRow == ASSUME DeskTyped, NEW i \in DOMAIN invoices PROVE Gone(i) \in InvoiceRow /\ invoices[i] \in InvoiceRow
<1>1. invoices[i] \in InvoiceRow
  BY SeqDomain DEF DeskTyped
<1> QED
  BY <1>1 DEF Gone, InvoiceRow

LEMMA GeneratedCase == ASSUME DeskTyped, NEW k \in Desks, CommitGenerate(k) PROVE Drops(k)
<1> DEFINE f == desk[k]
           kept == [i \in DOMAIN invoices |-> IF i \in f.replaces THEN Gone(i) ELSE invoices[i]]
           row == [who |-> f.who, from |-> f.from, to |-> f.to, status |-> "DRAFT", number |-> NoNumber, closing |-> f.closing]
<1>1. /\ f.op = "draft" /\ invoices' = Append(kept, row) /\ desk' = [desk EXCEPT ![k] = Idle]
      /\ crossed' = crossed /\ lastInvoiceSeq' = lastInvoiceSeq
  BY DEF CommitGenerate, Ends, Holds
<1>2. Covers(f) /\ f.closing \in Int /\ f.replaces \in SUBSET (DOMAIN invoices) /\ FrameTyped(f, DOMAIN invoices)
  BY <1>1 DEF DeskTyped, FrameTyped, Idle
<1>3. Handled(f) = f.replaces
  BY <1>1, <1>2, HandledIs
<1>4. row \in InvoiceRow /\ row.status = "DRAFT" /\ row.number = NoNumber
  BY <1>2 DEF InvoiceRow, Covers, NoNumber
<1>5. kept \in Seq(InvoiceRow) /\ DOMAIN kept = DOMAIN invoices
  <2>1. \A i \in DOMAIN invoices : kept[i] \in InvoiceRow
    BY GoneRow
  <2>2. DOMAIN kept = DOMAIN invoices /\ kept = [i \in DOMAIN invoices |-> kept[i]] /\ invoices \in Seq(InvoiceRow)
    BY DEF DeskTyped
  <2> HIDE DEF kept
  <2> QED
    BY <2>1, <2>2, Rewritten
<1>6. /\ invoices' \in Seq(InvoiceRow) /\ DOMAIN invoices' = DOMAIN invoices \cup {Len(kept) + 1}
      /\ invoices'[Len(kept) + 1] = row /\ \A i \in DOMAIN invoices : invoices'[i] = kept[i]
  <2> HIDE DEF kept, row
  <2> QED
    BY <1>1, <1>4, <1>5, Appended
<1>7. Kept(k)
  BY <1>1, <1>3, <1>6 DEF Kept
<1>8. \A i \in DOMAIN invoices : invoices'[i] = invoices[i] \/ invoices'[i] = [invoices[i] EXCEPT !.status = "none"]
  BY <1>6 DEF Gone
<1>9. \A i \in DOMAIN invoices' \ DOMAIN invoices : invoices'[i].status = "DRAFT" /\ invoices'[i].number = NoNumber
  <2> HIDE DEF kept, row
  <2> QED
    BY <1>4, <1>6
<1> QED
  BY <1>1, <1>7, <1>8, <1>9 DEF Drops

LEMMA UnwrittenCase ==
    ASSUME DeskTyped, NEW k \in Desks, Ends(k), invoices' = invoices, lastInvoiceSeq' = lastInvoiceSeq, crossed' = crossed
    PROVE  Drops(k)
BY DEF Drops, Kept, Ends, DeskTyped

(* A step that writes one row. *)
LEMMA RowKept ==
    ASSUME DeskTyped, NEW k \in Desks, NEW row \in InvoiceRow, desk[k].op \in {"issue", "void", "remove"},
           Ends(k), crossed' = crossed, invoices' = [invoices EXCEPT ![desk[k].invoice] = row]
    PROVE  /\ Kept(k) /\ DOMAIN invoices' = DOMAIN invoices /\ desk[k].invoice \in DOMAIN invoices
           /\ \A i \in DOMAIN invoices : invoices'[i] = IF i = desk[k].invoice THEN row ELSE invoices[i]
<1>1. desk[k].invoice \in DOMAIN invoices /\ Handled(desk[k]) = {desk[k].invoice} /\ invoices \in Seq(InvoiceRow)
  BY HandledIs DEF DeskTyped, FrameTyped, Idle
<1>2. /\ invoices' \in Seq(InvoiceRow) /\ DOMAIN invoices' = DOMAIN invoices
      /\ \A i \in DOMAIN invoices : invoices'[i] = IF i = desk[k].invoice THEN row ELSE invoices[i]
  BY <1>1, PutRow
<1> QED
  BY <1>1, <1>2 DEF Kept, Ends

LEMMA IssuedCase == ASSUME DeskTyped, NEW k \in Desks, CommitIssue(k) PROVE Drops(k) \/ Issues(k)
<1> DEFINE f == desk[k]
<1>1. f.op = "issue" /\ Ends(k) /\ crossed' = crossed
  BY DEF CommitIssue, Holds
<1>2. f.invoice \in DOMAIN invoices /\ f.number \in Nat
  BY <1>1 DEF DeskTyped, FrameTyped, Idle
<1>3. CASE invoices' = invoices /\ lastInvoiceSeq' = lastInvoiceSeq
  BY <1>1, <1>3, UnwrittenCase
<1>4. CASE ~(invoices' = invoices /\ lastInvoiceSeq' = lastInvoiceSeq)
  <2>1. /\ lastInvoiceSeq' = f.number
        /\ invoices' = [invoices EXCEPT ![f.invoice].status = "ISSUED", ![f.invoice].number = f.number]
        /\ \A j \in DOMAIN invoices \ {f.invoice} : invoices[j].number = f.number => invoices[j].status = "none"
    BY <1>4 DEF CommitIssue
  <2> DEFINE row == [invoices[f.invoice] EXCEPT !.status = "ISSUED", !.number = f.number]
  <2>2. row \in InvoiceRow
    BY <1>2, GoneRow DEF InvoiceRow
  <2>3. invoices' = [invoices EXCEPT ![f.invoice] = row]
    BY <1>2, <2>1
  <2> HIDE DEF row
  <2>4. Kept(k) /\ DOMAIN invoices' = DOMAIN invoices /\ invoices'[f.invoice] = row
    BY <1>1, <1>2, <2>2, <2>3, RowKept
  <2> QED
    BY <1>1, <2>1, <2>4 DEF Issues, row
<1> QED
  BY <1>3, <1>4

LEMMA VoidedCase == ASSUME DeskTyped, NEW k \in Desks, CommitVoid(k) PROVE Drops(k)
<1> DEFINE x == desk[k].invoice
           row == IF invoices[x].status = "none" THEN invoices[x] ELSE [invoices[x] EXCEPT !.status = "VOID"]
<1>1. /\ desk[k].op = "void" /\ Ends(k) /\ crossed' = crossed /\ lastInvoiceSeq' = lastInvoiceSeq
      /\ invoices' = [invoices EXCEPT ![x] = row]
  BY DEF CommitVoid, Holds
<1>2. x \in DOMAIN invoices
  BY <1>1 DEF DeskTyped, FrameTyped, Idle
<1>3. row \in InvoiceRow
  BY <1>2, GoneRow DEF InvoiceRow
<1>4. row = invoices[x] \/ row = [invoices[x] EXCEPT !.status = "VOID"]
  OBVIOUS
<1> HIDE DEF row
<1>5. /\ Kept(k) /\ DOMAIN invoices' = DOMAIN invoices
      /\ \A i \in DOMAIN invoices : invoices'[i] = IF i = x THEN row ELSE invoices[i]
  BY <1>1, <1>3, RowKept
<1> QED
  BY <1>1, <1>4, <1>5 DEF Drops

LEMMA RemovedCase == ASSUME DeskTyped, NEW k \in Desks, CommitRemoveDraft(k) PROVE Drops(k)
<1> DEFINE x == desk[k].invoice
<1>1. /\ desk[k].op = "remove" /\ Ends(k) /\ crossed' = crossed /\ lastInvoiceSeq' = lastInvoiceSeq
      /\ invoices' = [invoices EXCEPT ![x] = Gone(x)]
  BY DEF CommitRemoveDraft, Holds
<1>2. x \in DOMAIN invoices
  BY <1>1 DEF DeskTyped, FrameTyped, Idle
<1>3. Gone(x) \in InvoiceRow
  BY <1>2, GoneRow
<1>4. /\ Kept(k) /\ DOMAIN invoices' = DOMAIN invoices
      /\ \A i \in DOMAIN invoices : invoices'[i] = IF i = x THEN Gone(x) ELSE invoices[i]
  BY <1>1, <1>3, RowKept
<1> QED
  BY <1>1, <1>4 DEF Drops, Gone

LEMMA InvoiceCases == ASSUME BooksTyped, DeskTyped, NEW k \in Desks, InvoiceStep(k) PROVE DeskCase(k)
<1>1. CASE \E c \in Customers, p \in Periods : BeginGenerate(k, c, p)
  BY <1>1, BegunGenerate DEF DeskCase
<1>2. CASE \E i \in DOMAIN invoices : BeginIssue(k, i) \/ BeginVoid(k, i) \/ BeginRemoveDraft(k, i)
  BY <1>2, BegunRows DEF DeskCase
<1>3. CASE ReadLedger(k)
  BY <1>3, ReadBegun DEF DeskCase
<1>4. CASE CommitGenerate(k) \/ CommitIssue(k) \/ CommitVoid(k) \/ CommitRemoveDraft(k)
  BY <1>4, GeneratedCase, IssuedCase, VoidedCase, RemovedCase DEF DeskCase
<1>5. CASE Abort(k)
  BY <1>5, UnwrittenCase DEF Abort, DeskCase
<1> QED
  BY <1>1, <1>2, <1>3, <1>4, <1>5 DEF InvoiceStep

-----------------------------------------------------------------------------
(* A sum over rows, and over what they are the only ones of. *)
LEMMA OneByOne ==
    ASSUME NEW R, NEW K, IsFiniteSet(R), IsFiniteSet(K), NEW key, NEW f, NEW g,
           f = [r \in R |-> f[r]], g = [k \in K |-> g[k]],
           \A r \in R : key[r] \in K /\ f[r] \in Int /\ f[r] = g[key[r]],
           \A r, q \in R : key[r] = key[q] => r = q,
           \A k \in K : \E r \in R : key[r] = k
    PROVE  SumFunction(f) = SumFunction(g)
<1>1. ASSUME NEW k \in K PROVE g[k] = SumFunction([r \in {x \in R : key[x] = k} |-> f[r]])
  <2>1. PICK r \in R : key[r] = k
    OBVIOUS
  <2>2. {x \in R : key[x] = k} = {r}
    BY <2>1
  <2> DEFINE q == [x \in {r} |-> f[x]]
  <2>3. DOMAIN q = {r} /\ q[r] \in Int /\ q[r] = g[k]
    BY <2>1
  <2> HIDE DEF q
  <2>4. SumFunction(q) = g[k]
    BY <2>3, TotalOne
  <2> QED
    BY <2>2, <2>4 DEF q
<1>2. Parted(R, K, f, key, g)
  BY <1>1 DEF Parted
<1> QED
  BY <1>2, SumOfParts

LEMMA SumParts ==
    ASSUME BooksTyped, NEW rows \in SUBSET (DOMAIN ledger), NEW part \in SUBSET rows, NEW rest, rest = rows \ part
    PROVE  Sum(rows) = Sum(part) + Sum(rest) /\ Sum(rows) \in Int /\ Sum(part) \in Int /\ Sum(rest) \in Int
<1> DEFINE f == [i \in rows |-> ledger[i].amount]
           g == [i \in part |-> ledger[i].amount]
           h == [i \in rest |-> ledger[i].amount]
<1>1. IsFiniteSet(rows) /\ Sum(rows) \in Int /\ Sum(part) \in Int /\ Sum(rest) \in Int
  BY SumIsInt
<1>2. /\ IsFiniteSet(DOMAIN f) /\ (\A y \in DOMAIN f : f[y] \in Int)
      /\ DOMAIN g \in SUBSET (DOMAIN f) /\ DOMAIN h = DOMAIN f \ DOMAIN g
      /\ (\A y \in DOMAIN g : g[y] = f[y]) /\ (\A y \in DOMAIN h : h[y] = f[y])
  BY <1>1, EntryAmounts
<1> HIDE DEF f, g, h
<1>3. SumFunction(f) = SumFunction(g) + SumFunction(h)
  BY <1>2, TotalSplit, ZenonT(60)
<1> QED
  BY <1>1, <1>3 DEF Sum, f, g, h

(* The entries of the sales of a plain period bill what its lines bill. *)
LEMMA SaleEntriesBill ==
    ASSUME BooksTyped, SalesBooked, NEW of \in {"delivery", "order"},
           NEW rows \in SUBSET (DOMAIN ledger), NEW lines \in SUBSET (DOMAIN Goods(of)),
           \A i \in rows : ledger[i].type = TypeOf(of),
           {ledger[i].id : i \in rows} = lines,
           NEW g, g = [d \in lines |-> Goods(of)[d].amount]
    PROVE  Sum(rows) = SumFunction(g)
<1> DEFINE f == [i \in rows |-> ledger[i].amount]
           key == [i \in rows |-> ledger[i].id]
<1>1. Booked(ledger, Goods(of), TypeOf(of), of)
  BY DEF SalesBooked
<1>2. IsFiniteSet(rows) /\ \A i \in rows : ledger[i].amount \in Int
  BY SumIsInt, EntryAmounts
<1>3. IsFiniteSet(lines)
  <2>1. DOMAIN Goods(of) = DOMAIN deliveries \/ DOMAIN Goods(of) = DOMAIN orders
    BY DEF Goods
  <2> QED
    BY <2>1, GoodsAmounts, FS_Subset
<1>4. \A i \in rows : key[i] \in lines /\ f[i] \in Int /\ f[i] = g[key[i]]
  BY <1>1, <1>2 DEF Booked
<1>5. \A i, j \in rows : key[i] = key[j] => i = j
  BY <1>1 DEF Booked
<1>6. \A d \in lines : \E i \in rows : key[i] = d
  OBVIOUS
<1>7. f = [i \in rows |-> f[i]] /\ g = [d \in lines |-> g[d]]
  OBVIOUS
<1> HIDE DEF f, key
<1>8. SumFunction(f) = SumFunction(g)
  BY ONLY <1>2, <1>3, <1>4, <1>5, <1>6, <1>7, OneByOne
<1> QED
  BY <1>8 DEF Sum, f

LEMMA SalePostedIs == \A i : SalePosted(i) <=> ledger[i].type \in {"DELIVERY_SALE", "ORDER_SALE"}
BY DEF SalePosted

LEMMA PlainDeliveries ==
    ASSUME BooksTyped, SalesBooked, NEW c, NEW from, NEW to, PeriodIsPlain(c, from, to)
    PROVE  Sum({i \in Period(c, from, to) : ledger[i].type = "DELIVERY_SALE"}) = SalesOf(DeliveryLines(c, from, to))
<1> DEFINE rows == {i \in Period(c, from, to) : ledger[i].type = "DELIVERY_SALE"}
           lines == DeliveryLines(c, from, to)
           sold == {i \in Period(c, from, to) : SalePosted(i)}
<1>1. {<<ledger[i].of, ledger[i].id>> : i \in sold}
          = {<<"delivery", i>> : i \in lines} \cup {<<"order", i>> : i \in OrderLines(c, from, to)}
  BY DEF PeriodIsPlain
<1>2. rows \in SUBSET (DOMAIN ledger) /\ sold \in SUBSET (DOMAIN ledger) /\ rows \subseteq sold
  BY SalePostedIs DEF Period, EntriesOf
<1>3. /\ \A i \in DOMAIN ledger : ledger[i].type = "DELIVERY_SALE" => ledger[i].of = "delivery"
      /\ \A i \in DOMAIN ledger : ledger[i].type = "ORDER_SALE" => ledger[i].of = "order"
  BY DEF SalesBooked, Booked, TypeOf
<1>4. {ledger[i].id : i \in rows} = lines
  <2>1. ASSUME NEW i \in rows PROVE ledger[i].id \in lines
    <3>1. ledger[i].of = "delivery" /\ i \in sold
      BY <1>2, <1>3
    <3> HIDE DEF rows, sold, lines
    <3>2. <<ledger[i].of, ledger[i].id>> \in {<<"delivery", d>> : d \in lines} \cup {<<"order", o>> : o \in OrderLines(c, from, to)}
      BY <1>1, <3>1
    <3> QED
      BY <3>1, <3>2
  <2>2. ASSUME NEW d \in lines PROVE \E i \in rows : ledger[i].id = d
    <3> HIDE DEF sold, lines
    <3>1. PICK i \in sold : <<"delivery", d>> = <<ledger[i].of, ledger[i].id>>
      BY <1>1
    <3>2. ledger[i].of = "delivery" /\ ledger[i].id = d
      BY <3>1
    <3>3. i \in Period(c, from, to) /\ ledger[i].type \in {"DELIVERY_SALE", "ORDER_SALE"} /\ i \in DOMAIN ledger
      BY <1>2, SalePostedIs DEF sold
    <3>4. ledger[i].type = "DELIVERY_SALE"
      BY <1>3, <3>2, <3>3
    <3> QED
      BY <3>2, <3>3, <3>4
  <2> HIDE DEF rows, lines
  <2> QED
    BY <2>1, <2>2
<1>5. lines \in SUBSET (DOMAIN Goods("delivery")) /\ \A i \in rows : ledger[i].type = TypeOf("delivery")
  BY DEF DeliveryLines, Goods, TypeOf
<1> DEFINE g == [d \in lines |-> Goods("delivery")[d].amount]
<1>6. g = [d \in lines |-> Sale(deliveries[d])]
  BY <1>5 DEF Goods
<1>7. Sum(rows) = SumFunction(g)
  <2> HIDE DEF rows, lines
  <2> QED
    BY <1>2, <1>4, <1>5, SaleEntriesBill
<1> QED
  BY <1>6, <1>7 DEF SalesOf

LEMMA PlainOrders ==
    ASSUME BooksTyped, SalesBooked, NEW c, NEW from, NEW to, PeriodIsPlain(c, from, to)
    PROVE  Sum({i \in Period(c, from, to) : ledger[i].type = "ORDER_SALE"}) = TotalOf(OrderLines(c, from, to))
<1> DEFINE rows == {i \in Period(c, from, to) : ledger[i].type = "ORDER_SALE"}
           lines == OrderLines(c, from, to)
           sold == {i \in Period(c, from, to) : SalePosted(i)}
<1>1. {<<ledger[i].of, ledger[i].id>> : i \in sold}
          = {<<"delivery", i>> : i \in DeliveryLines(c, from, to)} \cup {<<"order", i>> : i \in lines}
  BY DEF PeriodIsPlain
<1>2. rows \in SUBSET (DOMAIN ledger) /\ sold \in SUBSET (DOMAIN ledger) /\ rows \subseteq sold
  BY SalePostedIs DEF Period, EntriesOf
<1>3. /\ \A i \in DOMAIN ledger : ledger[i].type = "DELIVERY_SALE" => ledger[i].of = "delivery"
      /\ \A i \in DOMAIN ledger : ledger[i].type = "ORDER_SALE" => ledger[i].of = "order"
  BY DEF SalesBooked, Booked, TypeOf
<1>4. {ledger[i].id : i \in rows} = lines
  <2>1. ASSUME NEW i \in rows PROVE ledger[i].id \in lines
    <3>1. ledger[i].of = "order" /\ i \in sold
      BY <1>2, <1>3
    <3> HIDE DEF rows, sold, lines
    <3>2. <<ledger[i].of, ledger[i].id>> \in {<<"delivery", d>> : d \in DeliveryLines(c, from, to)} \cup {<<"order", o>> : o \in lines}
      BY <1>1, <3>1
    <3> QED
      BY <3>1, <3>2
  <2>2. ASSUME NEW d \in lines PROVE \E i \in rows : ledger[i].id = d
    <3> HIDE DEF sold, lines
    <3>1. PICK i \in sold : <<"order", d>> = <<ledger[i].of, ledger[i].id>>
      BY <1>1
    <3>2. ledger[i].of = "order" /\ ledger[i].id = d
      BY <3>1
    <3>3. i \in Period(c, from, to) /\ ledger[i].type \in {"DELIVERY_SALE", "ORDER_SALE"} /\ i \in DOMAIN ledger
      BY <1>2, SalePostedIs DEF sold
    <3>4. ledger[i].type = "ORDER_SALE"
      BY <1>3, <3>2, <3>3
    <3> QED
      BY <3>2, <3>3, <3>4
  <2> HIDE DEF rows, lines
  <2> QED
    BY <2>1, <2>2
<1>5. lines \in SUBSET (DOMAIN Goods("order")) /\ \A i \in rows : ledger[i].type = TypeOf("order")
  BY DEF OrderLines, Billable, Goods, TypeOf
<1> DEFINE g == [d \in lines |-> Goods("order")[d].amount]
<1>6. g = [d \in lines |-> Total(orders[d])]
  BY <1>5 DEF Goods
<1>7. Sum(rows) = SumFunction(g)
  <2> HIDE DEF rows, lines
  <2> QED
    BY <1>2, <1>4, <1>5, SaleEntriesBill
<1> QED
  BY <1>6, <1>7 DEF TotalOf

(* So a plain period takes the balance of its first day to that of the day after its last. *)
LEMMA PlainCloses ==
    ASSUME BooksTyped, SalesBooked, NEW c, NEW from \in Nat, NEW to \in Nat, from <= to, PeriodIsPlain(c, from, to)
    PROVE  OpeningBalance(c, to + 1) = OpeningBalance(c, from) + SalesTotal(c, from, to)
               - PaymentsTotal(c, from, to) + AdjustmentsTotal(c, from, to)
<1> DEFINE early == {i \in EntriesOf(c) : ledger[i].at < Midnight(from) - scene.zone}
           all == {i \in EntriesOf(c) : ledger[i].at < Midnight(to + 1) - scene.zone}
           mid == Period(c, from, to)
           of(types) == {i \in mid : ledger[i].type \in types}
<1>1. \A i \in DOMAIN ledger : ledger[i].at \in Int /\ ledger[i].type \in EntryTypes
  <2>1. \A i \in DOMAIN ledger : ledger[i] \in EntryRow
    BY SeqDomain DEF BooksTyped
  <2> QED
    BY <2>1 DEF EntryRow
<1>2. scene.zone \in Int
  BY SceneIs DEF BooksTyped, Ticking
<1>3. all \in SUBSET (DOMAIN ledger) /\ early \in SUBSET all /\ mid = all \ early
  <2>1. \A i \in EntriesOf(c) : i \in mid <=> ~(ledger[i].at < Midnight(from) - scene.zone) /\ ledger[i].at < Midnight(to + 1) - scene.zone
    BY <1>1, <1>2 DEF Period, InZonedDays, EntriesOf, Midnight
  <2>2. \A i \in EntriesOf(c) : ledger[i].at < Midnight(from) - scene.zone => ledger[i].at < Midnight(to + 1) - scene.zone
    BY <1>1, <1>2 DEF EntriesOf, Midnight
  <2>3. mid \subseteq EntriesOf(c) /\ EntriesOf(c) \in SUBSET (DOMAIN ledger)
    BY DEF Period, EntriesOf
  <2> HIDE DEF mid
  <2> QED
    BY <2>1, <2>2, <2>3
<1> DEFINE d == of({"DELIVERY_SALE"})
           o == of({"ORDER_SALE"})
           p == of({"PAYMENT"})
           a == of({"ADJUSTMENT", "OPENING_BALANCE"})
<1>4. Sum(all) = Sum(early) + Sum(mid) /\ Sum(early) \in Int /\ Sum(mid) \in Int /\ mid \in SUBSET (DOMAIN ledger)
  <2> HIDE DEF all, early, mid
  <2> QED
    BY <1>3, SumParts
<1>5. /\ d \in SUBSET mid /\ o \in SUBSET (mid \ d) /\ p \in SUBSET ((mid \ d) \ o) /\ a = ((mid \ d) \ o) \ p
  <2>1. \A i \in mid : ledger[i].type \in EntryTypes
    BY <1>1, <1>4
  <2> HIDE DEF mid
  <2> QED
    BY <2>1 DEF EntryTypes
<1> HIDE DEF all, early, mid, d, o, p, a
<1>6. Sum(mid) = Sum(d) + Sum(mid \ d) /\ Sum(d) \in Int /\ Sum(mid \ d) \in Int /\ mid \ d \in SUBSET (DOMAIN ledger)
  BY <1>4, <1>5, SumParts
<1>7. Sum(mid \ d) = Sum(o) + Sum((mid \ d) \ o) /\ Sum(o) \in Int /\ Sum((mid \ d) \ o) \in Int /\ (mid \ d) \ o \in SUBSET (DOMAIN ledger)
  BY <1>5, <1>6, SumParts
<1>8. Sum((mid \ d) \ o) = Sum(p) + Sum(a) /\ Sum(p) \in Int /\ Sum(a) \in Int
  BY <1>5, <1>7, SumParts
<1>9. Sum(d) = SalesOf(DeliveryLines(c, from, to))
  <2>1. d = {i \in Period(c, from, to) : ledger[i].type = "DELIVERY_SALE"}
    BY DEF d, mid
  <2> QED
    BY <2>1, PlainDeliveries
<1>10. Sum(o) = TotalOf(OrderLines(c, from, to))
  <2>1. o = {i \in Period(c, from, to) : ledger[i].type = "ORDER_SALE"}
    BY DEF o, mid
  <2> QED
    BY <2>1, PlainOrders
<1>11. PaymentsTotal(c, from, to) = -Sum(p)
  <2>1. p = {i \in Period(c, from, to) : ledger[i].type = "PAYMENT"}
    BY DEF p, mid
  <2> QED
    BY <2>1 DEF PaymentsTotal
<1>12. AdjustmentsTotal(c, from, to) = Sum(a)
  BY DEF AdjustmentsTotal, a, mid
<1>13. OpeningBalance(c, from) = Sum(early) /\ OpeningBalance(c, to + 1) = Sum(all)
  BY DEF OpeningBalance, Before, early, all
<1>14. SalesTotal(c, from, to) = Sum(d) + Sum(o)
  BY <1>9, <1>10 DEF SalesTotal
<1> QED
  BY <1>4, <1>6, <1>7, <1>8, <1>11, <1>12, <1>13, <1>14

-----------------------------------------------------------------------------
(* What a draft shows: the balances of a ledger, and the sales of that moment. *)
SumIn(rows, part) == SumFunction([i \in part |-> rows[i].amount])
RowsOf(rows, c) == {i \in DOMAIN rows : rows[i].who = c}
PeriodIn(rows, c, from, to) == {i \in RowsOf(rows, c) : InZonedDays(rows[i].at, from, to, scene.zone)}
OpeningIn(rows, c, from) == SumIn(rows, {i \in RowsOf(rows, c) : rows[i].at < Midnight(from) - scene.zone})
PaidIn(rows, c, from, to) == -SumIn(rows, {i \in PeriodIn(rows, c, from, to) : rows[i].type = "PAYMENT"})
AdjustedIn(rows, c, from, to) ==
    SumIn(rows, {i \in PeriodIn(rows, c, from, to) : rows[i].type \in {"ADJUSTMENT", "OPENING_BALANCE"}})
OtherIn(rows, c, from, to) == OpeningIn(rows, c, from) - PaidIn(rows, c, from, to) + AdjustedIn(rows, c, from, to)
ShowsReads(f) == \E rows :
    /\ f.seen = {rows} /\ Len(rows) <= Len(ledger) /\ f.opening = OpeningIn(rows, f.who, f.from)
    /\ Len(rows) = Len(ledger) => f.sales = SalesTotal(f.who, f.from, f.to)
ShowsDraft(f) == \A rows : f.seen = {rows} =>
    /\ Len(rows) <= Len(ledger)
    /\ Len(rows) = Len(ledger) => f.closing = SalesTotal(f.who, f.from, f.to) + OtherIn(rows, f.who, f.from, f.to)
SawLedgers(f) == f.seen # {} /\ f.seen \in SUBSET Seq(EntryRow)
Shows(f) ==
    /\ f.op \in {"reads", "draft"} => SawLedgers(f)
    /\ f.op = "reads" => ShowsReads(f)
    /\ f.op = "draft" => ShowsDraft(f)
DeskShows == \A k \in Desks : Shows(desk[k])

LEMMA NowIn ==
    /\ \A c, from : OpeningIn(ledger, c, from) = OpeningBalance(c, from)
    /\ \A c, from, to : PaidIn(ledger, c, from, to) = PaymentsTotal(c, from, to)
    /\ \A c, from, to : AdjustedIn(ledger, c, from, to) = AdjustmentsTotal(c, from, to)
<1>1. \A part : SumIn(ledger, part) = Sum(part)
  BY DEF SumIn, Sum
<1>2. \A c : RowsOf(ledger, c) = EntriesOf(c)
  BY DEF RowsOf, EntriesOf
<1>3. \A c, from, to : PeriodIn(ledger, c, from, to) = Period(c, from, to)
  BY <1>2 DEF PeriodIn, Period
<1> QED
  BY <1>1, <1>2, <1>3 DEF OpeningIn, OpeningBalance, Before, PaidIn, PaymentsTotal, AdjustedIn, AdjustmentsTotal

LEMMA SameSalesTotal ==
    ASSUME SameSales, scene' = scene, NEW c, NEW from, NEW to PROVE SalesTotal(c, from, to)' = SalesTotal(c, from, to)
<1>1. DeliveryLines(c, from, to)' = DeliveryLines(c, from, to)
  BY DEF SameSales, DeliveryLines
<1>2. OrderLines(c, from, to)' = OrderLines(c, from, to)
  BY DEF SameSales, OrderLines, Billable
<1>3. SalesOf(DeliveryLines(c, from, to))' = SalesOf(DeliveryLines(c, from, to))
  BY <1>1 DEF SameSales, SalesOf
<1>4. OrderLines(c, from, to) \subseteq DOMAIN orders
  BY DEF OrderLines, Billable
<1>5. [i \in OrderLines(c, from, to) |-> Total(orders'[i])] = [i \in OrderLines(c, from, to) |-> Total(orders[i])]
  BY <1>4 DEF SameSales
<1>6. TotalOf(OrderLines(c, from, to))' = TotalOf(OrderLines(c, from, to))
  BY <1>2, <1>5 DEF TotalOf
<1> QED
  BY <1>3, <1>6 DEF SalesTotal

LEMMA SameIn ==
    ASSUME scene' = scene
    PROVE  /\ \A rows, c, from : OpeningIn(rows, c, from)' = OpeningIn(rows, c, from)
           /\ \A rows, c, from, to : OtherIn(rows, c, from, to)' = OtherIn(rows, c, from, to)
<1>1. \A rows, c, from : OpeningIn(rows, c, from)' = OpeningIn(rows, c, from)
  BY DEF OpeningIn, SumIn, RowsOf
<1>2. \A rows, c, from, to : PeriodIn(rows, c, from, to)' = PeriodIn(rows, c, from, to)
  BY DEF PeriodIn, RowsOf
<1>3. \A rows, part : SumIn(rows, part)' = SumIn(rows, part)
  BY DEF SumIn
<1>4. \A rows, c, from, to : PaidIn(rows, c, from, to)' = PaidIn(rows, c, from, to)
                             /\ AdjustedIn(rows, c, from, to)' = AdjustedIn(rows, c, from, to)
  BY <1>2, <1>3 DEF PaidIn, AdjustedIn
<1> QED
  BY <1>1, <1>4 DEF OtherIn

(* A step of the books makes the ledger longer, or leaves the sales as they are. *)
LEMMA StillShows ==
    ASSUME BooksTyped, SalesBooked, BookCase, NEW f, Shows(f)
    PROVE  Shows(f)'
<1>1. /\ Len(ledger) \in Nat /\ Len(ledger') \in Nat /\ Len(ledger) <= Len(ledger')
      /\ Len(ledger') = Len(ledger) => SameSales
  BY LongerOrSame
<1>2. scene' = scene
  BY DEF BookCase
<1>3. Len(ledger') = Len(ledger) => \A c, from, to : SalesTotal(c, from, to)' = SalesTotal(c, from, to)
  BY <1>1, <1>2, SameSalesTotal
<1>4. /\ \A rows, c, from : OpeningIn(rows, c, from)' = OpeningIn(rows, c, from)
      /\ \A rows, c, from, to : OtherIn(rows, c, from, to)' = OtherIn(rows, c, from, to)
  BY <1>2, SameIn
<1>5. ASSUME f.op = "reads" PROVE ShowsReads(f)'
  <2>1. PICK rows : /\ f.seen = {rows} /\ Len(rows) <= Len(ledger) /\ f.opening = OpeningIn(rows, f.who, f.from)
                    /\ Len(rows) = Len(ledger) => f.sales = SalesTotal(f.who, f.from, f.to)
    BY <1>5 DEF Shows, ShowsReads
  <2>2. Len(rows) \in Nat
    BY <1>5, <2>1 DEF Shows, SawLedgers
  <2>3. Len(rows) <= Len(ledger') /\ (Len(rows) = Len(ledger') => Len(rows) = Len(ledger) /\ Len(ledger') = Len(ledger))
    BY <1>1, <2>1, <2>2
  <2>4. Len(rows) = Len(ledger') => f.sales = SalesTotal(f.who, f.from, f.to)'
    BY <1>3, <2>1, <2>3
  <2>5. f.opening = OpeningIn(rows, f.who, f.from)'
    BY <1>4, <2>1
  <2> QED
    BY <2>1, <2>3, <2>4, <2>5 DEF ShowsReads
<1>6. ASSUME f.op = "draft" PROVE ShowsDraft(f)'
  <2> SUFFICES ASSUME NEW rows, f.seen = {rows}
               PROVE  /\ Len(rows) <= Len(ledger')
                      /\ Len(rows) = Len(ledger') =>
                             f.closing = SalesTotal(f.who, f.from, f.to)' + OtherIn(rows, f.who, f.from, f.to)'
    BY DEF ShowsDraft
  <2>1. /\ Len(rows) <= Len(ledger) /\ Len(rows) \in Nat
        /\ Len(rows) = Len(ledger) => f.closing = SalesTotal(f.who, f.from, f.to) + OtherIn(rows, f.who, f.from, f.to)
    BY <1>6 DEF Shows, ShowsDraft, SawLedgers
  <2>2. Len(rows) <= Len(ledger') /\ (Len(rows) = Len(ledger') => Len(rows) = Len(ledger) /\ Len(ledger') = Len(ledger))
    BY <1>1, <2>1
  <2> SUFFICES ASSUME Len(rows) = Len(ledger')
               PROVE  f.closing = SalesTotal(f.who, f.from, f.to)' + OtherIn(rows, f.who, f.from, f.to)'
    BY <2>2
  <2> QED
    BY <1>3, <1>4, <2>1, <2>2
<1> QED
  BY <1>5, <1>6 DEF Shows, SawLedgers, EntryRow, EntryTypes, Documents

LEMMA UnchangedShows ==
    ASSUME bookVars' = bookVars, NEW f, Shows(f) PROVE Shows(f)'
<1>1. ledger' = ledger /\ deliveries' = deliveries /\ orders' = orders /\ scene' = scene
  BY DEF bookVars
<1>2. \A c, from, to : SalesTotal(c, from, to)' = SalesTotal(c, from, to)
  <2>1. SameSales
    BY <1>1 DEF SameSales
  <2> QED
    BY <1>1, <2>1, SameSalesTotal
<1>3. /\ \A rows, c, from : OpeningIn(rows, c, from)' = OpeningIn(rows, c, from)
      /\ \A rows, c, from, to : OtherIn(rows, c, from, to)' = OtherIn(rows, c, from, to)
  BY <1>1, SameIn
<1>4. ShowsReads(f)' <=> ShowsReads(f)
  BY <1>1, <1>2, <1>3 DEF ShowsReads
<1>5. ShowsDraft(f)' <=> ShowsDraft(f)
  BY <1>1, <1>2, <1>3 DEF ShowsDraft
<1> QED
  BY <1>4, <1>5 DEF Shows, SawLedgers, EntryRow, EntryTypes, Documents

LEMMA OthersShow == ASSUME NEW f, f.op \notin {"reads", "draft"} PROVE Shows(f)
BY DEF Shows

(* The draft is made of the reads. *)
LEMMA BegunShows ==
    ASSUME BooksTyped, NEW k, NEW c, NEW p, BeginGenerate(k, c, p),
           NEW f, f = [op |-> "reads", who |-> c, from |-> p.from, to |-> p.to,
                       opening |-> OpeningBalance(c, p.from), sales |-> SalesTotal(c, p.from, p.to), seen |-> {ledger}]
    PROVE  Shows(f)
<1>1. /\ f.op = "reads" /\ f.seen = {ledger} /\ f.opening = OpeningBalance(f.who, f.from)
      /\ f.sales = SalesTotal(f.who, f.from, f.to)
  OBVIOUS
<1>2. ledger \in Seq(EntryRow) /\ Len(ledger) <= Len(ledger)
  BY DEF BooksTyped
<1>3. ShowsReads(f)
  BY <1>1, <1>2, NowIn DEF ShowsReads
<1> QED
  BY <1>1, <1>2, <1>3 DEF Shows, SawLedgers

LEMMA ReadShows ==
    ASSUME BooksTyped, NEW g, g.op = "reads", Shows(g), g.opening \in Int, g.sales \in Int,
           NEW drafts, NEW f,
           f = [op |-> "draft", who |-> g.who, from |-> g.from, to |-> g.to, replaces |-> drafts,
                seen |-> g.seen \cup {ledger},
                closing |-> g.opening + g.sales - PaymentsTotal(g.who, g.from, g.to)
                            + AdjustmentsTotal(g.who, g.from, g.to)]
    PROVE  Shows(f)
<1>1. /\ f.op = "draft" /\ f.seen = g.seen \cup {ledger} /\ f.who = g.who /\ f.from = g.from /\ f.to = g.to
      /\ f.closing = g.opening + g.sales - PaymentsTotal(g.who, g.from, g.to) + AdjustmentsTotal(g.who, g.from, g.to)
  OBVIOUS
<1>2. ledger \in Seq(EntryRow) /\ Len(ledger) <= Len(ledger)
  BY DEF BooksTyped
<1>3. SawLedgers(f)
  BY <1>1, <1>2 DEF Shows, SawLedgers
<1>4. PICK old : /\ g.seen = {old} /\ Len(old) <= Len(ledger) /\ g.opening = OpeningIn(old, g.who, g.from)
                 /\ Len(old) = Len(ledger) => g.sales = SalesTotal(g.who, g.from, g.to)
  BY DEF Shows, ShowsReads
<1>5. PaymentsTotal(g.who, g.from, g.to) \in Int /\ AdjustmentsTotal(g.who, g.from, g.to) \in Int
  BY PaidAndAdjustedInt
<1>6. ASSUME NEW rows, f.seen = {rows}
      PROVE  /\ Len(rows) <= Len(ledger)
             /\ f.closing = SalesTotal(f.who, f.from, f.to) + OtherIn(rows, f.who, f.from, f.to)
  <2>1. rows = ledger /\ old = ledger
    <3>1. ledger \in f.seen /\ old \in f.seen
      BY <1>1, <1>4
    <3> QED
      BY <1>6, <3>1
  <2>2. OtherIn(rows, f.who, f.from, f.to)
            = g.opening - PaymentsTotal(g.who, g.from, g.to) + AdjustmentsTotal(g.who, g.from, g.to)
    BY <1>1, <1>4, <2>1, NowIn DEF OtherIn
  <2>3. SalesTotal(f.who, f.from, f.to) = g.sales
    BY <1>1, <1>4, <2>1
  <2> QED
    BY <1>1, <1>2, <1>5, <2>1, <2>2, <2>3
<1>7. ShowsDraft(f)
  BY <1>6 DEF ShowsDraft
<1> QED
  BY <1>1, <1>3, <1>7 DEF Shows

LEMMA InvoiceShows ==
    ASSUME BooksTyped, DeskTyped, DeskShows, NEW k \in Desks, InvoiceStep(k) PROVE DeskShows'
<1>1. bookVars' = bookVars
  BY DEF InvoiceStep, BeginGenerate, BeginIssue, BeginVoid, BeginRemoveDraft, ReadLedger, CommitGenerate,
         CommitIssue, CommitVoid, CommitRemoveDraft, Abort
<1>2. \E f : Shows(f) /\ desk' = [desk EXCEPT ![k] = f]
  <2>1. CASE \E c \in Customers, p \in Periods : BeginGenerate(k, c, p)
    BY <2>1, BegunShows DEF BeginGenerate, Starts
  <2>2. CASE \E i \in DOMAIN invoices : BeginIssue(k, i) \/ BeginVoid(k, i) \/ BeginRemoveDraft(k, i)
    <3>1. PICK i \in DOMAIN invoices : BeginIssue(k, i) \/ BeginVoid(k, i) \/ BeginRemoveDraft(k, i)
      BY <2>2
    <3>2. \/ desk' = [desk EXCEPT ![k] = [op |-> "issue", invoice |-> i, number |-> lastInvoiceSeq + 1]]
          \/ desk' = [desk EXCEPT ![k] = [op |-> "void", invoice |-> i]]
          \/ desk' = [desk EXCEPT ![k] = [op |-> "remove", invoice |-> i]]
      BY <3>1 DEF BeginIssue, BeginVoid, BeginRemoveDraft, Starts
    <3>3. /\ Shows([op |-> "issue", invoice |-> i, number |-> lastInvoiceSeq + 1])
          /\ Shows([op |-> "void", invoice |-> i]) /\ Shows([op |-> "remove", invoice |-> i])
      BY DEF Shows
    <3> QED
      BY <3>2, <3>3
  <2>3. CASE ReadLedger(k)
    <3> DEFINE g == desk[k]
               drafts == {i \in DOMAIN invoices : /\ invoices[i].status = "DRAFT" /\ invoices[i].who = g.who
                                                  /\ invoices[i].from = g.from /\ invoices[i].to = g.to}
               f == [op |-> "draft", who |-> g.who, from |-> g.from, to |-> g.to, replaces |-> drafts,
                     seen |-> g.seen \cup {ledger},
                     closing |-> g.opening + g.sales - PaymentsTotal(g.who, g.from, g.to)
                                 + AdjustmentsTotal(g.who, g.from, g.to)]
    <3>1. g.op = "reads" /\ desk' = [desk EXCEPT ![k] = f]
      BY <2>3 DEF ReadLedger, Holds
    <3>2. g.opening \in Int /\ g.sales \in Int
      BY <3>1 DEF DeskTyped, FrameTyped, Idle
    <3>3. Shows(g)
      BY DEF DeskShows
    <3>4. Shows(f)
      <4> HIDE DEF g, drafts
      <4> QED
        BY <3>1, <3>2, <3>3, ReadShows
    <3> QED
      BY <3>1, <3>4
  <2>4. CASE CommitGenerate(k) \/ CommitIssue(k) \/ CommitVoid(k) \/ CommitRemoveDraft(k) \/ Abort(k)
    <3>1. desk' = [desk EXCEPT ![k] = Idle]
      BY <2>4 DEF CommitGenerate, CommitIssue, CommitVoid, CommitRemoveDraft, Abort, Ends
    <3> QED
      BY <3>1, IdleIs, OthersShow
  <2> QED
    BY <2>1, <2>2, <2>3, <2>4 DEF InvoiceStep
<1>3. PICK f : Shows(f) /\ desk' = [desk EXCEPT ![k] = f]
  BY <1>2
<1>4. desk'[k] = f /\ \A n \in Desks \ {k} : desk'[n] = desk[n]
  BY <1>3, DeskPut
<1>5. \A n \in Desks : Shows(desk'[n])
  BY <1>3, <1>4 DEF DeskShows
<1> SUFFICES ASSUME NEW n \in Desks PROVE Shows(desk[n])'
  BY DEF DeskShows
<1> QED
  BY <1>1, <1>5, UnchangedShows

-----------------------------------------------------------------------------
(* The days of the calendar. *)
LEMMA MonthsAre ==
    /\ Months = 1..Len(MonthLengths) /\ Len(MonthLengths) \in Nat \ {0}
    /\ \A m \in Months : MonthLengths[m] \in Nat \ {0}
<1>1. MonthLengths \in Seq(Nat \ {0}) /\ MonthLengths # <<>>
  BY CalendarAssumption, BooksAssumption
<1>2. DOMAIN MonthLengths = 1..Len(MonthLengths) /\ Len(MonthLengths) \in Nat /\ \A m \in DOMAIN MonthLengths : MonthLengths[m] \in Nat \ {0}
  BY <1>1, SeqDomain
<1>3. Len(MonthLengths) # 0
  BY <1>1
<1> QED
  BY <1>2, <1>3 DEF Months

LEMMA FirstOne == FirstOf(1) = 1
<1> DEFINE f == [k \in 1..(1 - 1) |-> MonthLengths[k]]
<1>1. DOMAIN f = {}
  OBVIOUS
<1> HIDE DEF f
<1>2. SumFunction(f) = 0
  BY <1>1, TotalEmpty
<1> QED
  BY <1>2 DEF FirstOf, f

LEMMA FirstNext == ASSUME NEW m \in Nat \ {0}, m <= Len(MonthLengths) PROVE FirstOf(m + 1) = FirstOf(m) + MonthLengths[m] /\ FirstOf(m) \in Int
<1> DEFINE f == [k \in 1..(m - 1) |-> MonthLengths[k]]
           g == [k \in 1..((m + 1) - 1) |-> MonthLengths[k]]
<1>1. /\ DOMAIN f = 1..(m - 1) /\ IsFiniteSet(DOMAIN f) /\ m \notin DOMAIN f /\ DOMAIN g = DOMAIN f \cup {m}
  <2>1. IsFiniteSet(1..(m - 1))
    BY FS_Interval
  <2>2. 1..((m + 1) - 1) = 1..(m - 1) \cup {m}
    OBVIOUS
  <2> QED
    BY <2>1, <2>2
<1>2. (\A k \in DOMAIN f : g[k] = f[k] /\ f[k] \in Int) /\ g[m] \in Int /\ g[m] = MonthLengths[m]
  <2>1. 1..(m - 1) \subseteq Months /\ m \in Months /\ 1..(m - 1) \subseteq 1..((m + 1) - 1) /\ m \in 1..((m + 1) - 1)
    BY MonthsAre
  <2> QED
    BY <2>1, MonthsAre
<1> HIDE DEF f, g
<1>3. SumFunction(g) = SumFunction(f) + g[m] /\ SumFunction(f) \in Int
  BY <1>1, <1>2, TotalAdd
<1>4. FirstOf(m) = 1 + SumFunction(f) /\ FirstOf(m + 1) = 1 + SumFunction(g)
  BY DEF FirstOf, f, g
<1> QED
  BY <1>2, <1>3, <1>4

LEMMA FirstInt == ASSUME NEW m \in Months PROVE FirstOf(m) \in Int /\ LastOf(m) \in Int /\ FirstOf(m) <= LastOf(m)
<1>1. m \in Nat \ {0} /\ m <= Len(MonthLengths) /\ MonthLengths[m] \in Nat \ {0}
  BY MonthsAre
<1>2. FirstOf(m) \in Int
  BY <1>1, FirstNext
<1> QED
  BY <1>1, <1>2 DEF LastOf

LEMMA LastIs == LastDay \in Int /\ LastOf(1) \in Nat \ {0}
<1>1. 1 \in Months /\ Len(MonthLengths) \in Months
  BY MonthsAre
<1>2. LastOf(1) = MonthLengths[1] /\ MonthLengths[1] \in Nat \ {0}
  BY <1>1, FirstOne, MonthsAre DEF LastOf
<1> QED
  BY <1>1, <1>2, FirstInt DEF LastDay

LEMMA DaysPass == ASSUME NEW i \in Int, NEW j \in Int, i <= j, NEW z \in -1..1 PROVE LocalDay(i, z) <= LocalDay(j, z) /\ LocalDay(i, z) \in Int
BY DEF LocalDay, UtcDay

(* The clock stays on the calendar. *)
LEMMA TodayIs ==
    ASSUME Ticking
    PROVE  /\ Today \in Int /\ LastOf(1) <= Today /\ Today <= LastDay /\ 1 <= Today
           /\ Midnight(1) <= now /\ now < Midnight(LastDay + 1) /\ now \in Nat
<1>1. /\ Clock(scene) /\ scene.first \in Nat /\ scene.last \in Nat /\ scene.zone \in -1..1
      /\ now \in Nat /\ scene.first <= now /\ now <= scene.last
  BY SceneIs DEF Ticking
<1>2. /\ Midnight(1) <= scene.first /\ LastOf(1) <= LocalDay(scene.first, scene.zone)
      /\ scene.last < Midnight(LastDay + 1) /\ LocalDay(scene.last, scene.zone) <= LastDay
  BY <1>1 DEF Clock
<1>3. /\ LocalDay(scene.first, scene.zone) <= Today /\ Today <= LocalDay(scene.last, scene.zone)
      /\ Today \in Int /\ LocalDay(scene.first, scene.zone) \in Int /\ LocalDay(scene.last, scene.zone) \in Int
  <2>1. Today = LocalDay(now, scene.zone) /\ now \in Int /\ scene.first \in Int /\ scene.last \in Int
    BY <1>1 DEF Today
  <2>2. LocalDay(scene.first, scene.zone) <= LocalDay(now, scene.zone) /\ LocalDay(scene.first, scene.zone) \in Int
    BY <1>1, <2>1, DaysPass
  <2>3. LocalDay(now, scene.zone) <= LocalDay(scene.last, scene.zone) /\ LocalDay(now, scene.zone) \in Int
    BY <1>1, <2>1, DaysPass
  <2>4. LocalDay(scene.last, scene.zone) \in Int
    BY <1>1, <2>1 DEF LocalDay, UtcDay
  <2> QED
    BY <2>1, <2>2, <2>3, <2>4
<1>4. Midnight(1) \in Int /\ Midnight(LastDay + 1) \in Int
  BY LastIs DEF Midnight
<1> QED
  BY <1>1, <1>2, <1>3, <1>4, LastIs

-----------------------------------------------------------------------------
(* The bills, and what the ledger makes of them. *)
BillRow == [vendor : Vendors, total : Nat \ {0}, paid : Nat, billDate : 1..LastDay, dueDate : Nat,
            status : {"UNPAID", "PARTIALLY_PAID", "PAID", "VOID"}]
OwedRow == [who : Vendors, at : Nat, amount : Int]
BillFits(b) ==
    /\ b.paid <= b.total
    /\ b.status \in {"UNPAID", "PARTIALLY_PAID"} => b.paid < b.total
    /\ b.status = "PAID" => b.paid = b.total
    /\ b.status = "VOID" => b.paid = 0
DueOn(v) == [b \in BillRow |-> IF b.vendor = v /\ b.status # "VOID" THEN b.total - b.paid ELSE 0]
OwedOn(v) == [e \in OwedRow |-> IF e.who = v THEN e.amount ELSE 0]
VendorTyped ==
    /\ bills \in Seq(BillRow) /\ vendorLedger \in Seq(OwedRow)
    /\ (\A b \in DOMAIN bills : BillFits(bills[b])) /\ \A i \in DOMAIN vendorLedger : vendorLedger[i].at <= now
VendorAgrees == \A v \in Vendors : Worth(vendorLedger, OwedOn(v)) = Worth(bills, DueOn(v))

LEMMA DueInt == ASSUME NEW v PROVE DueOn(v) \in [BillRow -> Int]
<1>1. \A b \in BillRow : b.total - b.paid \in Int
  BY DEF BillRow
<1> QED
  BY <1>1 DEF DueOn

LEMMA OwedInt == ASSUME NEW v PROVE OwedOn(v) \in [OwedRow -> Int]
<1>1. \A e \in OwedRow : e.amount \in Int
  BY DEF OwedRow
<1> QED
  BY <1>1 DEF OwedOn

(* A step of the vendors: an entry with the change of one bill, a change that owes the same, or none. *)
Billed(row, e) ==
    /\ row \in BillRow /\ BillFits(row) /\ e \in OwedRow /\ e.at = now
    /\ bills' = Append(bills, row) /\ vendorLedger' = Append(vendorLedger, e)
    /\ e.who = row.vendor /\ row.status # "VOID" /\ e.amount = row.total - row.paid
Rebilled(b, row, e) ==
    /\ b \in DOMAIN bills /\ row \in BillRow /\ BillFits(row) /\ e \in OwedRow /\ e.at = now
    /\ bills' = [bills EXCEPT ![b] = row] /\ vendorLedger' = Append(vendorLedger, e)
    /\ \A v \in Vendors : DueOn(v)[row] = DueOn(v)[bills[b]] + OwedOn(v)[e]
Redated(b, row) ==
    /\ b \in DOMAIN bills /\ row \in BillRow /\ BillFits(row)
    /\ bills' = [bills EXCEPT ![b] = row] /\ vendorLedger' = vendorLedger
    /\ \A v \in Vendors : DueOn(v)[row] = DueOn(v)[bills[b]]
VendorCase ==
    \/ bills' = bills /\ vendorLedger' = vendorLedger
    \/ \E row, e : Billed(row, e)
    \/ \E b, row, e : Rebilled(b, row, e)
    \/ \E b, row : Redated(b, row)

LEMMA BilledKeeps ==
    ASSUME VendorTyped, VendorAgrees, now \in Nat, now' = now, NEW row, NEW e, Billed(row, e)
    PROVE  VendorTyped' /\ VendorAgrees'
<1>1. /\ bills \in Seq(BillRow) /\ vendorLedger \in Seq(OwedRow) /\ row \in BillRow /\ e \in OwedRow /\ BillFits(row) /\ e.at = now
      /\ bills' = Append(bills, row) /\ vendorLedger' = Append(vendorLedger, e)
  BY DEF VendorTyped, Billed
<1>2. /\ bills' \in Seq(BillRow) /\ DOMAIN bills' = DOMAIN bills \cup {Len(bills) + 1}
      /\ bills'[Len(bills) + 1] = row /\ \A n \in DOMAIN bills : bills'[n] = bills[n]
  BY <1>1, Appended
<1>3. /\ vendorLedger' \in Seq(OwedRow) /\ DOMAIN vendorLedger' = DOMAIN vendorLedger \cup {Len(vendorLedger) + 1}
      /\ vendorLedger'[Len(vendorLedger) + 1] = e /\ \A n \in DOMAIN vendorLedger : vendorLedger'[n] = vendorLedger[n]
  BY <1>1, Appended
<1>4. VendorTyped'
  BY <1>1, <1>2, <1>3 DEF VendorTyped
<1>5. ASSUME NEW v \in Vendors PROVE Worth(vendorLedger', OwedOn(v)) = Worth(bills', DueOn(v))
  <2>1. Adds(BillRow, DueOn(v), bills, row, bills') /\ Adds(OwedRow, OwedOn(v), vendorLedger, e, vendorLedger')
    BY <1>1, DueInt, OwedInt DEF Adds
  <2>2. Worth(bills', DueOn(v)) = Worth(bills, DueOn(v)) + DueOn(v)[row] /\ Worth(bills, DueOn(v)) \in Int
    BY <2>1, WorthAdd
  <2>3. Worth(vendorLedger', OwedOn(v)) = Worth(vendorLedger, OwedOn(v)) + OwedOn(v)[e]
    BY <2>1, WorthAdd
  <2>4. DueOn(v)[row] = OwedOn(v)[e]
    BY <1>1 DEF DueOn, OwedOn, Billed
  <2> QED
    BY <2>2, <2>3, <2>4 DEF VendorAgrees
<1>6. VendorAgrees'
  <2>1. \A v : DueOn(v)' = DueOn(v) /\ OwedOn(v)' = OwedOn(v)
    BY DEF DueOn, OwedOn, BillRow, OwedRow
  <2> QED
    BY <1>5, <2>1 DEF VendorAgrees, Worth
<1> QED
  BY <1>4, <1>6

LEMMA RebilledKeeps ==
    ASSUME VendorTyped, VendorAgrees, now \in Nat, now' = now, NEW b, NEW row, NEW e, Rebilled(b, row, e)
    PROVE  VendorTyped' /\ VendorAgrees'
<1>1. /\ bills \in Seq(BillRow) /\ vendorLedger \in Seq(OwedRow) /\ row \in BillRow /\ e \in OwedRow /\ BillFits(row) /\ e.at = now
      /\ b \in DOMAIN bills /\ bills' = [bills EXCEPT ![b] = row] /\ vendorLedger' = Append(vendorLedger, e)
  BY DEF VendorTyped, Rebilled
<1>2. /\ bills' \in Seq(BillRow) /\ DOMAIN bills' = DOMAIN bills
      /\ \A n \in DOMAIN bills : bills'[n] = IF n = b THEN row ELSE bills[n]
  BY <1>1, PutRow
<1>3. /\ vendorLedger' \in Seq(OwedRow) /\ DOMAIN vendorLedger' = DOMAIN vendorLedger \cup {Len(vendorLedger) + 1}
      /\ vendorLedger'[Len(vendorLedger) + 1] = e /\ \A n \in DOMAIN vendorLedger : vendorLedger'[n] = vendorLedger[n]
  BY <1>1, Appended
<1>4. VendorTyped'
  BY <1>1, <1>2, <1>3 DEF VendorTyped
<1>5. ASSUME NEW v \in Vendors PROVE Worth(vendorLedger', OwedOn(v)) = Worth(bills', DueOn(v))
  <2>1. Puts(BillRow, DueOn(v), bills, b, row, bills') /\ Adds(OwedRow, OwedOn(v), vendorLedger, e, vendorLedger')
    BY <1>1, DueInt, OwedInt DEF Adds, Puts
  <2>2. /\ Worth(bills', DueOn(v)) = Worth(bills, DueOn(v)) - DueOn(v)[bills[b]] + DueOn(v)[row]
        /\ Worth(bills, DueOn(v)) \in Int
    BY <2>1, WorthPut
  <2>3. Worth(vendorLedger', OwedOn(v)) = Worth(vendorLedger, OwedOn(v)) + OwedOn(v)[e]
    BY <2>1, WorthAdd
  <2>4. DueOn(v)[row] = DueOn(v)[bills[b]] + OwedOn(v)[e]
    BY DEF Rebilled
  <2>5. DueOn(v)[bills[b]] \in Int /\ OwedOn(v)[e] \in Int
    BY <1>1, DueInt, OwedInt, SeqDomain
  <2> QED
    BY <2>2, <2>3, <2>4, <2>5 DEF VendorAgrees
<1>6. VendorAgrees'
  <2>1. \A v : DueOn(v)' = DueOn(v) /\ OwedOn(v)' = OwedOn(v)
    BY DEF DueOn, OwedOn, BillRow, OwedRow
  <2> QED
    BY <1>5, <2>1 DEF VendorAgrees, Worth
<1> QED
  BY <1>4, <1>6

LEMMA RedatedKeeps ==
    ASSUME VendorTyped, VendorAgrees, now \in Nat, now' = now, NEW b, NEW row, Redated(b, row)
    PROVE  VendorTyped' /\ VendorAgrees'
<1>1. /\ bills \in Seq(BillRow) /\ row \in BillRow /\ BillFits(row)
      /\ b \in DOMAIN bills /\ bills' = [bills EXCEPT ![b] = row] /\ vendorLedger' = vendorLedger
  BY DEF VendorTyped, Redated
<1>2. /\ bills' \in Seq(BillRow) /\ DOMAIN bills' = DOMAIN bills
      /\ \A n \in DOMAIN bills : bills'[n] = IF n = b THEN row ELSE bills[n]
  BY <1>1, PutRow
<1>3. OwedRow' = OwedRow /\ BillRow' = BillRow
  BY DEF OwedRow, BillRow
<1>4. VendorTyped'
  BY <1>1, <1>2, <1>3 DEF VendorTyped
<1>5. ASSUME NEW v \in Vendors PROVE Worth(vendorLedger', OwedOn(v)) = Worth(bills', DueOn(v))
  <2>1. Puts(BillRow, DueOn(v), bills, b, row, bills')
    BY <1>1, DueInt DEF Puts
  <2>2. /\ Worth(bills', DueOn(v)) = Worth(bills, DueOn(v)) - DueOn(v)[bills[b]] + DueOn(v)[row]
        /\ Worth(bills, DueOn(v)) \in Int
    BY <2>1, WorthPut
  <2>3. DueOn(v)[row] = DueOn(v)[bills[b]] /\ DueOn(v)[bills[b]] \in Int
    BY <1>1, DueInt, SeqDomain DEF Redated
  <2> QED
    BY <1>1, <2>2, <2>3 DEF VendorAgrees
<1>6. VendorAgrees'
  <2>1. \A v : DueOn(v)' = DueOn(v) /\ OwedOn(v)' = OwedOn(v)
    BY DEF DueOn, OwedOn, BillRow, OwedRow
  <2> QED
    BY <1>5, <2>1 DEF VendorAgrees, Worth
<1> QED
  BY <1>4, <1>6

LEMMA BillIs ==
    ASSUME VendorTyped, NEW b \in DOMAIN bills
    PROVE  bills[b] \in BillRow /\ BillFits(bills[b]) /\ bills[b].total \in Nat \ {0} /\ bills[b].paid \in Nat
           /\ Remaining(b) = bills[b].total - bills[b].paid
<1>1. bills[b] \in BillRow /\ BillFits(bills[b])
  BY SeqDomain DEF VendorTyped
<1>2. bills[b].total \in Nat \ {0} /\ bills[b].paid \in Nat /\ bills[b].paid <= bills[b].total
  BY <1>1 DEF BillRow, BillFits
<1> QED
  BY <1>1, <1>2 DEF Remaining

(* Every step of the vendors is of one of these cases. *)
LEMMA RecordedIs ==
    ASSUME Ticking, NEW v \in Vendors, NEW type, NEW amount \in Nat
    PROVE  LET e == BillEntry(v, type, amount)
           IN  e \in OwedRow /\ e.at = now /\ e.who = v /\ e.amount = IF type = "BILL" THEN amount ELSE -amount
<1>1. now \in Nat
  BY DEF Ticking
<1> QED
  BY <1>1 DEF BillEntry, OwedRow

LEMMA AddBillCase ==
    ASSUME BooksTyped, NEW v \in Vendors, NEW total \in Nat \ {0}, NEW due \in Nat, AddBill(v, total, due)
    PROVE  \E row, e : Billed(row, e)
<1> DEFINE row == [vendor |-> v, total |-> total, paid |-> 0, billDate |-> Today, dueDate |-> due, status |-> "UNPAID"]
           e == BillEntry(v, "BILL", total)
<1>1. bills' = Append(bills, row) /\ vendorLedger' = Append(vendorLedger, e)
  BY DEF AddBill, Record
<1>2. Today \in 1..LastDay /\ Ticking
  BY TodayIs, LastIs DEF BooksTyped
<1>3. row \in BillRow /\ BillFits(row) /\ row.vendor = v /\ row.status # "VOID" /\ row.total - row.paid = total
  BY <1>2 DEF BillRow, BillFits
<1>4. e \in OwedRow /\ e.at = now /\ e.who = v /\ e.amount = total
  BY <1>2, RecordedIs
<1> HIDE DEF row, e
<1>5. Billed(row, e)
  BY <1>1, <1>3, <1>4 DEF Billed
<1> QED
  BY <1>5

LEMMA PayCase ==
    ASSUME BooksTyped, VendorTyped, NEW b \in DOMAIN bills, NEW amount \in Nat \ {0}, Pay(b, amount)
    PROVE  \E row, e : Rebilled(b, row, e)
<1> DEFINE old == bills[b]
           row == [old EXCEPT !.paid = old.paid + amount, !.status = IF amount = Remaining(b) THEN "PAID" ELSE "PARTIALLY_PAID"]
           e == BillEntry(old.vendor, "PAYMENT", amount)
<1>1. /\ old \in BillRow /\ BillFits(old) /\ old.total \in Nat \ {0} /\ old.paid \in Nat
      /\ Remaining(b) = old.total - old.paid /\ old.vendor \in Vendors
  BY BillIs DEF BillRow
<1>2. amount <= Remaining(b) /\ old.status # "VOID" /\ vendorLedger' = Append(vendorLedger, e)
  BY DEF Pay, IsOpen, Record
<1>3. bills' = [bills EXCEPT ![b] = row]
  BY DEF Pay
<1>4. old.paid + amount \in Nat /\ old.paid + amount <= old.total /\ (amount # Remaining(b) => old.paid + amount < old.total)
      /\ (amount = Remaining(b) => old.paid + amount = old.total)
  BY <1>1, <1>2
<1>5. /\ row \in BillRow /\ row.vendor = old.vendor /\ row.status # "VOID" /\ row.total = old.total
      /\ row.paid = old.paid + amount /\ row.status = IF amount = Remaining(b) THEN "PAID" ELSE "PARTIALLY_PAID"
  <2> HIDE DEF old
  <2> QED
    BY <1>1, <1>4 DEF BillRow
<1>6. e \in OwedRow /\ e.at = now /\ e.who = old.vendor /\ e.amount = -amount
  BY <1>1, RecordedIs DEF BooksTyped
<1> HIDE DEF old, row, e
<1>7. BillFits(row)
  BY <1>1, <1>4, <1>5 DEF BillFits
<1>8. ASSUME NEW v \in Vendors PROVE DueOn(v)[row] = DueOn(v)[old] + OwedOn(v)[e]
  <2>1. DueOn(v)[row] = IF old.vendor = v THEN old.total - (old.paid + amount) ELSE 0
    BY <1>5 DEF DueOn
  <2>2. DueOn(v)[old] = IF old.vendor = v THEN old.total - old.paid ELSE 0
    BY <1>1, <1>2 DEF DueOn
  <2>3. OwedOn(v)[e] = IF old.vendor = v THEN -amount ELSE 0
    BY <1>6 DEF OwedOn
  <2> QED
    BY <1>1, <2>1, <2>2, <2>3
<1>9. Rebilled(b, row, e)
  BY <1>2, <1>3, <1>5, <1>6, <1>7, <1>8 DEF Rebilled, old
<1> QED
  BY <1>9

LEMMA VoidCase ==
    ASSUME BooksTyped, VendorTyped, NEW b \in DOMAIN bills, Void(b)
    PROVE  \E row, e : Rebilled(b, row, e)
<1> DEFINE old == bills[b]
           row == [old EXCEPT !.status = "VOID"]
           e == BillEntry(old.vendor, "VOID", old.total)
<1>1. /\ old \in BillRow /\ BillFits(old) /\ old.total \in Nat \ {0} /\ old.vendor \in Vendors
  BY BillIs DEF BillRow
<1>2. old.status # "VOID" /\ old.paid = 0 /\ vendorLedger' = Append(vendorLedger, e)
  BY DEF Void, Record
<1>3. bills' = [bills EXCEPT ![b] = row]
  BY DEF Void
<1>4. row \in BillRow /\ row.vendor = old.vendor /\ row.status = "VOID" /\ row.total = old.total /\ row.paid = 0
  <2> HIDE DEF old
  <2> QED
    BY <1>1, <1>2 DEF BillRow
<1>5. e \in OwedRow /\ e.at = now /\ e.who = old.vendor /\ e.amount = -old.total
  BY <1>1, RecordedIs DEF BooksTyped
<1> HIDE DEF old, row, e
<1>6. BillFits(row)
  BY <1>1, <1>4 DEF BillFits
<1>7. ASSUME NEW v \in Vendors PROVE DueOn(v)[row] = DueOn(v)[old] + OwedOn(v)[e]
  <2>1. DueOn(v)[row] = 0
    BY <1>4 DEF DueOn
  <2>2. DueOn(v)[old] = IF old.vendor = v THEN old.total - old.paid ELSE 0
    BY <1>1, <1>2 DEF DueOn
  <2>3. OwedOn(v)[e] = IF old.vendor = v THEN -old.total ELSE 0
    BY <1>5 DEF OwedOn
  <2> QED
    BY <1>1, <1>2, <2>1, <2>2, <2>3
<1>8. Rebilled(b, row, e)
  BY <1>2, <1>3, <1>4, <1>5, <1>6, <1>7 DEF Rebilled, old
<1> QED
  BY <1>8

LEMMA RedateCase ==
    ASSUME VendorTyped, NEW b \in DOMAIN bills, NEW due \in Nat, SetDueDate(b, due)
    PROVE  \E row : Redated(b, row)
<1> DEFINE old == bills[b]
           row == [old EXCEPT !.dueDate = due]
<1>1. /\ old \in BillRow /\ BillFits(old)
  BY BillIs
<1>2. vendorLedger' = vendorLedger /\ bills' = [bills EXCEPT ![b] = row]
  BY DEF SetDueDate
<1>3. row \in BillRow /\ row.vendor = old.vendor /\ row.status = old.status /\ row.total = old.total /\ row.paid = old.paid
  <2> HIDE DEF old
  <2> QED
    BY <1>1 DEF BillRow
<1> HIDE DEF old, row
<1>4. BillFits(row)
  BY <1>1, <1>3 DEF BillFits
<1>5. \A v \in Vendors : DueOn(v)[row] = DueOn(v)[old]
  BY <1>1, <1>3 DEF DueOn
<1>6. Redated(b, row)
  BY <1>2, <1>3, <1>4, <1>5 DEF Redated, old
<1> QED
  BY <1>6

LEMMA VendorCases == ASSUME BooksTyped, VendorTyped, VendorStep PROVE VendorCase /\ bookVars' = bookVars
<1>1. /\ \A x \in scene.amounts : x \in Nat \ {0}
      /\ \A x \in scene.dates : x \in Nat
  BY SceneIs DEF BooksTyped, Ticking
<1>2. NoDay \in Nat
  BY DEF NoDay
<1>3. CASE \E v \in Vendors, total \in scene.amounts, due \in {NoDay} \cup scene.dates : CreateBill(v, total, due)
  BY <1>1, <1>2, <1>3, AddBillCase DEF CreateBill, VendorCase
<1>4. CASE \E v \in Vendors, isActive \in BOOLEAN, openingPayables \in {0} \cup scene.amounts :
               SaveVendor(v, isActive, openingPayables)
  <2>1. PICK v \in Vendors, isActive \in BOOLEAN, openingPayables \in {0} \cup scene.amounts :
             SaveVendor(v, isActive, openingPayables)
    BY <1>4
  <2>2. CASE openingPayables > 0 /\ AddBill(v, openingPayables, NoDay)
    <3>1. openingPayables \in Nat \ {0}
      BY <1>1, <2>2
    <3> QED
      BY <1>2, <2>1, <2>2, <3>1, AddBillCase DEF SaveVendor, VendorCase
  <2> QED
    BY <2>1, <2>2 DEF SaveVendor, VendorCase
<1>5. CASE \E b \in DOMAIN bills : \E amount \in scene.amounts : Pay(b, amount)
  <2>1. PICK b \in DOMAIN bills : \E amount \in scene.amounts : Pay(b, amount)
    BY <1>5
  <2>2. PICK amount \in scene.amounts : Pay(b, amount)
    BY <2>1
  <2>3. \E row, e : Rebilled(b, row, e)
    BY <1>1, <2>2, PayCase
  <2> QED
    BY <2>2, <2>3 DEF VendorCase, Pay
<1>6. CASE \E b \in DOMAIN bills : \E due \in scene.dates : SetDueDate(b, due)
  <2>1. PICK b \in DOMAIN bills : \E due \in scene.dates : SetDueDate(b, due)
    BY <1>6
  <2>2. PICK due \in scene.dates : SetDueDate(b, due)
    BY <2>1
  <2>3. \E row : Redated(b, row)
    BY <1>1, <2>2, RedateCase
  <2> QED
    BY <2>2, <2>3 DEF VendorCase, SetDueDate
<1>7. CASE \E b \in DOMAIN bills : Void(b)
  <2>1. PICK b \in DOMAIN bills : Void(b)
    BY <1>7
  <2>2. \E row, e : Rebilled(b, row, e)
    BY <2>1, VoidCase
  <2> QED
    BY <2>1, <2>2 DEF VendorCase, Void
<1> QED
  BY <1>3, <1>4, <1>5, <1>6, <1>7 DEF VendorStep

LEMMA BooksLeaveVendors ==
    ASSUME VendorTyped, VendorAgrees, bills' = bills, vendorLedger' = vendorLedger, now \in Nat, now' \in Nat, now <= now'
    PROVE  VendorTyped' /\ VendorAgrees'
<1>2. BillRow' = BillRow /\ OwedRow' = OwedRow /\ \A v : DueOn(v)' = DueOn(v) /\ OwedOn(v)' = OwedOn(v)
  BY DEF BillRow, OwedRow, DueOn, OwedOn
<1>3. \A i \in DOMAIN vendorLedger : vendorLedger[i].at \in Nat
  <2>1. \A i \in DOMAIN vendorLedger : vendorLedger[i] \in OwedRow
    BY SeqDomain DEF VendorTyped
  <2> QED
    BY <2>1 DEF OwedRow
<1>4. \A i \in DOMAIN vendorLedger : vendorLedger[i].at <= now'
  BY <1>3 DEF VendorTyped
<1>5. VendorTyped'
  BY <1>2, <1>4 DEF VendorTyped, BillFits
<1>6. VendorAgrees'
  BY <1>2 DEF VendorAgrees, Worth
<1> QED
  BY <1>5, <1>6

LEMMA VendorKeeps ==
    ASSUME VendorTyped, VendorAgrees, now \in Nat, now' = now, VendorCase PROVE VendorTyped' /\ VendorAgrees'
<1>1. CASE bills' = bills /\ vendorLedger' = vendorLedger
  <2>1. now' \in Nat /\ now <= now'
    OBVIOUS
  <2> QED
    BY <1>1, <2>1, BooksLeaveVendors
<1> QED
  BY <1>1, BilledKeeps, RebilledKeeps, RedatedKeeps DEF VendorCase

-----------------------------------------------------------------------------
(* The payables screens read the same bills. *)
LEMMA BillTable == ASSUME VendorTyped PROVE IsFiniteSet(DOMAIN bills) /\ bills \in Seq(BillRow) /\ DOMAIN bills \subseteq Nat
<1>1. bills \in Seq(BillRow)
  BY DEF VendorTyped
<1> QED
  BY <1>1, SeqDomain

LEMMA OpenIs ==
    ASSUME VendorTyped, NEW b \in DOMAIN bills
    PROVE  /\ IsOpen(b) => Remaining(b) > 0 /\ bills[b].status # "VOID"
           /\ bills[b].status # "VOID" /\ ~IsOpen(b) => bills[b].total - bills[b].paid = 0
           /\ Remaining(b) \in Int /\ Remaining(b) = bills[b].total - bills[b].paid
           /\ \A v : DueOn(v)[bills[b]] = IF b \in BillsOf(v) /\ bills[b].status # "VOID" THEN Remaining(b) ELSE 0
           /\ bills[b].dueDate \in Nat /\ bills[b].billDate \in 1..LastDay
<1>1. /\ bills[b] \in BillRow /\ BillFits(bills[b]) /\ bills[b].total \in Nat \ {0} /\ bills[b].paid \in Nat
      /\ Remaining(b) = bills[b].total - bills[b].paid
  BY BillIs
<1>2. bills[b].status \in {"UNPAID", "PARTIALLY_PAID", "PAID", "VOID"} /\ bills[b].dueDate \in Nat /\ bills[b].billDate \in 1..LastDay
  BY <1>1 DEF BillRow
<1>3. IsOpen(b) => Remaining(b) > 0 /\ bills[b].status # "VOID"
  BY <1>1 DEF IsOpen, BillFits
<1>4. bills[b].status # "VOID" /\ ~IsOpen(b) => bills[b].total - bills[b].paid = 0
  BY <1>1, <1>2 DEF IsOpen, BillFits
<1>5. \A v : DueOn(v)[bills[b]] = IF b \in BillsOf(v) /\ bills[b].status # "VOID" THEN Remaining(b) ELSE 0
  BY <1>1 DEF DueOn, BillsOf
<1> QED
  BY <1>1, <1>2, <1>3, <1>4, <1>5

LEMMA DueWithin ==
    ASSUME VendorTyped, NEW v, NEW T \in SUBSET (DOMAIN bills), NEW g, DOMAIN g = T,
           \A b \in T : g[b] = DueOn(v)[bills[b]],
           \A b \in DOMAIN bills : b \notin T => DueOn(v)[bills[b]] = 0
    PROVE  SumFunction(g) = Worth(bills, DueOn(v))
<1>1. bills \in Seq(BillRow) /\ DueOn(v) \in [BillRow -> Int]
  BY BillTable, DueInt
<1> QED
  BY <1>1, WorthWithin

LEMMA OpenSum ==
    ASSUME VendorTyped, NEW v
    PROVE  /\ OpenPayablesTotal(v) = Worth(bills, DueOn(v))
           /\ OpenPayablesTotal(v) = RemainingOf({b \in BillsOf(v) : IsOpen(b)})
<1> DEFINE T == {b \in {x \in BillsOf(v) : bills[x].status # "VOID"} : IsOpen(b)}
           g == [b \in T |-> Remaining(b)]
<1>1. T \in SUBSET (DOMAIN bills) /\ DOMAIN g = T /\ T = {b \in BillsOf(v) : IsOpen(b)}
  BY DEF BillsOf, IsOpen
<1>2. \A b \in T : g[b] = DueOn(v)[bills[b]]
  BY <1>1, OpenIs
<1>3. \A b \in DOMAIN bills : b \notin T => DueOn(v)[bills[b]] = 0
  BY OpenIs
<1>4. SumFunction(g) = RemainingOf(T) /\ OpenPayablesTotal(v) = RemainingOf(T)
  BY DEF RemainingOf, OpenPayablesTotal, PayablesSummary
<1> HIDE DEF T, g
<1> QED
  BY <1>1, <1>2, <1>3, <1>4, DueWithin

LEMMA BilledLessPaid ==
    ASSUME VendorTyped, NEW v
    PROVE  PayablesSummary(v).billed - PayablesSummary(v).paid = Worth(bills, DueOn(v))
<1> DEFINE T == {b \in BillsOf(v) : bills[b].status # "VOID"}
           f == [b \in T |-> bills[b].total]
           g == [b \in T |-> bills[b].paid]
           h == [b \in T |-> bills[b].total - bills[b].paid]
<1>1. T \in SUBSET (DOMAIN bills) /\ IsFiniteSet(T) /\ DOMAIN f = T /\ DOMAIN g = T /\ DOMAIN h = T
  BY BillTable, FS_Subset DEF BillsOf
<1>2. \A b \in T : f[b] \in Int /\ g[b] \in Int /\ h[b] = f[b] - g[b]
  BY <1>1, BillIs
<1>3. (\A b \in T : h[b] = DueOn(v)[bills[b]]) /\ \A b \in DOMAIN bills : b \notin T => DueOn(v)[bills[b]] = 0
  BY <1>1, OpenIs
<1>4. PayablesSummary(v).billed = SumFunction(f) /\ PayablesSummary(v).paid = SumFunction(g)
  BY DEF PayablesSummary, BilledOn, PaidOn
<1> HIDE DEF T, f, g, h
<1>5. SumFunction(h) = SumFunction(f) - SumFunction(g)
  BY <1>1, <1>2, TotalMinus
<1>6. SumFunction(h) = Worth(bills, DueOn(v))
  BY <1>1, <1>3, DueWithin
<1> QED
  BY <1>4, <1>5, <1>6

LEMMA PurchasesAre ==
    ASSUME VendorTyped, NEW v PROVE PurchasesByVendor(v, 1, LastDay) = Worth(bills, DueOn(v))
<1> DEFINE T == {b \in BillsOf(v) : bills[b].status # "VOID" /\ bills[b].billDate \in 1..LastDay}
           g == [b \in T |-> bills[b].total - bills[b].paid]
<1>1. T \in SUBSET (DOMAIN bills) /\ DOMAIN g = T
  BY DEF BillsOf
<1>2. (\A b \in T : g[b] = DueOn(v)[bills[b]]) /\ \A b \in DOMAIN bills : b \notin T => DueOn(v)[bills[b]] = 0
  BY <1>1, OpenIs
<1>3. PurchasesByVendor(v, 1, LastDay) = SumFunction(g)
  BY DEF PurchasesByVendor
<1> HIDE DEF T, g
<1> QED
  BY <1>1, <1>2, <1>3, DueWithin

LEMMA LedgerListed ==
    ASSUME BooksTyped, VendorTyped, NEW v PROVE ListLedger(v, 1, LastDay) = Worth(vendorLedger, OwedOn(v))
<1> DEFINE T == {i \in DOMAIN vendorLedger : vendorLedger[i].who = v}
           A == {i \in DOMAIN vendorLedger : vendorLedger[i].who = v /\ vendorLedger[i].at < Midnight(1)}
           B == VendorRows(v, 1, LastDay)
           f == [i \in T |-> vendorLedger[i].amount]
           g == [i \in A |-> vendorLedger[i].amount]
           h == [i \in B |-> vendorLedger[i].amount]
<1>1. /\ vendorLedger \in Seq(OwedRow) /\ IsFiniteSet(DOMAIN vendorLedger)
      /\ \A i \in DOMAIN vendorLedger : vendorLedger[i] \in OwedRow
  BY SeqDomain DEF VendorTyped
<1>2. \A i \in DOMAIN vendorLedger : /\ vendorLedger[i].at \in Nat /\ vendorLedger[i].at < Midnight(LastDay + 1)
                                     /\ vendorLedger[i].amount \in Int
  <2>1. now \in Nat /\ now < Midnight(LastDay + 1) /\ Midnight(LastDay + 1) \in Int
    BY TodayIs, LastIs DEF BooksTyped, Midnight
  <2>2. \A i \in DOMAIN vendorLedger : vendorLedger[i].at <= now
    BY DEF VendorTyped
  <2> QED
    BY <1>1, <2>1, <2>2 DEF OwedRow
<1>3. T \in SUBSET (DOMAIN vendorLedger) /\ IsFiniteSet(T) /\ A \in SUBSET T /\ B = T \ A
  <2>1. \A i \in DOMAIN vendorLedger : InUtcDays(vendorLedger[i].at, 1, LastDay) <=> ~(vendorLedger[i].at < Midnight(1))
    BY <1>2 DEF InUtcDays, Midnight
  <2> QED
    BY <1>1, <2>1, FS_Subset DEF VendorRows
<1>4. \A i \in DOMAIN vendorLedger : OwedOn(v)[vendorLedger[i]] = IF i \in T THEN vendorLedger[i].amount ELSE 0
  BY <1>1 DEF OwedOn
<1>5. ListLedger(v, 1, LastDay) = SumFunction(g) + SumFunction(h)
  BY DEF ListLedger, VendorSum
<1>6. /\ DOMAIN f = T /\ IsFiniteSet(DOMAIN f) /\ (\A y \in DOMAIN f : f[y] \in Int)
      /\ DOMAIN g \in SUBSET (DOMAIN f) /\ DOMAIN h = DOMAIN f \ DOMAIN g
      /\ (\A y \in DOMAIN g : g[y] = f[y]) /\ (\A y \in DOMAIN h : h[y] = f[y])
      /\ \A i \in T : f[i] = OwedOn(v)[vendorLedger[i]]
  <2> HIDE DEF B
  <2> QED
    BY <1>2, <1>3, <1>4
<1> HIDE DEF T, A, B, f, g, h
<1>7. SumFunction(f) = SumFunction(g) + SumFunction(h)
  BY <1>6, TotalSplit, ZenonT(60)
<1>8. SumFunction(f) = Worth(vendorLedger, OwedOn(v))
  <2>1. OwedOn(v) \in [OwedRow -> Int] /\ \A i \in DOMAIN vendorLedger : i \notin T => OwedOn(v)[vendorLedger[i]] = 0
    BY <1>4, OwedInt
  <2> QED
    BY <1>1, <1>3, <1>6, <2>1, WorthWithin
<1> QED
  BY <1>5, <1>7, <1>8

LEMMA RemainingSplits ==
    ASSUME VendorTyped, NEW S \in SUBSET (DOMAIN bills), NEW P \in SUBSET S, NEW Q, Q = S \ P
    PROVE  RemainingOf(S) = RemainingOf(P) + RemainingOf(Q)
<1> DEFINE f == [b \in S |-> Remaining(b)]
           g == [b \in P |-> Remaining(b)]
           h == [b \in Q |-> Remaining(b)]
<1>1. IsFiniteSet(S) /\ \A b \in S : Remaining(b) \in Int
  BY BillTable, OpenIs, FS_Subset
<1>2. /\ IsFiniteSet(DOMAIN f) /\ (\A y \in DOMAIN f : f[y] \in Int)
      /\ DOMAIN g \in SUBSET (DOMAIN f) /\ DOMAIN h = DOMAIN f \ DOMAIN g
      /\ (\A y \in DOMAIN g : g[y] = f[y]) /\ (\A y \in DOMAIN h : h[y] = f[y])
  BY <1>1
<1> HIDE DEF f, g, h
<1>3. SumFunction(f) = SumFunction(g) + SumFunction(h)
  BY <1>2, TotalSplit, ZenonT(60)
<1> QED
  BY <1>3 DEF RemainingOf, f, g, h

LEMMA DuesSplit ==
    ASSUME VendorTyped, NEW v, NEW day \in Nat
    PROVE  RemainingOf({b \in BillsOf(v) : IsOpen(b)}) =
               RemainingOf(ListDues(day) \cap BillsOf(v))
               + RemainingOf({b \in BillsOf(v) : IsOpen(b) /\ bills[b].dueDate > day})
<1> DEFINE S == {b \in BillsOf(v) : IsOpen(b)}
           P == ListDues(day) \cap BillsOf(v)
           Q == {b \in BillsOf(v) : IsOpen(b) /\ bills[b].dueDate > day}
<1>1. S \in SUBSET (DOMAIN bills)
  BY DEF BillsOf
<1>2. \A b \in DOMAIN bills : bills[b].dueDate \in Nat /\ (IsOpen(b) => Remaining(b) > 0)
  BY OpenIs
<1>3. P \in SUBSET S /\ Q = S \ P
  BY <1>2 DEF ListDues, BillsOf, NoDay
<1> HIDE DEF S, P, Q
<1>4. RemainingOf(S) = RemainingOf(P) + RemainingOf(Q)
  BY <1>1, <1>3, RemainingSplits
<1> QED
  BY <1>4 DEF S, P, Q

LEMMA ScheduleSplits ==
    ASSUME BooksTyped, VendorTyped, NEW ahead \in 1..2
    PROVE  RemainingOf(ListDues(Today + ahead)) =
               RemainingOf(ListSchedule(ahead)) + RemainingOf({b \in ListDues(Today) : bills[b].dueDate = NoDay})
<1> DEFINE S == ListDues(Today + ahead)
           P == ListSchedule(ahead)
           Q == {b \in ListDues(Today) : bills[b].dueDate = NoDay}
<1>1. S \in SUBSET (DOMAIN bills) /\ Today \in Nat
  BY TodayIs DEF ListDues, BooksTyped
<1>2. P \in SUBSET S /\ Q = S \ P
  BY <1>1 DEF ListDues, ListSchedule, NoDay
<1> HIDE DEF S, P, Q
<1>3. RemainingOf(S) = RemainingOf(P) + RemainingOf(Q)
  BY <1>1, <1>2, RemainingSplits
<1> QED
  BY <1>3 DEF S, P, Q

LEMMA PayablesAgreeing == ASSUME BooksTyped, VendorTyped, VendorAgrees PROVE PayablesAgree
<1>1. ASSUME NEW v \in Vendors
      PROVE  /\ OpenPayablesTotal(v) = ListLedger(v, 1, LastDay)
             /\ OpenPayablesTotal(v) = PayablesSummary(v).billed - PayablesSummary(v).paid
             /\ OpenPayablesTotal(v) = PurchasesByVendor(v, 1, LastDay)
             /\ \A day \in scene.dates : OpenPayablesTotal(v) =
                    RemainingOf(ListDues(day) \cap BillsOf(v))
                    + RemainingOf({b \in BillsOf(v) : IsOpen(b) /\ bills[b].dueDate > day})
  <2>1. OpenPayablesTotal(v) = Worth(bills, DueOn(v)) /\ OpenPayablesTotal(v) = RemainingOf({b \in BillsOf(v) : IsOpen(b)})
    BY OpenSum
  <2>2. Worth(vendorLedger, OwedOn(v)) = Worth(bills, DueOn(v))
    BY DEF VendorAgrees
  <2>3. \A day \in scene.dates : day \in Nat
    BY SceneIs DEF BooksTyped, Ticking
  <2>4. \A day \in scene.dates : OpenPayablesTotal(v) =
            RemainingOf(ListDues(day) \cap BillsOf(v))
            + RemainingOf({b \in BillsOf(v) : IsOpen(b) /\ bills[b].dueDate > day})
    BY <2>1, <2>3, DuesSplit
  <2> QED
    BY <2>1, <2>2, <2>4, BilledLessPaid, PurchasesAre, LedgerListed
<1>2. ASSUME NEW ahead \in 1..2
      PROVE  RemainingOf(ListDues(Today + ahead)) =
                 RemainingOf(ListSchedule(ahead)) + RemainingOf({b \in ListDues(Today) : bills[b].dueDate = NoDay})
  BY ScheduleSplits
<1>3. NotifyOverduePayables.amount = RemainingOf(OverdueOn(Today, ListSchedule(1)))
  <2>1. Today \in Nat /\ \A b \in DOMAIN bills : bills[b].dueDate \in Nat
    BY TodayIs, OpenIs DEF BooksTyped
  <2>2. OverdueOn(Today, ListDues(Today)) = OverdueOn(Today, ListSchedule(1))
    BY <2>1 DEF OverdueOn, ListDues, ListSchedule, NoDay
  <2> QED
    BY <2>2 DEF NotifyOverduePayables
<1> QED
  BY <1>1, <1>2, <1>3 DEF PayablesAgree

-----------------------------------------------------------------------------
(* Every day of the calendar is in a month. *)
LEMMA MonthIs ==
    ASSUME NEW day \in Int, 1 <= day, day <= LastDay
    PROVE  /\ MonthOf(day) \in Months /\ FirstOf(MonthOf(day)) <= day /\ day <= LastOf(MonthOf(day))
           /\ FirstOf(MonthOf(day)) \in Int /\ LastOf(MonthOf(day)) \in Int
<1> DEFINE reached == {m \in Months : day <= LastOf(m)}
<1>1. reached \in SUBSET Int /\ IsFiniteSet(reached) /\ reached # {}
  <2>1. Months \in SUBSET Int /\ IsFiniteSet(Months) /\ Len(MonthLengths) \in Months
    BY MonthsAre, FS_Interval
  <2>2. Len(MonthLengths) \in reached
    BY <2>1 DEF LastDay
  <2>3. IsFiniteSet(reached)
    BY <2>1, FS_Subset
  <2> QED
    BY <2>1, <2>2, <2>3
<1> DEFINE n == Min(reached)
<1>2. n \in reached /\ \A x \in reached : n <= x
  <2> HIDE DEF reached
  <2> QED
    BY <1>1, MinIs
<1>3. n \in Months /\ n \in Nat \ {0} /\ n <= Len(MonthLengths) /\ day <= LastOf(n)
  BY <1>2, MonthsAre
<1>4. FirstOf(n) <= day
  <2> HIDE DEF n
  <2>1. CASE n = 1
    BY <2>1, FirstOne
  <2>2. CASE n # 1
    <3>1. n - 1 \in Nat \ {0} /\ n - 1 <= Len(MonthLengths) /\ n - 1 \in Months /\ (n - 1) + 1 = n
      BY <1>3, <2>2, MonthsAre
    <3>2. n - 1 \notin reached
      <4> HIDE DEF reached
      <4>1. n \in Nat /\ \A x \in reached : n <= x
        BY <1>2, <1>3
      <4> QED
        BY <4>1
    <3>3. ~(day <= LastOf(n - 1)) /\ LastOf(n - 1) \in Int /\ FirstOf(n - 1) \in Int /\ MonthLengths[n - 1] \in Nat
      BY <3>1, <3>2, FirstInt, MonthsAre
    <3>4. FirstOf(n) = FirstOf(n - 1) + MonthLengths[n - 1]
      BY <3>1, FirstNext
    <3>5. FirstOf(n) = LastOf(n - 1) + 1
      BY <3>3, <3>4 DEF LastOf
    <3> QED
      BY <3>3, <3>5
  <2> QED
    BY <2>1, <2>2
<1>5. MonthOf(day) \in Months /\ FirstOf(MonthOf(day)) <= day /\ day <= LastOf(MonthOf(day))
  <2>1. \E m \in Months : FirstOf(m) <= day /\ day <= LastOf(m)
    BY <1>3, <1>4
  <2> QED
    BY <2>1 DEF MonthOf
<1> QED
  BY <1>5, FirstInt

(* Rows added up by a key they have. *)
LEMMA SalesByKey ==
    ASSUME BooksTyped, NEW R \in SUBSET (DOMAIN deliveries), NEW K, IsFiniteSet(K), NEW key, \A i \in R : key[i] \in K,
           NEW g, g = [k \in K |-> SalesOf({i \in R : key[i] = k})]
    PROVE  SumFunction(g) = SalesOf(R)
<1> DEFINE f == [i \in R |-> Sale(deliveries[i])]
<1>1. IsFiniteSet(R) /\ \A i \in R : f[i] \in Int
  BY SalesOfInt, GoodsAmounts
<1>2. \A k \in K : g[k] = SumFunction([r \in {x \in R : key[x] = k} |-> f[r]])
  <2> SUFFICES ASSUME NEW k \in K PROVE g[k] = SumFunction([r \in {x \in R : key[x] = k} |-> f[r]])
    OBVIOUS
  <2>1. [r \in {x \in R : key[x] = k} |-> f[r]] = [r \in {x \in R : key[x] = k} |-> Sale(deliveries[r])]
    OBVIOUS
  <2> QED
    BY <2>1 DEF SalesOf
<1>3. Parted(R, K, f, key, g)
  <2>1. f = [r \in R |-> f[r]] /\ g = [k \in K |-> g[k]]
    OBVIOUS
  <2> HIDE DEF f
  <2> QED
    BY <1>1, <1>2, <2>1 DEF Parted
<1> HIDE DEF f
<1>4. SumFunction(g) = SumFunction(f)
  BY <1>3, SumOfParts
<1> QED
  BY <1>4 DEF SalesOf, f

LEMMA CashByKey ==
    ASSUME BooksTyped, NEW R \in SUBSET (DOMAIN deliveries), NEW K, IsFiniteSet(K), NEW key, \A i \in R : key[i] \in K,
           NEW g, g = [k \in K |-> CashOf({i \in R : key[i] = k})]
    PROVE  SumFunction(g) = CashOf(R)
<1> DEFINE f == [i \in R |-> deliveries[i].cash]
<1>1. IsFiniteSet(R) /\ \A i \in R : f[i] \in Int
  BY SalesOfInt, GoodsAmounts DEF DeliveryRow
<1>2. \A k \in K : g[k] = SumFunction([r \in {x \in R : key[x] = k} |-> f[r]])
  <2> SUFFICES ASSUME NEW k \in K PROVE g[k] = SumFunction([r \in {x \in R : key[x] = k} |-> f[r]])
    OBVIOUS
  <2>1. [r \in {x \in R : key[x] = k} |-> f[r]] = [r \in {x \in R : key[x] = k} |-> deliveries[r].cash]
    OBVIOUS
  <2> QED
    BY <2>1 DEF CashOf
<1>3. Parted(R, K, f, key, g)
  <2>1. f = [r \in R |-> f[r]] /\ g = [k \in K |-> g[k]]
    OBVIOUS
  <2> HIDE DEF f
  <2> QED
    BY <1>1, <1>2, <2>1 DEF Parted
<1> HIDE DEF f
<1>4. SumFunction(g) = SumFunction(f)
  BY <1>3, SumOfParts
<1> QED
  BY <1>4 DEF CashOf, f

LEMMA TotalByKey ==
    ASSUME BooksTyped, NEW R \in SUBSET (DOMAIN orders), NEW K, IsFiniteSet(K), NEW key, \A i \in R : key[i] \in K,
           NEW g, g = [k \in K |-> TotalOf({i \in R : key[i] = k})]
    PROVE  SumFunction(g) = TotalOf(R)
<1> DEFINE f == [i \in R |-> Total(orders[i])]
<1>1. IsFiniteSet(R) /\ \A i \in R : f[i] \in Int
  BY TotalOfInt, GoodsAmounts
<1>2. \A k \in K : g[k] = SumFunction([r \in {x \in R : key[x] = k} |-> f[r]])
  <2> SUFFICES ASSUME NEW k \in K PROVE g[k] = SumFunction([r \in {x \in R : key[x] = k} |-> f[r]])
    OBVIOUS
  <2>1. [r \in {x \in R : key[x] = k} |-> f[r]] = [r \in {x \in R : key[x] = k} |-> Total(orders[r])]
    OBVIOUS
  <2> QED
    BY <2>1 DEF TotalOf
<1>3. Parted(R, K, f, key, g)
  <2>1. f = [r \in R |-> f[r]] /\ g = [k \in K |-> g[k]]
    OBVIOUS
  <2> HIDE DEF f
  <2> QED
    BY <1>1, <1>2, <2>1 DEF Parted
<1> HIDE DEF f
<1>4. SumFunction(g) = SumFunction(f)
  BY <1>3, SumOfParts
<1> QED
  BY <1>4 DEF TotalOf, f

LEMMA GoodsInt ==
    ASSUME BooksTyped, NEW i \in DOMAIN orders
    PROVE  Price * orders[i].units \in Nat /\ orders[i].fee \in Nat /\ Total(orders[i]) = Price * orders[i].units + orders[i].fee
<1>1. orders[i].units \in Nat /\ orders[i].fee \in Nat
  BY GoodsAmounts DEF OrderRow
<1>2. Price * orders[i].units \in Nat
  BY <1>1, PricesAre, ProductNat
<1> QED
  BY <1>1, <1>2 DEF Total

LEMMA GoodsByKey ==
    ASSUME BooksTyped, NEW R \in SUBSET (DOMAIN orders), NEW K, IsFiniteSet(K), NEW key, \A i \in R : key[i] \in K,
           NEW g, g = [k \in K |-> GoodsOf({i \in R : key[i] = k})]
    PROVE  SumFunction(g) + FeesOf(R) = TotalOf(R)
<1> DEFINE f == [i \in R |-> Price * orders[i].units]
           h == [i \in R |-> orders[i].fee]
           t == [i \in R |-> Total(orders[i])]
<1>1. IsFiniteSet(R) /\ \A i \in R : f[i] \in Int /\ h[i] \in Int /\ t[i] = f[i] + h[i]
  BY TotalOfInt, GoodsInt
<1>2. \A k \in K : g[k] = SumFunction([r \in {x \in R : key[x] = k} |-> f[r]])
  <2> SUFFICES ASSUME NEW k \in K PROVE g[k] = SumFunction([r \in {x \in R : key[x] = k} |-> f[r]])
    OBVIOUS
  <2>1. [r \in {x \in R : key[x] = k} |-> f[r]] = [r \in {x \in R : key[x] = k} |-> Price * orders[r].units]
    OBVIOUS
  <2> QED
    BY <2>1 DEF GoodsOf
<1>3. Parted(R, K, f, key, g)
  <2>1. f = [r \in R |-> f[r]] /\ g = [k \in K |-> g[k]]
    OBVIOUS
  <2> HIDE DEF f
  <2> QED
    BY <1>1, <1>2, <2>1 DEF Parted
<1>4. DOMAIN f = R /\ DOMAIN h = R /\ DOMAIN t = R
  OBVIOUS
<1> HIDE DEF f, h, t
<1>5. SumFunction(g) = SumFunction(f)
  BY <1>3, SumOfParts
<1>6. SumFunction(t) = SumFunction(f) + SumFunction(h)
  BY <1>1, <1>4, TotalPlus
<1> QED
  BY <1>5, <1>6 DEF TotalOf, FeesOf, h, t

LEMMA OutlaysByKey ==
    ASSUME BooksTyped, NEW R \in SUBSET outlays, NEW K, IsFiniteSet(K), \A o \in R : o.vehicle \in K,
           NEW g, g = [k \in K |-> AmountOf({o \in R : o.vehicle = k})]
    PROVE  SumFunction(g) = AmountOf(R)
<1> DEFINE f == [o \in R |-> o.amount]
           key == [o \in R |-> o.vehicle]
<1>1. IsFiniteSet(R) /\ \A o \in R : f[o] \in Int
  BY FS_Subset DEF BooksTyped, OutlayRow
<1>2. \A k \in K : g[k] = SumFunction([r \in {x \in R : key[x] = k} |-> f[r]])
  <2> SUFFICES ASSUME NEW k \in K PROVE g[k] = SumFunction([r \in {x \in R : key[x] = k} |-> f[r]])
    OBVIOUS
  <2>1. {x \in R : key[x] = k} = {o \in R : o.vehicle = k}
    OBVIOUS
  <2>2. [r \in {o \in R : o.vehicle = k} |-> f[r]] = [r \in {o \in R : o.vehicle = k} |-> r.amount]
    OBVIOUS
  <2> QED
    BY <2>1, <2>2 DEF AmountOf
<1>3. Parted(R, K, f, key, g)
  <2>1. f = [r \in R |-> f[r]] /\ g = [k \in K |-> g[k]] /\ \A r \in R : key[r] \in K
    OBVIOUS
  <2> HIDE DEF f, key
  <2> QED
    BY <1>1, <1>2, <2>1 DEF Parted
<1> HIDE DEF f, key
<1>4. SumFunction(g) = SumFunction(f)
  BY <1>3, SumOfParts
<1> QED
  BY <1>4 DEF AmountOf, f

-----------------------------------------------------------------------------
(* The reports of a period of days agree. *)
LEMMA Bounds == ASSUME NEW from \in Int, NEW to \in Int PROVE IsFiniteSet(from..to)
BY FS_Interval

LEMMA SoldRows ==
    ASSUME BooksTyped, NEW from, NEW to
    PROVE  /\ Sold(from, to) \in SUBSET (DOMAIN deliveries) /\ Billable(from, to) \in SUBSET (DOMAIN orders)
           /\ \A i \in DOMAIN deliveries : deliveries[i] \in DeliveryRow
           /\ \A i \in DOMAIN orders : orders[i] \in OrderRow
<1>1. /\ \A i \in DOMAIN deliveries : deliveries[i] \in DeliveryRow
      /\ \A i \in DOMAIN orders : orders[i] \in OrderRow
  BY SeqDomain DEF BooksTyped
<1> QED
  BY <1>1 DEF Sold, Billable

LEMMA DaysAddUp ==
    ASSUME BooksTyped, NEW from \in Int, NEW to \in Int
    PROVE  SalesOf(Sold(from, to)) = SumFunction([day \in from..to |-> SalesOf({i \in DailySales(day) : deliveries[i].live})])
<1> DEFINE R == Sold(from, to)
           key == [i \in R |-> deliveries[i].date]
           g == [day \in from..to |-> SalesOf({i \in DailySales(day) : deliveries[i].live})]
<1>1. R \in SUBSET (DOMAIN deliveries) /\ IsFiniteSet(from..to) /\ \A i \in R : key[i] \in from..to
  BY SoldRows, Bounds DEF Sold
<1>2. g = [day \in from..to |-> SalesOf({i \in R : key[i] = day})]
  <2> SUFFICES ASSUME NEW day \in from..to PROVE {i \in DailySales(day) : deliveries[i].live} = {i \in R : key[i] = day}
    OBVIOUS
  <2> QED
    BY DEF DailySales, Sold
<1> HIDE DEF R, key, g
<1>3. SumFunction(g) = SalesOf(R)
  BY <1>1, <1>2, SalesByKey
<1> QED
  BY <1>3 DEF g, R

LEMMA ProductsAddUp ==
    ASSUME BooksTyped, NEW from \in Int, NEW to \in Int
    PROVE  /\ SalesOf(Sold(from, to)) = SumFunction([p \in scene.products |-> ProductPerformance(p, from, to).delivery])
           /\ TotalOf(Billable(from, to)) = SumFunction([p \in scene.products |-> ProductPerformance(p, from, to).orders])
                                            + FeesOf(Billable(from, to))
<1> DEFINE K == scene.products
           R == Sold(from, to)
           key == [i \in R |-> deliveries[i].product]
           g == [p \in K |-> ProductPerformance(p, from, to).delivery]
           O == Billable(from, to)
           kind == [i \in O |-> orders[i].product]
           h == [p \in K |-> ProductPerformance(p, from, to).orders]
<1>1. IsFiniteSet(K)
  BY SceneIs DEF BooksTyped, Ticking
<1>2. R \in SUBSET (DOMAIN deliveries) /\ (\A i \in R : key[i] \in K) /\ O \in SUBSET (DOMAIN orders) /\ \A i \in O : kind[i] \in K
  BY SoldRows DEF DeliveryRow, OrderRow
<1>3. g = [p \in K |-> SalesOf({i \in R : key[i] = p})]
  <2> SUFFICES ASSUME NEW p \in K PROVE ProductPerformance(p, from, to).delivery = SalesOf({i \in R : key[i] = p})
    OBVIOUS
  <2>1. {i \in R : key[i] = p} = {i \in R : deliveries[i].product = p}
    OBVIOUS
  <2> QED
    BY <2>1 DEF ProductPerformance
<1>4. h = [p \in K |-> GoodsOf({i \in O : kind[i] = p})]
  <2> SUFFICES ASSUME NEW p \in K PROVE ProductPerformance(p, from, to).orders = GoodsOf({i \in O : kind[i] = p})
    OBVIOUS
  <2>1. {i \in O : kind[i] = p} = {i \in O : orders[i].product = p}
    OBVIOUS
  <2> QED
    BY <2>1 DEF ProductPerformance
<1> HIDE DEF K, R, key, g, O, kind, h
<1>5. SumFunction(g) = SalesOf(R)
  BY <1>1, <1>2, <1>3, SalesByKey
<1>6. SumFunction(h) + FeesOf(O) = TotalOf(O)
  BY <1>1, <1>2, <1>4, GoodsByKey
<1> QED
  BY <1>5, <1>6 DEF g, h, R, O, K

LEMMA FiniteRuns == IsFiniteSet({trip.rider : trip \in Trips}) /\ IsFiniteSet({trip.vehicle : trip \in Trips})
<1>1. IsFiniteSet(Trips)
  BY PricesAre
<1>2. IsFiniteSet({trip.rider : trip \in Trips})
  <2> DEFINE T == {trip.rider : trip \in Trips}
             f == [trip \in Trips |-> trip.rider]
  <2>1. f \in [Trips -> T] /\ \A y \in T : \E x \in Trips : f[x] = y
    OBVIOUS
  <2> HIDE DEF f, T
  <2>2. f \in Surjection(Trips, T)
    BY <2>1 DEF Surjection
  <2>3. IsFiniteSet(T)
    BY <1>1, <2>2, FS_Surjection
  <2> QED
    BY <2>3 DEF T
<1>3. IsFiniteSet({trip.vehicle : trip \in Trips})
  <2> DEFINE T == {trip.vehicle : trip \in Trips}
             f == [trip \in Trips |-> trip.vehicle]
  <2>1. f \in [Trips -> T] /\ \A y \in T : \E x \in Trips : f[x] = y
    OBVIOUS
  <2> HIDE DEF f, T
  <2>2. f \in Surjection(Trips, T)
    BY <2>1 DEF Surjection
  <2>3. IsFiniteSet(T)
    BY <1>1, <2>2, FS_Surjection
  <2> QED
    BY <2>3 DEF T
<1> QED
  BY <1>2, <1>3

LEMMA RidersAddUp ==
    ASSUME BooksTyped, NEW from \in Int, NEW to \in Int
    PROVE  SalesOf(Sold(from, to))
           = SumFunction([r \in {trip.rider : trip \in Trips} |-> RiderCollection(r, from, to).sales])
<1> DEFINE K == {trip.rider : trip \in Trips}
           R == Sold(from, to)
           key == [i \in R |-> deliveries[i].trip.rider]
           g == [r \in K |-> RiderCollection(r, from, to).sales]
<1>1. IsFiniteSet(K)
  BY FiniteRuns
<1>2. R \in SUBSET (DOMAIN deliveries) /\ \A i \in R : key[i] \in K
  <2>1. R \in SUBSET (DOMAIN deliveries) /\ \A i \in R : deliveries[i].trip \in Trips
    BY SoldRows DEF DeliveryRow
  <2> QED
    BY <2>1
<1>3. g = [r \in K |-> SalesOf({i \in R : key[i] = r})]
  <2> SUFFICES ASSUME NEW r \in K PROVE RiderCollection(r, from, to).sales = SalesOf({i \in R : key[i] = r})
    OBVIOUS
  <2>1. {i \in R : key[i] = r} = {i \in R : deliveries[i].trip.rider = r}
    OBVIOUS
  <2> QED
    BY <2>1 DEF RiderCollection
<1> HIDE DEF K, R, key, g
<1>4. SumFunction(g) = SalesOf(R)
  BY <1>1, <1>2, <1>3, SalesByKey
<1> QED
  BY <1>4 DEF g, R, K

LEMMA VehiclesAddUp ==
    ASSUME BooksTyped, NEW from \in Int, NEW to \in Int
    PROVE  LET vehicles == {trip.vehicle : trip \in Trips} IN
           /\ (\A i \in DOMAIN deliveries : deliveries[i].trip.date = deliveries[i].date) =>
                  SalesOf(Sold(from, to)) = SumFunction([v \in vehicles |-> VehiclePerformance(v, from, to).sales])
           /\ Spent({"expense"}, from, to) = SumFunction([v \in vehicles |-> VehiclePerformance(v, from, to).expenses])
<1> DEFINE K == {trip.vehicle : trip \in Trips}
           R == Sold(from, to)
           key == [i \in R |-> deliveries[i].trip.vehicle]
           g == [v \in K |-> VehiclePerformance(v, from, to).sales]
           O == SpentOn({"expense"}, from, to)
           h == [v \in K |-> VehiclePerformance(v, from, to).expenses]
<1>1. IsFiniteSet(K)
  BY FiniteRuns
<1>2. R \in SUBSET (DOMAIN deliveries) /\ \A i \in R : key[i] \in K
  <2>1. R \in SUBSET (DOMAIN deliveries) /\ \A i \in R : deliveries[i].trip \in Trips
    BY SoldRows DEF DeliveryRow
  <2> QED
    BY <2>1
<1>3. O \in SUBSET outlays /\ \A o \in O : o.vehicle \in K
  BY DEF SpentOn, BooksTyped, OutlayRow
<1>4. (\A i \in DOMAIN deliveries : deliveries[i].trip.date = deliveries[i].date) =>
          g = [v \in K |-> SalesOf({i \in R : key[i] = v})]
  <2> SUFFICES ASSUME \A i \in DOMAIN deliveries : deliveries[i].trip.date = deliveries[i].date, NEW v \in K
               PROVE  VehiclePerformance(v, from, to).sales = SalesOf({i \in R : key[i] = v})
    OBVIOUS
  <2>1. {i \in R : key[i] = v} = {i \in DOMAIN deliveries : deliveries[i].live
                            /\ deliveries[i].trip.vehicle = v /\ deliveries[i].trip.date \in from..to}
    BY DEF Sold
  <2> QED
    BY <2>1 DEF VehiclePerformance
<1>5. h = [v \in K |-> AmountOf({o \in O : o.vehicle = v})]
  BY DEF VehiclePerformance
<1> HIDE DEF K, R, key, g, O, h
<1>6. (\A i \in DOMAIN deliveries : deliveries[i].trip.date = deliveries[i].date) => SumFunction(g) = SalesOf(R)
  <2> SUFFICES ASSUME g = [v \in K |-> SalesOf({i \in R : key[i] = v})] PROVE SumFunction(g) = SalesOf(R)
    BY <1>4
  <2> QED
    BY <1>1, <1>2, SalesByKey
<1>7. SumFunction(h) = AmountOf(O)
  BY <1>1, <1>3, <1>5, OutlaysByKey
<1> QED
  BY <1>6, <1>7 DEF g, h, R, O, K, Spent

LEMMA CashOfInt == ASSUME BooksTyped, NEW rows \in SUBSET (DOMAIN deliveries) PROVE CashOf(rows) \in Int
<1> DEFINE f == [i \in rows |-> deliveries[i].cash]
<1>1. IsFiniteSet(rows) /\ DOMAIN f = rows /\ \A i \in rows : f[i] \in Int
  BY SalesOfInt, SoldRows DEF DeliveryRow
<1> HIDE DEF f
<1>2. SumFunction(f) \in Int
  BY <1>1, TotalInt
<1> QED
  BY <1>2 DEF CashOf, f

LEMMA OrderDays ==
    ASSUME NEW x \in Int, NEW z \in -1..1, NEW from \in Int, NEW to \in Int
    PROVE  /\ LocalDay(x, z) \in Int
           /\ InZonedDays(x, from, to, z) <=> LocalDay(x, z) \in from..to
<1>1. LocalDay(x, z) = (x + z) \div 2
  BY DEF LocalDay, UtcDay
<1>2. InZonedDays(x, from, to, z) <=> 2 * from <= x + z /\ x + z < 2 * (to + 1)
  BY DEF InZonedDays, Midnight
<1>3. x + z \in Int
  OBVIOUS
<1> DEFINE y == x + z
<1> HIDE DEF y
<1>4. y \in Int => /\ y \div 2 \in Int
                   /\ (2 * from <= y /\ y < 2 * (to + 1)) <=> y \div 2 \in from..to
  OBVIOUS
<1> QED
  BY <1>1, <1>2, <1>3, <1>4 DEF y

LEMMA CashAddsUpByDay ==
    ASSUME BooksTyped, NEW from \in Int, NEW to \in Int
    PROVE  PeriodStats(from, to).cash = SumFunction([day \in from..to |-> PeriodStats(day, day).cash])
<1> DEFINE K == from..to
           R == Sold(from, to)
           key == [i \in R |-> deliveries[i].date]
           f == [day \in K |-> CashOf({i \in R : key[i] = day})]
           O == PaidOrders(from, to)
           on == [i \in O |-> LocalDay(orders[i].paidAt, scene.zone)]
           g == [day \in K |-> TotalOf({i \in O : on[i] = day})]
           h == [day \in K |-> PeriodStats(day, day).cash]
<1>1. IsFiniteSet(K) /\ K \in SUBSET Int
  BY Bounds
<1>2. R \in SUBSET (DOMAIN deliveries) /\ \A i \in R : key[i] \in K
  BY SoldRows DEF Sold
<1>3. scene.zone \in -1..1 /\ \A i \in DOMAIN orders : orders[i].paidAt \in Int
  <2>1. scene.zone \in -1..1
    BY SceneIs DEF BooksTyped, Ticking
  <2>2. \A i \in DOMAIN orders : orders[i] \in OrderRow
    BY SoldRows
  <2> QED
    BY <2>1, <2>2 DEF OrderRow
<1>4. O \in SUBSET (DOMAIN orders) /\ \A i \in O : on[i] \in K
  <2>1. O \in SUBSET (DOMAIN orders) /\ \A i \in O : InZonedDays(orders[i].paidAt, from, to, scene.zone)
    BY DEF PaidOrders
  <2> QED
    BY <1>3, <2>1, OrderDays
<1>5. ASSUME NEW day \in K PROVE h[day] = f[day] + g[day] /\ f[day] \in Int /\ g[day] \in Int
  <2>0. day \in Int
    BY <1>1
  <2>1. Sold(day, day) = {i \in R : key[i] = day}
    BY <2>0, SoldRows DEF Sold, DeliveryRow
  <2>2. PaidOrders(day, day) = {i \in O : on[i] = day}
    <3>1. ASSUME NEW i \in DOMAIN orders
          PROVE  /\ InZonedDays(orders[i].paidAt, day, day, scene.zone) <=> LocalDay(orders[i].paidAt, scene.zone) = day
                 /\ InZonedDays(orders[i].paidAt, day, day, scene.zone) => InZonedDays(orders[i].paidAt, from, to, scene.zone)
      <4>1. orders[i].paidAt \in Int /\ scene.zone \in -1..1
        BY <1>3
      <4>2. /\ LocalDay(orders[i].paidAt, scene.zone) \in Int
            /\ InZonedDays(orders[i].paidAt, day, day, scene.zone) <=> LocalDay(orders[i].paidAt, scene.zone) \in day..day
        BY <2>0, <4>1, OrderDays
      <4>3. InZonedDays(orders[i].paidAt, from, to, scene.zone) <=> LocalDay(orders[i].paidAt, scene.zone) \in from..to
        BY <4>1, OrderDays
      <4> QED
        BY <2>0, <4>2, <4>3
    <3> QED
      BY <3>1 DEF PaidOrders
  <2>3. f[day] = CashOf(Sold(day, day)) /\ g[day] = TotalOf(PaidOrders(day, day)) /\ h[day] = PeriodStats(day, day).cash
    BY <2>1, <2>2
  <2>4. PeriodStats(day, day).cash = CashOf(Sold(day, day)) + TotalOf(PaidOrders(day, day))
    BY DEF PeriodStats, OrderPayments
  <2>5. Sold(day, day) \in SUBSET (DOMAIN deliveries) /\ PaidOrders(day, day) \in SUBSET (DOMAIN orders)
    BY SoldRows DEF PaidOrders
  <2>6. CashOf(Sold(day, day)) \in Int /\ TotalOf(PaidOrders(day, day)) \in Int
    BY <2>5, CashOfInt, TotalOfInt
  <2> QED
    BY <2>3, <2>4, <2>6
<1>6. DOMAIN f = K /\ DOMAIN g = K /\ DOMAIN h = K
  OBVIOUS
<1>7. PeriodStats(from, to).cash = CashOf(R) + TotalOf(O)
  BY DEF PeriodStats, OrderPayments
<1>8. /\ f = [day \in K |-> CashOf({i \in R : key[i] = day})]
      /\ g = [day \in K |-> TotalOf({i \in O : on[i] = day})]
      /\ \A x \in K : f[x] \in Int /\ g[x] \in Int /\ h[x] = f[x] + g[x]
  BY <1>5
<1> HIDE DEF K, R, key, f, O, on, g, h
<1>k. IsFiniteSet(K)
  BY <1>1
<1>f. f = [day \in K |-> CashOf({i \in R : key[i] = day})]
  BY <1>8
<1>g. g = [day \in K |-> TotalOf({i \in O : on[i] = day})]
  BY <1>8
<1>h. \A x \in K : f[x] \in Int /\ g[x] \in Int /\ h[x] = f[x] + g[x]
  BY <1>8
<1>9. SumFunction(f) = CashOf(R)
  BY <1>k, <1>2, <1>f, CashByKey
<1>10. SumFunction(g) = TotalOf(O)
  BY <1>k, <1>4, <1>g, TotalByKey
<1>11. SumFunction(h) = SumFunction(f) + SumFunction(g)
  BY <1>k, <1>6, <1>h, TotalPlus
<1> QED
  BY <1>7, <1>9, <1>10, <1>11 DEF h, K

LEMMA CustomersAddUp ==
    ASSUME BooksTyped, NEW from \in Int, NEW to \in Int, scene.zone >= 0
    PROVE  SalesOf(Sold(from, to)) + TotalOf(Billable(from, to))
           = SumFunction([c \in Customers |-> SalesTotal(c, from, to)])
<1> DEFINE K == Customers
           R == Sold(from, to)
           key == [i \in R |-> deliveries[i].who]
           f == [c \in K |-> SalesOf({i \in R : key[i] = c})]
           O == Billable(from, to)
           of == [i \in O |-> orders[i].who]
           g == [c \in K |-> TotalOf({i \in O : of[i] = c})]
           h == [c \in K |-> SalesTotal(c, from, to)]
<1>1. IsFiniteSet(K)
  BY PricesAre
<1>2. R \in SUBSET (DOMAIN deliveries) /\ (\A i \in R : key[i] \in K) /\ O \in SUBSET (DOMAIN orders) /\ \A i \in O : of[i] \in K
  BY SoldRows DEF DeliveryRow, OrderRow
<1>3. scene.zone \in 0..1
  BY SceneIs DEF BooksTyped, Ticking
<1>4. ASSUME NEW c \in K PROVE h[c] = f[c] + g[c] /\ f[c] \in Int /\ g[c] \in Int
  <2>1. DeliveryLines(c, from, to) = {i \in R : key[i] = c}
    <3>1. ASSUME NEW i \in DOMAIN deliveries
          PROVE  InZonedDays(Midnight(deliveries[i].date), from, to, scene.zone) <=> deliveries[i].date \in from..to
      <4>1. deliveries[i].date \in Int
        BY SoldRows DEF DeliveryRow
      <4> QED
        BY <1>3, <4>1 DEF InZonedDays, Midnight
    <3> QED
      BY <3>1 DEF DeliveryLines, Sold
  <2>2. OrderLines(c, from, to) = {i \in O : of[i] = c}
    BY DEF OrderLines
  <2>3. h[c] = SalesOf(DeliveryLines(c, from, to)) + TotalOf(OrderLines(c, from, to))
    BY DEF SalesTotal
  <2>4. DeliveryLines(c, from, to) \in SUBSET (DOMAIN deliveries) /\ OrderLines(c, from, to) \in SUBSET (DOMAIN orders)
    BY DEF DeliveryLines, OrderLines, Billable
  <2>5. SalesOf(DeliveryLines(c, from, to)) \in Int /\ TotalOf(OrderLines(c, from, to)) \in Int
    BY <2>4, SalesOfInt, TotalOfInt
  <2>6. f[c] = SalesOf(DeliveryLines(c, from, to)) /\ g[c] = TotalOf(OrderLines(c, from, to))
    BY <2>1, <2>2
  <2> QED
    BY <2>3, <2>5, <2>6
<1>5. DOMAIN f = K /\ DOMAIN g = K /\ DOMAIN h = K
  OBVIOUS
<1>6. SumFunction(f) = SalesOf(R)
  <2>1. f = [c \in K |-> SalesOf({i \in R : key[i] = c})]
    OBVIOUS
  <2> HIDE DEF K, R, key, f
  <2> QED
    BY <1>1, <1>2, <2>1, SalesByKey
<1>7. SumFunction(g) = TotalOf(O)
  <2>1. g = [c \in K |-> TotalOf({i \in O : of[i] = c})]
    OBVIOUS
  <2> HIDE DEF K, O, of, g
  <2> QED
    BY <1>1, <1>2, <2>1, TotalByKey
<1>8. SumFunction(h) = SumFunction(f) + SumFunction(g)
  <2>1. \A x \in K : f[x] \in Int /\ g[x] \in Int /\ h[x] = f[x] + g[x]
    BY <1>4
  <2> HIDE DEF K, f, g, h
  <2> QED
    BY <1>1, <1>5, <2>1, TotalPlus
<1> HIDE DEF f, g, R, O
<1> QED
  BY <1>6, <1>7, <1>8 DEF R, O

LEMMA SalesAgreeing == ASSUME BooksTyped PROVE SalesAgree
<1> DEFINE m == MonthOf(Today)
           from == FirstOf(m)
           to == LastOf(m)
<1>1. from \in Int /\ to \in Int
  <2>1. Today \in Int /\ 1 <= Today /\ Today <= LastDay
    BY TodayIs DEF BooksTyped
  <2> QED
    BY <2>1, MonthIs
<1>2. /\ MonthlySummary(m).delivery = SalesOf(Sold(from, to))
      /\ MonthlySummary(m).orders = TotalOf(Billable(from, to))
      /\ MonthlySummary(m).expenses = Spent({"expense"}, from, to)
      /\ PeriodStats(from, to).sales = SalesOf(Sold(from, to)) + TotalOf(Billable(from, to))
  BY DEF MonthlySummary, PeriodStats
<1>3. SalesOf(Sold(from, to)) = SumFunction([day \in from..to |-> SalesOf({i \in DailySales(day) : deliveries[i].live})])
  <2> HIDE DEF from, to
  <2> QED
    BY <1>1, DaysAddUp
<1>4. /\ SalesOf(Sold(from, to)) = SumFunction([p \in scene.products |-> ProductPerformance(p, from, to).delivery])
      /\ TotalOf(Billable(from, to)) = SumFunction([p \in scene.products |-> ProductPerformance(p, from, to).orders])
                                       + FeesOf(Billable(from, to))
  <2> HIDE DEF from, to
  <2> QED
    BY <1>1, ProductsAddUp
<1>5. SalesOf(Sold(from, to)) = SumFunction([r \in {trip.rider : trip \in Trips} |-> RiderCollection(r, from, to).sales])
  <2> HIDE DEF from, to
  <2> QED
    BY <1>1, RidersAddUp
<1>6. PeriodStats(from, to).cash = SumFunction([day \in from..to |-> PeriodStats(day, day).cash])
  <2> HIDE DEF from, to
  <2> QED
    BY <1>1, CashAddsUpByDay
<1>7. /\ (\A i \in DOMAIN deliveries : deliveries[i].trip.date = deliveries[i].date) =>
             SalesOf(Sold(from, to)) = SumFunction([v \in {trip.vehicle : trip \in Trips} |-> VehiclePerformance(v, from, to).sales])
      /\ Spent({"expense"}, from, to) = SumFunction([v \in {trip.vehicle : trip \in Trips} |-> VehiclePerformance(v, from, to).expenses])
  <2> HIDE DEF from, to
  <2> QED
    BY <1>1, VehiclesAddUp
<1>8. scene.zone >= 0 => SalesOf(Sold(from, to)) + TotalOf(Billable(from, to)) = SumFunction([c \in Customers |-> SalesTotal(c, from, to)])
  <2> HIDE DEF from, to
  <2> QED
    BY <1>1, CustomersAddUp
<1> QED
  BY <1>2, <1>3, <1>4, <1>5, <1>6, <1>7, <1>8 DEF SalesAgree

-----------------------------------------------------------------------------
(* The least and the greatest of a set, known by what they are. *)
LEMMA LeastIs == ASSUME NEW S \in SUBSET Int, IsFiniteSet(S), NEW x \in S, \A y \in S : x <= y PROVE Min(S) = x
<1>1. Min(S) \in S /\ \A y \in S : Min(S) <= y
  BY MinIs
<1>2. Min(S) \in Int /\ x \in Int /\ Min(S) <= x /\ x <= Min(S)
  BY <1>1
<1> QED
  BY <1>2

LEMMA GreatestIs == ASSUME NEW S \in SUBSET Int, IsFiniteSet(S), NEW x \in S, \A y \in S : y <= x PROVE Max(S) = x
<1>1. Max(S) \in S /\ \A y \in S : y <= Max(S)
  BY MaxIs
<1>2. Max(S) \in Int /\ x \in Int /\ Max(S) <= x /\ x <= Max(S)
  BY <1>1
<1> QED
  BY <1>2

-----------------------------------------------------------------------------
(* Weeks: the due days are the anchor and every interval after it. *)
LEMMA Remainder ==
    ASSUME NEW d \in Nat, NEW I \in Nat \ {0}
    PROVE  /\ d % I \in Nat /\ d % I < I /\ d \div I \in Nat /\ (d \div I) * I \in Nat
           /\ d = (d \div I) * I + (d % I)
<1>1. d % I \in 0..(I - 1) /\ d \div I \in Nat /\ d = (d \div I) * I + (d % I)
  OBVIOUS
<1>2. (d \div I) * I \in Nat
  BY <1>1, ProductNat
<1> QED
  BY <1>1, <1>2

LEMMA Times ==
    ASSUME NEW I \in Nat \ {0}, NEW n \in Nat, NEW q \in Nat
    PROVE  /\ n * I \in Nat /\ (q + 1) * I = q * I + I /\ n <= n * I
           /\ n <= q => n * I <= q * I
           /\ q < n => (q + 1) * I <= n * I
<1>1. n <= q => n * I <= q * I
  OBVIOUS
<1>2. q + 1 \in Nat /\ (q + 1 <= n => (q + 1) * I <= n * I)
  OBVIOUS
<1>3. q < n => q + 1 <= n
  OBVIOUS
<1>4. n * I \in Nat /\ (q + 1) * I = q * I + I /\ n <= n * I
  OBVIOUS
<1> QED
  BY <1>1, <1>2, <1>3, <1>4

LEMMA WeeksDue ==
    ASSUME NEW cycle \in Cycle, cycle.kind = "WEEKS", cycle.day # NoDay, NEW day \in Nat
    PROVE  LET I == cycle.weeks * Week IN
           /\ I \in Nat \ {0} /\ cycle.day \in Nat
           /\ IsDueDay(cycle, day) <=> cycle.day <= day /\ \E n \in Nat : day = cycle.day + n * I
<1> DEFINE I == cycle.weeks * Week
           a == cycle.day
<1>1. cycle.weeks \in Nat \ {0} /\ a \in Nat /\ Week \in Nat \ {0}
  BY CalendarAssumption DEF Cycle
<1>2. I \in Nat \ {0}
  BY <1>1, ProductPositive
<1>3. \A n \in Nat : n * cycle.weeks * Week = n * I /\ n <= n * I /\ n * I \in Nat
  <2> TAKE n \in Nat
  <2>1. n * cycle.weeks * Week = n * I
    BY <1>1
  <2> HIDE DEF I
  <2>2. n <= n * I /\ n * I \in Nat
    BY <1>2, Times
  <2> QED
    BY <2>1, <2>2
<1>4. IsDueDay(cycle, day) <=> a <= day /\ \E n \in 0..day : day = a + n * cycle.weeks * Week
  BY <1>1 DEF IsDueDay
<1>5. \A n \in 0..day : n \in Nat
  OBVIOUS
<1>6. \A n \in Nat : day = a + n * I => n \in 0..day
  <2> SUFFICES ASSUME NEW n \in Nat, day = a + n * I PROVE n \in 0..day
    OBVIOUS
  <2>1. n <= n * I /\ n * I \in Nat
    BY <1>3
  <2> HIDE DEF I
  <2> DEFINE p == n * I
  <2>2. p \in Nat /\ n <= p /\ day = a + p
    BY <2>1
  <2> HIDE DEF p
  <2> QED
    BY <1>1, <2>2
<1> HIDE DEF I
<1>7. (\E n \in 0..day : day = a + n * cycle.weeks * Week) <=> \E n \in Nat : day = a + n * I
  BY <1>3, <1>5, <1>6
<1> QED
  BY <1>1, <1>2, <1>4, <1>7 DEF I

LEMMA WeeksAhead ==
    ASSUME NEW a \in Nat, NEW I \in Nat \ {0}, NEW today \in Nat, NEW day \in Nat, NEW n \in Nat,
           day = a + n * I, today <= day
    PROVE  NextDueFromAnchor(today, a, I) <= day
<1> DEFINE d == today - a
           q == d \div I
           r == d % I
           p == n * I
           s == q * I
<1>0. p \in Nat /\ day = a + p
  BY Times
<1>1. CASE today <= a
  BY <1>0, <1>1 DEF NextDueFromAnchor
<1>2. CASE ~(today <= a)
  <2>1. d \in Nat /\ today = a + d
    BY <1>2
  <2> HIDE DEF d
  <2>2. r \in Nat /\ r < I /\ q \in Nat /\ s \in Nat /\ d = s + r
    BY <2>1, Remainder
  <2>3. NextDueFromAnchor(today, a, I) = IF r = 0 THEN today ELSE today + I - r
    BY <1>2 DEF NextDueFromAnchor, d
  <2> HIDE DEF q, r
  <2>4. (q + 1) * I = s + I /\ (n <= q => p <= s) /\ (q < n => (q + 1) * I <= p)
    BY <2>2, Times
  <2> HIDE DEF p, s
  <2>5. (n <= q => p <= s) /\ (q < n => s + I <= p)
    BY <2>4
  <2>6. today + I - r = a + (s + I)
    BY <2>1, <2>2
  <2>7. r # 0 => q < n
    <3> SUFFICES ASSUME r # 0, n <= q PROVE FALSE
      BY <2>2
    <3> QED
      BY <1>0, <2>1, <2>2, <2>5
  <2> QED
    BY <1>0, <2>1, <2>2, <2>3, <2>5, <2>6, <2>7
<1> QED
  BY <1>1, <1>2

LEMMA WeeksNext ==
    ASSUME NEW a \in Nat, NEW I \in Nat \ {0}, NEW today \in Nat
    PROVE  LET next == NextDueFromAnchor(today, a, I) IN
           next \in Nat /\ today <= next /\ a <= next /\ \E n \in Nat : next = a + n * I
<1> DEFINE d == today - a
           q == d \div I
           r == d % I
           s == q * I
<1>1. CASE today <= a
  <2>1. NextDueFromAnchor(today, a, I) = a /\ a = a + 0 * I
    BY <1>1 DEF NextDueFromAnchor
  <2> QED
    BY <1>1, <2>1
<1>2. CASE ~(today <= a)
  <2>1. d \in Nat /\ today = a + d
    BY <1>2
  <2> HIDE DEF d
  <2>2. r \in Nat /\ r < I /\ q \in Nat /\ s \in Nat /\ d = s + r
    BY <2>1, Remainder
  <2>3. NextDueFromAnchor(today, a, I) = IF r = 0 THEN today ELSE today + I - r
    BY <1>2 DEF NextDueFromAnchor, d
  <2> HIDE DEF q, r
  <2>4. (q + 1) * I = s + I /\ q + 1 \in Nat
    BY <2>2, Times
  <2>5. r = 0 => today = a + q * I
    BY <2>1, <2>2
  <2>6. r # 0 => today + I - r = a + (q + 1) * I
    BY <2>1, <2>2, <2>4
  <2>7. \E n \in Nat : NextDueFromAnchor(today, a, I) = a + n * I
    BY <2>2, <2>3, <2>4, <2>5, <2>6
  <2> HIDE DEF s
  <2> QED
    BY <2>1, <2>2, <2>3, <2>7
<1> QED
  BY <1>1, <1>2

LEMMA WeeksLast ==
    ASSUME NEW a \in Nat, NEW I \in Nat \ {0}, NEW today \in Nat, a <= today
    PROVE  LET last == LastDueFromAnchor(today, a, I) IN
           /\ last \in Nat /\ last <= today /\ a <= last /\ \E n \in Nat : last = a + n * I
           /\ \A n \in Nat : a + n * I <= today => a + n * I <= last
<1> DEFINE d == today - a
           q == d \div I
           r == d % I
           s == q * I
<1>1. d \in Nat /\ today = a + d
  OBVIOUS
<1>2. LastDueFromAnchor(today, a, I) = today - (d % I)
  BY DEF LastDueFromAnchor
<1> HIDE DEF d
<1>3. r \in Nat /\ r < I /\ q \in Nat /\ s \in Nat /\ d = s + r
  BY <1>1, Remainder
<1> DEFINE last == LastDueFromAnchor(today, a, I)
<1>4. last = a + s
  <2>1. last = today - r
    BY <1>2
  <2> HIDE DEF last, r, s
  <2> QED
    BY <1>1, <1>3, <2>1
<1>5. \E n \in Nat : last = a + n * I
  BY <1>3, <1>4
<1> HIDE DEF last, q, r
<1>6. ASSUME NEW n \in Nat, a + n * I <= today PROVE a + n * I <= last
  <2>1. n * I \in Nat /\ (q + 1) * I = s + I /\ (n <= q => n * I <= s) /\ (q < n => (q + 1) * I <= n * I)
    BY <1>3, Times
  <2> DEFINE p == n * I
  <2>2. p \in Nat /\ (n <= q => p <= s) /\ (q < n => s + I <= p) /\ a + p <= today
    BY <1>6, <2>1
  <2> HIDE DEF p, s
  <2>3. a + p <= last
    BY <1>1, <1>3, <1>4, <2>2
  <2> QED
    BY <2>3 DEF p
<1> HIDE DEF s
<1>7. last \in Nat /\ last <= today /\ a <= last
  BY <1>1, <1>3, <1>4
<1> QED
  BY <1>5, <1>6, <1>7 DEF last

LEMMA WeeksRight ==
    ASSUME NEW cycle \in Cycle, cycle.kind = "WEEKS", cycle.day # NoDay, NEW today \in Nat, 1 <= today,
           NEW end \in Int
    PROVE  DueDatesOf(cycle, today, end)
<1> DEFINE I == cycle.weeks * Week
           a == cycle.day
           ahead == DueDays(cycle, today..end)
           behind == DueDays(cycle, 1..today)
           next == NextDueFromAnchor(today, a, I)
           last == LastDueFromAnchor(today, a, I)
<1>1. I \in Nat \ {0} /\ a \in Nat /\ a # 0
  BY WeeksDue DEF NoDay
<1>2. \A day \in Nat : IsDueDay(cycle, day) <=> a <= day /\ \E n \in Nat : day = a + n * I
  BY WeeksDue
<1>3. NextDueDate(cycle, today) = next /\ LastDueDate(cycle, today) = last
  BY DEF NextDueDate, LastDueDate
<1>4. /\ ahead \in SUBSET Int /\ IsFiniteSet(ahead) /\ ahead = {day \in today..end : IsDueDay(cycle, day)}
      /\ behind \in SUBSET Int /\ IsFiniteSet(behind) /\ behind = {day \in 1..today : IsDueDay(cycle, day)}
  <2>1. IsFiniteSet(today..end) /\ IsFiniteSet(1..today) /\ today..end \in SUBSET Int /\ 1..today \in SUBSET Int
    BY Bounds
  <2> QED
    BY <2>1, FS_Subset DEF DueDays
<1>5. (\A x \in today..end : x \in Nat) /\ \A x \in 1..today : x \in Nat
  OBVIOUS
<1> HIDE DEF I, a, ahead, behind
<1>6. ASSUME ahead # {} PROVE next = Min(ahead)
  <2>1. next \in Nat /\ today <= next /\ a <= next /\ \E n \in Nat : next = a + n * I
    BY <1>1, WeeksNext
  <2>2. ASSUME NEW y \in ahead PROVE next <= y /\ y \in Nat /\ y <= end
    <3>1. y \in Nat /\ today <= y /\ y <= end /\ \E n \in Nat : y = a + n * I
      BY <1>2, <1>4, <1>5
    <3>2. PICK n \in Nat : y = a + n * I
      BY <3>1
    <3> QED
      BY <1>1, <3>1, <3>2, WeeksAhead
  <2> HIDE DEF next
  <2>3. PICK y \in ahead : TRUE
    BY <1>6
  <2>4. next <= end
    BY <2>1, <2>2, <2>3
  <2>5. next \in ahead
    <3>1. next \in today..end /\ IsDueDay(cycle, next)
      BY <1>2, <2>1, <2>4
    <3> QED
      BY <1>4, <3>1
  <2> QED
    BY <1>4, <2>2, <2>5, LeastIs
<1>7. last = IF behind = {} THEN NoDay ELSE Max(behind)
  <2>1. CASE a <= today
    <3>1. /\ last \in Nat /\ last <= today /\ a <= last /\ \E n \in Nat : last = a + n * I
          /\ \A n \in Nat : a + n * I <= today => a + n * I <= last
      BY <1>1, <2>1, WeeksLast
    <3> HIDE DEF last
    <3>2. last \in behind
      <4>1. last \in 1..today /\ IsDueDay(cycle, last)
        BY <1>1, <1>2, <3>1
      <4> QED
        BY <1>4, <4>1
    <3>3. \A y \in behind : y <= last
      <4> TAKE y \in behind
      <4>1. y \in Nat /\ y <= today /\ \E n \in Nat : y = a + n * I
        BY <1>2, <1>4, <1>5
      <4> QED
        BY <3>1, <4>1
    <3>4. Max(behind) = last
      BY <1>4, <3>2, <3>3, GreatestIs
    <3> QED
      BY <3>2, <3>4
  <2>2. CASE ~(a <= today)
    <3>1. last = NoDay
      BY <1>1, <2>2 DEF LastDueFromAnchor
    <3>2. behind = {}
      <4> SUFFICES ASSUME NEW y \in behind PROVE FALSE
        OBVIOUS
      <4>1. y \in Nat /\ y <= today /\ a <= y
        BY <1>2, <1>4, <1>5
      <4> QED
        BY <1>1, <2>2, <4>1
    <3> QED
      BY <3>1, <3>2
  <2> QED
    BY <2>1, <2>2
<1> QED
  BY <1>3, <1>6, <1>7 DEF DueDatesOf, ahead, behind

-----------------------------------------------------------------------------
(* Months follow each other without a gap. *)
LEMMA MonthsFollow ==
    ASSUME NEW m \in Months
    PROVE  /\ m \in Nat \ {0} /\ m <= Len(MonthLengths) /\ FirstOf(m) \in Int /\ LastOf(m) \in Int
           /\ FirstOf(m) <= LastOf(m) /\ FirstOf(m + 1) = LastOf(m) + 1
           /\ LastOf(m) = FirstOf(m) + MonthLengths[m] - 1 /\ MonthLengths[m] \in Nat \ {0}
<1>1. m \in Nat \ {0} /\ m <= Len(MonthLengths) /\ MonthLengths[m] \in Nat \ {0}
  BY MonthsAre
<1>2. FirstOf(m) \in Int /\ LastOf(m) \in Int /\ FirstOf(m) <= LastOf(m)
  BY FirstInt
<1>3. FirstOf(m + 1) = FirstOf(m) + MonthLengths[m]
  BY <1>1, FirstNext
<1>4. LastOf(m) = FirstOf(m) + MonthLengths[m] - 1
  BY DEF LastOf
<1> QED
  BY <1>1, <1>2, <1>3, <1>4

LEMMA MonthsApart ==
    ASSUME NEW a \in Months, NEW b \in Months, a < b
    PROVE  LastOf(a) < FirstOf(b)
<1> DEFINE bad == {m \in Months : a < m /\ ~(LastOf(a) < FirstOf(m))}
<1> SUFFICES ASSUME bad # {} PROVE FALSE
  OBVIOUS
<1>1. bad \in SUBSET Int /\ IsFiniteSet(bad)
  <2>1. Months \in SUBSET Int /\ IsFiniteSet(Months)
    BY MonthsAre, FS_Interval
  <2> QED
    BY <2>1, FS_Subset
<1> DEFINE n == Min(bad)
<1>2. n \in bad /\ \A x \in bad : n <= x
  <2> HIDE DEF bad
  <2> QED
    BY <1>1, MinIs
<1> HIDE DEF n
<1>3. n \in Months /\ a < n /\ ~(LastOf(a) < FirstOf(n))
  BY <1>2
<1>4. a \in Nat \ {0} /\ n \in Nat /\ LastOf(a) \in Int /\ FirstOf(n) \in Int /\ FirstOf(a + 1) = LastOf(a) + 1
  BY <1>3, MonthsFollow
<1>5. CASE n = a + 1
  BY <1>3, <1>4, <1>5
<1>6. CASE n # a + 1
  <2>1. n - 1 \in Months /\ a < n - 1 /\ (n - 1) + 1 = n /\ n - 1 \in Nat
    BY <1>3, <1>4, <1>6, MonthsAre
  <2>2. n - 1 \notin bad
    <3> HIDE DEF bad
    <3> QED
      BY <1>2, <1>4
  <2>3. LastOf(a) < FirstOf(n - 1)
    BY <2>1, <2>2
  <2>4. /\ FirstOf(n - 1) \in Int /\ LastOf(n - 1) \in Int /\ FirstOf(n - 1) <= LastOf(n - 1)
        /\ FirstOf((n - 1) + 1) = LastOf(n - 1) + 1
    BY <2>1, MonthsFollow
  <2> QED
    BY <1>3, <1>4, <2>1, <2>3, <2>4
<1> QED
  BY <1>5, <1>6

LEMMA MonthEnds == ASSUME NEW m \in Months PROVE 1 <= FirstOf(m) /\ LastOf(m) <= LastDay
<1> DEFINE n == Len(MonthLengths)
<1>1. 1 \in Months /\ n \in Months /\ m \in Nat /\ 1 <= m /\ m <= n /\ n \in Nat
  BY MonthsAre
<1>2. FirstOf(m) \in Int /\ LastOf(m) \in Int /\ FirstOf(1) = 1 /\ FirstOf(n) \in Int /\ LastOf(n) \in Int
      /\ FirstOf(n) <= LastOf(n) /\ LastOf(1) \in Int /\ FirstOf(1) <= LastOf(1) /\ LastDay = LastOf(n)
  BY <1>1, MonthsFollow, FirstOne DEF LastDay
<1>3. m # 1 => LastOf(1) < FirstOf(m)
  BY <1>1, MonthsApart
<1>4. m # n => LastOf(m) < FirstOf(n)
  BY <1>1, MonthsApart
<1> QED
  BY <1>2, <1>3, <1>4

(* The month of a day is the only one with it. *)
LEMMA OneMonth ==
    ASSUME NEW m \in Months, NEW day \in Int, FirstOf(m) <= day, day <= LastOf(m)
    PROVE  MonthOf(day) = m
<1>1. MonthOf(day) \in Months /\ FirstOf(MonthOf(day)) <= day /\ day <= LastOf(MonthOf(day))
  BY DEF MonthOf
<1> DEFINE n == MonthOf(day)
<1> HIDE DEF n
<1>2. n \in Months /\ FirstOf(n) <= day /\ day <= LastOf(n)
  BY <1>1 DEF n
<1>3. n \in Nat /\ m \in Nat /\ FirstOf(n) \in Int /\ LastOf(n) \in Int /\ FirstOf(m) \in Int /\ LastOf(m) \in Int
  BY <1>2, MonthsFollow
<1>4. ~(n < m)
  <2> SUFFICES ASSUME n < m PROVE FALSE
    OBVIOUS
  <2>1. LastOf(n) < FirstOf(m)
    BY <1>2, MonthsApart
  <2> QED
    BY <1>2, <1>3, <2>1
<1>5. ~(m < n)
  <2> SUFFICES ASSUME m < n PROVE FALSE
    OBVIOUS
  <2>1. LastOf(m) < FirstOf(n)
    BY <1>2, MonthsApart
  <2> QED
    BY <1>2, <1>3, <2>1
<1>6. n = m
  BY <1>3, <1>4, <1>5
<1> QED
  BY <1>6 DEF n

(* A month has one due day, and it is what DueIn says. *)
LEMMA DueDayIs ==
    ASSUME NEW k \in Nat \ {0}, NEW m \in Months
    PROVE  DueIn(m, k) \in Int /\ FirstOf(m) <= DueIn(m, k) /\ DueIn(m, k) <= LastOf(m)
<1>1. FirstOf(m) \in Int /\ MonthLengths[m] \in Nat \ {0} /\ LastOf(m) = FirstOf(m) + MonthLengths[m] - 1
  BY MonthsFollow
<1>2. ClampDay(m, k) \in Nat \ {0} /\ ClampDay(m, k) <= MonthLengths[m]
  BY <1>1 DEF ClampDay
<1> QED
  BY <1>1, <1>2 DEF DueIn

LEMMA MonthsDue ==
    ASSUME NEW cycle \in Cycle, cycle.kind = "MONTHLY", cycle.day # NoDay, NEW m \in Months,
           NEW day \in Int, FirstOf(m) <= day, day <= LastOf(m)
    PROVE  IsDueDay(cycle, day) <=> day = DueIn(m, cycle.day)
<1> DEFINE k == cycle.day
<1>1. k \in Nat \ {0}
  BY DEF Cycle, NoDay
<1>2. MonthOf(day) = m
  BY OneMonth
<1>3. IsDueDay(cycle, day) <=> day - FirstOf(m) + 1 = k \/ (day = LastOf(m) /\ k > MonthLengths[m])
  BY <1>2 DEF IsDueDay
<1>4. FirstOf(m) \in Int /\ MonthLengths[m] \in Nat \ {0} /\ LastOf(m) = FirstOf(m) + MonthLengths[m] - 1
  BY MonthsFollow
<1>5. DueIn(m, k) = FirstOf(m) + (IF k < MonthLengths[m] THEN k ELSE MonthLengths[m]) - 1
  BY DEF DueIn, ClampDay
<1> HIDE DEF k
<1>6. (day - FirstOf(m) + 1 = k \/ (day = LastOf(m) /\ k > MonthLengths[m]))
      <=> day = FirstOf(m) + (IF k < MonthLengths[m] THEN k ELSE MonthLengths[m]) - 1
  BY <1>1, <1>4
<1> QED
  BY <1>3, <1>5, <1>6 DEF k

LEMMA MonthlyRight ==
    ASSUME NEW cycle \in Cycle, cycle.kind = "MONTHLY", cycle.day # NoDay,
           NEW today \in Nat, 1 <= today, LastOf(1) <= today, today <= LastDay
    PROVE  DueDatesOf(cycle, today, LastDay)
<1> DEFINE k == cycle.day
           m == MonthOf(today)
           ahead == DueDays(cycle, today..LastDay)
           behind == DueDays(cycle, 1..today)
           next == NextMonthlyDue(today, k)
           last == LastMonthlyDue(today, k)
<1>1. k \in Nat \ {0}
  BY DEF Cycle, NoDay
<1>2. m \in Months /\ FirstOf(m) <= today /\ today <= LastOf(m)
  BY MonthIs
<1>3. NextDueDate(cycle, today) = next /\ LastDueDate(cycle, today) = last
  BY DEF NextDueDate, LastDueDate
<1>4. /\ ahead \in SUBSET Int /\ IsFiniteSet(ahead) /\ ahead = {day \in today..LastDay : IsDueDay(cycle, day)}
      /\ behind \in SUBSET Int /\ IsFiniteSet(behind) /\ behind = {day \in 1..today : IsDueDay(cycle, day)}
  <2>1. IsFiniteSet(today..LastDay) /\ IsFiniteSet(1..today) /\ today..LastDay \in SUBSET Int /\ 1..today \in SUBSET Int
    BY LastIs, Bounds
  <2> QED
    BY <2>1, FS_Subset DEF DueDays
<1>5. next = IF today <= DueIn(m, k) THEN DueIn(m, k) ELSE DueIn(m + 1, k)
  BY DEF NextMonthlyDue
<1>6. last = IF today >= DueIn(m, k) THEN DueIn(m, k) ELSE DueIn(m - 1, k)
  BY DEF LastMonthlyDue
<1>7. ASSUME NEW y \in Int, 1 <= y, y <= LastDay
      PROVE  /\ MonthOf(y) \in Months /\ FirstOf(MonthOf(y)) <= y /\ y <= LastOf(MonthOf(y))
             /\ IsDueDay(cycle, y) <=> y = DueIn(MonthOf(y), k)
  <2>1. MonthOf(y) \in Months /\ FirstOf(MonthOf(y)) <= y /\ y <= LastOf(MonthOf(y))
    BY <1>7, MonthIs
  <2> QED
    BY <2>1, MonthsDue
<1>8. ASSUME NEW n \in Months
      PROVE  /\ DueIn(n, k) \in Int /\ FirstOf(n) <= DueIn(n, k) /\ DueIn(n, k) <= LastOf(n)
             /\ 1 <= DueIn(n, k) /\ DueIn(n, k) <= LastDay /\ IsDueDay(cycle, DueIn(n, k))
  <2>1. DueIn(n, k) \in Int /\ FirstOf(n) <= DueIn(n, k) /\ DueIn(n, k) <= LastOf(n)
    BY <1>1, DueDayIs
  <2>2. 1 <= FirstOf(n) /\ LastOf(n) <= LastDay /\ FirstOf(n) \in Int /\ LastOf(n) \in Int
    BY MonthEnds, MonthsFollow
  <2>3. IsDueDay(cycle, DueIn(n, k))
    BY <2>1, MonthsDue
  <2> QED
    BY <2>1, <2>2, <2>3, LastIs
<1>9. ASSUME NEW a \in Months, NEW b \in Months, a < b PROVE DueIn(a, k) < DueIn(b, k) /\ LastOf(a) < DueIn(b, k) /\ DueIn(a, k) < FirstOf(b)
  <2>1. LastOf(a) < FirstOf(b) /\ LastOf(a) \in Int /\ FirstOf(b) \in Int
    BY <1>9, MonthsApart, MonthsFollow
  <2> QED
    BY <1>8, <2>1
<1>10. (\A y \in ahead : y \in Int /\ today <= y /\ 1 <= y /\ y <= LastDay) /\ \A y \in behind : y \in Int /\ 1 <= y /\ y <= today /\ y <= LastDay
  BY <1>4, LastIs
<1> HIDE DEF m, ahead, behind, next, last, k
<1>11. m \in Nat /\ m <= Len(MonthLengths) /\ LastOf(m) \in Int /\ FirstOf(m) \in Int /\ DueIn(m, k) \in Int
  BY <1>2, <1>8, MonthsFollow
(* The month of a due day ahead is not before that of today, nor one behind after it. *)
<1>12. ASSUME NEW y \in ahead
       PROVE  \E n \in Months : m <= n /\ y = DueIn(n, k) /\ today <= y
  <2>1. /\ MonthOf(y) \in Months /\ FirstOf(MonthOf(y)) <= y /\ y <= LastOf(MonthOf(y))
        /\ y = DueIn(MonthOf(y), k) /\ today <= y /\ y \in Int
    BY <1>4, <1>7, <1>10
  <2> DEFINE n == MonthOf(y)
  <2> HIDE DEF n
  <2>2. n \in Months /\ y <= LastOf(n) /\ y = DueIn(n, k) /\ today <= y /\ n \in Nat /\ LastOf(n) \in Int
    BY <2>1, MonthsFollow DEF n
  <2>3. ~(n < m)
    <3> SUFFICES ASSUME n < m PROVE FALSE
      OBVIOUS
    <3>1. LastOf(n) < FirstOf(m)
      BY <1>2, <2>2, MonthsApart
    <3> QED
      BY <1>2, <1>11, <2>1, <2>2, <3>1
  <2> QED
    BY <1>11, <2>2, <2>3
<1>13. ASSUME NEW y \in behind
       PROVE  \E n \in Months : n <= m /\ y = DueIn(n, k) /\ y <= today
  <2>1. /\ MonthOf(y) \in Months /\ FirstOf(MonthOf(y)) <= y /\ y <= LastOf(MonthOf(y))
        /\ y = DueIn(MonthOf(y), k) /\ y <= today /\ y \in Int
    BY <1>4, <1>7, <1>10
  <2> DEFINE n == MonthOf(y)
  <2> HIDE DEF n
  <2>2. n \in Months /\ FirstOf(n) <= y /\ y = DueIn(n, k) /\ y <= today /\ n \in Nat /\ FirstOf(n) \in Int
    BY <2>1, MonthsFollow DEF n
  <2>3. ~(m < n)
    <3> SUFFICES ASSUME m < n PROVE FALSE
      OBVIOUS
    <3>1. LastOf(m) < FirstOf(n)
      BY <1>2, <2>2, MonthsApart
    <3> QED
      BY <1>2, <1>11, <2>1, <2>2, <3>1
  <2> QED
    BY <1>11, <2>2, <2>3
<1>14. ASSUME ahead # {} PROVE next = Min(ahead)
  <2>1. CASE today <= DueIn(m, k)
    <3>1. next = DueIn(m, k) /\ next \in today..LastDay /\ IsDueDay(cycle, next)
      BY <1>2, <1>5, <1>8, <2>1, LastIs
    <3>2. next \in ahead
      BY <1>4, <3>1
    <3>3. \A y \in ahead : next <= y
      <4> TAKE y \in ahead
      <4>1. PICK n \in Months : m <= n /\ y = DueIn(n, k)
        BY <1>12
      <4>2. n \in Nat /\ (m < n => DueIn(m, k) < DueIn(n, k)) /\ DueIn(n, k) \in Int
        BY <1>2, <1>8, <1>9, MonthsFollow
      <4> QED
        BY <1>11, <3>1, <4>1, <4>2
    <3> QED
      BY <1>4, <3>2, <3>3, LeastIs
  <2>2. CASE ~(today <= DueIn(m, k))
    <3>1. ASSUME NEW n \in Months, m <= n, today <= DueIn(n, k) PROVE m + 1 <= n /\ n \in Nat
      <4>1. n \in Nat /\ n # m
        BY <2>2, <3>1, MonthsFollow
      <4> QED
        BY <1>11, <3>1, <4>1
    <3>2. m + 1 \in Months
      <4>1. PICK y \in ahead : TRUE
        BY <1>14
      <4>2. PICK n \in Months : m <= n /\ y = DueIn(n, k) /\ today <= y
        BY <1>12
      <4>3. m + 1 <= n /\ n \in Nat
        BY <3>1, <4>2
      <4> QED
        BY <1>11, <4>3, MonthsAre
    <3>3. next = DueIn(m + 1, k) /\ next \in Int /\ next <= LastDay /\ IsDueDay(cycle, next)
      BY <1>5, <1>8, <2>2, <3>2
    <3>4. today <= next
      <4>1. LastOf(m) < DueIn(m + 1, k)
        BY <1>2, <1>9, <1>11, <3>2
      <4> QED
        BY <1>2, <1>11, <3>3, <4>1
    <3>5. next \in ahead
      <4>1. next \in today..LastDay
        BY <3>3, <3>4, LastIs
      <4> QED
        BY <1>4, <3>3, <4>1
    <3>6. \A y \in ahead : next <= y
      <4> TAKE y \in ahead
      <4>1. PICK n \in Months : m <= n /\ y = DueIn(n, k) /\ today <= y
        BY <1>12
      <4>2. m + 1 <= n /\ n \in Nat
        BY <3>1, <4>1
      <4>3. (m + 1 < n => DueIn(m + 1, k) < DueIn(n, k)) /\ DueIn(n, k) \in Int
        BY <1>8, <1>9, <3>2
      <4> QED
        BY <1>11, <3>3, <4>1, <4>2, <4>3
    <3> QED
      BY <1>4, <3>5, <3>6, LeastIs
  <2> QED
    BY <2>1, <2>2
<1>15. last \in behind /\ \A y \in behind : y <= last
  <2>1. CASE today >= DueIn(m, k)
    <3>1. last = DueIn(m, k) /\ last \in 1..today /\ IsDueDay(cycle, last)
      BY <1>2, <1>6, <1>8, <2>1
    <3>2. last \in behind
      BY <1>4, <3>1
    <3>3. \A y \in behind : y <= last
      <4> TAKE y \in behind
      <4>1. PICK n \in Months : n <= m /\ y = DueIn(n, k)
        BY <1>13
      <4>2. n \in Nat /\ (n < m => DueIn(n, k) < DueIn(m, k)) /\ DueIn(n, k) \in Int
        BY <1>2, <1>8, <1>9, MonthsFollow
      <4> QED
        BY <1>11, <3>1, <4>1, <4>2
    <3> QED
      BY <3>2, <3>3
  <2>2. CASE ~(today >= DueIn(m, k))
    <3>1. m # 1
      <4> SUFFICES ASSUME m = 1 PROVE FALSE
        OBVIOUS
      <4>1. DueIn(m, k) <= LastOf(1)
        BY <1>2, <1>8
      <4> QED
        BY <1>11, <2>2, <4>1, LastIs
    <3>2. m - 1 \in Months /\ m - 1 < m /\ m - 1 \in Nat
      BY <1>2, <1>11, <3>1, MonthsAre
    <3>3. last = DueIn(m - 1, k) /\ last \in Int /\ 1 <= last /\ IsDueDay(cycle, last)
      BY <1>6, <1>8, <2>2, <3>2
    <3>4. last <= today
      <4>1. DueIn(m - 1, k) < FirstOf(m)
        BY <1>2, <1>9, <3>2
      <4> QED
        BY <1>2, <1>11, <3>3, <4>1
    <3>5. last \in behind
      <4>1. last \in 1..today
        BY <3>3, <3>4
      <4> QED
        BY <1>4, <3>3, <4>1
    <3>6. \A y \in behind : y <= last
      <4> TAKE y \in behind
      <4>1. PICK n \in Months : n <= m /\ y = DueIn(n, k) /\ y <= today
        BY <1>13
      <4>2. n \in Nat /\ n # m
        BY <1>11, <2>2, <4>1, MonthsFollow
      <4>3. n <= m - 1
        BY <1>11, <4>1, <4>2
      <4>4. (n < m - 1 => DueIn(n, k) < DueIn(m - 1, k)) /\ DueIn(n, k) \in Int
        BY <1>8, <1>9, <3>2
      <4> QED
        BY <3>2, <3>3, <4>1, <4>2, <4>3, <4>4
    <3> QED
      BY <3>5, <3>6
  <2> QED
    BY <2>1, <2>2
<1>16. last = IF behind = {} THEN NoDay ELSE Max(behind)
  <2>1. Max(behind) = last
    BY <1>4, <1>15, GreatestIs
  <2> QED
    BY <1>15, <2>1
<1> QED
  BY <1>3, <1>14, <1>16 DEF DueDatesOf, ahead, behind

LEMMA DueDatesOfCycle == ASSUME BooksTyped, NEW cycle \in Cycle PROVE DueDatesOf(cycle, Today, LastDay) /\ Today \in Nat
<1>1. Today \in Nat /\ LastOf(1) <= Today /\ Today <= LastDay /\ 1 <= Today /\ LastDay \in Int
  <2>1. Today \in Int /\ LastOf(1) <= Today /\ Today <= LastDay /\ 1 <= Today
    BY TodayIs DEF BooksTyped
  <2> QED
    BY <2>1, LastIs
<1> DEFINE today == Today
<1>3. cycle.kind \in {"CASH_ON_DELIVERY", "WEEKS", "MONTHLY"}
  BY DEF Cycle
<1>4. today \in Nat /\ LastOf(1) <= today /\ today <= LastDay /\ 1 <= today
  BY <1>1
<1> HIDE DEF today
<1>5. CASE cycle.kind = "CASH_ON_DELIVERY" \/ cycle.day = NoDay
  BY <1>4, <1>5 DEF DueDatesOf, today
<1>6. CASE cycle.kind = "WEEKS" /\ cycle.day # NoDay
  BY <1>1, <1>3, <1>4, <1>6, WeeksRight DEF today
<1>7. CASE cycle.kind = "MONTHLY" /\ cycle.day # NoDay
  BY <1>3, <1>4, <1>7, MonthlyRight DEF today
<1> QED
  BY <1>1, <1>3, <1>5, <1>6, <1>7

LEMMA CyclesAre == ASSUME BooksTyped PROVE \A c \in Customers : scene.cycle[c] \in Cycle
<1>1. Inputs(scene)
  BY SceneIs DEF BooksTyped, Ticking
<1> QED
  BY <1>1 DEF Inputs

LEMMA DueDatesAre == ASSUME BooksTyped PROVE DueDatesRight
<1>1. \A c \in scene.who : c \in Customers
  BY SceneIs DEF BooksTyped, Ticking
<1> QED
  BY <1>1, CyclesAre, DueDatesOfCycle DEF DueDatesRight

LEMMA LastDueIs == ASSUME BooksTyped, NEW cycle \in Cycle PROVE LastDueDate(cycle, Today) \in Int /\ Today \in Int
<1>1. DueDatesOf(cycle, Today, LastDay) /\ Today \in Nat
  BY DueDatesOfCycle
<1>2. cycle.kind \in {"CASH_ON_DELIVERY", "WEEKS", "MONTHLY"}
  BY DEF Cycle
<1> DEFINE behind == DueDays(cycle, 1..Today)
<1>3. CASE cycle.kind = "CASH_ON_DELIVERY" \/ cycle.day = NoDay
  BY <1>1, <1>3 DEF LastDueDate, NoDay
<1>4. CASE ~(cycle.kind = "CASH_ON_DELIVERY" \/ cycle.day = NoDay)
  <2>1. LastDueDate(cycle, Today) = IF behind = {} THEN NoDay ELSE Max(behind)
    BY <1>1, <1>4 DEF DueDatesOf
  <2>2. behind \in SUBSET (1..Today) /\ 1..Today \in SUBSET Int
    BY DEF DueDays
  <2>3. IsFiniteSet(1..Today)
    BY <1>1, FS_Interval
  <2> HIDE DEF behind
  <2>4. behind \in SUBSET Int /\ IsFiniteSet(behind)
    BY <2>2, <2>3, FS_Subset
  <2>5. behind # {} => Max(behind) \in behind
    BY <2>4, MaxIs
  <2>6. CASE behind = {}
    BY <1>1, <2>1, <2>6 DEF NoDay
  <2>7. CASE behind # {}
    <3>1. LastDueDate(cycle, Today) = Max(behind)
      BY ONLY <2>1, <2>7
    <3>2. Max(behind) \in Int
      BY ONLY <2>4, <2>5, <2>7
    <3>3. Today \in Int
      BY ONLY <1>1
    <3> QED
      BY ONLY <3>1, <3>2, <3>3
  <2> QED
    BY <2>6, <2>7
<1> QED
  BY <1>3, <1>4

-----------------------------------------------------------------------------
(* The debits that are open, oldest first, and what is left of the first k. *)
Debit == [left : Nat \ {0}, at : Int]

LEMMA DebitsAre ==
    ASSUME NEW q \in Seq(Debit)
    PROVE  /\ DOMAIN q = 1..Len(q) /\ Len(q) \in Nat /\ IsFiniteSet(0..Len(q)) /\ 0..Len(q) \in SUBSET Int
           /\ \A k \in 0..Len(q) : IsFiniteSet(1..k)
           /\ \A k \in DOMAIN q : q[k] \in Debit /\ q[k].left \in Nat \ {0} /\ q[k].left \in Nat
<1>1. DOMAIN q = 1..Len(q) /\ Len(q) \in Nat /\ \A k \in DOMAIN q : q[k] \in Debit
  BY SeqDomain
<1>2. \A k \in DOMAIN q : q[k].left \in Nat \ {0}
  BY <1>1 DEF Debit
<1>3. IsFiniteSet(0..Len(q))
  BY <1>1, FS_Interval
<1>4. \A k \in 0..Len(q) : IsFiniteSet(1..k)
  BY <1>1, FS_Interval
<1> QED
  BY <1>1, <1>2, <1>3, <1>4

LEMMA LeftStep ==
    ASSUME NEW q \in Seq(Debit)
    PROVE  /\ LeftIn(q, 0) = 0
           /\ \A k \in DOMAIN q : /\ LeftIn(q, k) = LeftIn(q, k - 1) + q[k].left
                                  /\ LeftIn(q, k - 1) \in Nat /\ LeftIn(q, k) \in Nat
<1>1. /\ DOMAIN q = 1..Len(q) /\ Len(q) \in Nat /\ \A k \in DOMAIN q : q[k].left \in Nat
      /\ \A k \in 0..Len(q) : IsFiniteSet(1..k)
  BY DebitsAre
<1> DEFINE f(k) == [j \in 1..k |-> q[j].left]
<1>2. ASSUME NEW k \in 0..Len(q) PROVE LeftIn(q, k) = SumFunction(f(k)) /\ SumFunction(f(k)) \in Nat
  <2>1. IsFiniteSet(DOMAIN f(k)) /\ \A j \in DOMAIN f(k) : f(k)[j] \in Nat
    BY <1>1
  <2>2. SumFunction(f(k)) \in Nat
    <3> HIDE DEF f
    <3> QED
      BY <2>1, TotalNat
  <2> QED
    BY <2>2 DEF LeftIn
<1>3. LeftIn(q, 0) = 0
  <2>1. DOMAIN f(0) = {}
    OBVIOUS
  <2>2. SumFunction(f(0)) = 0
    <3> HIDE DEF f
    <3> QED
      BY <2>1, TotalEmpty
  <2> QED
    BY <1>1, <2>2 DEF LeftIn
<1>4. ASSUME NEW k \in DOMAIN q PROVE LeftIn(q, k) = LeftIn(q, k - 1) + q[k].left
  <2>1. k \in 1..Len(q) /\ k - 1 \in 0..Len(q) /\ k \in 0..Len(q)
    BY <1>1
  <2>2. /\ IsFiniteSet(DOMAIN f(k - 1)) /\ k \notin DOMAIN f(k - 1) /\ DOMAIN f(k) = DOMAIN f(k - 1) \cup {k}
        /\ \A y \in DOMAIN f(k - 1) : f(k)[y] = f(k - 1)[y] /\ f(k - 1)[y] \in Int
        /\ f(k)[k] = q[k].left /\ f(k)[k] \in Int
    BY <1>1, <2>1
  <2>3. SumFunction(f(k)) = SumFunction(f(k - 1)) + f(k)[k]
    <3> HIDE DEF f
    <3> QED
      BY <2>2, TotalAdd
  <2> QED
    BY <1>2, <2>1, <2>2, <2>3
<1>5. ASSUME NEW k \in DOMAIN q PROVE LeftIn(q, k - 1) \in Nat /\ LeftIn(q, k) \in Nat
  <2>1. k - 1 \in 0..Len(q) /\ k \in 0..Len(q)
    BY <1>1
  <2> HIDE DEF f
  <2> QED
    BY <1>2, <2>1
<1> QED
  BY <1>3, <1>4, <1>5

LEMMA LeftNat == ASSUME NEW q \in Seq(Debit) PROVE \A k \in 0..Len(q) : LeftIn(q, k) \in Nat
<1>1. \A k \in 0..Len(q) : k = 0 \/ k \in DOMAIN q
  BY SeqDomain
<1> QED
  BY <1>1, LeftStep

LEMMA LeftGrows ==
    ASSUME NEW q \in Seq(Debit)
    PROVE  \A j, k \in 0..Len(q) : j < k => LeftIn(q, j) < LeftIn(q, k)
<1> DEFINE bad == {k \in 0..Len(q) : \E j \in 0..Len(q) : j < k /\ ~(LeftIn(q, j) < LeftIn(q, k))}
<1>1. DOMAIN q = 1..Len(q) /\ Len(q) \in Nat /\ IsFiniteSet(0..Len(q)) /\ 0..Len(q) \in SUBSET Int
  BY DebitsAre
<1>2. CASE bad # {}
  <2>1. bad \in SUBSET Int /\ IsFiniteSet(bad)
    BY <1>1, FS_Subset
  <2>2. PICK k \in bad : \A x \in bad : k <= x
    BY <1>2, <2>1, MinIs
  <2>3. PICK j \in 0..Len(q) : j < k /\ ~(LeftIn(q, j) < LeftIn(q, k))
    BY <2>2
  <2>4. k \in DOMAIN q /\ k - 1 \in 0..Len(q) /\ k - 1 \notin bad
    BY <1>1, <2>2, <2>3
  <2>5. /\ LeftIn(q, k) = LeftIn(q, k - 1) + q[k].left /\ LeftIn(q, k - 1) \in Nat /\ q[k].left \in Nat \ {0}
        /\ LeftIn(q, j) \in Nat
    BY <2>4, LeftStep, LeftNat, DebitsAre
  <2>6. j = k - 1 \/ LeftIn(q, j) < LeftIn(q, k - 1)
    BY <1>1, <2>3, <2>4
  <2> QED
    BY <2>3, <2>5, <2>6
<1>3. CASE bad = {}
  BY <1>3
<1> QED
  BY <1>2, <1>3

(* What is left in the first k debits, of queues that agree on them. *)
LEMMA LeftSame ==
    ASSUME NEW q, NEW r, NEW k, \A j \in 1..k : r[j].left = q[j].left
    PROVE  LeftIn(r, k) = LeftIn(q, k)
<1>1. [j \in 1..k |-> r[j].left] = [j \in 1..k |-> q[j].left]
  OBVIOUS
<1> QED
  BY <1>1 DEF LeftIn

(* One debit more. *)
Charges(q, x, r) ==
    /\ r \in Seq(Debit) /\ Len(r) = Len(q) + 1 /\ DOMAIN r = DOMAIN q \cup {Len(q) + 1} /\ r[Len(q) + 1] = x
    /\ \A k \in DOMAIN q : r[k] = q[k]
    /\ \A k \in 0..Len(q) : LeftIn(r, k) = LeftIn(q, k)
    /\ LeftIn(r, Len(r)) = LeftIn(q, Len(q)) + x.left

LEMMA LeftAppended == ASSUME NEW q \in Seq(Debit), NEW x \in Debit PROVE Charges(q, x, Append(q, x))
<1> DEFINE r == Append(q, x)
<1>1. /\ r \in Seq(Debit) /\ Len(r) = Len(q) + 1 /\ DOMAIN q = 1..Len(q) /\ DOMAIN r = DOMAIN q \cup {Len(q) + 1}
      /\ r[Len(q) + 1] = x /\ \A k \in DOMAIN q : r[k] = q[k]
  BY Appended
<1>2. ASSUME NEW k \in 0..Len(q) PROVE LeftIn(r, k) = LeftIn(q, k)
  <2>1. \A j \in 1..k : r[j].left = q[j].left
    BY <1>1
  <2> QED
    BY <2>1, LeftSame
<1>3. LeftIn(r, Len(r)) = LeftIn(r, Len(r) - 1) + r[Len(r)].left
  BY <1>1, LeftStep
<1>4. Len(r) - 1 = Len(q) /\ Len(q) \in 0..Len(q)
  BY <1>1
<1> HIDE DEF r
<1>5. Charges(q, x, r)
  BY <1>1, <1>2, <1>3, <1>4 DEF Charges
<1> QED
  BY <1>5 DEF r

(* What a credit reaches in full is a first part of the debits. *)
LEMMA ClosedAre ==
    ASSUME NEW q \in Seq(Debit), NEW credit \in Nat
    PROVE  \E d \in 0..Len(q) :
               /\ d = Cardinality({k \in DOMAIN q : LeftIn(q, k) <= credit})
               /\ LeftIn(q, d) <= credit /\ \A k \in DOMAIN q : k > d => LeftIn(q, k) > credit
<1> DEFINE all == {k \in 0..Len(q) : LeftIn(q, k) <= credit}
<1>1. DOMAIN q = 1..Len(q) /\ Len(q) \in Nat /\ IsFiniteSet(0..Len(q)) /\ 0..Len(q) \in SUBSET Int
  BY DebitsAre
<1>2. all \in SUBSET Int /\ IsFiniteSet(all) /\ 0 \in all
  <2>1. 0 \in all
    BY <1>1, LeftStep
  <2> QED
    BY <1>1, <2>1, FS_Subset
<1>3. PICK d \in all : \A x \in all : x <= d
  BY <1>2, MaxIs
<1>4. {k \in DOMAIN q : LeftIn(q, k) <= credit} = 1..d
  <2>1. \A k \in 1..d : LeftIn(q, k) <= credit
    BY <1>1, <1>3, LeftGrows, LeftNat
  <2> QED
    BY <1>1, <1>3, <2>1
<1>5. Cardinality(1..d) = d
  BY <1>1, <1>3, FS_Interval
<1>6. \A k \in DOMAIN q : k > d => LeftIn(q, k) > credit
  BY <1>1, <1>3, LeftNat
<1> QED
  BY <1>3, <1>4, <1>5, <1>6

(* A credit closes some of the first debits, and takes the rest of it from the next. *)
Settles(q, credit, d, r) ==
    /\ r \in Seq(Debit) /\ d \in 0..Len(q) /\ Len(r) = Len(q) - d /\ LeftIn(q, d) <= credit
    /\ \A k \in DOMAIN r : r[k].at = q[k + d].at /\ LeftIn(r, k) = LeftIn(q, k + d) - credit

LEMMA EmptyIs == ASSUME NEW S, NEW s \in Seq(S) PROVE s = <<>> <=> Len(s) = 0
  OBVIOUS

LEMMA PartOf ==
    ASSUME NEW q \in Seq(Debit), NEW d \in 0..Len(q), NEW rest, rest = SubSeq(q, d + 1, Len(q))
    PROVE  /\ rest \in Seq(Debit) /\ Len(rest) = Len(q) - d /\ (rest = <<>> <=> d = Len(q))
           /\ \A k \in DOMAIN rest : rest[k] = q[k + d] /\ k + d \in DOMAIN q
<1>1. DOMAIN q = 1..Len(q) /\ Len(q) \in Nat
  BY DebitsAre
<1>2. rest \in Seq(Debit) /\ Len(rest) = Len(q) - d
  OBVIOUS
<1>3. \A k \in 1..Len(rest) : rest[k] = q[k + d]
  BY <1>2
<1>4. DOMAIN rest = 1..Len(rest)
  BY <1>2, DebitsAre
<1>5. rest = <<>> <=> Len(rest) = 0
  BY <1>2, EmptyIs
<1>6. \A k \in 1..Len(rest) : k + d \in 1..Len(q)
  BY ONLY <1>1, <1>2, d \in 0..Len(q)
<1>7. rest = <<>> <=> d = Len(q)
  <2>1. Len(rest) = 0 <=> d = Len(q)
    BY ONLY <1>1, <1>2, d \in 0..Len(q)
  <2> QED
    BY ONLY <1>5, <2>1
<1> QED
  BY ONLY <1>1, <1>2, <1>3, <1>4, <1>6, <1>7

LEMMA Settled ==
    ASSUME NEW q \in Seq(Debit), NEW credit \in Nat
    PROVE  \E d : Settles(q, credit, d, Settle(q, credit))
<1>1. PICK d \in 0..Len(q) : /\ d = Cardinality({k \in DOMAIN q : LeftIn(q, k) <= credit})
                             /\ LeftIn(q, d) <= credit /\ \A k \in DOMAIN q : k > d => LeftIn(q, k) > credit
  BY ClosedAre
<1> DEFINE rest == SubSeq(q, d + 1, Len(q))
           r == Settle(q, credit)
<1>2. r = IF rest = <<>> THEN rest ELSE [rest EXCEPT ![1].left = LeftIn(q, d + 1) - credit]
  BY <1>1 DEF Settle
<1>3. /\ rest \in Seq(Debit) /\ Len(rest) = Len(q) - d /\ (rest = <<>> <=> d = Len(q))
      /\ \A k \in DOMAIN rest : rest[k] = q[k + d] /\ k + d \in DOMAIN q
  BY PartOf
<1>4. DOMAIN q = 1..Len(q) /\ Len(q) \in Nat /\ DOMAIN rest = 1..Len(rest)
  BY <1>3, DebitsAre
<1> HIDE DEF rest, r
<1>5. CASE rest = <<>>
  <2>1. r \in Seq(Debit) /\ Len(r) = 0 /\ DOMAIN r = {} /\ Len(q) - d = 0
    BY <1>2, <1>3, <1>4, <1>5
  <2> QED
    BY <1>1, <2>1 DEF Settles, r
<1>6. CASE rest # <<>>
  <2> DEFINE left == LeftIn(q, d + 1) - credit
             first == [rest[1] EXCEPT !.left = left]
  <2>1. 1 \in DOMAIN rest /\ d + 1 \in DOMAIN q /\ d + 1 \in 0..Len(q)
    BY <1>1, <1>3, <1>4, <1>6
  <2>2. LeftIn(q, d + 1) > credit /\ LeftIn(q, d + 1) \in Nat
    <3>1. d + 1 > d
      OBVIOUS
    <3>2. LeftIn(q, d + 1) > credit
      BY <1>1, <2>1, <3>1
    <3>3. LeftIn(q, d + 1) \in Nat
      BY <2>1, LeftNat
    <3> QED
      BY <3>2, <3>3
  <2>3. left \in Nat \ {0}
    BY <2>2
  <2>4. rest[1] \in Debit
    BY <1>3, <2>1, DebitsAre
  <2> HIDE DEF left
  <2>5. first \in Debit /\ first.left = left /\ first.at = rest[1].at
    BY <2>3, <2>4 DEF Debit
  <2>6. r = [rest EXCEPT ![1] = first]
    BY <1>2, <1>6 DEF left
  <2> HIDE DEF first
  <2>7. /\ r \in Seq(Debit) /\ Len(r) = Len(rest) /\ DOMAIN r = DOMAIN rest /\ r[1] = first
        /\ \A k \in DOMAIN rest : k # 1 => r[k] = rest[k]
    BY <1>3, <2>1, <2>5, <2>6
  <2>8. \A k \in DOMAIN r : r[k].at = q[k + d].at
    BY <1>3, <2>1, <2>5, <2>7
  <2> DEFINE bad == {k \in DOMAIN r : LeftIn(r, k) # LeftIn(q, k + d) - credit}
  <2>9. bad = {}
    <3> SUFFICES ASSUME bad # {} PROVE FALSE
      OBVIOUS
    <3>1. DOMAIN r = 1..Len(r) /\ Len(r) \in Nat /\ IsFiniteSet(0..Len(r)) /\ 0..Len(r) \in SUBSET Int
      BY <2>7, DebitsAre
    <3>2. bad \in SUBSET Int /\ IsFiniteSet(bad)
      BY <3>1, FS_Subset
    <3>3. PICK k \in bad : \A x \in bad : k <= x
      BY <3>2, MinIs
    <3>4. k \in DOMAIN r /\ LeftIn(r, k) # LeftIn(q, k + d) - credit
      BY <3>3
    <3>5. k \in 1..Len(r) /\ d \in Nat /\ k + d \in DOMAIN q
      BY <1>3, <2>7, <3>1, <3>4
    <3>6. /\ LeftIn(r, k) = LeftIn(r, k - 1) + r[k].left /\ LeftIn(r, 0) = 0
          /\ LeftIn(q, k + d) = LeftIn(q, (k + d) - 1) + q[k + d].left
          /\ LeftIn(q, k + d) \in Nat /\ LeftIn(q, (k + d) - 1) \in Nat /\ q[k + d].left \in Nat
      <4>1. LeftIn(r, k) = LeftIn(r, k - 1) + r[k].left /\ LeftIn(r, 0) = 0
        BY <2>7, <3>4, LeftStep
      <4>2. /\ LeftIn(q, k + d) = LeftIn(q, (k + d) - 1) + q[k + d].left
            /\ LeftIn(q, k + d) \in Nat /\ LeftIn(q, (k + d) - 1) \in Nat
        BY <3>5, LeftStep
      <4>3. q[k + d].left \in Nat
        BY <3>5, DebitsAre
      <4> QED
        BY <4>1, <4>2, <4>3
    <3>7. k # 1
      <4> SUFFICES ASSUME k = 1 PROVE FALSE
        OBVIOUS
      <4>1. LeftIn(r, 1) = left /\ d + 1 = k + d
        BY <1>1, <2>5, <2>7, <2>3, <3>5, <3>6
      <4> QED
        BY <3>4, <4>1 DEF left
    <3>8. r[k].left = q[k + d].left
      BY <1>3, <2>7, <3>4, <3>7
    <3>9. k - 1 \in DOMAIN r /\ k - 1 < k
      BY <3>1, <3>5, <3>7
    <3>10. LeftIn(r, k - 1) = LeftIn(q, (k - 1) + d) - credit
      BY <3>3, <3>5, <3>9
    <3>11. (k - 1) + d = (k + d) - 1
      BY <3>5
    <3> HIDE DEF bad
    <3> QED
      BY <3>4, <3>6, <3>8, <3>10, <3>11
  <2> QED
    BY <1>1, <1>3, <2>7, <2>8, <2>9 DEF Settles, r
<1> QED
  BY <1>5, <1>6

(* So it takes all of the credit, as far as it goes, and the debit that stands at a sum of what is
   left stood at that sum and the credit. *)
LEMMA SettledLeft ==
    ASSUME NEW q \in Seq(Debit), NEW credit \in Nat, NEW d, NEW r, Settles(q, credit, d, r)
    PROVE  /\ LeftIn(r, Len(r)) >= LeftIn(q, Len(q)) - credit
           /\ LeftIn(q, Len(q)) >= credit => LeftIn(r, Len(r)) = LeftIn(q, Len(q)) - credit
<1>1. /\ r \in Seq(Debit) /\ d \in 0..Len(q) /\ Len(r) = Len(q) - d /\ LeftIn(q, d) <= credit
      /\ \A k \in DOMAIN r : LeftIn(r, k) = LeftIn(q, k + d) - credit
  BY DEF Settles
<1>2. Len(q) \in Nat /\ Len(r) \in Nat /\ DOMAIN r = 1..Len(r) /\ LeftIn(r, 0) = 0
  BY <1>1, DebitsAre, LeftStep
<1>3. LeftIn(q, Len(q)) \in Nat
  BY <1>2, LeftNat
<1>4. CASE Len(r) = 0
  <2>1. d = Len(q)
    BY <1>1, <1>2, <1>4
  <2> QED
    BY <1>1, <1>2, <1>3, <1>4, <2>1
<1>5. CASE Len(r) # 0
  <2>1. Len(r) \in DOMAIN r /\ Len(r) + d = Len(q)
    BY <1>1, <1>2, <1>5
  <2>2. LeftIn(r, Len(r)) = LeftIn(q, Len(r) + d) - credit
    BY <1>1, <2>1
  <2> QED
    BY <1>3, <2>1, <2>2
<1> QED
  BY <1>4, <1>5

At(q, k, t) == k \in DOMAIN q /\ LeftIn(q, k) > t /\ LeftIn(q, k - 1) <= t

LEMMA SettledAt ==
    ASSUME NEW q \in Seq(Debit), NEW credit \in Nat, NEW d, NEW r, Settles(q, credit, d, r),
           NEW t \in Nat, NEW k, At(r, k, t)
    PROVE  At(q, k + d, t + credit) /\ r[k].at = q[k + d].at
<1>1. /\ r \in Seq(Debit) /\ d \in 0..Len(q) /\ Len(r) = Len(q) - d /\ LeftIn(q, d) <= credit
      /\ \A i \in DOMAIN r : r[i].at = q[i + d].at /\ LeftIn(r, i) = LeftIn(q, i + d) - credit
  BY DEF Settles
<1>2. /\ Len(q) \in Nat /\ Len(r) \in Nat /\ DOMAIN r = 1..Len(r) /\ DOMAIN q = 1..Len(q)
  BY <1>1, DebitsAre
<1>3. k \in 1..Len(r) /\ LeftIn(r, k) > t /\ LeftIn(r, k - 1) <= t /\ k \in DOMAIN r
  BY <1>2 DEF At
<1>4. k + d \in DOMAIN q /\ k + d \in 0..Len(q) /\ (k + d) - 1 \in 0..Len(q)
  BY <1>1, <1>2, <1>3
<1>5. LeftIn(q, k + d) \in Nat /\ LeftIn(q, (k + d) - 1) \in Nat /\ LeftIn(r, k) = LeftIn(q, k + d) - credit
  BY <1>1, <1>3, <1>4, LeftNat
<1>6. LeftIn(q, (k + d) - 1) <= t + credit
  <2>1. CASE k = 1
    <3>1. (k + d) - 1 = d
      BY <1>1, <2>1
    <3> QED
      BY <1>1, <1>5, <3>1
  <2>2. CASE k # 1
    <3>1. k - 1 \in DOMAIN r /\ (k - 1) + d = (k + d) - 1
      BY <1>1, <1>2, <1>3, <2>2
    <3>2. LeftIn(r, k - 1) = LeftIn(q, (k - 1) + d) - credit
      BY <1>1, <3>1
    <3> QED
      BY <1>3, <1>5, <3>1, <3>2
  <2> QED
    BY <2>1, <2>2
<1> QED
  BY <1>1, <1>3, <1>4, <1>5, <1>6 DEF At

-----------------------------------------------------------------------------
(* What a customer was charged and credited by the first n rows of the ledger. *)
Charged(c, n) == Debits(UpTo(c, n))
Credited(c, n) == Credits(UpTo(c, n))

LEMMA SumMore ==
    ASSUME BooksTyped, NEW rows \in SUBSET (DOMAIN ledger), NEW n \in DOMAIN ledger, n \notin rows
    PROVE  Sum(rows \cup {n}) = Sum(rows) + ledger[n].amount /\ Sum(rows) \in Int /\ ledger[n].amount \in Int
<1> DEFINE f == [i \in rows |-> ledger[i].amount]
           g == [i \in rows \cup {n} |-> ledger[i].amount]
<1>1. IsFiniteSet(rows) /\ \A i \in DOMAIN ledger : ledger[i].amount \in Int
  BY SumIsInt, EntryAmounts
<1>2. /\ IsFiniteSet(DOMAIN f) /\ n \notin DOMAIN f /\ DOMAIN g = DOMAIN f \cup {n}
      /\ \A y \in DOMAIN f : g[y] = f[y] /\ f[y] \in Int
      /\ g[n] \in Int /\ g[n] = ledger[n].amount
  BY <1>1
<1>3. Sum(rows) = SumFunction(f) /\ Sum(rows \cup {n}) = SumFunction(g)
  BY DEF Sum
<1> HIDE DEF f, g
<1>4. SumFunction(g) = SumFunction(f) + g[n] /\ SumFunction(f) \in Int
  BY <1>2, TotalAdd
<1> QED
  BY <1>2, <1>3, <1>4

LEMMA SumNone == Sum({}) = 0
<1> DEFINE f == [i \in {} |-> ledger[i].amount]
<1>1. DOMAIN f = {} /\ Sum({}) = SumFunction(f)
  BY DEF Sum
<1> HIDE DEF f
<1> QED
  BY <1>1, TotalEmpty

LEMMA NotNat == \A x \in Int : x >= 0 => x \in Nat
  OBVIOUS

(* What is summed of rows is not negative if none of them is. *)
LEMMA SumUp ==
    ASSUME BooksTyped, NEW rows \in SUBSET (DOMAIN ledger), \A i \in rows : ledger[i].amount > 0
    PROVE  Sum(rows) \in Nat
<1> DEFINE f == [i \in rows |-> ledger[i].amount]
<1>1. IsFiniteSet(rows) /\ \A i \in rows : ledger[i].amount \in Nat
  BY SumIsInt, EntryAmounts, NotNat
<1>2. IsFiniteSet(DOMAIN f) /\ \A i \in DOMAIN f : f[i] \in Nat
  BY <1>1
<1>3. Sum(rows) = SumFunction(f)
  BY DEF Sum
<1> HIDE DEF f
<1> QED
  BY <1>2, <1>3, TotalNat

LEMMA SumDown ==
    ASSUME BooksTyped, NEW rows \in SUBSET (DOMAIN ledger), \A i \in rows : ledger[i].amount < 0
    PROVE  -Sum(rows) \in Nat
<1> DEFINE f == [i \in rows |-> ledger[i].amount]
           g == [i \in rows |-> -ledger[i].amount]
           none == [i \in rows |-> 0]
<1>1. IsFiniteSet(rows) /\ \A i \in rows : ledger[i].amount \in Int /\ -ledger[i].amount \in Nat
  BY SumIsInt, EntryAmounts
<1>2. /\ IsFiniteSet(DOMAIN f) /\ DOMAIN g = DOMAIN f /\ \A i \in DOMAIN f : f[i] \in Int /\ g[i] = -f[i]
      /\ \A i \in DOMAIN g : g[i] \in Nat
      /\ DOMAIN none = DOMAIN f /\ \A i \in DOMAIN f : none[i] = 0
  BY <1>1
<1>3. Sum(rows) = SumFunction(f)
  BY DEF Sum
<1> HIDE DEF f, g, none
<1>4. SumFunction(g) \in Nat
  BY <1>2, TotalNat
<1>5. SumFunction(none) = SumFunction(f) + SumFunction(g) /\ SumFunction(f) \in Int
  <2>1. IsFiniteSet(DOMAIN f) /\ \A i \in DOMAIN f : f[i] \in Int /\ g[i] \in Int /\ none[i] = f[i] + g[i]
    BY <1>2
  <2>2. DOMAIN g = DOMAIN f /\ DOMAIN none = DOMAIN f /\ DOMAIN f = DOMAIN f
    BY <1>2
  <2> QED
    BY ONLY <2>1, <2>2, TotalPlus
<1>6. SumFunction(none) = 0
  BY <1>2, TotalZero
<1> QED
  BY <1>3, <1>4, <1>5, <1>6

Risen(rows) == {i \in rows : ledger[i].amount > 0}
Fallen(rows) == {i \in rows : ledger[i].amount < 0}

LEMMA LedgerIs ==
    ASSUME BooksTyped
    PROVE  /\ DOMAIN ledger = 1..Len(ledger) /\ Len(ledger) \in Nat
           /\ \A i \in DOMAIN ledger : ledger[i] \in EntryRow /\ ledger[i].amount \in Int /\ ledger[i].at \in Int
<1>1. DOMAIN ledger = 1..Len(ledger) /\ Len(ledger) \in Nat /\ \A i \in DOMAIN ledger : ledger[i] \in EntryRow
  BY SeqDomain DEF BooksTyped
<1> QED
  BY <1>1 DEF EntryRow

LEMMA UpToMore ==
    ASSUME BooksTyped, NEW c, NEW n \in DOMAIN ledger
    PROVE  /\ n - 1 \in 0..Len(ledger) /\ n \notin UpTo(c, n - 1) /\ UpTo(c, n - 1) \in SUBSET (DOMAIN ledger)
           /\ ledger[n].who = c => UpTo(c, n) = UpTo(c, n - 1) \cup {n} /\ n \in EntriesOf(c)
           /\ ledger[n].who # c => UpTo(c, n) = UpTo(c, n - 1)
BY LedgerIs DEF UpTo, EntriesOf

LEMMA RunNothing == ASSUME BooksTyped, NEW c PROVE Charged(c, 0) = 0 /\ Credited(c, 0) = 0
<1>1. UpTo(c, 0) = {}
  BY LedgerIs DEF UpTo, EntriesOf
<1>2. {i \in {} : ledger[i].amount > 0} = {} /\ {i \in {} : ledger[i].amount < 0} = {}
  OBVIOUS
<1>3. Charged(c, 0) = Sum({}) /\ Credited(c, 0) = -Sum({})
  BY <1>1, <1>2 DEF Charged, Credited, Debits, Credits
<1>4. \A x \in Int : x <= 0 /\ x >= 0 => -x \in Int /\ -x <= 0 /\ -x >= 0
  OBVIOUS
<1>5. -Sum({}) = 0
  <2> DEFINE minus == -Sum({})
  <2>1. minus \in Int /\ minus <= 0 /\ minus >= 0
    BY <1>4, SumNone
  <2> HIDE DEF minus
  <2>2. minus = 0
    BY <2>1
  <2> QED
    BY <2>2 DEF minus
<1> QED
  BY ONLY <1>3, <1>5, SumNone

LEMMA RunNat ==
    ASSUME BooksTyped, NEW c, NEW rows \in SUBSET (DOMAIN ledger)
    PROVE  Debits(rows) \in Nat /\ Credits(rows) \in Nat
<1>1. Risen(rows) \in SUBSET (DOMAIN ledger) /\ \A i \in Risen(rows) : ledger[i].amount > 0
  BY DEF Risen
<1>2. Fallen(rows) \in SUBSET (DOMAIN ledger) /\ \A i \in Fallen(rows) : ledger[i].amount < 0
  BY DEF Fallen
<1>3. Sum(Risen(rows)) \in Nat
  BY <1>1, SumUp
<1>4. -Sum(Fallen(rows)) \in Nat
  BY <1>2, SumDown
<1> QED
  BY <1>3, <1>4 DEF Debits, Credits, Risen, Fallen

(* One row more. *)
LEMMA RunMore ==
    ASSUME BooksTyped, NEW rows \in SUBSET (DOMAIN ledger), NEW n \in DOMAIN ledger, n \notin rows,
           NEW more, more = rows \cup {n}
    PROVE  /\ ledger[n].amount > 0 => Debits(more) = Debits(rows) + ledger[n].amount /\ Credits(more) = Credits(rows)
           /\ ~(ledger[n].amount > 0) => Debits(more) = Debits(rows) /\ Credits(more) = Credits(rows) - ledger[n].amount
           /\ Debits(rows) \in Nat /\ Credits(rows) \in Nat
<1>1. /\ ledger[n].amount \in Int /\ Risen(rows) \in SUBSET (DOMAIN ledger) /\ n \notin Risen(rows)
      /\ Fallen(rows) \in SUBSET (DOMAIN ledger) /\ n \notin Fallen(rows)
  BY LedgerIs DEF Risen, Fallen
<1>2. Debits(more) = Sum(Risen(more)) /\ Debits(rows) = Sum(Risen(rows))
  BY DEF Debits, Risen
<1>3. Credits(more) = -Sum(Fallen(more)) /\ Credits(rows) = -Sum(Fallen(rows))
  BY DEF Credits, Fallen
<1>4. Debits(rows) \in Nat /\ Credits(rows) \in Nat /\ Sum(Fallen(rows)) \in Int
  BY <1>1, RunNat, SumIsInt
<1>5. CASE ledger[n].amount > 0
  <2>1. Risen(more) = Risen(rows) \cup {n} /\ Fallen(more) = Fallen(rows)
    BY <1>1, <1>5 DEF Risen, Fallen
  <2>2. Sum(Risen(rows) \cup {n}) = Sum(Risen(rows)) + ledger[n].amount
    BY <1>1, SumMore
  <2> QED
    BY <1>2, <1>3, <1>4, <1>5, <2>1, <2>2
<1>6. CASE ledger[n].amount < 0
  <2>1. Risen(more) = Risen(rows) /\ Fallen(more) = Fallen(rows) \cup {n}
    BY <1>1, <1>6 DEF Risen, Fallen
  <2>2. Sum(Fallen(rows) \cup {n}) = Sum(Fallen(rows)) + ledger[n].amount
    BY <1>1, SumMore
  <2>3. ~(ledger[n].amount > 0)
    BY <1>1, <1>6
  <2>4. Credits(more) = Credits(rows) - ledger[n].amount
    <3>1. Credits(more) = -(Sum(Fallen(rows)) + ledger[n].amount)
      BY ONLY <1>3, <2>1, <2>2
    <3>2. Credits(rows) = -Sum(Fallen(rows)) /\ Sum(Fallen(rows)) \in Int /\ ledger[n].amount \in Int
      BY <1>1, <1>3, <1>4
    <3> DEFINE s == Sum(Fallen(rows))
               a == ledger[n].amount
    <3>3. -(s + a) = -s - a
      <4>1. s \in Int /\ a \in Int
        BY <3>2
      <4> HIDE DEF s, a
      <4> QED
        BY <4>1
    <3> QED
      BY ONLY <3>1, <3>2, <3>3 DEF s, a
  <2> QED
    BY <1>2, <1>4, <2>1, <2>3, <2>4
<1>7. CASE ledger[n].amount = 0
  <2>1. Risen(more) = Risen(rows) /\ Fallen(more) = Fallen(rows) /\ ~(ledger[n].amount > 0)
    BY <1>1, <1>7 DEF Risen, Fallen
  <2>2. Credits(rows) - 0 = Credits(rows)
    BY <1>4
  <2> QED
    BY <1>2, <1>3, <1>4, <1>7, <2>1, <2>2
<1> QED
  BY <1>1, <1>5, <1>6, <1>7

(* A balance is what was charged less what was credited. *)
LEMMA SumIsRun ==
    ASSUME BooksTyped, NEW rows \in SUBSET (DOMAIN ledger)
    PROVE  Sum(rows) = Debits(rows) - Credits(rows)
<1> DEFINE f == [i \in rows |-> ledger[i].amount]
           up == [i \in rows |-> IF ledger[i].amount > 0 THEN ledger[i].amount ELSE 0]
           down == [i \in rows |-> IF ledger[i].amount < 0 THEN ledger[i].amount ELSE 0]
           g == [i \in Risen(rows) |-> ledger[i].amount]
           h == [i \in Fallen(rows) |-> ledger[i].amount]
<1>1. IsFiniteSet(rows) /\ \A i \in rows : ledger[i].amount \in Int
  BY SumIsInt, LedgerIs
<1>2. /\ DOMAIN up = DOMAIN f /\ DOMAIN down = DOMAIN f /\ DOMAIN f = DOMAIN f /\ IsFiniteSet(DOMAIN f)
      /\ \A i \in DOMAIN f : up[i] \in Int /\ down[i] \in Int /\ f[i] = up[i] + down[i]
  BY <1>1
<1>3. IsFiniteSet(DOMAIN up) /\ DOMAIN g \in SUBSET (DOMAIN up)
      /\ \A i \in DOMAIN up : up[i] \in Int /\ up[i] = IF i \in DOMAIN g THEN g[i] ELSE 0
  BY <1>1 DEF Risen
<1>4. IsFiniteSet(DOMAIN down) /\ DOMAIN h \in SUBSET (DOMAIN down)
      /\ \A i \in DOMAIN down : down[i] \in Int /\ down[i] = IF i \in DOMAIN h THEN h[i] ELSE 0
  BY <1>1 DEF Fallen
<1>5. Sum(rows) = SumFunction(f) /\ Debits(rows) = SumFunction(g) /\ Credits(rows) = -SumFunction(h)
  BY DEF Sum, Debits, Credits, Risen, Fallen
<1> HIDE DEF f, up, down, g, h
<1>6. SumFunction(f) = SumFunction(up) + SumFunction(down) /\ SumFunction(up) \in Int /\ SumFunction(down) \in Int
  BY ONLY <1>2, TotalPlus
<1>7. SumFunction(g) = SumFunction(up)
  BY <1>3, TotalWithin
<1>8. SumFunction(h) = SumFunction(down)
  BY <1>4, TotalWithin
<1> QED
  BY <1>5, <1>6, <1>7, <1>8

-----------------------------------------------------------------------------
(* The open debits after each row of the ledger. *)
AfterRow(c, g, n) == IF n = 0 THEN <<>> ELSE Applied(c, g[n - 1], ledger[n])
Queued(c, g, m) == g = [n \in 0..m |-> AfterRow(c, g, n)]

LEMMA QueuesExist == ASSUME BooksTyped, NEW c PROVE \E g : Queued(c, g, Len(ledger))
<1> DEFINE bad == {m \in 0..Len(ledger) : ~\E g : Queued(c, g, m)}
<1>1. Len(ledger) \in Nat /\ IsFiniteSet(0..Len(ledger)) /\ 0..Len(ledger) \in SUBSET Int
  BY LedgerIs, FS_Interval
<1>2. ASSUME bad # {} PROVE FALSE
  <2>1. bad \in SUBSET Int /\ IsFiniteSet(bad)
    BY <1>1, FS_Subset
  <2>2. PICK m \in bad : \A x \in bad : m <= x
    BY <1>2, <2>1, MinIs
  <2>3. m \in 0..Len(ledger) /\ ~\E g : Queued(c, g, m)
    BY <2>2
  <2>4. CASE m = 0
    <3> DEFINE g == [n \in 0..0 |-> <<>>]
    <3>1. Queued(c, g, 0)
      BY DEF Queued, AfterRow
    <3> QED
      BY <2>3, <2>4, <3>1
  <2>5. CASE m # 0
    <3>1. m - 1 \in 0..Len(ledger) /\ m - 1 \notin bad /\ m \in Nat /\ m - 1 \in 0..(m - 1)
      BY <1>1, <2>2, <2>3, <2>5
    <3>2. PICK g : Queued(c, g, m - 1)
      BY <3>1
    <3> DEFINE h == [n \in 0..m |-> IF n = m THEN AfterRow(c, g, m) ELSE g[n]]
    <3>3. DOMAIN g = 0..(m - 1) /\ \A n \in 0..(m - 1) : g[n] = AfterRow(c, g, n)
      BY <3>2 DEF Queued
    <3>4. \A n \in 0..(m - 1) : h[n] = g[n]
      BY <3>1
    <3> HIDE DEF h
    <3>5. ASSUME NEW n \in 0..m PROVE AfterRow(c, h, n) = AfterRow(c, g, n)
      <4>1. n = 0 \/ n - 1 \in 0..(m - 1)
        BY <3>1
      <4> QED
        BY <3>4, <4>1 DEF AfterRow
    <3>6. h = [n \in 0..m |-> AfterRow(c, h, n)]
      <4>1. \A n \in 0..m : h[n] = AfterRow(c, g, n)
        <5>1. \A n \in 0..m : n = m \/ n \in 0..(m - 1)
          BY <3>1
        <5> QED
          BY <3>3, <5>1 DEF h
      <4>2. h = [n \in 0..m |-> h[n]]
        BY DEF h
      <4> QED
        BY <3>5, <4>1, <4>2
    <3> QED
      BY <2>3, <3>6 DEF Queued
  <2> QED
    BY <2>4, <2>5
<1>3. Len(ledger) \notin bad /\ Len(ledger) \in 0..Len(ledger)
  BY <1>1, <1>2
<1> QED
  BY <1>3

LEMMA OpenDebitsIs ==
    ASSUME BooksTyped, NEW c
    PROVE  \E g : Queued(c, g, Len(ledger)) /\ OpenDebits(c) = g[Len(ledger)]
<1> DEFINE open == CHOOSE g : g = [n \in 0..Len(ledger) |-> IF n = 0 THEN <<>> ELSE Applied(c, g[n - 1], ledger[n])]
<1>1. OpenDebits(c) = open[Len(ledger)]
  BY DEF OpenDebits
<1>2. Queued(c, open, Len(ledger))
  BY QueuesExist DEF Queued, AfterRow
<1> QED
  BY <1>1, <1>2

(* What one row does to the open debits. *)
Turns(c, q, e, r) ==
    /\ e.who # c => r = q
    /\ e.who = c /\ e.amount > 0 =>
          [left |-> e.amount, at |-> e.at] \in Debit /\ r = Append(q, [left |-> e.amount, at |-> e.at])
    /\ e.who = c /\ ~(e.amount > 0) => -e.amount \in Nat /\ \E d : Settles(q, -e.amount, d, r)

LEMMA AppliedIs ==
    ASSUME BooksTyped, NEW c, NEW q \in Seq(Debit), NEW n \in DOMAIN ledger, NEW r, r = Applied(c, q, ledger[n])
    PROVE  Turns(c, q, ledger[n], r)
<1>1. ledger[n].amount \in Int /\ ledger[n].at \in Int
  BY LedgerIs
<1>2. CASE ledger[n].who # c
  BY <1>1, <1>2 DEF Applied, Turns
<1>3. CASE ledger[n].who = c /\ ledger[n].amount > 0
  <2>1. ledger[n].amount \in Nat \ {0}
    BY <1>1, <1>3
  <2>2. r = Append(q, [left |-> ledger[n].amount, at |-> ledger[n].at])
    BY <1>3 DEF Applied
  <2>3. [left |-> ledger[n].amount, at |-> ledger[n].at] \in Debit
    BY <1>1, <2>1 DEF Debit
  <2> QED
    BY <1>1, <1>3, <2>2, <2>3 DEF Turns
<1>4. CASE ledger[n].who = c /\ ~(ledger[n].amount > 0)
  <2>1. -ledger[n].amount \in Nat
    BY <1>1, <1>4
  <2>2. r = Settle(q, -ledger[n].amount)
    BY <1>4 DEF Applied
  <2>3. \E d : Settles(q, -ledger[n].amount, d, r)
    BY <2>1, <2>2, Settled
  <2> QED
    BY <1>1, <1>4, <2>1, <2>3 DEF Turns
<1> QED
  BY <1>2, <1>3, <1>4 DEF Turns

(* Row i is the one that takes what c was charged beyond v. *)
Reaches(c, i, v) == i \in EntriesOf(c) /\ Charged(c, i) > v /\ Charged(c, i - 1) <= v

(* The open debits after n rows hold at least what c owes; if c was never in credit they hold just
   that, and stand for the rows that take what c was charged beyond what c was credited. *)
Owed(c, q, n) ==
    /\ q \in Seq(Debit) /\ LeftIn(q, Len(q)) >= Charged(c, n) - Credited(c, n)
    /\ NeverInCredit(c) =>
          /\ LeftIn(q, Len(q)) = Charged(c, n) - Credited(c, n)
          /\ \A t \in Nat, k \in DOMAIN q : At(q, k, t) =>
                \E i : Reaches(c, i, Credited(c, n) + t) /\ q[k].at = ledger[i].at

LEMMA RowsAre ==
    ASSUME BooksTyped, NEW c, NEW n \in 0..Len(ledger)
    PROVE  /\ UpTo(c, n) \in SUBSET (DOMAIN ledger) /\ Charged(c, n) \in Nat /\ Credited(c, n) \in Nat
           /\ Sum(UpTo(c, n)) = Charged(c, n) - Credited(c, n)
<1>1. UpTo(c, n) \in SUBSET (DOMAIN ledger)
  BY DEF UpTo, EntriesOf
<1> QED
  BY <1>1, RunNat, SumIsRun DEF Charged, Credited

LEMMA RowOfOther ==
    ASSUME BooksTyped, NEW c, NEW n \in DOMAIN ledger, ledger[n].who # c, NEW q, Owed(c, q, n - 1)
    PROVE  Owed(c, q, n)
<1>1. UpTo(c, n) = UpTo(c, n - 1)
  BY UpToMore
<1>2. Charged(c, n) = Charged(c, n - 1) /\ Credited(c, n) = Credited(c, n - 1)
  BY <1>1 DEF Charged, Credited
<1> QED
  BY <1>2 DEF Owed

LEMMA RowOfDebit ==
    ASSUME BooksTyped, NEW c, NEW n \in DOMAIN ledger, ledger[n].who = c, ledger[n].amount > 0,
           NEW x, x = [left |-> ledger[n].amount, at |-> ledger[n].at], x \in Debit,
           NEW q, Owed(c, q, n - 1), NEW r, r = Append(q, x)
    PROVE  Owed(c, r, n)
<1> DEFINE a == ledger[n].amount
<1>1. /\ q \in Seq(Debit) /\ LeftIn(q, Len(q)) >= Charged(c, n - 1) - Credited(c, n - 1)
      /\ NeverInCredit(c) =>
          /\ LeftIn(q, Len(q)) = Charged(c, n - 1) - Credited(c, n - 1)
          /\ \A t \in Nat, k \in DOMAIN q : At(q, k, t) =>
                \E i : Reaches(c, i, Credited(c, n - 1) + t) /\ q[k].at = ledger[i].at
  BY DEF Owed
<1>0. q \in Seq(Debit)
  BY DEF Owed
<1>2. /\ n - 1 \in 0..Len(ledger) /\ n \notin UpTo(c, n - 1) /\ UpTo(c, n - 1) \in SUBSET (DOMAIN ledger)
      /\ UpTo(c, n) = UpTo(c, n - 1) \cup {n} /\ n \in EntriesOf(c)
  BY UpToMore
<1>3. /\ Charged(c, n) = Charged(c, n - 1) + a /\ Credited(c, n) = Credited(c, n - 1)
      /\ Charged(c, n - 1) \in Nat /\ Credited(c, n - 1) \in Nat
  BY <1>2, RunMore DEF Charged, Credited
<1>4. /\ r \in Seq(Debit) /\ Len(r) = Len(q) + 1 /\ DOMAIN r = DOMAIN q \cup {Len(q) + 1} /\ r[Len(q) + 1] = x
      /\ \A k \in DOMAIN q : r[k] = q[k]
      /\ \A k \in 0..Len(q) : LeftIn(r, k) = LeftIn(q, k)
      /\ LeftIn(r, Len(r)) = LeftIn(q, Len(q)) + x.left
  <2>1. Charges(q, x, r)
    BY <1>0, LeftAppended
  <2> QED
    BY <2>1 DEF Charges
<1>5. x.left = a /\ x.at = ledger[n].at /\ a \in Int
  BY LedgerIs
<1>6. Len(q) \in Nat /\ DOMAIN q = 1..Len(q) /\ LeftIn(q, Len(q)) \in Nat
  <2>1. Len(q) \in Nat /\ DOMAIN q = 1..Len(q)
    BY <1>1, DebitsAre
  <2> QED
    BY <1>1, <2>1, LeftNat
<1> HIDE DEF a
<1>7. LeftIn(r, Len(r)) >= Charged(c, n) - Credited(c, n)
  BY <1>1, <1>3, <1>4, <1>5, <1>6
<1>8. ASSUME NeverInCredit(c) PROVE LeftIn(r, Len(r)) = Charged(c, n) - Credited(c, n)
  BY <1>1, <1>3, <1>4, <1>5, <1>6, <1>8
<1>9. ASSUME NeverInCredit(c), NEW t \in Nat, NEW k \in DOMAIN r, At(r, k, t)
      PROVE  \E i : Reaches(c, i, Credited(c, n) + t) /\ r[k].at = ledger[i].at
  <2>1. LeftIn(r, k) > t /\ LeftIn(r, k - 1) <= t
    BY <1>9 DEF At
  <2>2. CASE k \in DOMAIN q
    <3>1. k \in 0..Len(q) /\ k - 1 \in 0..Len(q)
      BY <1>6, <2>2
    <3>2. LeftIn(r, k) = LeftIn(q, k) /\ LeftIn(r, k - 1) = LeftIn(q, k - 1) /\ r[k] = q[k]
      BY <1>4, <2>2, <3>1
    <3>3. At(q, k, t)
      BY <2>1, <2>2, <3>2 DEF At
    <3>4. PICK i : Reaches(c, i, Credited(c, n - 1) + t) /\ q[k].at = ledger[i].at
      BY <1>1, <1>9, <2>2, <3>3
    <3> QED
      BY <1>3, <3>2, <3>4
  <2>3. CASE k = Len(q) + 1
    <3>1. k - 1 = Len(q) /\ k = Len(r) /\ Len(q) \in 0..Len(q)
      BY <1>4, <1>6, <2>3
    <3>2. LeftIn(r, Len(r)) > t /\ LeftIn(q, Len(q)) <= t
      BY <1>4, <2>1, <3>1
    <3>3. LeftIn(q, Len(q)) = Charged(c, n - 1) - Credited(c, n - 1)
      BY <1>1, <1>9
    <3>4. LeftIn(r, Len(r)) = Charged(c, n) - Credited(c, n)
      BY <1>8, <1>9
    <3>5. Charged(c, n) > Credited(c, n) + t /\ Charged(c, n - 1) <= Credited(c, n) + t
      BY <1>3, <1>5, <3>2, <3>3, <3>4
    <3>6. Reaches(c, n, Credited(c, n) + t)
      BY <1>2, <3>5 DEF Reaches
    <3> QED
      BY <1>4, <1>5, <2>3, <3>6
  <2> QED
    BY <1>4, <2>2, <2>3
<1> QED
  BY <1>4, <1>7, <1>8, <1>9 DEF Owed

LEMMA RowOfCredit ==
    ASSUME BooksTyped, NEW c, NEW n \in DOMAIN ledger, ledger[n].who = c, ~(ledger[n].amount > 0),
           NEW credit \in Nat, credit = -ledger[n].amount,
           NEW q, Owed(c, q, n - 1), NEW r, NEW d, Settles(q, credit, d, r)
    PROVE  Owed(c, r, n)
<1>1. /\ q \in Seq(Debit) /\ LeftIn(q, Len(q)) >= Charged(c, n - 1) - Credited(c, n - 1)
      /\ NeverInCredit(c) =>
          /\ LeftIn(q, Len(q)) = Charged(c, n - 1) - Credited(c, n - 1)
          /\ \A t \in Nat, k \in DOMAIN q : At(q, k, t) =>
                \E i : Reaches(c, i, Credited(c, n - 1) + t) /\ q[k].at = ledger[i].at
  BY DEF Owed
<1>2. /\ n - 1 \in 0..Len(ledger) /\ n \notin UpTo(c, n - 1) /\ UpTo(c, n - 1) \in SUBSET (DOMAIN ledger)
      /\ UpTo(c, n) = UpTo(c, n - 1) \cup {n} /\ n \in EntriesOf(c) /\ n \in 0..Len(ledger)
  BY UpToMore, LedgerIs
<1>3. /\ Charged(c, n) = Charged(c, n - 1) /\ Credited(c, n) = Credited(c, n - 1) - ledger[n].amount
      /\ Charged(c, n - 1) \in Nat /\ Credited(c, n - 1) \in Nat /\ ledger[n].amount \in Int
  BY <1>2, RunMore, LedgerIs DEF Charged, Credited
<1>4. Credited(c, n) = Credited(c, n - 1) + credit
  BY ONLY <1>3, credit = -ledger[n].amount
<1>5. /\ LeftIn(r, Len(r)) >= LeftIn(q, Len(q)) - credit
      /\ LeftIn(q, Len(q)) >= credit => LeftIn(r, Len(r)) = LeftIn(q, Len(q)) - credit
  BY <1>1, SettledLeft
<1>6. r \in Seq(Debit)
  BY DEF Settles
<1>7. LeftIn(q, Len(q)) \in Nat /\ LeftIn(r, Len(r)) \in Nat
  <2>1. Len(q) \in 0..Len(q) /\ Len(r) \in 0..Len(r)
    BY <1>1, <1>6, DebitsAre
  <2> QED
    BY <1>1, <1>6, <2>1, LeftNat
<1>8. LeftIn(r, Len(r)) >= Charged(c, n) - Credited(c, n)
  BY <1>1, <1>3, <1>4, <1>5, <1>7
<1>9. ASSUME NeverInCredit(c) PROVE LeftIn(r, Len(r)) = Charged(c, n) - Credited(c, n)
  <2>1. Sum(UpTo(c, n)) >= 0
    BY <1>2, <1>9 DEF NeverInCredit
  <2>2. Sum(UpTo(c, n)) = Charged(c, n) - Credited(c, n)
    BY <1>2, RowsAre
  <2>3. LeftIn(q, Len(q)) = Charged(c, n - 1) - Credited(c, n - 1)
    BY <1>1, <1>9
  <2> QED
    BY <1>3, <1>4, <1>5, <1>7, <2>1, <2>2, <2>3
<1>10. ASSUME NeverInCredit(c), NEW t \in Nat, NEW k \in DOMAIN r, At(r, k, t)
      PROVE  \E i : Reaches(c, i, Credited(c, n) + t) /\ r[k].at = ledger[i].at
  <2>1. At(q, k + d, t + credit) /\ r[k].at = q[k + d].at
    BY <1>1, <1>10, SettledAt
  <2>2. k + d \in DOMAIN q
    BY <2>1 DEF At
  <2>3. t + credit \in Nat
    OBVIOUS
  <2>4. PICK i : Reaches(c, i, Credited(c, n - 1) + (t + credit)) /\ q[k + d].at = ledger[i].at
    BY <1>1, <1>10, <2>1, <2>2, <2>3
  <2>5. Credited(c, n - 1) + (t + credit) = Credited(c, n) + t
    BY <1>3, <1>4
  <2> QED
    BY <2>1, <2>4, <2>5
<1> QED
  BY <1>6, <1>8, <1>9, <1>10 DEF Owed

LEMMA NothingOwed == ASSUME BooksTyped, NEW c PROVE Owed(c, <<>>, 0)
<1>1. Charged(c, 0) = 0 /\ Credited(c, 0) = 0
  BY RunNothing
<1>2. <<>> \in Seq(Debit) /\ Len(<<>>) = 0 /\ DOMAIN <<>> = {}
  OBVIOUS
<1>3. LeftIn(<<>>, 0) = 0
  BY <1>2, LeftStep
<1> QED
  BY <1>1, <1>2, <1>3 DEF Owed

LEMMA OwedIs ==
    ASSUME BooksTyped, NEW c
    PROVE  Owed(c, OpenDebits(c), Len(ledger))
<1>1. PICK g : Queued(c, g, Len(ledger)) /\ OpenDebits(c) = g[Len(ledger)]
  BY OpenDebitsIs
<1> DEFINE bad == {m \in 0..Len(ledger) : ~Owed(c, g[m], m)}
<1>2. Len(ledger) \in Nat /\ IsFiniteSet(0..Len(ledger)) /\ 0..Len(ledger) \in SUBSET Int /\ DOMAIN ledger = 1..Len(ledger)
  BY LedgerIs, FS_Interval
<1>3. ASSUME bad # {} PROVE FALSE
  <2>1. bad \in SUBSET Int /\ IsFiniteSet(bad)
    BY <1>2, FS_Subset
  <2>2. PICK m \in bad : \A x \in bad : m <= x
    BY <1>3, <2>1, MinIs
  <2>3. m \in 0..Len(ledger) /\ ~Owed(c, g[m], m)
    BY <2>2
  <2>4. g[m] = AfterRow(c, g, m)
    BY <1>1, <2>3 DEF Queued
  <2>5. CASE m = 0
    <3>1. g[m] = <<>>
      BY <2>4, <2>5 DEF AfterRow
    <3> QED
      BY <2>3, <2>5, <3>1, NothingOwed
  <2>6. CASE m # 0
    <3> DEFINE q == g[m - 1]
               r == g[m]
    <3>1. m - 1 \in 0..Len(ledger) /\ m - 1 \notin bad /\ m \in DOMAIN ledger
      BY <1>2, <2>2, <2>3, <2>6
    <3>2. Owed(c, q, m - 1)
      BY <3>1
    <3>3. r = Applied(c, q, ledger[m])
      BY <2>4, <2>6 DEF AfterRow
    <3>4. q \in Seq(Debit)
      BY <3>2 DEF Owed
    <3> HIDE DEF q, r, bad
    <3>5. Turns(c, q, ledger[m], r)
      BY <3>1, <3>3, <3>4, AppliedIs
    <3>6. CASE ledger[m].who # c
      <4>1. r = q
        BY <3>5, <3>6 DEF Turns
      <4>2. Owed(c, q, m)
        BY <3>1, <3>2, <3>6, RowOfOther
      <4> QED
        BY <2>3, <4>1, <4>2 DEF r
    <3>7. CASE ledger[m].who = c /\ ledger[m].amount > 0
      <4> DEFINE x == [left |-> ledger[m].amount, at |-> ledger[m].at]
      <4>1. x \in Debit /\ r = Append(q, x)
        BY <3>5, <3>7 DEF Turns
      <4>2. Owed(c, r, m)
        BY <3>1, <3>2, <3>7, <4>1, RowOfDebit
      <4> QED
        BY <2>3, <4>2 DEF r
    <3>8. CASE ledger[m].who = c /\ ~(ledger[m].amount > 0)
      <4> DEFINE credit == -ledger[m].amount
      <4>1. PICK d : Settles(q, credit, d, r)
        BY <3>5, <3>8 DEF Turns
      <4>2. credit \in Nat
        BY <3>5, <3>8 DEF Turns
      <4>3. Owed(c, r, m)
        <5>1. credit = -ledger[m].amount
          OBVIOUS
        <5> HIDE DEF credit
        <5> QED
          BY <3>1, <3>2, <3>8, <4>1, <4>2, <5>1, RowOfCredit
      <4> QED
        BY <2>3, <4>3 DEF r
    <3> QED
      BY <3>6, <3>7, <3>8
  <2> QED
    BY <2>5, <2>6
<1>4. Len(ledger) \notin bad /\ Len(ledger) \in 0..Len(ledger)
  BY <1>2, <1>3
<1> QED
  BY <1>1, <1>4

(* Fewer rows charge no more. *)
LEMMA ChargedWithin ==
    ASSUME BooksTyped, NEW rows \in SUBSET (DOMAIN ledger), NEW some \in SUBSET rows
    PROVE  Debits(some) <= Debits(rows) /\ Debits(some) \in Nat /\ Debits(rows) \in Nat
<1> DEFINE f == [i \in Risen(rows) |-> ledger[i].amount]
           g == [i \in Risen(some) |-> ledger[i].amount]
           h == [i \in Risen(rows) \ Risen(some) |-> ledger[i].amount]
<1>1. Debits(rows) = SumFunction(f) /\ Debits(some) = SumFunction(g)
  BY DEF Debits, Sum, Risen
<1>2. IsFiniteSet(rows) /\ \A i \in Risen(rows) : ledger[i].amount \in Int /\ ledger[i].amount \in Nat
  BY SumIsInt, LedgerIs DEF Risen
<1>3. IsFiniteSet(Risen(rows)) /\ Risen(some) \in SUBSET Risen(rows)
  <2>1. Risen(rows) \in SUBSET rows /\ Risen(some) \in SUBSET Risen(rows)
    BY DEF Risen
  <2> QED
    BY <1>2, <2>1, FS_Subset
<1>4. /\ IsFiniteSet(DOMAIN f) /\ \A y \in DOMAIN f : f[y] \in Int
      /\ DOMAIN g \in SUBSET (DOMAIN f) /\ DOMAIN h = DOMAIN f \ DOMAIN g
      /\ \A y \in DOMAIN g : g[y] = f[y]
      /\ \A y \in DOMAIN h : h[y] = f[y] /\ h[y] \in Nat
  BY <1>2, <1>3
<1> HIDE DEF f, g, h
<1>5. SumFunction(f) = SumFunction(g) + SumFunction(h) /\ SumFunction(g) \in Int
  BY <1>4, TotalSplit
<1>6. SumFunction(h) \in Nat
  <2>1. IsFiniteSet(DOMAIN h)
    BY <1>4, FS_Subset
  <2> QED
    BY <1>4, <2>1, TotalNat
<1>7. Debits(some) \in Nat /\ Debits(rows) \in Nat
  BY RunNat
<1> QED
  BY <1>1, <1>5, <1>6, <1>7

LEMMA AllRows ==
    ASSUME BooksTyped, NEW c
    PROVE  /\ UpTo(c, Len(ledger)) = EntriesOf(c) /\ Balance(c) = Charged(c, Len(ledger)) - Credited(c, Len(ledger))
           /\ Credited(c, Len(ledger)) = Credits(EntriesOf(c)) /\ Credits(EntriesOf(c)) \in Nat
           /\ EntriesOf(c) \in SUBSET (DOMAIN ledger) /\ Balance(c) \in Int
<1>1. Len(ledger) \in 0..Len(ledger) /\ EntriesOf(c) \in SUBSET (DOMAIN ledger)
  BY LedgerIs DEF EntriesOf
<1>2. UpTo(c, Len(ledger)) = EntriesOf(c)
  BY LedgerIs DEF UpTo, EntriesOf
<1>3. Balance(c) = Charged(c, Len(ledger)) - Credited(c, Len(ledger))
  BY <1>1, <1>2, RowsAre DEF Balance
<1>4. Balance(c) \in Int /\ Credits(EntriesOf(c)) \in Nat
  BY <1>1, SumIsInt, RunNat DEF Balance
<1> QED
  BY <1>1, <1>2, <1>3, <1>4 DEF Credited

LEMMA OldestIs ==
    ASSUME BooksTyped, NEW c, Balance(c) > 0
    PROVE  /\ HasOpenDebit(c)
           /\ NeverInCredit(c) =>
                 \E i : Reaches(c, i, Credits(EntriesOf(c))) /\ OldestOpenDebitAt(c) = ledger[i].at
<1> DEFINE q == OpenDebits(c)
           n == Len(ledger)
<1>1. Owed(c, q, n)
  BY OwedIs
<1>2. HasOpenDebit(c) <=> q # <<>>
  BY DEF HasOpenDebit
<1>3. OldestOpenDebitAt(c) = q[1].at
  BY DEF OldestOpenDebitAt
<1>4. Balance(c) = Charged(c, n) - Credited(c, n) /\ Credited(c, n) = Credits(EntriesOf(c)) /\ Balance(c) \in Int
      /\ Credits(EntriesOf(c)) \in Nat
  BY AllRows
<1> HIDE DEF q, n
<1>5. q \in Seq(Debit) /\ LeftIn(q, Len(q)) >= Balance(c)
  BY <1>1, <1>4 DEF Owed
<1>6. LeftIn(q, 0) = 0 /\ Len(q) \in Nat /\ DOMAIN q = 1..Len(q)
  BY <1>5, LeftStep, DebitsAre
<1>7. Len(q) # 0
  BY <1>4, <1>5, <1>6
<1>8. q # <<>>
  BY <1>5, <1>7, EmptyIs
<1>9. At(q, 1, 0) /\ 1 \in DOMAIN q
  <2>1. 1 \in DOMAIN q
    BY <1>6, <1>7
  <2>2. LeftIn(q, 1) = LeftIn(q, 1 - 1) + q[1].left /\ q[1].left \in Nat \ {0}
    BY <1>5, <2>1, LeftStep, DebitsAre
  <2>3. 1 - 1 = 0
    OBVIOUS
  <2>4. LeftIn(q, 1) > 0 /\ LeftIn(q, 1 - 1) <= 0
    BY <1>6, <2>2, <2>3
  <2> QED
    BY <2>1, <2>4 DEF At
<1>10. ASSUME NeverInCredit(c)
       PROVE  \E i : Reaches(c, i, Credits(EntriesOf(c))) /\ OldestOpenDebitAt(c) = ledger[i].at
  <2>1. \E i : Reaches(c, i, Credited(c, n) + 0) /\ q[1].at = ledger[i].at
    BY <1>1, <1>9, <1>10 DEF Owed
  <2>2. Credited(c, n) + 0 = Credits(EntriesOf(c))
    BY <1>4
  <2> QED
    BY <1>3, <2>1, <2>2
<1> QED
  BY <1>2, <1>8, <1>10

LEMMA UnpaidIs ==
    ASSUME BooksTyped, NEW c, NEW v \in Int, NEW i, Reaches(c, i, v)
    PROVE  Min({j \in EntriesOf(c) : Debits(UpTo(c, j)) > v}) = i
<1> DEFINE unpaid == {j \in EntriesOf(c) : Debits(UpTo(c, j)) > v}
<1>1. i \in EntriesOf(c) /\ Debits(UpTo(c, i)) > v /\ Debits(UpTo(c, i - 1)) <= v
  BY DEF Reaches, Charged
<1>2. i \in unpaid
  BY <1>1
<1>3. unpaid \in SUBSET (DOMAIN ledger) /\ DOMAIN ledger \in SUBSET Int /\ IsFiniteSet(DOMAIN ledger)
  BY LedgerIs, EntryAmounts DEF EntriesOf
<1>4. unpaid \in SUBSET Int /\ IsFiniteSet(unpaid)
  BY <1>3, FS_Subset
<1>5. Min(unpaid) \in unpaid /\ \A x \in unpaid : Min(unpaid) <= x
  BY <1>2, <1>4, MinIs
<1> DEFINE least == Min(unpaid)
<1>6. least \in EntriesOf(c) /\ Debits(UpTo(c, least)) > v /\ least <= i /\ least \in Int /\ i \in Int
  BY <1>2, <1>4, <1>5
<1> HIDE DEF least
<1>7. ASSUME least < i PROVE FALSE
  <2>1. UpTo(c, least) \in SUBSET UpTo(c, i - 1) /\ UpTo(c, i - 1) \in SUBSET (DOMAIN ledger)
    <3>1. \A j \in Int : j <= least => j <= i - 1
      BY <1>6, <1>7
    <3>2. \A j \in EntriesOf(c) : j \in Int /\ j \in DOMAIN ledger
      BY <1>3 DEF EntriesOf
    <3> QED
      BY <3>1, <3>2 DEF UpTo
  <2>2. Debits(UpTo(c, least)) <= Debits(UpTo(c, i - 1)) /\ Debits(UpTo(c, least)) \in Nat
        /\ Debits(UpTo(c, i - 1)) \in Nat
    BY <2>1, ChargedWithin
  <2> QED
    BY <1>1, <1>6, <2>2
<1>8. least = i
  BY <1>6, <1>7
<1> QED
  BY <1>8 DEF least

(* The rows of the ledger are in the order of their instants. *)
Timed == \A i \in DOMAIN ledger : ledger[i].at <= now /\ \A j \in DOMAIN ledger : i <= j => ledger[i].at <= ledger[j].at

LEMMA LaterDay == \A x, y \in Int : x <= y => UtcDay(x) <= UtcDay(y) /\ UtcDay(x) \in Int /\ UtcDay(y) \in Int
BY DEF UtcDay

(* The oldest open debit stood on a day just when what was owed on that day is not all credited. *)
LEMMA DueAlready ==
    ASSUME BooksTyped, Timed, NEW c, NEW v \in Int, NEW i, Reaches(c, i, v), NEW due \in Int
    PROVE  UtcDay(ledger[i].at) <= due <=> Debits({j \in EntriesOf(c) : UtcDay(ledger[j].at) <= due}) > v
<1> DEFINE then == {j \in EntriesOf(c) : UtcDay(ledger[j].at) <= due}
<1>1. i \in EntriesOf(c) /\ Debits(UpTo(c, i)) > v /\ Debits(UpTo(c, i - 1)) <= v
  BY DEF Reaches, Charged
<1>2. \A j \in EntriesOf(c) : j \in DOMAIN ledger /\ j \in Int /\ ledger[j].at \in Int /\ UtcDay(ledger[j].at) \in Int
  <2>1. \A j \in EntriesOf(c) : j \in DOMAIN ledger
    BY DEF EntriesOf
  <2>2. \A j \in DOMAIN ledger : j \in Int /\ ledger[j].at \in Int
    BY LedgerIs
  <2>3. \A x \in Int : UtcDay(x) \in Int
    BY LaterDay
  <2> QED
    BY ONLY <2>1, <2>2, <2>3
<1>3. \A j, k \in EntriesOf(c) : j <= k => UtcDay(ledger[j].at) <= UtcDay(ledger[k].at)
  BY <1>2, LaterDay DEF Timed
<1>4. then \in SUBSET (DOMAIN ledger) /\ UpTo(c, i) \in SUBSET (DOMAIN ledger) /\ UpTo(c, i - 1) \in SUBSET (DOMAIN ledger)
  BY <1>2 DEF UpTo
<1>5. CASE UtcDay(ledger[i].at) <= due
  <2>1. UpTo(c, i) \in SUBSET then
    BY <1>1, <1>2, <1>3, <1>5 DEF UpTo
  <2>2. Debits(UpTo(c, i)) <= Debits(then) /\ Debits(UpTo(c, i)) \in Nat /\ Debits(then) \in Nat
    <3> HIDE DEF then
    <3> QED
      BY <1>4, <2>1, ChargedWithin
  <2> QED
    BY <1>1, <1>5, <2>2
<1>6. CASE ~(UtcDay(ledger[i].at) <= due)
  <2>1. then \in SUBSET UpTo(c, i - 1)
    <3> SUFFICES ASSUME NEW j \in then PROVE j \in UpTo(c, i - 1)
      OBVIOUS
    <3>1. ~(i <= j)
      BY <1>1, <1>2, <1>3, <1>6
    <3>2. j <= i - 1
      BY <1>1, <1>2, <3>1
    <3> QED
      BY <3>2 DEF UpTo
  <2>2. Debits(then) <= Debits(UpTo(c, i - 1)) /\ Debits(UpTo(c, i - 1)) \in Nat /\ Debits(then) \in Nat
    <3> HIDE DEF then
    <3> QED
      BY <1>4, <2>1, ChargedWithin
  <2> QED
    BY <1>1, <1>6, <2>2
<1> QED
  BY <1>5, <1>6

(* The buckets hold all of it. *)
LEMMA BucketsHold ==
    ASSUME BooksTyped
    PROVE  Outstanding = SumFunction([b \in 0..Len(AgeLimits) |-> Ageing(b)])
<1> DEFINE buckets == 0..Len(AgeLimits)
           f == [c \in Owing |-> Balance(c)]
           key == [c \in Owing |-> Bucket(c)]
           g == [b \in buckets |-> Ageing(b)]
<1>1. Len(AgeLimits) \in Nat /\ DOMAIN AgeLimits = 1..Len(AgeLimits)
  BY BooksAssumption
<1>2. ASSUME NEW c PROVE Bucket(c) \in buckets
  <2> DEFINE passed == {k \in DOMAIN AgeLimits : AgeDays(c) > AgeLimits[k]}
  <2>1. passed \in SUBSET (1..Len(AgeLimits)) /\ IsFiniteSet(1..Len(AgeLimits))
        /\ Cardinality(1..Len(AgeLimits)) = Len(AgeLimits)
    <3>1. passed \in SUBSET (1..Len(AgeLimits))
      BY <1>1
    <3>2. IsFiniteSet(1..Len(AgeLimits)) /\ Cardinality(1..Len(AgeLimits)) = Len(AgeLimits)
      <4> DEFINE n == Len(AgeLimits)
      <4>1. n \in Nat
        BY <1>1
      <4> HIDE DEF n
      <4>2. IsFiniteSet(1..n) /\ Cardinality(1..n) = n
        BY <4>1, FS_Interval
      <4> QED
        BY <4>2 DEF n
    <3> QED
      BY <3>1, <3>2
  <2> HIDE DEF passed
  <2>2. Cardinality(passed) \in Nat /\ Cardinality(passed) <= Len(AgeLimits)
    BY <2>1, FS_Subset, FS_CardinalityType
  <2>3. Bucket(c) = Cardinality(passed)
    BY DEF Bucket, passed
  <2> QED
    BY <1>1, <2>2, <2>3
<1>3. IsFiniteSet(Owing) /\ \A c \in Owing : Balance(c) \in Int
  <2>1. Owing \in SUBSET Customers
    BY DEF Owing
  <2> QED
    BY <2>1, PricesAre, FS_Subset, AllRows
<1>4. IsFiniteSet(buckets)
  BY <1>1, FS_Interval
<1>5. Parted(Owing, buckets, f, key, g)
  <2>1. \A r \in Owing : f[r] \in Int /\ key[r] \in buckets
    BY <1>2, <1>3
  <2>2. ASSUME NEW k \in buckets
        PROVE  g[k] = SumFunction([r \in {x \in Owing : key[x] = k} |-> f[r]])
    <3>1. {x \in Owing : key[x] = k} = {c \in Owing : Bucket(c) = k}
      OBVIOUS
    <3>2. [r \in {c \in Owing : Bucket(c) = k} |-> f[r]] = [c \in {c \in Owing : Bucket(c) = k} |-> Balance(c)]
      OBVIOUS
    <3>3. g[k] = Ageing(k)
      OBVIOUS
    <3> QED
      BY <3>1, <3>2, <3>3 DEF Ageing
  <2>3. f = [r \in Owing |-> f[r]] /\ g = [k \in buckets |-> g[k]]
    OBVIOUS
  <2> HIDE DEF f, g, key, buckets
  <2> QED
    BY <1>3, <1>4, <2>1, <2>2, <2>3 DEF Parted
<1>6. SumFunction(g) = SumFunction(f)
  <2> HIDE DEF f, g, key, buckets
  <2> QED
    BY <1>5, SumOfParts
<1> QED
  BY <1>6 DEF Outstanding

(* What AgeingRight says of a customer who was never in credit. *)
Ages(c) ==
    LET unpaid == {i \in EntriesOf(c) : Debits(UpTo(c, i)) > Credits(EntriesOf(c))}
        due == LastDueDate(scene.cycle[c], Today)
        owed == Debits({i \in EntriesOf(c) : UtcDay(ledger[i].at) <= due})
    IN  /\ OldestOpenDebitAt(c) = ledger[Min(unpaid)].at
        /\ scene.cycle[c].kind # "CASH_ON_DELIVERY" =>
              (Overdue(c) <=> due # NoDay /\ due < Today /\ ~PaidSince(c, due) /\ owed > Credits(EntriesOf(c)))

LEMMA AgeingHolds ==
    ASSUME BooksTyped, Timed
    PROVE  AgeingRight
<1>1. Outstanding = SumFunction([b \in 0..Len(AgeLimits) |-> Ageing(b)])
  BY BucketsHold
<1> SUFFICES ASSUME NEW c \in Owing PROVE HasOpenDebit(c) /\ (NeverInCredit(c) => Ages(c))
  BY <1>1 DEF AgeingRight, Ages
<1>2. c \in Customers /\ Balance(c) > 0
  BY DEF Owing
<1>3. HasOpenDebit(c)
  BY <1>2, OldestIs
<1> SUFFICES ASSUME NeverInCredit(c) PROVE Ages(c)
  BY <1>3
<1> DEFINE v == Credits(EntriesOf(c))
           due == LastDueDate(scene.cycle[c], Today)
           owed == Debits({i \in EntriesOf(c) : UtcDay(ledger[i].at) <= due})
<1>4. v \in Int
  BY AllRows
<1>5. PICK i : Reaches(c, i, v) /\ OldestOpenDebitAt(c) = ledger[i].at
  BY <1>2, OldestIs
<1>6. Min({j \in EntriesOf(c) : Debits(UpTo(c, j)) > v}) = i
  <2> HIDE DEF v
  <2> QED
    BY <1>4, <1>5, UnpaidIs
<1>7. due \in Int /\ Today \in Int
  BY <1>2, CyclesAre, LastDueIs
<1>8. UtcDay(OldestOpenDebitAt(c)) <= due <=> owed > v
  <2>1. UtcDay(ledger[i].at) <= due <=> Debits({j \in EntriesOf(c) : UtcDay(ledger[j].at) <= due}) > v
    <3> HIDE DEF v, due
    <3> QED
      BY <1>4, <1>5, <1>7, DueAlready
  <2> QED
    BY <1>5, <2>1
<1>9. ASSUME scene.cycle[c].kind # "CASH_ON_DELIVERY"
      PROVE  Overdue(c) <=> due # NoDay /\ due < Today /\ ~PaidSince(c, due) /\ owed > v
  <2>1. Overdue(c) <=> due # NoDay /\ Today > due /\ ~PaidSince(c, due) /\ UtcDay(OldestOpenDebitAt(c)) <= due
    BY <1>3, <1>9 DEF Overdue
  <2>2. Today > due <=> due < Today
    BY <1>7
  <2> QED
    BY <1>8, <2>1, <2>2
<1> QED
  BY <1>5, <1>6, <1>9 DEF Ages

(* The rows of an instant follow those of the instants before it. *)
LEMMA TimedMore ==
    ASSUME BooksTyped, Timed, now' \in Nat, now <= now',
           NEW more \in Seq(EntryRow), \A n \in DOMAIN more : more[n].at = now, ledger' = ledger \o more
    PROVE  Timed'
<1>1. /\ DOMAIN ledger = 1..Len(ledger) /\ Len(ledger) \in Nat /\ now \in Nat
      /\ \A i \in DOMAIN ledger : ledger[i].at \in Int
      /\ \A i \in DOMAIN ledger : ledger[i].at <= now /\ \A j \in DOMAIN ledger : i <= j => ledger[i].at <= ledger[j].at
  BY LedgerIs DEF Timed, BooksTyped, Ticking
<1>2. ledger \in Seq(EntryRow)
  BY DEF BooksTyped
<1>3. DOMAIN more = 1..Len(more) /\ Len(more) \in Nat
  BY SeqDomain
<1>4. /\ DOMAIN ledger' = 1..(Len(ledger) + Len(more))
      /\ \A i \in DOMAIN ledger : ledger'[i] = ledger[i]
      /\ \A i \in DOMAIN ledger' : i \notin DOMAIN ledger => i - Len(ledger) \in DOMAIN more /\ ledger'[i] = more[i - Len(ledger)]
  <2>1. DOMAIN ledger' = 1..(Len(ledger) + Len(more))
    BY <1>2
  <2>2. \A i \in 1..(Len(ledger) + Len(more)) :
            ledger'[i] = IF i <= Len(ledger) THEN ledger[i] ELSE more[i - Len(ledger)]
    BY <1>2
  <2> QED
    BY <1>1, <1>3, <2>1, <2>2
<1>5. \A i \in DOMAIN ledger' : ledger'[i].at = IF i \in DOMAIN ledger THEN ledger[i].at ELSE now
  BY <1>4
<1>6. \A i, j \in DOMAIN ledger' : i <= j /\ j \in DOMAIN ledger => i \in DOMAIN ledger
  BY <1>1, <1>3, <1>4
<1>7. ASSUME NEW i \in DOMAIN ledger' PROVE ledger'[i].at <= now'
  BY <1>1, <1>5
<1>8. ASSUME NEW i \in DOMAIN ledger', NEW j \in DOMAIN ledger', i <= j PROVE ledger'[i].at <= ledger'[j].at
  <2>1. CASE j \in DOMAIN ledger
    BY <1>1, <1>5, <1>6, <1>8, <2>1
  <2>2. CASE j \notin DOMAIN ledger
    BY <1>1, <1>5, <2>2
  <2> QED
    BY <2>1, <2>2
<1> QED
  BY <1>7, <1>8 DEF Timed

LEMMA BookTimed == ASSUME BooksTyped, Timed, BookCase PROVE Timed'
<1>1. now' \in Nat /\ now <= now' /\ now \in Nat
  BY DEF BookCase, BooksTyped, Ticking
<1>2. ASSUME NEW more, Posts(more) PROVE Timed'
  <2>1. more \in Seq(EntryRow) /\ (\A n \in DOMAIN more : more[n].at = now) /\ ledger' = ledger \o more
    BY <1>2 DEF Posts, NoSale
  <2> QED
    BY <1>1, <2>1, TimedMore
<1>3. ASSUME NEW entry, NEW more, entry.at = now, Sells(entry, more) PROVE Timed'
  <2> DEFINE rows == <<entry>> \o more
  <2>1. entry \in EntryRow /\ more \in Seq(EntryRow) /\ (\A n \in DOMAIN more : more[n].at = now)
    BY <1>3 DEF Sells, NoSale
  <2>2. rows \in Seq(EntryRow) /\ \A n \in DOMAIN rows : rows[n] = entry \/ \E k \in DOMAIN more : rows[n] = more[k]
    BY <2>1
  <2>3. \A n \in DOMAIN rows : rows[n].at = now
    BY <1>3, <2>1, <2>2
  <2>4. ledger' = ledger \o rows
    BY <1>3 DEF Sells
  <2> HIDE DEF rows
  <2> QED
    BY <1>1, <2>2, <2>3, <2>4, TimedMore
<1>4. CASE Amends
  <2>1. PICK i \in DOMAIN ledger, a \in Int : ledger' = [ledger EXCEPT ![i].amount = a]
    BY <1>4 DEF Amends
  <2>2. DOMAIN ledger' = DOMAIN ledger /\ \A j \in DOMAIN ledger : ledger[j] \in EntryRow /\ ledger[j].at \in Int
    BY <2>1, LedgerIs
  <2>3. \A j \in DOMAIN ledger : ledger'[j].at = ledger[j].at
    BY <2>1, <2>2 DEF EntryRow
  <2>4. \A j \in DOMAIN ledger : ledger[j].at <= now' /\ \A k \in DOMAIN ledger : j <= k => ledger[j].at <= ledger[k].at
    BY <1>1, <2>2 DEF Timed
  <2> QED
    BY <2>2, <2>3, <2>4 DEF Timed
<1>5. CASE Records
  BY <1>2, <1>5 DEF Records
<1>6. CASE Delivers
  BY <1>3, <1>6 DEF Delivers, SaleOf
<1>7. CASE Places
  BY <1>3, <1>7 DEF Places, SaleOf
<1>8. CASE CancelsDelivery
  BY <1>2, <1>8 DEF CancelsDelivery, Back
<1>9. CASE CancelsOrder
  BY <1>2, <1>9 DEF CancelsOrder, Back
<1> QED
  BY <1>4, <1>5, <1>6, <1>7, <1>8, <1>9 DEF BookCase, SaleCase

LEMMA SameTimes == ASSUME Timed, bookVars' = bookVars PROVE Timed'
BY DEF Timed, bookVars


-----------------------------------------------------------------------------
(* The inductive invariant. *)
BooksKept == BooksTyped /\ Timed /\ SalesBooked /\ DeskKept /\ DeskShows /\ VendorTyped /\ VendorAgrees

LEMMA BooksInit == ASSUME Init PROVE BooksKept
<1>1. /\ scene \in Scenes /\ now = scene.first
      /\ ledger = <<>> /\ deliveries = <<>> /\ orders = <<>> /\ outlays = {}
      /\ invoices = <<>> /\ lastInvoiceSeq = 0 /\ crossed = {} /\ desk = [k \in Desks |-> Idle]
      /\ bills = <<>> /\ vendorLedger = <<>>
  BY DEF Init
<1>2. BooksTyped
  <2>1. scene.first \in Nat /\ scene.first <= scene.last
    <3>1. Clock(scene)
      BY <1>1, SceneIs
    <3> QED
      BY <3>1 DEF Clock
  <2>2. IsFiniteSet({})
    BY FS_EmptySet
  <2> QED
    BY <1>1, <2>1, <2>2 DEF BooksTyped, Ticking
<1>9. Timed
  BY <1>1 DEF Timed
<1>3. SalesBooked
  <2>1. \A of : DOMAIN Goods(of) = {}
    BY <1>1 DEF Goods
  <2>2. DOMAIN ledger = {}
    BY <1>1
  <2> QED
    BY <2>1, <2>2 DEF SalesBooked, Booked
<1>4. DeskTyped
  BY <1>1, IdleIs DEF DeskTyped
<1>5. Alone /\ Current /\ DeskShows
  <2>1. \A k \in Desks : desk[k] = Idle
    BY <1>1
  <2>2. Shows(Idle)
    BY IdleIs, OthersShow
  <2> QED
    BY <2>1, <2>2, IdleIs DEF Alone, Current, DeskShows
<1>6. Numbered
  <2>1. DOMAIN invoices = {} /\ 1..lastInvoiceSeq = {}
    BY <1>1
  <2>2. \A k \in Desks : Issuable(invoices, lastInvoiceSeq, desk[k])
    <3>1. \A k \in Desks : desk[k] = Idle
      BY <1>1
    <3> QED
      BY <3>1, IdleIs DEF Issuable
  <2> QED
    BY <2>1, <2>2 DEF Numbered
<1>7. VendorTyped
  BY <1>1 DEF VendorTyped
<1>8. VendorAgrees
  BY <1>1, WorthNothing DEF VendorAgrees
<1> QED
  BY <1>2, <1>3, <1>4, <1>5, <1>6, <1>7, <1>8, <1>9 DEF BooksKept, DeskKept

LEMMA SameDesks == ASSUME DeskKept, UNCHANGED invoiceVars PROVE DeskKept'
<1>1. invoices' = invoices /\ lastInvoiceSeq' = lastInvoiceSeq /\ desk' = desk /\ crossed' = crossed
  BY DEF invoiceVars
<1>2. DeskTyped /\ Alone /\ Current /\ (crossed = {} => Numbered)
  BY DEF DeskKept
<1>3. DeskTyped'
  BY <1>1, <1>2 DEF DeskTyped
<1>4. Alone'
  BY <1>1, <1>2 DEF Alone, Handled
<1>5. Current'
  BY <1>1, <1>2 DEF Current, Handled, Seen
<1>6. (crossed = {} => Numbered)'
  BY <1>1, <1>2 DEF Numbered
<1> QED
  BY <1>3, <1>4, <1>5, <1>6 DEF DeskKept

LEMMA SameBooks == ASSUME BooksTyped, SalesBooked, bookVars' = bookVars PROVE BooksTyped' /\ SalesBooked'
<1>1. /\ now' = now /\ ledger' = ledger /\ deliveries' = deliveries /\ orders' = orders
      /\ outlays' = outlays /\ scene' = scene
  BY DEF bookVars
<1>2. BooksTyped'
  BY <1>1 DEF BooksTyped, Ticking, DeliveryRow, OrderRow, OutlayRow
<1>3. \A of : Goods(of)' = Goods(of)
  BY <1>1 DEF Goods, Sale, Total
<1>4. SalesBooked'
  BY <1>1, <1>3 DEF SalesBooked, Booked
<1> QED
  BY <1>2, <1>4

LEMMA SameShows == ASSUME DeskShows, bookVars' = bookVars, desk' = desk PROVE DeskShows'
<1>1. \A k \in Desks : Shows(desk'[k])
  BY DEF DeskShows
<1> SUFFICES ASSUME NEW k \in Desks PROVE Shows(desk[k])'
  BY DEF DeskShows
<1> QED
  BY <1>1, UnchangedShows

LEMMA BooksStep == ASSUME BooksKept, BookStep, UNCHANGED <<invoiceVars, vendorVars>> PROVE BooksKept'
<1>1. BooksTyped /\ Timed /\ SalesBooked /\ DeskKept /\ DeskShows /\ VendorTyped /\ VendorAgrees
  BY DEF BooksKept
<1>2. BookCase
  BY <1>1, BookCases
<1>3. BooksTyped' /\ Timed' /\ SalesBooked'
  BY <1>1, <1>2, BookTyped, BookTimed, BookBooked
<1>4. DeskKept'
  BY <1>1, SameDesks
<1>5. DeskShows'
  <2>1. \A k \in Desks : Shows(desk'[k])
    BY <1>1 DEF DeskShows, invoiceVars
  <2> SUFFICES ASSUME NEW k \in Desks PROVE Shows(desk[k])'
    BY DEF DeskShows
  <2> QED
    BY <1>1, <1>2, <2>1, StillShows
<1>6. VendorTyped' /\ VendorAgrees'
  <2>1. bills' = bills /\ vendorLedger' = vendorLedger
    BY DEF vendorVars
  <2>2. now \in Nat /\ now' \in Nat /\ now <= now'
    BY <1>1, <1>2 DEF BooksTyped, Ticking, BookCase
  <2> QED
    BY <1>1, <2>1, <2>2, BooksLeaveVendors
<1> QED
  BY <1>3, <1>4, <1>5, <1>6 DEF BooksKept

LEMMA RequestLeavesBooks == ASSUME NEW k \in Desks, InvoiceStep(k) PROVE bookVars' = bookVars
BY DEF InvoiceStep, BeginGenerate, BeginIssue, BeginVoid, BeginRemoveDraft, ReadLedger, CommitGenerate,
       CommitIssue, CommitVoid, CommitRemoveDraft, Abort

LEMMA RequestStep == ASSUME BooksKept, NEW k \in Desks, InvoiceStep(k), UNCHANGED vendorVars PROVE BooksKept'
<1>1. BooksTyped /\ Timed /\ SalesBooked /\ DeskKept /\ DeskShows /\ VendorTyped /\ VendorAgrees /\ DeskTyped
  BY DEF BooksKept, DeskKept
<1>2. bookVars' = bookVars
  BY RequestLeavesBooks
<1>3. BooksTyped' /\ Timed' /\ SalesBooked'
  BY <1>1, <1>2, SameBooks, SameTimes
<1>4. DeskCase(k)
  BY <1>1, InvoiceCases
<1>5. DeskKept'
  <2>1. CASE \E f : TakesUp(k, f)
    BY <1>1, <2>1, TakenUp
  <2>2. CASE Drops(k)
    BY <1>1, <2>2, DropsKeep
  <2>3. CASE Issues(k)
    BY <1>1, <2>3, IssuesKeep
  <2> QED
    BY <1>4, <2>1, <2>2, <2>3 DEF DeskCase
<1>6. DeskShows'
  BY <1>1, InvoiceShows
<1>7. VendorTyped' /\ VendorAgrees'
  <2>1. bills' = bills /\ vendorLedger' = vendorLedger
    BY DEF vendorVars
  <2>2. now \in Nat /\ now' \in Nat /\ now <= now'
    BY <1>1, <1>2 DEF BooksTyped, Ticking, bookVars
  <2> QED
    BY <1>1, <2>1, <2>2, BooksLeaveVendors
<1> QED
  BY <1>3, <1>5, <1>6, <1>7 DEF BooksKept

LEMMA PayablesStep == ASSUME BooksKept, VendorStep, UNCHANGED invoiceVars PROVE BooksKept'
<1>1. BooksTyped /\ Timed /\ SalesBooked /\ DeskKept /\ DeskShows /\ VendorTyped /\ VendorAgrees
  BY DEF BooksKept
<1>2. VendorCase /\ bookVars' = bookVars
  BY <1>1, VendorCases
<1>3. BooksTyped' /\ Timed' /\ SalesBooked'
  BY <1>1, <1>2, SameBooks, SameTimes
<1>4. DeskKept'
  BY <1>1, SameDesks
<1>5. DeskShows'
  BY <1>1, <1>2, SameShows DEF invoiceVars
<1>6. VendorTyped' /\ VendorAgrees'
  <2>1. now \in Nat /\ now' = now
    BY <1>1, <1>2 DEF BooksTyped, Ticking, bookVars
  <2> QED
    BY <1>1, <1>2, <2>1, VendorKeeps
<1> QED
  BY <1>3, <1>4, <1>5, <1>6 DEF BooksKept

LEMMA BooksNext == ASSUME BooksKept, [Next]_vars PROVE BooksKept'
<1>1. CASE BookStep /\ UNCHANGED <<invoiceVars, vendorVars>>
  BY <1>1, BooksStep
<1>2. CASE (\E k \in Desks : InvoiceStep(k)) /\ UNCHANGED vendorVars
  BY <1>2, RequestStep
<1>3. CASE VendorStep /\ UNCHANGED invoiceVars
  BY <1>3, PayablesStep
<1>4. CASE UNCHANGED vars
  <2>1. bookVars' = bookVars /\ invoiceVars' = invoiceVars /\ vendorVars' = vendorVars
    BY <1>4 DEF vars
  <2>2. BooksTyped /\ Timed /\ SalesBooked /\ DeskKept /\ DeskShows /\ VendorTyped /\ VendorAgrees
    BY DEF BooksKept
  <2>3. BooksTyped' /\ Timed' /\ SalesBooked' /\ DeskKept'
    BY <2>1, <2>2, SameBooks, SameTimes, SameDesks
  <2>4. DeskShows'
    BY <2>1, <2>2, SameShows DEF invoiceVars
  <2>5. VendorTyped' /\ VendorAgrees'
    <3>1. bills' = bills /\ vendorLedger' = vendorLedger /\ now' = now
      BY <2>1 DEF vendorVars, bookVars
    <3>2. now \in Nat /\ now' \in Nat /\ now <= now'
      BY <2>2, <3>1 DEF BooksTyped, Ticking
    <3> QED
      BY <2>2, <3>1, <3>2, BooksLeaveVendors
  <2> QED
    BY <2>3, <2>4, <2>5 DEF BooksKept
<1> QED
  BY <1>1, <1>2, <1>3, <1>4 DEF Next

(* Whatever the office, the desks and the vendors do, rows stay of their   *)
(* types and in the order of their instants, each live sale is in the      *)
(* ledger once and with its amount, every request holds what it has read,  *)
(* and the bills are the vendor ledger.                                    *)
THEOREM BooksInvariant == Spec => []BooksKept
<1>1. Init => BooksKept
  BY BooksInit
<1>2. BooksKept /\ [Next]_vars => BooksKept'
  BY BooksNext
<1> QED
  BY <1>1, <1>2, PTL DEF Spec

LEMMA DesksStand == ASSUME DeskKept PROVE InvoicesStand
<1> SUFFICES ASSUME crossed = {}
             PROVE  /\ {invoices[i].number : i \in DOMAIN invoices} \ {NoNumber} = 1..lastInvoiceSeq
                    /\ \A i, j \in DOMAIN invoices : i # j =>
                           /\ invoices[i].number = NoNumber \/ invoices[i].number # invoices[j].number
                           /\ ~(invoices[i].status = "ISSUED"
                                /\ Overlaps(j, invoices[i].who, invoices[i].from, invoices[i].to))
  BY DEF InvoicesStand
<1>1. Numbered
  BY DEF DeskKept
<1>2. \A i, j \in DOMAIN invoices : i # j /\ invoices[i].number = invoices[j].number => invoices[i].number = NoNumber
  BY <1>1 DEF Numbered
<1>3. \A i \in DOMAIN invoices : invoices[i].status = "ISSUED" => Free(invoices, i)
  BY <1>1 DEF Numbered
<1>4. \A i, j \in DOMAIN invoices : i # j => ~(invoices[i].status = "ISSUED"
          /\ Overlaps(j, invoices[i].who, invoices[i].from, invoices[i].to))
  BY <1>3 DEF Free, Overlaps
<1> QED
  BY <1>1, <1>2, <1>4 DEF Numbered

(* While no invoice was handled by two requests at once, the numbers given *)
(* are 1 to lastInvoiceSeq, each to one invoice, and no two issued         *)
(* invoices of a customer cover one day (issue, generate).                 *)
THEOREM InvoicesAreApart == Spec => []InvoicesStand
<1>1. BooksKept => InvoicesStand
  BY DesksStand DEF BooksKept
<1> QED
  BY <1>1, BooksInvariant, PTL

StaysFinal(i) ==
    /\ invoices[i].status = "ISSUED" => invoices'[i] \in {invoices[i], [invoices[i] EXCEPT !.status = "VOID"]}
    /\ invoices[i].status = "VOID" => invoices'[i] = invoices[i]

LEMMA RowFinal ==
    ASSUME DeskKept, NEW k \in Desks, DeskCase(k), NEW i \in DOMAIN invoices \ crossed
    PROVE  StaysFinal(i)
<1>1. DeskTyped /\ Current
  BY DEF DeskKept
<1>2. CASE \E f : TakesUp(k, f)
  BY <1>2 DEF TakesUp, StaysFinal
<1>3. i \in Handled(desk[k]) => invoices[i].status = IF desk[k].op = "void" THEN "ISSUED" ELSE "DRAFT"
  BY <1>1 DEF Current, Seen
<1>4. CASE Drops(k)
  <2>1. i \notin Handled(desk[k]) => invoices'[i] = invoices[i]
    BY <1>4 DEF Drops, Kept
  <2>2. \/ invoices'[i] = invoices[i]
        \/ desk[k].op # "void" /\ invoices'[i] = [invoices[i] EXCEPT !.status = "none"]
        \/ desk[k].op = "void" /\ invoices'[i] = [invoices[i] EXCEPT !.status = "VOID"]
    BY <1>4 DEF Drops
  <2> QED
    BY <1>3, <2>1, <2>2 DEF StaysFinal
<1>5. CASE Issues(k)
  <2>1. i \notin Handled(desk[k]) => invoices'[i] = invoices[i]
    BY <1>5 DEF Issues, Kept
  <2>2. desk[k].op = "issue"
    BY <1>5 DEF Issues
  <2> QED
    BY <1>3, <2>1, <2>2 DEF StaysFinal
<1> QED
  BY <1>2, <1>4, <1>5 DEF DeskCase

LEMMA StepFinal == ASSUME BooksKept, [Next]_vars, NEW i \in DOMAIN invoices \ crossed PROVE StaysFinal(i)
<1>1. CASE \E k \in Desks : InvoiceStep(k)
  <2>1. PICK k \in Desks : InvoiceStep(k)
    BY <1>1
  <2>2. BooksTyped /\ DeskKept /\ DeskTyped
    BY DEF BooksKept, DeskKept
  <2>3. DeskCase(k)
    BY <2>1, <2>2, InvoiceCases
  <2> QED
    BY <2>2, <2>3, RowFinal
<1>2. CASE UNCHANGED invoiceVars
  BY <1>2 DEF invoiceVars, StaysFinal
<1> QED
  BY <1>1, <1>2 DEF Next, vars

(* An issued invoice that no two requests handled at once can only be      *)
(* voided, and a void one stays void (voidInvoice, removeDraft, generate). *)
THEOREM FinalInvoices == Spec => IssuedIsFinal
<1>1. BooksKept /\ [Next]_vars =>
          [\A i \in DOMAIN invoices \ crossed :
               LET old == invoices[i] IN
                   /\ old.status = "ISSUED" => invoices'[i] \in {old, [old EXCEPT !.status = "VOID"]}
                   /\ old.status = "VOID" => invoices'[i] = old]_vars
  BY StepFinal DEF StaysFinal
<1> QED
  BY <1>1, BooksInvariant, PTL DEF Spec, IssuedIsFinal

LEMMA DraftCloses ==
    ASSUME BooksTyped, SalesBooked, NEW f, Covers(f), ShowsDraft(f), f.seen = {ledger}, PeriodIsPlain(f.who, f.from, f.to)
    PROVE  f.closing = OpeningBalance(f.who, f.to + 1)
<1> DEFINE c == f.who
           from == f.from
           to == f.to
<1>1. f.closing = SalesTotal(c, from, to) + OtherIn(ledger, c, from, to)
  BY DEF ShowsDraft
<1>2. OtherIn(ledger, c, from, to) = OpeningBalance(c, from) - PaymentsTotal(c, from, to) + AdjustmentsTotal(c, from, to)
  BY NowIn DEF OtherIn
<1>3. from \in Nat /\ to \in Nat /\ from <= to /\ PeriodIsPlain(c, from, to)
  BY DEF Covers
<1> HIDE DEF c, from, to
<1>4. OpeningBalance(c, to + 1) = OpeningBalance(c, from) + SalesTotal(c, from, to)
          - PaymentsTotal(c, from, to) + AdjustmentsTotal(c, from, to)
  BY <1>3, PlainCloses
<1>5. OpeningBalance(c, from) \in Int /\ SalesTotal(c, from, to) \in Int /\ PaymentsTotal(c, from, to) \in Int /\ AdjustmentsTotal(c, from, to) \in Int
  BY OpeningInt, SalesTotalInt, PaidAndAdjustedInt
<1>6. f.closing = OpeningBalance(c, to + 1)
  BY <1>1, <1>2, <1>4, <1>5
<1> QED
  BY <1>6 DEF c, to

LEMMA OtherDesk ==
    ASSUME DeskTyped, NEW k \in Desks, NEW n \in Desks, n # k, DeskCase(n) PROVE desk'[k] = desk[k]
<1>1. \E f : desk' = [desk EXCEPT ![n] = f]
  BY DEF DeskCase, TakesUp, Drops, Issues, Kept
<1> QED
  BY <1>1, DeskPut

LEMMA StepCloses ==
    ASSUME BooksKept, [Next]_vars, NEW k \in Desks
    PROVE  LET f == desk[k] IN
           Holds(k, "draft") /\ Len(invoices') > Len(invoices) /\ desk'[k] = Idle
           /\ f.seen = {ledger} /\ PeriodIsPlain(f.who, f.from, f.to)
               => invoices'[Len(invoices')].closing = OpeningBalance(f.who, f.to + 1)
<1> DEFINE f == desk[k]
<1> SUFFICES ASSUME Holds(k, "draft"), Len(invoices') > Len(invoices), desk'[k] = Idle,
                    f.seen = {ledger}, PeriodIsPlain(f.who, f.from, f.to)
             PROVE  invoices'[Len(invoices')].closing = OpeningBalance(f.who, f.to + 1)
  OBVIOUS
<1>1. BooksTyped /\ SalesBooked /\ DeskTyped /\ DeskShows /\ f.op = "draft" /\ Len(invoices) \in Nat /\ Idle.op = "none"
  BY IdleIs DEF BooksKept, DeskKept, DeskTyped, Holds
<1>2. invoices' # invoices
  BY <1>1
<1>3. PICK n \in Desks : InvoiceStep(n)
  BY <1>2 DEF Next, vars, invoiceVars
<1>4. DeskCase(n)
  BY <1>1, <1>3, InvoiceCases
<1>5. n = k
  BY <1>1, <1>4, OtherDesk
<1>6. CommitGenerate(k)
  BY <1>1, <1>2, <1>3, <1>5 DEF InvoiceStep, BeginGenerate, BeginIssue, BeginVoid, BeginRemoveDraft, ReadLedger,
                                CommitIssue, CommitVoid, CommitRemoveDraft, Abort, Holds
<1>7. invoices'[Len(invoices')].closing = f.closing
  <2> DEFINE kept == [i \in DOMAIN invoices |-> IF i \in f.replaces THEN Gone(i) ELSE invoices[i]]
             row == [who |-> f.who, from |-> f.from, to |-> f.to, status |-> "DRAFT", number |-> NoNumber, closing |-> f.closing]
  <2>1. invoices' = Append(kept, row) /\ row.closing = f.closing
    BY <1>6 DEF CommitGenerate
  <2>2. kept \in Seq(InvoiceRow) /\ row \in InvoiceRow
    <3>1. \A i \in DOMAIN invoices : invoices[i] \in InvoiceRow /\ Gone(i) \in InvoiceRow
      BY <1>1, SeqDomain, GoneRow DEF DeskTyped
    <3>2. invoices \in Seq(InvoiceRow) /\ DOMAIN kept = DOMAIN invoices /\ kept = [i \in DOMAIN invoices |-> kept[i]]
          /\ \A i \in DOMAIN invoices : kept[i] \in InvoiceRow
      BY <1>1, <3>1 DEF DeskTyped
    <3>3. kept \in Seq(InvoiceRow)
      <4> HIDE DEF kept
      <4> QED
        BY <3>2, Rewritten
    <3>4. Covers(f) /\ f.closing \in Int
      BY <1>1 DEF DeskTyped, FrameTyped, Idle
    <3>5. row \in InvoiceRow
      BY <3>4 DEF InvoiceRow, Covers, NoNumber
    <3> QED
      BY <3>3, <3>5
  <2> HIDE DEF kept, row
  <2>3. Len(invoices') = Len(kept) + 1 /\ invoices'[Len(kept) + 1] = row
    BY <2>1, <2>2
  <2> QED
    BY <2>1, <2>3
<1>8. Covers(f) /\ ShowsDraft(f)
  <2>1. Covers(f)
    BY <1>1 DEF DeskTyped, FrameTyped, Idle
  <2>2. Shows(f)
    BY <1>1 DEF DeskShows
  <2> QED
    BY <1>1, <2>1, <2>2 DEF Shows
<1> HIDE DEF f
<1>9. f.closing = OpeningBalance(f.who, f.to + 1)
  BY <1>1, <1>8, DraftCloses
<1> QED
  BY <1>7, <1>9

(* A draft that was read from the books of one moment, and of a period     *)
(* whose sales are those posted in it, closes at the balance of the ledger *)
(* (generate, recomputeHeaderTotals).                                      *)
THEOREM DraftsClose == Spec => ClosesAtBalance
<1>1. BooksKept /\ [Next]_vars =>
          [\A k \in Desks :
               LET f == desk[k] IN
                   Holds(k, "draft") /\ Len(invoices') > Len(invoices) /\ desk'[k] = Idle
                   /\ f.seen = {ledger} /\ PeriodIsPlain(f.who, f.from, f.to)
                       => invoices'[Len(invoices')].closing = OpeningBalance(f.who, f.to + 1)]_vars
  BY StepCloses
<1> QED
  BY <1>1, BooksInvariant, PTL DEF Spec, ClosesAtBalance

(* The payables screens, the vendor ledger, the schedule, the notice and   *)
(* the report of purchases show one debt of a vendor, whatever is billed,  *)
(* paid, dated and voided (vendor-bills.service.ts).                       *)
THEOREM PayablesAreOneDebt == Spec => []PayablesAgree
<1>1. BooksKept => PayablesAgree
  BY PayablesAgreeing DEF BooksKept
<1> QED
  BY <1>1, BooksInvariant, PTL

(* The reports of the sales, of the products, riders and vehicles, of the  *)
(* customers, and the dashboard, each read by another query, add up to the *)
(* same money wherever the workspace's days are those of UTC               *)
(* (reports.service.ts, dashboard.service.ts).                             *)
THEOREM ReportsAgree == Spec => []SalesAgree
<1>1. BooksKept => SalesAgree
  BY SalesAgreeing DEF BooksKept
<1> QED
  BY <1>1, BooksInvariant, PTL

(* The due date shown of a customer is the first due day of his billing    *)
(* cycle that is not past, and the one before it the last that is, for any *)
(* anchor, any interval and months of any lengths (billing-due.helpers.ts).*)
THEOREM DueDatesAreRight == Spec => []DueDatesRight
<1>1. BooksKept => DueDatesRight
  BY DueDatesAre DEF BooksKept
<1> QED
  BY <1>1, BooksInvariant, PTL

(* The buckets of the dashboard hold all that is outstanding, and what a   *)
(* customer owes is always the debt of an open debit: for one who was      *)
(* never in credit the oldest is the first that his credits do not reach,  *)
(* and he is overdue exactly when they do not reach what he owed on his    *)
(* last due date and he has paid nothing since, for any ledger and any     *)
(* age limits (payments.service.ts, oldestOpenDebitAt).                    *)
THEOREM AgesAreRight == Spec => []AgeingRight
<1>1. BooksKept => AgeingRight
  BY AgeingHolds DEF BooksKept
<1> QED
  BY <1>1, BooksInvariant, PTL

-----------------------------------------------------------------------------
(* PlannedStops, for requests that come one at a time, as the run checks   *)
(* them, each cut off at any await, and any number of stops and            *)
(* deliveries.                                                             *)
(*                                                                         *)
(* The inductive invariant says of the stops how order, delivery and       *)
(* status exclude each other (OrderedIsCancelled, StopsLinked), of the     *)
(* schedule that what keeps it alive is a stop of its own (Alive), and of  *)
(* the request in progress that what it has read still holds (Sees).       *)
Stop == [status : Statuses, source : {"SCHEDULE", "MANUAL"}, onRun : BOOLEAN,
         delivery : Nat, reason : {"none", "converting", "converted"}, mark : Nat,
         orders : Nat]
Delivery == [stop : Nat, status : {"DELIVERED", "CANCELLED"}]

Typed == /\ schedule \in {"none", "active", "inactive"}
         /\ stops \in Seq(Stop)
         /\ stopDeliveries \in Seq(Delivery)
         /\ pending = [c \in Clerks |-> pending[c]]

(* A stop that an order was made of, or is being made of, is cancelled. *)
OrderedIsCancelled(s) == /\ s.orders \in {0, 1}
                         /\ s.orders = 1 => s.status = "CANCELLED"
                         /\ s.reason = "converting" => s.status = "CANCELLED"

(* A standing delivery and the completed stop it was made at know each     *)
(* other.                                                                  *)
KnowsStop(n) ==
    /\ stopDeliveries[n].stop \in DOMAIN stops
    /\ stopDeliveries[n].status = "DELIVERED" =>
           /\ stops[stopDeliveries[n].stop].status = "COMPLETED"
           /\ stops[stopDeliveries[n].stop].delivery = n

KnowsDelivery(i) ==
    /\ stops[i].delivery \in 0..Len(stopDeliveries)
    /\ stops[i].status = "COMPLETED" =>
           /\ stops[i].delivery \in DOMAIN stopDeliveries
           /\ stopDeliveries[stops[i].delivery].stop = i
           /\ stopDeliveries[stops[i].delivery].status = "DELIVERED"

StopsLinked == /\ \A n \in DOMAIN stopDeliveries : KnowsStop(n)
               /\ \A i \in DOMAIN stops : KnowsDelivery(i)

(* What keeps an active schedule alive: a stop ahead, a stop of its own    *)
(* whose conversion is under way or was cut off, or a manual stop whose    *)
(* delivery was cancelled.                                                 *)
HeldUp == \E i \in DOMAIN stops : /\ stops[i].reason = "converting"
                                  /\ stops[i].source = "SCHEDULE"

Reverted == \E n \in DOMAIN stopDeliveries : /\ stopDeliveries[n].status = "CANCELLED"
                                             /\ stops[stopDeliveries[n].stop].source = "MANUAL"

Alive == schedule = "active" => HasUpcoming(stops) \/ HeldUp \/ Reverted

(* What the request in progress has read of the stops still holds. *)
DueAfter(i, outcome) ==
    /\ stops[i].source = "SCHEDULE"
    /\ NextDue([stops EXCEPT ![i] = Result(@, outcome)])

Converting(s) == s.status = "CANCELLED" /\ s.reason = "converting"

SeesStop(tx) ==
    LET s == stops[tx.stop] IN
    /\ tx.stop \in DOMAIN stops
    /\ tx.op = "include" => s.status = "PLANNED"
    /\ tx.op = "advance" => Upcoming(s) /\ tx.outcome \in {"SKIPPED", "FAILED"}
    /\ tx.op = "spawning" =>
           /\ tx.due = DueAfter(tx.stop, tx.outcome)
           /\ \/ Upcoming(s) /\ tx.outcome \in {"SKIPPED", "FAILED"}
              \/ Converting(s) /\ tx.outcome = "converted"
    /\ tx.op \in {"claim", "order"} =>
           /\ tx.status \in {"PLANNED", "INCLUDED"} /\ tx.onRun \in BOOLEAN
           /\ tx.status = "PLANNED" /\ s.source = "SCHEDULE" => schedule = "active"
    /\ tx.op = "order" => Converting(s) /\ s.orders = 0
    /\ tx.op = "ordered" => Converting(s)
    /\ tx.op = "deliver" =>
           /\ Upcoming(s)
           /\ tx.due = NextDue([stops EXCEPT ![tx.stop].status = "COMPLETED"])

SeesCancel(tx) ==
    /\ tx.delivery \in DOMAIN stopDeliveries /\ stopDeliveries[tx.delivery].status = "DELIVERED"
    /\ tx.stop = stopDeliveries[tx.delivery].stop
    /\ tx.next # 0 => tx.next \in DOMAIN stops /\ stops[tx.next].status = "PLANNED"

Sees(tx) ==
    \/ tx = NoTx
    \/ tx.op = "upsert" /\ tx.due = (tx.active /\ ~HasUpcoming(stops)) /\ tx.active \in BOOLEAN
    \/ tx.op = "ensure" /\ NextDue(stops)
    \/ /\ tx.op \in {"include", "advance", "spawning", "claim", "order", "ordered", "deliver"}
       /\ SeesStop(tx)
    \/ tx.op = "cancel" /\ SeesCancel(tx)

Rows == /\ \A i \in DOMAIN stops : OrderedIsCancelled(stops[i])
        /\ StopsLinked
        /\ Alive
        /\ OffMeansNothingPlanned

StopsInv == Typed /\ Rows /\ \A c \in Clerks : Sees(pending[c])

-----------------------------------------------------------------------------
(* What a request writes to the stops: s to stop i (none if i is 0), and   *)
(* perhaps another stop, of a schedule only if one was due.                *)
News == {NewStop("SCHEDULE"), NewStop("MANUAL")}

Became(i, s, due) ==
    /\ stops' \in Seq(Stop) /\ DOMAIN stops \subseteq DOMAIN stops'
    /\ \A j \in DOMAIN stops : stops'[j] = IF j = i THEN s ELSE stops[j]
    /\ \A j \in DOMAIN stops' \ DOMAIN stops :
           stops'[j] \in News /\ (stops'[j].source = "SCHEDULE" => due)
    /\ due => HasUpcoming(stops)'

LEMMA NewStops ==
    /\ News \subseteq Stop
    /\ \A s \in News : OrderedIsCancelled(s) /\ s.delivery = 0 /\ s.status = "PLANNED" /\ s.reason = "none"
    /\ NewStop("SCHEDULE") \in News /\ NewStop("MANUAL") \in News
    /\ NewStop("SCHEDULE").source = "SCHEDULE" /\ NewStop("MANUAL").source = "MANUAL"
    /\ Upcoming(NewStop("SCHEDULE"))
BY DEF News, NewStop, Stop, Statuses, OrderedIsCancelled, Upcoming

(* A stop in the place of another, and one more, or none. *)
LEMMA Grown ==
    ASSUME NEW ss \in Seq(Stop), NEW n \in News, NEW t, t = Append(ss, n)
    PROVE  /\ t \in Seq(Stop) /\ DOMAIN ss \subseteq DOMAIN t
           /\ \A j \in DOMAIN ss : t[j] = ss[j]
           /\ \A j \in DOMAIN t \ DOMAIN ss : t[j] = n
           /\ Len(ss) + 1 \in DOMAIN t /\ t[Len(ss) + 1] = n
<1>1. n \in Stop
  BY NewStops
<1>2. /\ t \in Seq(Stop) /\ DOMAIN t = DOMAIN ss \cup {Len(ss) + 1}
      /\ t[Len(ss) + 1] = n /\ \A j \in DOMAIN ss : t[j] = ss[j]
  BY <1>1, Appended
<1> QED
  BY <1>2

LEMMA BecameSpawned ==
    ASSUME NEW ss \in Seq(Stop), NEW due \in BOOLEAN, NEW i, NEW s,
           DOMAIN ss = DOMAIN stops,
           \A j \in DOMAIN stops : ss[j] = IF j = i THEN s ELSE stops[j],
           stops' = Spawned(ss, due)
    PROVE  Became(i, s, due)
<1>1. CASE due
  <2> DEFINE n == NewStop("SCHEDULE")
             t == stops'
  <2>1. t = Append(ss, n) /\ n \in News /\ n.source = "SCHEDULE" /\ Upcoming(n)
    BY <1>1, NewStops DEF Spawned
  <2> HIDE DEF n, t
  <2>2. /\ t \in Seq(Stop) /\ DOMAIN ss \subseteq DOMAIN t
        /\ \A j \in DOMAIN ss : t[j] = ss[j]
        /\ \A j \in DOMAIN t \ DOMAIN ss : t[j] = n
        /\ Len(ss) + 1 \in DOMAIN t /\ t[Len(ss) + 1] = n
    BY <2>1, Grown
  <2>3. HasUpcoming(t)
    BY <2>1, <2>2 DEF HasUpcoming
  <2>4. HasUpcoming(stops)'
    BY <2>3 DEF t, HasUpcoming
  <2> QED
    BY <1>1, <2>1, <2>2, <2>4 DEF Became, t
<1>2. CASE ~due
  <2>1. stops' = ss
    BY <1>2 DEF Spawned
  <2> QED
    BY <1>2, <2>1 DEF Became
<1> QED
  BY <1>1, <1>2

LEMMA BecameWritten ==
    ASSUME Typed, NEW i \in DOMAIN stops, NEW s \in Stop, NEW due \in BOOLEAN,
           stops' = Spawned([stops EXCEPT ![i] = s], due)
    PROVE  Became(i, s, due)
<1> DEFINE ss == [stops EXCEPT ![i] = s]
<1>1. ss \in Seq(Stop) /\ DOMAIN ss = DOMAIN stops
  BY DEF Typed
<1>2. \A j \in DOMAIN stops : ss[j] = IF j = i THEN s ELSE stops[j]
  BY DEF Typed
<1>3. stops' = Spawned(ss, due)
  OBVIOUS
<1> HIDE DEF ss
<1> QED
  BY <1>1, <1>2, <1>3, BecameSpawned

(* With nothing more to plan. *)
LEMMA BecameRewritten ==
    ASSUME Typed, NEW i \in DOMAIN stops, NEW s \in Stop,
           stops' = [stops EXCEPT ![i] = s]
    PROVE  Became(i, s, FALSE)
<1>1. stops' = Spawned([stops EXCEPT ![i] = s], FALSE)
  BY DEF Spawned
<1> QED
  BY <1>1, BecameWritten

LEMMA StopTyped ==
    ASSUME Typed, NEW i \in DOMAIN stops
    PROVE  i \in Nat /\ i # 0 /\ i \in 1..Len(stops) /\ stops[i] \in Stop
BY SeqDomain DEF Typed

-----------------------------------------------------------------------------
(* The rows agree after a step that changes neither the schedule nor the   *)
(* deliveries, if what it writes fits.                                     *)
Fits(i, s, due) ==
    /\ i \in DOMAIN stops => LET old == stops[i] IN
           /\ OrderedIsCancelled(s)
           /\ s.source = old.source /\ s.delivery = old.delivery
           /\ old.status # "COMPLETED" /\ s.status # "COMPLETED"
           /\ old.source = "SCHEDULE" /\ s.status = "PLANNED" => schedule = "active"
           /\ /\ old.source = "SCHEDULE" /\ schedule = "active"
              /\ Upcoming(old) \/ old.reason = "converting"
              => Upcoming(s) \/ s.reason = "converting" \/ HasUpcoming(stops)'
    /\ due => schedule = "active"

LEMMA KeepsSold ==
    ASSUME NEW i, NEW s, NEW due, Became(i, s, due), \A j \in DOMAIN stops : OrderedIsCancelled(stops[j]),
           i \in DOMAIN stops => OrderedIsCancelled(s)
    PROVE  (\A j \in DOMAIN stops : OrderedIsCancelled(stops[j]))'
<1> SUFFICES ASSUME NEW j \in DOMAIN stops' PROVE OrderedIsCancelled(stops'[j])
  BY DEF OrderedIsCancelled
<1>1. CASE j \in DOMAIN stops
  <2>1. stops'[j] = IF j = i THEN s ELSE stops[j]
    BY <1>1 DEF Became
  <2> QED
    BY <1>1, <2>1
<1>2. CASE j \notin DOMAIN stops
  <2>1. stops'[j] \in News
    BY <1>2 DEF Became
  <2> QED
    BY <2>1, NewStops
<1> QED
  BY <1>1, <1>2

LEMMA KeepsLinked ==
    ASSUME Typed, StopsLinked, NEW i, NEW s, NEW due, Became(i, s, due),
           i \in DOMAIN stops => /\ s.delivery = stops[i].delivery
                                 /\ stops[i].status # "COMPLETED" /\ s.status # "COMPLETED",
           stopDeliveries' = stopDeliveries
    PROVE  StopsLinked'
<1>1. ASSUME NEW n \in DOMAIN stopDeliveries PROVE KnowsStop(n)'
  <2> DEFINE j == stopDeliveries[n].stop
  <2>1. /\ j \in DOMAIN stops
        /\ stopDeliveries[n].status = "DELIVERED" =>
               stops[j].status = "COMPLETED" /\ stops[j].delivery = n
    BY DEF StopsLinked, KnowsStop
  <2>2. j \in DOMAIN stops' /\ stops'[j] = IF j = i THEN s ELSE stops[j]
    BY <2>1 DEF Became
  <2>3. stopDeliveries[n].status = "DELIVERED" => j # i
    BY <2>1
  <2> QED
    BY <2>1, <2>2, <2>3 DEF KnowsStop
<1>2. ASSUME NEW j \in DOMAIN stops' PROVE KnowsDelivery(j)'
  <2>1. CASE j \in DOMAIN stops /\ j # i
    <3>1. stops'[j] = stops[j] /\ KnowsDelivery(j)
      BY <2>1 DEF Became, StopsLinked
    <3> QED
      BY <3>1 DEF KnowsDelivery
  <2>2. CASE j \in DOMAIN stops /\ j = i
    <3>1. stops'[j] = s /\ KnowsDelivery(j)
      BY <2>2 DEF Became, StopsLinked
    <3>2. s.delivery = stops[j].delivery /\ s.status # "COMPLETED"
      BY <2>2
    <3> QED
      BY <3>1, <3>2 DEF KnowsDelivery
  <2>3. CASE j \notin DOMAIN stops
    <3>1. stops'[j].delivery = 0 /\ stops'[j].status = "PLANNED"
      BY <2>3, NewStops DEF Became
    <3>2. Len(stopDeliveries) \in Nat
      BY DEF Typed
    <3> QED
      BY <3>1, <3>2 DEF KnowsDelivery
  <2> QED
    BY <2>1, <2>2, <2>3
<1> QED
  BY <1>1, <1>2 DEF StopsLinked

LEMMA KeepsAlive ==
    ASSUME Typed, StopsLinked, Alive, NEW i, NEW s, NEW due, Became(i, s, due), Fits(i, s, due),
           stopDeliveries' = stopDeliveries, schedule' = schedule
    PROVE  Alive'
<1> SUFFICES ASSUME schedule = "active", ~HasUpcoming(stops)'
             PROVE  HeldUp' \/ Reverted'
  BY DEF Alive
<1>1. \A j \in DOMAIN stops : /\ j \in DOMAIN stops'
                              /\ stops'[j] = IF j = i THEN s ELSE stops[j]
                              /\ stops'[j].source = stops[j].source
  BY DEF Became, Fits
<1>2. CASE \E j \in DOMAIN stops : /\ stops[j].source = "SCHEDULE"
                                   /\ Upcoming(stops[j]) \/ stops[j].reason = "converting"
  <2>1. PICK j \in DOMAIN stops : /\ stops[j].source = "SCHEDULE"
                                  /\ Upcoming(stops[j]) \/ stops[j].reason = "converting"
    BY <1>2
  <2>2. j \in DOMAIN stops' /\ stops'[j].source = "SCHEDULE"
    BY <1>1, <2>1
  <2>3. Upcoming(stops'[j]) \/ stops'[j].reason = "converting"
    BY <1>1, <2>1 DEF Fits
  <2>4. ~Upcoming(stops'[j])
    BY <2>2 DEF HasUpcoming, Upcoming
  <2> QED
    BY <2>2, <2>3, <2>4 DEF HeldUp
<1>3. CASE Reverted
  <2>1. PICK n \in DOMAIN stopDeliveries : /\ stopDeliveries[n].status = "CANCELLED"
                                           /\ stops[stopDeliveries[n].stop].source = "MANUAL"
    BY <1>3 DEF Reverted
  <2>2. stopDeliveries[n].stop \in DOMAIN stops
    BY DEF StopsLinked, KnowsStop
  <2> QED
    BY <1>1, <2>1, <2>2 DEF Reverted
<1> QED
  BY <1>2, <1>3 DEF Alive, HasUpcoming, HeldUp

LEMMA KeepsOff ==
    ASSUME OffMeansNothingPlanned, NEW i, NEW s, NEW due, Became(i, s, due), Fits(i, s, due),
           schedule' = schedule
    PROVE  OffMeansNothingPlanned'
<1> SUFFICES ASSUME schedule # "active", NEW j \in DOMAIN stops',
                    stops'[j].source = "SCHEDULE"
             PROVE  stops'[j].status # "PLANNED"
  BY DEF OffMeansNothingPlanned
<1>1. CASE j \in DOMAIN stops
  <2>1. stops'[j] = IF j = i THEN s ELSE stops[j]
    BY <1>1 DEF Became
  <2> QED
    BY <1>1, <2>1 DEF Fits, OffMeansNothingPlanned
<1>2. CASE j \notin DOMAIN stops
  BY <1>2 DEF Became, Fits
<1> QED
  BY <1>1, <1>2

LEMMA KeepsRows ==
    ASSUME Typed, Rows, NEW i, NEW s, NEW due, Became(i, s, due), Fits(i, s, due),
           stopDeliveries' = stopDeliveries, schedule' = schedule
    PROVE  Rows'
<1>1. (\A j \in DOMAIN stops : OrderedIsCancelled(stops[j]))'
  BY KeepsSold DEF Rows, Fits
<1>2. StopsLinked'
  BY KeepsLinked DEF Rows, Fits
<1>3. Alive'
  BY KeepsAlive DEF Rows
<1>4. OffMeansNothingPlanned'
  BY KeepsOff DEF Rows
<1> QED
  BY <1>1, <1>2, <1>3, <1>4 DEF Rows

-----------------------------------------------------------------------------
(* One request at a time: what it notes is all that is pending. *)
LEMMA Told ==
    ASSUME NEW c, Clerks = {c}, Typed, NEW tx, Goto(c, tx), Sees(tx)'
    PROVE  /\ (\A d \in Clerks : Sees(pending[d]))'
           /\ pending' = [d \in Clerks |-> pending'[d]]
<1>1. pending'[c] = tx /\ pending' = [d \in Clerks |-> pending'[d]]
  BY DEF Goto, Typed
<1>2. Sees(pending[c])'
  BY <1>1 DEF Sees, SeesStop, SeesCancel, DueAfter
<1> QED
  BY <1>1, <1>2

LEMMA Ended ==
    ASSUME NEW c, Clerks = {c}, Typed, Finish(c), Rows', schedule' \in {"none", "active", "inactive"},
           stops' \in Seq(Stop), stopDeliveries' \in Seq(Delivery)
    PROVE  StopsInv'
<1>1. pending'[c] = NoTx /\ pending' = [d \in Clerks |-> pending'[d]]
  BY DEF Finish, Goto, Typed
<1>2. Sees(pending[c])'
  BY <1>1 DEF Sees
<1> QED
  BY <1>1, <1>2 DEF StopsInv, Typed

(* A check changes nothing but the note. *)
LEMMA NoteStep ==
    ASSUME NEW c, Clerks = {c}, StopsInv, NEW tx, Goto(c, tx), Sees(tx),
           UNCHANGED <<schedule, stops, stopDeliveries>>
    PROVE  StopsInv'
<1>1. Sees(tx)'
  <2>1. SeesStop(tx)' <=> SeesStop(tx)
    BY DEF SeesStop, DueAfter, NextDue
  <2>2. SeesCancel(tx)' <=> SeesCancel(tx)
    BY DEF SeesCancel
  <2>3. NextDue(stops)' <=> NextDue(stops)
    BY DEF NextDue
  <2> QED
    BY <2>1, <2>2, <2>3 DEF Sees
<1>2. Typed
  BY DEF StopsInv
<1>3. /\ (\A d \in Clerks : Sees(pending[d]))'
      /\ pending' = [d \in Clerks |-> pending'[d]]
  BY <1>1, <1>2, Told
<1>4. Typed'
  BY <1>2, <1>3 DEF Typed
<1>5. Rows'
  <2>1. Rows
    BY DEF StopsInv
  <2>2. (\A i \in DOMAIN stops : OrderedIsCancelled(stops[i]))'
    BY <2>1 DEF Rows
  <2>3. StopsLinked'
    BY <2>1 DEF Rows, StopsLinked, KnowsStop, KnowsDelivery
  <2>4. Alive'
    BY <2>1 DEF Rows, Alive, HasUpcoming, HeldUp, Reverted
  <2>5. OffMeansNothingPlanned'
    BY <2>1 DEF Rows, OffMeansNothingPlanned
  <2> QED
    BY <2>2, <2>3, <2>4, <2>5 DEF Rows
<1> QED
  BY <1>3, <1>4, <1>5 DEF StopsInv

(* A commit that writes a stop, and plans another, and is done. *)
LEMMA CommitStep ==
    ASSUME NEW c, Clerks = {c}, StopsInv, Finish(c), NEW i, NEW s, NEW due,
           Became(i, s, due), Fits(i, s, due), UNCHANGED <<schedule, stopDeliveries>>
    PROVE  StopsInv'
<1>1. Typed /\ Rows
  BY DEF StopsInv
<1>2. Rows'
  BY <1>1, KeepsRows
<1>3. /\ schedule' \in {"none", "active", "inactive"}
      /\ stops' \in Seq(Stop) /\ stopDeliveries' \in Seq(Delivery)
  BY <1>1 DEF Typed, Became
<1> QED
  BY <1>1, <1>2, <1>3, Ended

-----------------------------------------------------------------------------
LEMMA CheckUpsertStep ==
    ASSUME NEW c, Clerks = {c}, StopsInv, NEW on \in BOOLEAN, CheckUpsert(c, on)
    PROVE  StopsInv'
<1> DEFINE tx == [op |-> "upsert", new |-> schedule = "none", active |-> on,
                  due |-> on /\ ~HasUpcoming(stops)]
<1>1. Sees(tx)
  BY DEF Sees
<1> QED
  BY <1>1, NoteStep DEF CheckUpsert

LEMMA CheckEnsureStep ==
    ASSUME NEW c, Clerks = {c}, StopsInv, CheckEnsure(c) PROVE StopsInv'
<1>1. Sees([op |-> "ensure"])
  BY DEF Sees, CheckEnsure
<1> QED
  BY <1>1, NoteStep DEF CheckEnsure

LEMMA CheckIncludeStep ==
    ASSUME NEW c, Clerks = {c}, StopsInv, NEW i \in DOMAIN stops, CheckInclude(c, i)
    PROVE  StopsInv'
<1>1. Sees([op |-> "include", stop |-> i])
  BY DEF Sees, SeesStop, CheckInclude
<1> QED
  BY <1>1, NoteStep DEF CheckInclude

LEMMA CheckAdvanceStep ==
    ASSUME NEW c, Clerks = {c}, StopsInv, NEW i \in DOMAIN stops,
           NEW outcome \in {"SKIPPED", "FAILED"}, CheckAdvance(c, i, outcome)
    PROVE  StopsInv'
<1>1. Sees([op |-> "advance", stop |-> i, outcome |-> outcome])
  BY DEF Sees, SeesStop, CheckAdvance
<1> QED
  BY <1>1, NoteStep DEF CheckAdvance

(* A stop that is planned for a schedule has the schedule on. *)
LEMMA PlannedIsOn ==
    ASSUME StopsInv, NEW i \in DOMAIN stops, stops[i].status = "PLANNED",
           stops[i].source = "SCHEDULE"
    PROVE  schedule = "active"
BY DEF StopsInv, Rows, OffMeansNothingPlanned

LEMMA CheckConvertStep ==
    ASSUME NEW c, Clerks = {c}, StopsInv, NEW i \in DOMAIN stops, CheckConvert(c, i)
    PROVE  StopsInv'
<1> DEFINE tx == [op |-> "claim", stop |-> i, status |-> stops[i].status,
                  onRun |-> stops[i].onRun]
<1>1. stops[i].onRun \in BOOLEAN /\ stops[i].status \in {"PLANNED", "INCLUDED"}
  BY StopTyped DEF StopsInv, Stop, CheckConvert, Upcoming
<1>2. Sees(tx)
  BY <1>1, PlannedIsOn DEF Sees, SeesStop
<1> QED
  BY <1>2, NoteStep DEF CheckConvert

LEMMA CheckDeliverStep ==
    ASSUME NEW c, Clerks = {c}, StopsInv, NEW i \in DOMAIN stops, CheckDeliver(c, i)
    PROVE  StopsInv'
<1> DEFINE tx == [op |-> "deliver", stop |-> i,
                  due |-> NextDue([stops EXCEPT ![i].status = "COMPLETED"])]
<1>1. Sees(tx)
  BY DEF Sees, SeesStop, CheckDeliver
<1> QED
  BY <1>1, NoteStep DEF CheckDeliver

LEMMA AdvanceStep ==
    ASSUME NEW c, Clerks = {c}, StopsInv, NEW i \in DOMAIN stops, NEW outcome, Advance(c, i, outcome),
           \/ Upcoming(stops[i]) /\ outcome \in {"SKIPPED", "FAILED"}
           \/ Converting(stops[i]) /\ outcome = "converted"
    PROVE  StopsInv'
<1> DEFINE tx == [op |-> "spawning", stop |-> i, outcome |-> outcome,
                  due |-> DueAfter(i, outcome)]
<1>1. Sees(tx)
  BY DEF Sees, SeesStop
<1>2. Goto(c, tx) /\ UNCHANGED <<schedule, stops, stopDeliveries>>
  BY DEF Advance, DueAfter
<1> HIDE DEF tx
<1> QED
  BY <1>1, <1>2, NoteStep

(* What the clerk at work has read. *)
LEMMA SeesIts ==
    ASSUME NEW c, Clerks = {c}, StopsInv, pending[c] # NoTx,
           pending[c].op \in {"include", "advance", "spawning", "claim", "order", "ordered",
                              "deliver"}
    PROVE  SeesStop(pending[c])
BY DEF StopsInv, Sees

LEMMA WriteAdvanceStep ==
    ASSUME NEW c, Clerks = {c}, StopsInv, WriteAdvance(c) PROVE StopsInv'
<1>1. SeesStop(pending[c]) /\ pending[c].op = "advance"
  BY SeesIts DEF WriteAdvance, In, NoTx
<1> QED
  BY <1>1, AdvanceStep DEF WriteAdvance, SeesStop

LEMMA WriteConvertedStep ==
    ASSUME NEW c, Clerks = {c}, StopsInv, WriteConverted(c) PROVE StopsInv'
<1>1. SeesStop(pending[c]) /\ pending[c].op = "ordered"
  BY SeesIts DEF WriteConverted, In, NoTx
<1> QED
  BY <1>1, AdvanceStep DEF WriteConverted, SeesStop

LEMMA AbortStep ==
    ASSUME NEW c, Clerks = {c}, StopsInv, CutOff(c) PROVE StopsInv'
<1>1. Sees(NoTx)
  BY DEF Sees
<1> QED
  BY <1>1, NoteStep DEF CutOff, Finish

-----------------------------------------------------------------------------
(* What is planned outside of any stop. *)
LEMMA PlannedOnly ==
    ASSUME StopsInv, NEW n \in News, stops' = Append(stops, n),
           NEW due \in BOOLEAN, due = (n.source = "SCHEDULE")
    PROVE  Became(0, n, due)
<1>2. stops \in Seq(Stop)
  BY DEF StopsInv, Typed
<1>1. 0 \notin DOMAIN stops
  BY <1>2, SeqDomain
<1> DEFINE t == stops'
<1>3. t = Append(stops, n)
  OBVIOUS
<1> HIDE DEF t
<1>4. /\ t \in Seq(Stop) /\ DOMAIN stops \subseteq DOMAIN t
      /\ \A j \in DOMAIN stops : t[j] = stops[j]
      /\ \A j \in DOMAIN t \ DOMAIN stops : t[j] = n
      /\ Len(stops) + 1 \in DOMAIN t /\ t[Len(stops) + 1] = n
  BY <1>2, <1>3, Grown
<1>5. due => HasUpcoming(stops)'
  <2>1. n.source = "SCHEDULE" => Upcoming(n)
    BY DEF News, NewStop, Upcoming
  <2> QED
    BY <1>4, <2>1 DEF t, HasUpcoming
<1> QED
  BY <1>1, <1>4, <1>5 DEF Became, t

LEMMA FitsNone == ASSUME NEW s, StopsInv, NEW due, due => schedule = "active" PROVE Fits(0, s, due)
BY StopTyped DEF Fits, StopsInv

LEMMA CommitEnsureStep ==
    ASSUME NEW c, Clerks = {c}, StopsInv, CommitEnsure(c) PROVE StopsInv'
<1> DEFINE n == NewStop("SCHEDULE")
<1>1. schedule = "active"
  BY DEF CommitEnsure, In, StopsInv, Sees, NextDue, NoTx
<1>2. stops' = Append(stops, n) /\ n \in News /\ n.source = "SCHEDULE"
  BY NewStops DEF CommitEnsure, Spawned
<1> HIDE DEF n
<1>3. Became(0, n, TRUE)
  BY <1>2, PlannedOnly
<1>4. Fits(0, n, TRUE)
  BY <1>1, FitsNone
<1> QED
  BY <1>3, <1>4, CommitStep DEF CommitEnsure

LEMMA CreateManualStep ==
    ASSUME NEW c, Clerks = {c}, StopsInv, CreateManual(c) PROVE StopsInv'
<1> DEFINE n == NewStop("MANUAL")
<1>1. stops' = Append(stops, n) /\ n \in News /\ n.source = "MANUAL"
  BY NewStops DEF CreateManual
<1>2. Finish(c)
  BY DEF CreateManual, NoRequest, Finish, Goto, StopsInv, Typed
<1> HIDE DEF n
<1>3. Became(0, n, FALSE)
  BY <1>1, PlannedOnly
<1>4. Fits(0, n, FALSE)
  BY FitsNone
<1> QED
  BY <1>2, <1>3, <1>4, CommitStep DEF CreateManual

(* A stop in the plan is neither delivered nor ordered. *)
LEMMA UpcomingFree ==
    ASSUME NEW s, Upcoming(s), OrderedIsCancelled(s)
    PROVE  /\ s.orders = 0 /\ s.reason # "converting" /\ s.status # "COMPLETED"
           /\ s.status # "CANCELLED"
BY DEF Upcoming, OrderedIsCancelled

LEMMA RowOfStop == ASSUME StopsInv, NEW i \in DOMAIN stops PROVE OrderedIsCancelled(stops[i]) /\ stops[i] \in Stop
BY StopTyped DEF StopsInv, Rows

(* Nothing was written by others: still planned, a stop can be put on a    *)
(* run without a look.                                                     *)
LEMMA CommitIncludeStep ==
    ASSUME NEW c, Clerks = {c}, StopsInv, CommitInclude(c) PROVE StopsInv'
<1> DEFINE i == pending[c].stop
           old == stops[i]
           s == [old EXCEPT !.status = "INCLUDED", !.onRun = TRUE]
<1>0. SeesStop(pending[c]) /\ pending[c].op = "include"
  BY SeesIts DEF CommitInclude, In, NoTx
<1>1. i \in DOMAIN stops /\ old.status = "PLANNED"
  BY <1>0 DEF SeesStop
<1>2. OrderedIsCancelled(old) /\ old \in Stop
  BY <1>1, RowOfStop
<1>3. /\ s \in Stop /\ s.status = "INCLUDED" /\ s.source = old.source
      /\ s.delivery = old.delivery /\ s.orders = old.orders /\ s.reason = old.reason
  BY <1>2 DEF Stop, Statuses
<1>4. Exists(i)
  BY <1>1 DEF Exists
<1>5. stops' = [stops EXCEPT ![i].status = "INCLUDED", ![i].onRun = TRUE]
  BY <1>4 DEF CommitInclude
<1>6. stops' = [stops EXCEPT ![i] = s]
  BY <1>1, <1>5 DEF StopsInv, Typed
<1>7. OrderedIsCancelled(s) /\ Upcoming(s)
  BY <1>1, <1>2, <1>3 DEF OrderedIsCancelled, Upcoming
<1> HIDE DEF s
<1>8. Became(i, s, FALSE)
  BY <1>1, <1>3, <1>6, BecameRewritten DEF StopsInv
<1>9. Fits(i, s, FALSE)
  BY <1>1, <1>3, <1>7 DEF Fits
<1> HIDE DEF i
<1> QED
  BY <1>8, <1>9, CommitStep DEF CommitInclude

LEMMA Results ==
    ASSUME NEW s \in Stop, NEW outcome \in {"SKIPPED", "FAILED", "converted"}
    PROVE  /\ Result(s, outcome) \in Stop
           /\ Result(s, outcome).source = s.source
           /\ Result(s, outcome).delivery = s.delivery
           /\ Result(s, outcome).orders = s.orders
           /\ Result(s, outcome).reason \in {"none", "converted"}
           /\ Result(s, outcome).status = IF outcome = "converted" THEN s.status ELSE outcome
BY DEF Result, Stop, Statuses

LEMMA CommitAdvanceStep ==
    ASSUME NEW c, Clerks = {c}, StopsInv, CommitAdvance(c) PROVE StopsInv'
<1> DEFINE tx == pending[c]
           i == tx.stop
           old == stops[i]
           s == Result(old, tx.outcome)
           due == tx.due
<1>0. SeesStop(pending[c]) /\ pending[c].op = "spawning"
  BY SeesIts DEF CommitAdvance, In, NoTx
<1>1. /\ i \in DOMAIN stops /\ due = DueAfter(i, tx.outcome)
      /\ \/ Upcoming(old) /\ tx.outcome \in {"SKIPPED", "FAILED"}
         \/ Converting(old) /\ tx.outcome = "converted"
  BY <1>0 DEF SeesStop
<1>2. OrderedIsCancelled(old) /\ old \in Stop
  BY <1>1, RowOfStop
<1>3. /\ s \in Stop /\ s.source = old.source /\ s.delivery = old.delivery
      /\ s.orders = old.orders /\ s.reason \in {"none", "converted"}
      /\ s.status = IF tx.outcome = "converted" THEN old.status ELSE tx.outcome
  BY <1>1, <1>2, Results
<1>4. s.status \in {"SKIPPED", "FAILED", "CANCELLED"} /\ OrderedIsCancelled(s) /\ old.status # "COMPLETED"
  BY <1>1, <1>2, <1>3 DEF OrderedIsCancelled, Upcoming, Converting
<1>5. stops' = Spawned([stops EXCEPT ![i] = s], due)
  BY <1>1 DEF CommitAdvance, StopsInv, Typed
<1>6. due = (old.source = "SCHEDULE" /\ NextDue([stops EXCEPT ![i] = s]))
  BY <1>1 DEF DueAfter, StopsInv, Typed
<1> HIDE DEF s
<1>7. due \in BOOLEAN /\ (due => schedule = "active")
  BY <1>6 DEF NextDue
<1> DEFINE ss == [stops EXCEPT ![i] = s]
<1>8. Became(i, s, due)
  BY <1>1, <1>3, <1>5, <1>7, BecameWritten DEF StopsInv
<1>9. ASSUME old.source = "SCHEDULE", schedule = "active" PROVE HasUpcoming(stops)'
  <2>1. CASE due
    BY <1>8, <2>1 DEF Became
  <2>2. CASE ~due
    <3>1. HasUpcoming(ss) /\ stops' = ss
      BY <1>5, <1>6, <1>9, <2>2 DEF NextDue, Spawned
    <3> QED
      BY <3>1 DEF HasUpcoming
  <2> QED
    BY <1>7, <2>1, <2>2
<1>10. Fits(i, s, due)
  BY <1>3, <1>4, <1>7, <1>9 DEF Fits
<1> HIDE DEF i, due, old
<1> QED
  BY <1>8, <1>10, CommitStep DEF CommitAdvance

(* Claimed, a stop is cancelled: no one else can sell it. *)
LEMMA ClaimStopStep ==
    ASSUME NEW c, Clerks = {c}, StopsInv, ClaimStop(c) PROVE StopsInv'
<1> DEFINE tx == pending[c]
           i == tx.stop
           old == stops[i]
           s == [old EXCEPT !.status = "CANCELLED", !.onRun = FALSE, !.reason = "converting"]
<1>n. PICK note : note = [tx EXCEPT !.op = "order"]
  OBVIOUS
<1>0. SeesStop(pending[c]) /\ pending[c].op = "claim"
  BY SeesIts DEF ClaimStop, In, NoTx
<1>1. /\ tx.op = "claim" /\ i \in DOMAIN stops
      /\ tx.status \in {"PLANNED", "INCLUDED"} /\ tx.onRun \in BOOLEAN
      /\ tx.status = "PLANNED" /\ old.source = "SCHEDULE" => schedule = "active"
  BY <1>0 DEF SeesStop
<1>2. OrderedIsCancelled(old) /\ old \in Stop
  BY <1>1, RowOfStop
<1>3. CASE /\ Upcoming(old)
           /\ stops' = [stops EXCEPT ![i].status = "CANCELLED", ![i].onRun = FALSE,
                                     ![i].reason = "converting"]
           /\ Goto(c, [tx EXCEPT !.op = "order"])
  <2>1. /\ s \in Stop /\ s.status = "CANCELLED" /\ s.source = old.source
        /\ s.delivery = old.delivery /\ s.orders = old.orders /\ s.reason = "converting"
    BY <1>2 DEF Stop, Statuses
  <2>2. stops' = [stops EXCEPT ![i] = s]
    BY <1>1, <1>3 DEF StopsInv, Typed
  <2>3. OrderedIsCancelled(s) /\ s.orders = 0 /\ old.status # "COMPLETED"
    BY <1>2, <1>3, <2>1, UpcomingFree DEF OrderedIsCancelled
  <2> HIDE DEF s
  <2>4. Became(i, s, FALSE)
    BY <1>1, <2>1, <2>2, BecameRewritten DEF StopsInv
  <2>5. Fits(i, s, FALSE)
    BY <2>1, <2>3 DEF Fits
  <2>6. UNCHANGED <<schedule, stopDeliveries>>
    BY DEF ClaimStop
  <2>7. Rows'
    BY <2>4, <2>5, <2>6, KeepsRows DEF StopsInv
  <2>8. Sees(note)'
    <3>1. /\ note.op = "order" /\ note.stop = i /\ note.status = tx.status
          /\ note.onRun = tx.onRun
      BY <1>1, <1>n
    <3>2. i \in DOMAIN stops' /\ stops'[i] = s
      BY <1>1, <2>4 DEF Became
    <3>3. PICK k : k = i
      OBVIOUS
    <3>4. /\ stops'[k] = s /\ k \in DOMAIN stops' /\ note.stop = k
          /\ tx.status = "PLANNED" /\ s.source = "SCHEDULE" => schedule' = "active"
      BY <1>1, <2>1, <2>6, <3>1, <3>2, <3>3
    <3>5. SeesStop(note)'
      BY <1>1, <2>1, <2>3, <3>1, <3>4 DEF SeesStop, Converting
    <3> QED
      BY <3>1, <3>5 DEF Sees
  <2>9. /\ (\A d \in Clerks : Sees(pending[d]))'
        /\ pending' = [d \in Clerks |-> pending'[d]]
    BY <1>3, <1>n, <2>8, Told DEF StopsInv
  <2>10. Typed'
    BY <2>4, <2>6, <2>9 DEF StopsInv, Typed, Became
  <2> QED
    BY <2>7, <2>9, <2>10 DEF StopsInv
<1>4. CASE Finish(c) /\ UNCHANGED stops
  <2>1. Sees(NoTx)
    BY DEF Sees
  <2> QED
    BY <1>4, <2>1, NoteStep DEF ClaimStop, Finish
<1> QED
  BY <1>3, <1>4 DEF ClaimStop

LEMMA CreateOrderStep ==
    ASSUME NEW c, Clerks = {c}, StopsInv, CreateOrder(c) PROVE StopsInv'
<1> DEFINE tx == pending[c]
           i == tx.stop
           old == stops[i]
           s == [old EXCEPT !.orders = @ + 1]
<1>n. PICK note : note = [op |-> "ordered", stop |-> i]
  OBVIOUS
<1>0. SeesStop(pending[c]) /\ pending[c].op = "order"
  BY SeesIts DEF CreateOrder, In, NoTx
<1>1. i \in DOMAIN stops /\ Converting(old) /\ old.orders = 0
  BY <1>0 DEF SeesStop
<1>2. OrderedIsCancelled(old) /\ old \in Stop
  BY <1>1, RowOfStop
<1>3. /\ s \in Stop /\ s.status = "CANCELLED" /\ s.source = old.source
      /\ s.delivery = old.delivery /\ s.orders = 1 /\ s.reason = "converting"
  BY <1>1, <1>2 DEF Stop, Converting
<1>4. stops' = [stops EXCEPT ![i] = s] /\ Goto(c, note) /\ UNCHANGED <<schedule, stopDeliveries>>
  BY <1>1, <1>n DEF CreateOrder, StopsInv, Typed
<1>5. OrderedIsCancelled(s) /\ old.status # "COMPLETED"
  BY <1>1, <1>3 DEF OrderedIsCancelled, Converting
<1> HIDE DEF s
<1>6. Became(i, s, FALSE)
  BY <1>1, <1>3, <1>4, BecameRewritten DEF StopsInv
<1>7. Fits(i, s, FALSE)
  BY <1>3, <1>5 DEF Fits
<1>8. Rows'
  BY <1>4, <1>6, <1>7, KeepsRows DEF StopsInv
<1>9. Sees(note)'
  <2>1. i \in DOMAIN stops' /\ stops'[i] = s
    BY <1>1, <1>6 DEF Became
  <2>2. PICK k : k = i
    OBVIOUS
  <2>3. note.op = "ordered" /\ note.stop = k /\ k \in DOMAIN stops' /\ stops'[k] = s
    BY <1>n, <2>1, <2>2
  <2>4. SeesStop(note)'
    BY <1>3, <2>3 DEF SeesStop, Converting
  <2> QED
    BY <2>3, <2>4 DEF Sees
<1>10. /\ (\A d \in Clerks : Sees(pending[d]))'
       /\ pending' = [d \in Clerks |-> pending'[d]]
  BY <1>4, <1>9, Told DEF StopsInv
<1>11. Typed'
  BY <1>4, <1>6, <1>10 DEF StopsInv, Typed, Became
<1> QED
  BY <1>8, <1>10, <1>11 DEF StopsInv

LEMMA OrderFailsStep ==
    ASSUME NEW c, Clerks = {c}, StopsInv, OrderFails(c) PROVE StopsInv'
<1> DEFINE tx == pending[c]
           i == tx.stop
           old == stops[i]
           s == [old EXCEPT !.status = tx.status, !.onRun = tx.onRun, !.reason = "none"]
<1>0. SeesStop(pending[c]) /\ pending[c].op = "order"
  BY SeesIts DEF OrderFails, In, NoTx
<1>1. /\ i \in DOMAIN stops /\ Converting(old) /\ old.orders = 0
      /\ tx.status \in {"PLANNED", "INCLUDED"} /\ tx.onRun \in BOOLEAN
      /\ tx.status = "PLANNED" /\ old.source = "SCHEDULE" => schedule = "active"
  BY <1>0 DEF SeesStop
<1>2. OrderedIsCancelled(old) /\ old \in Stop
  BY <1>1, RowOfStop
<1>3. /\ s \in Stop /\ s.status = tx.status /\ s.source = old.source
      /\ s.delivery = old.delivery /\ s.orders = 0 /\ s.reason = "none"
  BY <1>1, <1>2 DEF Stop, Statuses
<1>4. stops' = [stops EXCEPT ![i] = s]
  BY <1>1 DEF OrderFails, StopsInv, Typed
<1>5. OrderedIsCancelled(s) /\ Upcoming(s) /\ old.status # "COMPLETED"
  BY <1>1, <1>3 DEF OrderedIsCancelled, Converting, Upcoming
<1> HIDE DEF s
<1>6. Became(i, s, FALSE)
  BY <1>1, <1>3, <1>4, BecameRewritten DEF StopsInv
<1>7. Fits(i, s, FALSE)
  BY <1>1, <1>3, <1>5 DEF Fits, Upcoming
<1> HIDE DEF i
<1> QED
  BY <1>6, <1>7, CommitStep DEF OrderFails

-----------------------------------------------------------------------------
LEMMA CommitUpsertStep ==
    ASSUME NEW c, Clerks = {c}, StopsInv, CommitUpsert(c) PROVE StopsInv'
<1> DEFINE tx == pending[c]
<1>1. tx.due = (tx.active /\ ~HasUpcoming(stops)) /\ tx.active \in BOOLEAN
  BY DEF CommitUpsert, In, StopsInv, Sees, NoTx
<1>2. Typed /\ Rows /\ Finish(c) /\ stopDeliveries' = stopDeliveries /\ stopDeliveries \in Seq(Delivery)
  BY DEF StopsInv, CommitUpsert, Typed
<1>3. CASE tx.active /\ schedule' = "active" /\ stops' = Spawned(stops, tx.due)
  <2> DEFINE due == tx.due
             n == NewStop("MANUAL")
  <2>1. Became(0, n, due)
    <3>1. stops \in Seq(Stop) /\ 0 \notin DOMAIN stops
      BY <1>2, SeqDomain DEF Typed
    <3>2. due \in BOOLEAN /\ stops' = Spawned(stops, due)
      BY <1>1, <1>3
    <3> HIDE DEF due, n
    <3> QED
      BY <3>1, <3>2, BecameSpawned
  <2>2. 0 \notin DOMAIN stops
    BY <1>2, StopTyped
  <2>3. due <=> ~HasUpcoming(stops)
    BY <1>1, <1>3
  <2> HIDE DEF due, n
  <2>4. HasUpcoming(stops)'
    <3>1. CASE due
      BY <2>1, <3>1 DEF Became
    <3>2. CASE ~due
      <4>1. PICK j \in DOMAIN stops : Upcoming(stops[j]) /\ stops[j].source = "SCHEDULE"
        BY <2>3, <3>2 DEF HasUpcoming
      <4>2. j \in DOMAIN stops' /\ stops'[j] = stops[j]
        BY <2>1, <2>2 DEF Became
      <4> QED
        BY <4>1, <4>2 DEF HasUpcoming, Upcoming
    <3> QED
      BY <3>1, <3>2
  <2>5. (\A j \in DOMAIN stops : OrderedIsCancelled(stops[j]))'
    BY <1>2, <2>1, <2>2, KeepsSold DEF Rows
  <2>6. StopsLinked'
    BY <1>2, <2>1, <2>2, KeepsLinked DEF Rows
  <2>7. Alive' /\ OffMeansNothingPlanned'
    BY <1>3, <2>4 DEF Alive, OffMeansNothingPlanned
  <2>8. Rows' /\ stops' \in Seq(Stop)
    BY <2>1, <2>5, <2>6, <2>7 DEF Rows, Became
  <2> QED
    BY <1>2, <1>3, <2>8, Ended
<1>4. CASE /\ schedule' = "inactive"
           /\ stops' = [i \in DOMAIN stops |->
                  IF stops[i].status = "PLANNED" /\ stops[i].source = "SCHEDULE"
                  THEN [stops[i] EXCEPT !.status = "CANCELLED"] ELSE stops[i]]
  <2>1. DOMAIN stops' = DOMAIN stops
    BY <1>4
  <2>2. ASSUME NEW i \in DOMAIN stops
        PROVE  /\ stops'[i] \in Stop /\ OrderedIsCancelled(stops'[i])
               /\ stops'[i].source = stops[i].source /\ stops'[i].delivery = stops[i].delivery
               /\ stops'[i].status = "COMPLETED" <=> stops[i].status = "COMPLETED"
               /\ stops'[i].source = "SCHEDULE" => stops'[i].status # "PLANNED"
    <3>1. stops[i] \in Stop /\ OrderedIsCancelled(stops[i])
      BY RowOfStop
    <3>2. CASE stops[i].status = "PLANNED" /\ stops[i].source = "SCHEDULE"
      <4>1. stops'[i] = [stops[i] EXCEPT !.status = "CANCELLED"]
        BY <1>4, <3>2
      <4> QED
        BY <3>1, <3>2, <4>1 DEF Stop, Statuses, OrderedIsCancelled
    <3>3. CASE ~(stops[i].status = "PLANNED" /\ stops[i].source = "SCHEDULE")
      <4>1. stops'[i] = stops[i]
        BY <1>4, <3>3
      <4> QED
        BY <3>1, <3>3, <4>1
    <3> QED
      BY <3>2, <3>3
  <2>3. stops' \in Seq(Stop)
    <3> DEFINE t == stops'
    <3>1. DOMAIN t = DOMAIN stops /\ t = [i \in DOMAIN stops |-> t[i]]
      BY <1>4
    <3>2. \A i \in DOMAIN stops : t[i] \in Stop
      BY <2>2
    <3>3. stops \in Seq(Stop)
      BY <1>2 DEF Typed
    <3> HIDE DEF t
    <3>4. t \in Seq(Stop)
      BY <3>1, <3>2, <3>3, Rewritten
    <3> QED
      BY <3>4 DEF t
  <2>4. (\A i \in DOMAIN stops : OrderedIsCancelled(stops[i]))'
    BY <2>1, <2>2
  <2>5. StopsLinked'
    <3>1. ASSUME NEW n \in DOMAIN stopDeliveries PROVE KnowsStop(n)'
      <4>1. KnowsStop(n) /\ stopDeliveries'[n] = stopDeliveries[n]
        BY <1>2 DEF Rows, StopsLinked
      <4> QED
        BY <2>1, <2>2, <4>1 DEF KnowsStop
    <3>2. ASSUME NEW i \in DOMAIN stops PROVE KnowsDelivery(i)'
      <4>1. KnowsDelivery(i) /\ stopDeliveries' = stopDeliveries
        BY <1>2 DEF Rows, StopsLinked
      <4> QED
        BY <2>2, <4>1 DEF KnowsDelivery
    <3> QED
      BY <1>2, <2>1, <3>1, <3>2 DEF StopsLinked
  <2>6. Alive' /\ OffMeansNothingPlanned'
    BY <1>4, <2>1, <2>2 DEF Alive, OffMeansNothingPlanned
  <2>7. Rows'
    BY <2>4, <2>5, <2>6 DEF Rows
  <2> QED
    BY <1>2, <1>4, <2>3, <2>7, Ended
<1> QED
  BY <1>3, <1>4 DEF CommitUpsert

-----------------------------------------------------------------------------
(* A delivery and the stop it was made at. *)
LEMMA CommitDeliverStep ==
    ASSUME NEW c, Clerks = {c}, StopsInv, CommitDeliver(c) PROVE StopsInv'
<1> DEFINE tx == pending[c]
           i == tx.stop
           old == stops[i]
           n == Len(stopDeliveries) + 1
           new == [stop |-> i, status |-> "DELIVERED"]
           s == [old EXCEPT !.status = "COMPLETED", !.delivery = n, !.mark = Len(stops)]
           due == tx.due
<1>0. SeesStop(tx) /\ tx.op = "deliver"
  BY SeesIts DEF CommitDeliver, In, NoTx
<1>1. /\ i \in DOMAIN stops /\ Upcoming(old)
      /\ due = NextDue([stops EXCEPT ![i].status = "COMPLETED"])
  BY <1>0 DEF SeesStop
<1>2. OrderedIsCancelled(old) /\ old \in Stop /\ Typed /\ Rows
  BY <1>1, RowOfStop DEF StopsInv
<1>3. Len(stops) \in Nat /\ Len(stopDeliveries) \in Nat /\ n \in Nat /\ i \in Nat
  BY <1>1, <1>2, SeqDomain DEF Typed
<1>4. /\ s \in Stop /\ s.status = "COMPLETED" /\ s.source = old.source /\ s.delivery = n
      /\ s.orders = old.orders /\ s.reason = old.reason
  BY <1>2, <1>3 DEF Stop, Statuses
<1>5. /\ stops' = Spawned([stops EXCEPT ![i] = s], due)
      /\ stopDeliveries' = Append(stopDeliveries, new)
      /\ schedule' = schedule /\ Finish(c)
  BY <1>1, <1>2 DEF CommitDeliver, Typed
<1>6. OrderedIsCancelled(s) /\ old.status # "COMPLETED"
  BY <1>1, <1>2, <1>4, UpcomingFree DEF OrderedIsCancelled
<1>7. /\ stopDeliveries' \in Seq(Delivery)
      /\ DOMAIN stopDeliveries' = DOMAIN stopDeliveries \cup {n} /\ DOMAIN stopDeliveries = 1..Len(stopDeliveries)
      /\ Len(stopDeliveries') = n
      /\ stopDeliveries'[n] = new /\ \A m \in DOMAIN stopDeliveries : stopDeliveries'[m] = stopDeliveries[m]
  <2>1. new \in Delivery /\ stopDeliveries \in Seq(Delivery)
    BY <1>2, <1>3 DEF Delivery, Typed
  <2>2. Len(stopDeliveries') = n
    BY <1>5, <2>1
  <2> HIDE DEF new
  <2> QED
    BY <1>5, <2>1, <2>2, Appended
<1> DEFINE ss == [stops EXCEPT ![i] = s]
<1> HIDE DEF s
<1>8. due \in BOOLEAN /\ (due => schedule = "active")
  BY <1>1 DEF NextDue
<1>9. Became(i, s, due)
  BY <1>1, <1>2, <1>4, <1>5, <1>8, BecameWritten
<1>10. (\A j \in DOMAIN stops : OrderedIsCancelled(stops[j]))'
  BY <1>2, <1>6, <1>9, KeepsSold DEF Rows
<1>11. StopsLinked'
  <2>1. \A j \in DOMAIN stops : /\ j \in DOMAIN stops'
                                /\ stops'[j] = IF j = i THEN s ELSE stops[j]
    BY <1>9 DEF Became
  <2>2. ASSUME NEW m \in DOMAIN stopDeliveries' PROVE KnowsStop(m)'
    <3>1. CASE m = n
      <4>1. /\ stopDeliveries'[m].stop = i /\ i \in DOMAIN stops' /\ stops'[i] = s
        BY <1>1, <1>7, <2>1, <3>1
      <4> QED
        BY <1>4, <3>1, <4>1 DEF KnowsStop
    <3>2. CASE m \in DOMAIN stopDeliveries
      <4>1. KnowsStop(m) /\ stopDeliveries'[m] = stopDeliveries[m]
        BY <1>2, <1>7, <3>2 DEF Rows, StopsLinked
      <4>2. stopDeliveries[m].status = "DELIVERED" => stopDeliveries[m].stop # i
        BY <1>6, <4>1 DEF KnowsStop
      <4> QED
        BY <2>1, <4>1, <4>2 DEF KnowsStop
    <3> QED
      BY <1>7, <3>1, <3>2
  <2>3. ASSUME NEW j \in DOMAIN stops' PROVE KnowsDelivery(j)'
    <3>1. CASE j = i
      <4>1. stops'[j] = s /\ n \in DOMAIN stopDeliveries' /\ stopDeliveries'[n] = new
        BY <1>1, <1>7, <2>1, <3>1
      <4> QED
        BY <1>3, <1>4, <1>7, <3>1, <4>1 DEF KnowsDelivery
    <3>2. CASE j \in DOMAIN stops /\ j # i
      <4>1. stops'[j] = stops[j] /\ KnowsDelivery(j)
        BY <1>2, <2>1, <3>2 DEF Rows, StopsLinked
      <4> QED
        BY <1>3, <1>7, <4>1 DEF KnowsDelivery
    <3>3. CASE j \notin DOMAIN stops
      <4>1. stops'[j].delivery = 0 /\ stops'[j].status = "PLANNED"
        BY <1>9, <3>3, NewStops DEF Became
      <4> QED
        BY <1>3, <1>7, <4>1 DEF KnowsDelivery
    <3> QED
      BY <1>1, <3>1, <3>2, <3>3
  <2> QED
    BY <2>2, <2>3 DEF StopsLinked
<1>12. Alive'
  <2> SUFFICES ASSUME schedule = "active" PROVE HasUpcoming(stops)'
    BY <1>5 DEF Alive
  <2>1. CASE due
    BY <1>9, <2>1 DEF Became
  <2>2. CASE ~due
    <3> DEFINE tt == [stops EXCEPT ![i].status = "COMPLETED"]
    <3>1. HasUpcoming(tt)
      BY <1>1, <2>2 DEF NextDue
    <3>2. PICK j \in DOMAIN tt : Upcoming(tt[j]) /\ tt[j].source = "SCHEDULE"
      BY <3>1 DEF HasUpcoming
    <3>3. j \in DOMAIN stops /\ j # i /\ tt[j] = stops[j]
      <4>1. DOMAIN tt = DOMAIN stops
        OBVIOUS
      <4>2. tt[i].status = "COMPLETED"
        BY <1>1, <1>2 DEF Typed, Stop
      <4> QED
        BY <3>2, <4>1, <4>2 DEF Upcoming
    <3>4. j \in DOMAIN stops' /\ stops'[j] = stops[j]
      BY <1>9, <3>3 DEF Became
    <3> QED
      BY <3>2, <3>3, <3>4 DEF HasUpcoming, Upcoming
  <2> QED
    BY <1>8, <2>1, <2>2
<1>13. OffMeansNothingPlanned'
  <2> SUFFICES ASSUME schedule # "active", NEW j \in DOMAIN stops',
                      stops'[j].source = "SCHEDULE"
               PROVE  stops'[j].status # "PLANNED"
    BY <1>5 DEF OffMeansNothingPlanned
  <2>1. j \in DOMAIN stops
    BY <1>8, <1>9 DEF Became
  <2>2. stops'[j] = IF j = i THEN s ELSE stops[j]
    BY <1>9, <2>1 DEF Became
  <2> QED
    BY <1>2, <1>4, <2>1, <2>2 DEF Rows, OffMeansNothingPlanned
<1>14. Rows' /\ stops' \in Seq(Stop)
  BY <1>9, <1>10, <1>11, <1>12, <1>13 DEF Rows, Became
<1>15. schedule' \in {"none", "active", "inactive"}
  BY <1>2, <1>5 DEF Typed
<1> QED
  BY <1>2, <1>5, <1>7, <1>14, <1>15, Ended

-----------------------------------------------------------------------------
(* The greatest of some of the numbers up to n is one of them. *)
LEMMA GreatestIn ==
    ASSUME NEW n \in Nat, NEW S \in SUBSET (1..n), S # {} PROVE Max(S) \in S
<1> DEFINE Above(x) == {y \in S : y > x}
           F == {Above(x) : x \in S}
<1>a. n \in Int /\ 1 \in Int
  OBVIOUS
<1>b. IsFiniteSet(1..n)
  BY <1>a, FS_Interval
<1>1. IsFiniteSet(S)
  BY <1>b, FS_Subset
<1>2. F \in SUBSET (SUBSET S) /\ F # {}
  OBVIOUS
<1>3. PICK T \in F : \A U \in SUBSET T : U # T => U \notin F
  <2> HIDE DEF F
  <2> QED
    BY <1>1, <1>2, LeastSet
<1>4. PICK x \in S : T = Above(x)
  BY <1>3
<1>5. ASSUME NEW y \in S, y > x PROVE FALSE
  <2>0. \A z \in S : z \in Int
    OBVIOUS
  <2>a. Above(y) \in F
    OBVIOUS
  <2>b. \A z \in Above(y) : z \in Above(x)
    BY <1>5, <2>0
  <2>1. Above(y) \in SUBSET T /\ Above(y) \in F
    BY <1>4, <2>a, <2>b
  <2>2. y \in T /\ y \notin Above(y)
    BY <1>4, <1>5
  <2> QED
    BY <1>3, <2>1, <2>2
<1>6. \A y \in S : x >= y
  BY <1>5
<1> QED
  BY <1>6 DEF Max

LEMMA CheckCancelStep ==
    ASSUME NEW c, Clerks = {c}, StopsInv, NEW n \in DOMAIN stopDeliveries, CheckCancel(c, n)
    PROVE  StopsInv'
<1> DEFINE linked == {i \in DOMAIN stops :
                         stops[i].delivery = n /\ stops[i].status = "COMPLETED"}
           i == IF linked = {} THEN 0 ELSE CHOOSE j \in linked : TRUE
           newer == {j \in DOMAIN stops : /\ i # 0 /\ j > stops[i].mark
                                          /\ stops[j].status = "PLANNED"
                                          /\ stops[j].source = "SCHEDULE"
                                          /\ ~stops[j].onRun}
           next == IF newer = {} THEN 0 ELSE Max(newer)
           tx == [op |-> "cancel", delivery |-> n, stop |-> i, next |-> next]
<1>1. Goto(c, tx) /\ UNCHANGED <<schedule, stops, stopDeliveries>>
  BY DEF CheckCancel
<1>2. stopDeliveries[n].status = "DELIVERED"
  BY DEF CheckCancel
<1>3. i = stopDeliveries[n].stop
  <2>1. /\ stopDeliveries[n].stop \in linked
    BY <1>2 DEF StopsInv, Rows, StopsLinked, KnowsStop
  <2>2. \A j \in linked : j = stopDeliveries[n].stop
    BY DEF StopsInv, Rows, StopsLinked, KnowsDelivery
  <2> HIDE DEF linked
  <2> QED
    BY <2>1, <2>2
<1>4. next # 0 => next \in DOMAIN stops /\ stops[next].status = "PLANNED"
  <2>1. newer \in SUBSET (1..Len(stops)) /\ Len(stops) \in Nat
    BY SeqDomain DEF StopsInv, Typed
  <2>2. \A j \in newer : j \in DOMAIN stops /\ stops[j].status = "PLANNED"
    OBVIOUS
  <2> HIDE DEF newer
  <2> QED
    BY <2>1, <2>2, GreatestIn
<1> HIDE DEF i, next
<1>5. SeesCancel(tx)
  BY <1>2, <1>3, <1>4 DEF SeesCancel
<1>6. Sees(tx)
  BY <1>5 DEF Sees
<1> HIDE DEF tx
<1> QED
  BY <1>1, <1>6, NoteStep

(* The delivery is off, its stop is back on the run, and the stop that was *)
(* planned when it was made is gone.                                       *)
LEMMA CommitCancelStep ==
    ASSUME NEW c, Clerks = {c}, StopsInv, CommitCancel(c) PROVE StopsInv'
<1> DEFINE tx == pending[c]
           i == tx.stop
           next == tx.next
           n == tx.delivery
<1>1. /\ n \in DOMAIN stopDeliveries /\ stopDeliveries[n].status = "DELIVERED"
      /\ i = stopDeliveries[n].stop
      /\ next # 0 => next \in DOMAIN stops /\ stops[next].status = "PLANNED"
  <2>1. tx.op = "cancel" /\ Sees(tx)
    BY DEF CommitCancel, In, StopsInv
  <2>2. SeesCancel(tx)
    BY <2>1 DEF Sees, NoTx
  <2> QED
    BY <2>2 DEF SeesCancel
<1>2. Typed /\ Rows
  BY DEF StopsInv
<1>3. i \in DOMAIN stops /\ stops[i].status = "COMPLETED" /\ stops[i].delivery = n
  BY <1>1, <1>2 DEF Rows, StopsLinked, KnowsStop
<1>4. next # i /\ 0 \notin DOMAIN stops
  BY <1>1, <1>2, <1>3, StopTyped
<1>5. /\ stops' = [j \in DOMAIN stops |->
             IF j = next THEN [stops[j] EXCEPT !.status = "GONE"]
             ELSE IF j = i THEN [stops[j] EXCEPT !.status = "INCLUDED", !.delivery = 0]
             ELSE stops[j]]
      /\ stopDeliveries' = [stopDeliveries EXCEPT ![n].status = "CANCELLED"]
      /\ schedule' = schedule /\ Finish(c)
  BY DEF CommitCancel
<1> HIDE DEF i, next, n, tx
<1>6. DOMAIN stops' = DOMAIN stops /\ stops' = [j \in DOMAIN stops |-> stops'[j]]
  BY <1>5
<1>7. \A j \in DOMAIN stops : stops[j] \in Stop /\ OrderedIsCancelled(stops[j])
  BY RowOfStop
<1>8. ASSUME NEW j \in DOMAIN stops
      PROVE  /\ stops'[j] \in Stop /\ OrderedIsCancelled(stops'[j]) /\ stops'[j].source = stops[j].source
             /\ stops'[j].status = "PLANNED" => stops[j].status = "PLANNED"
             /\ stops'[j].status = "COMPLETED" => j # i /\ stops[j].status = "COMPLETED"
             /\ j # i => stops'[j].delivery = stops[j].delivery
             /\ j # i /\ stops[j].status = "COMPLETED" => stops'[j] = stops[j]
             /\ j = i => stops'[j].delivery = 0 /\ stops'[j].status = "INCLUDED"
  <2>1. CASE j = next
    <3>1. stops'[j] = [stops[j] EXCEPT !.status = "GONE"] /\ stops[j].status = "PLANNED"
      BY <1>1, <1>4, <1>5, <2>1
    <3> QED
      BY <1>4, <1>7, <2>1, <3>1 DEF Stop, Statuses, OrderedIsCancelled
  <2>2. CASE j = i
    <3>1. stops'[j] = [stops[j] EXCEPT !.status = "INCLUDED", !.delivery = 0]
      BY <1>4, <1>5, <2>2
    <3> QED
      BY <1>3, <1>7, <2>2, <3>1 DEF Stop, Statuses, OrderedIsCancelled
  <2>3. CASE j # next /\ j # i
    <3>1. stops'[j] = stops[j]
      BY <1>5, <2>3
    <3> QED
      BY <1>7, <2>3, <3>1
  <2> QED
    BY <2>1, <2>2, <2>3
<1>9. stops' \in Seq(Stop)
  <2> DEFINE t == stops'
  <2>1. DOMAIN t = DOMAIN stops /\ t = [j \in DOMAIN stops |-> t[j]] /\ stops \in Seq(Stop)
        /\ \A j \in DOMAIN stops : t[j] \in Stop
    BY <1>2, <1>6, <1>8 DEF Typed
  <2> HIDE DEF t
  <2>2. t \in Seq(Stop)
    BY <2>1, Rewritten
  <2> QED
    BY <2>2 DEF t
<1>10. /\ stopDeliveries' \in Seq(Delivery)
       /\ DOMAIN stopDeliveries' = DOMAIN stopDeliveries /\ Len(stopDeliveries') = Len(stopDeliveries)
       /\ \A m \in DOMAIN stopDeliveries :
             /\ stopDeliveries'[m].stop = stopDeliveries[m].stop
             /\ m # n => stopDeliveries'[m] = stopDeliveries[m]
             /\ m = n => stopDeliveries'[m].status = "CANCELLED"
  <2> DEFINE d == [stopDeliveries[n] EXCEPT !.status = "CANCELLED"]
  <2>1. stopDeliveries \in Seq(Delivery) /\ \A m \in DOMAIN stopDeliveries : stopDeliveries[m] \in Delivery
    BY <1>2, SeqDomain DEF Typed
  <2>2. d \in Delivery /\ d.status = "CANCELLED" /\ d.stop = stopDeliveries[n].stop
    BY <1>1, <2>1 DEF Delivery
  <2>3. stopDeliveries' = [stopDeliveries EXCEPT ![n] = d]
    BY <1>1, <1>5, <2>1
  <2> HIDE DEF d
  <2> QED
    BY <1>1, <2>1, <2>2, <2>3
<1>11. (\A j \in DOMAIN stops : OrderedIsCancelled(stops[j]))'
  BY <1>6, <1>8
<1>12. StopsLinked'
  <2>1. ASSUME NEW m \in DOMAIN stopDeliveries PROVE KnowsStop(m)'
    <3>1. KnowsStop(m) /\ stopDeliveries[m].stop \in DOMAIN stops
      BY <1>2 DEF Rows, StopsLinked, KnowsStop
    <3>2. CASE m = n
      BY <1>6, <1>10, <3>1, <3>2 DEF KnowsStop
    <3>3. CASE m # n
      <4>1. stopDeliveries'[m] = stopDeliveries[m]
        BY <1>10, <3>3
      <4>2. stopDeliveries[m].status = "DELIVERED" =>
               /\ stops[stopDeliveries[m].stop].status = "COMPLETED"
               /\ stopDeliveries[m].stop # i
        BY <1>3, <3>1, <3>3 DEF KnowsStop
      <4>3. stopDeliveries[m].status = "DELIVERED" =>
               stops'[stopDeliveries[m].stop] = stops[stopDeliveries[m].stop]
        BY <1>8, <3>1, <4>2
      <4> QED
        BY <1>6, <3>1, <4>1, <4>3 DEF KnowsStop
    <3> QED
      BY <3>2, <3>3
  <2>2. ASSUME NEW j \in DOMAIN stops PROVE KnowsDelivery(j)'
    <3>1. KnowsDelivery(j)
      BY <1>2 DEF Rows, StopsLinked
    <3>2. Len(stopDeliveries) \in Nat
      BY <1>2 DEF Typed
    <3>3. CASE j = i
      BY <1>8, <1>10, <3>2, <3>3 DEF KnowsDelivery
    <3>4. CASE j # i
      <4>1. stops'[j].delivery = stops[j].delivery
        BY <1>8, <3>4
      <4>2. ASSUME stops'[j].status = "COMPLETED"
            PROVE  /\ stops[j].delivery \in DOMAIN stopDeliveries
                   /\ stopDeliveries[stops[j].delivery].stop = j
                   /\ stopDeliveries[stops[j].delivery].status = "DELIVERED"
                   /\ stops[j].delivery # n
        BY <1>1, <1>8, <3>1, <3>4, <4>2 DEF KnowsDelivery
      <4> QED
        BY <1>10, <3>1, <4>1, <4>2 DEF KnowsDelivery
    <3> QED
      BY <3>3, <3>4
  <2> QED
    BY <1>6, <1>10, <2>1, <2>2 DEF StopsLinked
<1>13. Alive'
  <2>1. CASE stops[i].source = "SCHEDULE"
    <3>1. i \in DOMAIN stops' /\ stops'[i].source = "SCHEDULE" /\ stops'[i].status = "INCLUDED"
      BY <1>3, <1>6, <1>8, <2>1
    <3> QED
      BY <3>1 DEF Alive, HasUpcoming, Upcoming
  <2>2. CASE stops[i].source = "MANUAL"
    <3>1. /\ n \in DOMAIN stopDeliveries' /\ stopDeliveries'[n].status = "CANCELLED"
          /\ stopDeliveries'[n].stop = i /\ stops'[i].source = "MANUAL"
      BY <1>1, <1>3, <1>8, <1>10, <2>2
    <3> QED
      BY <3>1 DEF Alive, Reverted
  <2> QED
    BY <1>3, <1>7, <2>1, <2>2 DEF Stop
<1>14. OffMeansNothingPlanned'
  <2>1. OffMeansNothingPlanned
    BY <1>2 DEF Rows
  <2>2. \A j \in DOMAIN stops' : stops'[j].source = "SCHEDULE" /\ schedule # "active" =>
           stops'[j].status # "PLANNED"
    BY <1>6, <1>8, <2>1 DEF OffMeansNothingPlanned
  <2> QED
    BY <1>5, <2>2 DEF OffMeansNothingPlanned
<1>15. Rows' /\ schedule' \in {"none", "active", "inactive"}
  BY <1>2, <1>5, <1>11, <1>12, <1>13, <1>14 DEF Rows, Typed
<1> QED
  BY <1>2, <1>5, <1>9, <1>10, <1>15, Ended

-----------------------------------------------------------------------------
LEMMA StopsStart == StopsInit => StopsInv
<1> SUFFICES ASSUME StopsInit PROVE StopsInv
  OBVIOUS
<1>1. Typed
  BY DEF StopsInit, Typed
<1>2. Rows
  BY DEF StopsInit, Rows, StopsLinked, Alive, OffMeansNothingPlanned
<1>3. \A c \in Clerks : Sees(pending[c])
  BY DEF StopsInit, Sees
<1> QED
  BY <1>1, <1>2, <1>3 DEF StopsInv

LEMMA StopsStep ==
    ASSUME NEW c, Clerks = {c}, StopsInv, [StopsNext]_stopVars PROVE StopsInv'
<1>1. CASE Step(c)
  BY <1>1, CheckUpsertStep, CheckEnsureStep, CreateManualStep, CheckIncludeStep,
     CheckConvertStep, CheckDeliverStep, CheckAdvanceStep, CheckCancelStep, CommitUpsertStep,
     CommitEnsureStep, CommitIncludeStep, WriteAdvanceStep, CommitAdvanceStep, ClaimStopStep,
     CreateOrderStep, OrderFailsStep, WriteConvertedStep, CommitDeliverStep,
     CommitCancelStep, AbortStep
  DEF Step
<1>2. CASE UNCHANGED stopVars
  <2>1. UNCHANGED <<schedule, stops, stopDeliveries>> /\ pending' = pending
    BY <1>2 DEF stopVars
  <2>2. Sees(pending[c]) /\ Goto(c, pending[c])
    BY <2>1 DEF StopsInv, Goto, Typed
  <2>3. PICK tx : tx = pending[c]
    OBVIOUS
  <2>4. Sees(tx) /\ Goto(c, tx)
    BY <2>2, <2>3
  <2> QED
    BY <2>1, <2>4, NoteStep
<1> QED
  BY <1>1, <1>2 DEF StopsNext

LEMMA StopsAlways == ASSUME NEW c, Clerks = {c} PROVE StopsSpec => []StopsInv
<1>1. StopsInv /\ [StopsNext]_stopVars => StopsInv'
  BY StopsStep
<1> QED
  BY <1>1, StopsStart, PTL DEF StopsSpec

(* The standing deliveries of a stop: the one it names, if it is completed. *)
LEMMA StandingIs ==
    ASSUME StopsInv, NEW i \in DOMAIN stops
    PROVE  Standing(i) = IF stops[i].status = "COMPLETED" THEN {stops[i].delivery} ELSE {}
<1>1. Rows
  BY DEF StopsInv
<1>2. \A n \in Standing(i) : stops[i].status = "COMPLETED" /\ n = stops[i].delivery
  BY <1>1 DEF Rows, StopsLinked, KnowsStop, Standing
<1>3. stops[i].status = "COMPLETED" => stops[i].delivery \in Standing(i)
  BY <1>1 DEF Rows, StopsLinked, KnowsDelivery, Standing
<1> QED
  BY <1>2, <1>3

(* Whatever a single clerk does, and wherever it is cut off, what is       *)
(* planned at a stop is sold once: by one order (convertToOrder) or by one *)
(* standing delivery (completeStopInTx).                                   *)
THEOREM StopsAreSoldOnce == ASSUME NEW c, Clerks = {c} PROVE StopsSpec => []SoldOnce
<1>1. StopsInv => SoldOnce
  <2> SUFFICES ASSUME StopsInv, NEW i \in DOMAIN stops
               PROVE  stops[i].orders + Cardinality(Standing(i)) <= 1
    BY DEF SoldOnce
  <2>1. OrderedIsCancelled(stops[i])
    BY RowOfStop
  <2>2. CASE stops[i].status = "COMPLETED"
    <3>1. Cardinality(Standing(i)) = 1
      BY <2>2, StandingIs, FS_Singleton
    <3> QED
      BY <2>1, <2>2, <3>1 DEF OrderedIsCancelled
  <2>3. CASE stops[i].status # "COMPLETED"
    <3>1. Cardinality(Standing(i)) = 0
      BY <2>3, StandingIs, FS_EmptySet
    <3> QED
      BY <2>1, <3>1 DEF OrderedIsCancelled
  <2> QED
    BY <2>2, <2>3
<1> QED
  BY <1>1, StopsAlways, PTL

(* Stops, the deliveries made at them and the schedule agree through any   *)
(* sequence of requests of one clerk, each cut off anywhere: a stop is     *)
(* completed exactly while its delivery stands, a schedule that is on      *)
(* keeps a stop ahead, and one that is off leaves none planned.            *)
THEOREM StopsAlwaysAgree == ASSUME NEW c, Clerks = {c} PROVE StopsSpec => []StopsAgree
<1>1. ASSUME StopsInv PROVE StopsAgree
  <2>1. Typed /\ Rows
    BY <1>1 DEF StopsInv
  <2>2. TypeOK
    <3>1. \A i \in DOMAIN stops : stops[i] \in Stop /\ stops[i].delivery \in 0..Len(stopDeliveries)
      BY <1>1, <2>1, StopTyped DEF Rows, StopsLinked, KnowsDelivery
    <3>2. \A n \in DOMAIN stopDeliveries : stopDeliveries[n].stop \in DOMAIN stops
      BY <2>1 DEF Rows, StopsLinked, KnowsStop
    <3> QED
      BY <2>1, <3>1, <3>2 DEF TypeOK, Typed, Stop
  <2>3. CompletedIsDelivered
    BY <1>1, StandingIs DEF CompletedIsDelivered
  <2>4. PlanKept
    BY <2>1 DEF Rows, PlanKept, ScheduleAlive, Alive, HeldUp, Reverted
  <2> QED
    BY <2>2, <2>3, <2>4 DEF StopsAgree
<1>2. StopsInv => StopsAgree
  BY <1>1
<1> QED
  BY <1>2, StopsAlways, PTL
=============================================================================
