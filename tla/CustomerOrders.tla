--------------------------- MODULE CustomerOrders ---------------------------
(***************************************************************************)
(* The orders of one customer, from draft to delivery, cancellation or     *)
(* refund, with what they move: the warehouse stock, the containers at the *)
(* customer's, the customer's ledger and the payments allocated to them    *)
(* (orders.service.ts).                                                    *)
(*                                                                         *)
(* Every request reads the order outside of its transaction, checks it,    *)
(* and later writes absolute values by id; nothing is locked or checked    *)
(* again.  Check... keeps what was read, Commit... is the transaction.     *)
(* Racing names the pairs of requests that are not in progress together:   *)
(* how few have to be excluded (Overwriting) is what the runs find out.    *)
(* The posting of stock, row by row, is in StockPosting, and the promise   *)
(* to pay in CustomerAccount.  Amounts are whole.                          *)
(***************************************************************************)
EXTENDS Integers, Sequences, FiniteSets, Functions

CONSTANTS
    Clerks,        \* the requests that can be in progress at once
    Racing,        \* sets of the kinds of request that do not overlap
    Orders,        \* order numbers
    Products, Tracked,  \* products; those in returnable containers
    Price, Stock,  \* of each product: unit price, warehouse stock at first
    Carts,         \* the lines an order can have: product -> [qty, cans]
    Extras,        \* delivery charges less discounts
    Handoffs,      \* what one delivery hands over: product -> [qty, cans, empties]
    Amounts,       \* what is paid, or applied, to an order at a time
    Deposits,      \* amounts of payments that name no order
    MaxPayments    \* bound on the payments ever made

(* Numbers count from 1; what is ordered, handed over or paid is positive  *)
(* (the minima of the request bodies), and a handoff names a product.      *)
ASSUME InputsAssumption ==
    /\ IsFiniteSet(Orders) /\ Orders \subseteq Nat \ {0}
    /\ IsFiniteSet(Products) /\ Tracked \subseteq Products
    /\ \A p \in Products : Price[p] \in Nat /\ Stock[p] \in Nat
    /\ Stock = [p \in Products |-> Stock[p]]
    /\ \A cart \in Carts : /\ DOMAIN cart \subseteq Products
                          /\ \A p \in DOMAIN cart : cart[p].qty \in Nat /\ cart[p].cans \in Nat
    /\ Extras \subseteq Int
    /\ \A h \in Handoffs : /\ DOMAIN h \subseteq Products /\ DOMAIN h # {}
                          /\ \A p \in DOMAIN h : /\ h[p].qty \in Nat \ {0}
                                                 /\ h[p].cans \in Nat /\ h[p].empties \in Nat
    /\ Amounts \cup Deposits \subseteq Nat \ {0}
    /\ MaxPayments \in Nat

VARIABLES
    orders,     \* CustomerOrder and its items
    ledger,     \* entries that refer to an order: ORDER_SALE, and the sum of all
    payments,   \* Payment: [amount, of (an order, 0: none), live, credit]
    allocated,  \* OrderPayment: the amount of each payment on each order
    warehouse,  \* StockBalance of the sale location
    outs,       \* SALE_OUT movements of each order
    custody,    \* containers at the customer's, from ContainerMovement
    pending     \* what each clerk has read and is about to write

money == <<ledger, payments, allocated>>
goods == <<warehouse, outs, custody>>
vars == <<orders, money, goods, pending>>

NoTx == [op |-> "none"]
Zero == [p \in Products |-> 0]
AtLeast0(n) == IF n < 0 THEN 0 ELSE n

Payable == {"PLACED", "SHIPPED", "PARTIALLY_DELIVERED", "DELIVERED"}

Init ==
    /\ orders = [o \in Orders |->
           [status |-> "NONE", qty |-> Zero, delivered |-> Zero, cans |-> Zero,
            empties |-> Zero, extra |-> 0, total |-> 0, paid |-> 0, due |-> 0,
            payment |-> "UNPAID"]]
    /\ ledger = [o \in Orders |-> [sold |-> 0, charged |-> 0]]
    /\ payments = <<>>
    /\ allocated = [o \in Orders |-> [i \in 1..MaxPayments |-> 0]]
    /\ warehouse = Stock
    /\ outs = [o \in Orders |-> Zero]
    /\ custody = Zero
    /\ pending = [c \in Clerks |-> NoTx]

MayStart(c, op) ==
    /\ pending[c] = NoTx
    /\ \A d \in Clerks \ {c} : pending[d] = NoTx \/ {op, pending[d].op} \notin Racing

(* The clerk has read the order (requireOrder) and goes on with it.  gone: *)
(* the lines that were read have been replaced by other ones.              *)
Read(c, op, o, in) ==
    /\ MayStart(c, op)
    /\ pending' = [pending EXCEPT ![c] = [op |-> op, order |-> o, read |-> orders[o],
                                           in |-> in, gone |-> FALSE]]
    /\ UNCHANGED <<orders, money, goods>>

(* Of two of these in progress, one can overwrite what the other has       *)
(* written, or miss it.                                                    *)
Overwriting ==
    {{"charges", "items"}, {"charges", "place"}, {"charges", "cancel"},
     {"items", "place"}, {"items", "cancel"}, {"place"}, {"place", "cancel"},
     {"ship"}, {"ship", "cancel"}, {"ship", "refund"}, {"deliver"}, {"deliver", "refund"},
     {"cancel"}, {"cancel", "pay"}, {"cancel", "apply"}, {"pay"}, {"pay", "apply"},
     {"pay", "refund"}, {"apply"}, {"apply", "refund"}, {"refund"}}

In(c, op) == pending[c].op = op
Finish(c) == pending' = [pending EXCEPT ![c] = NoTx]

(* computeOrderTotals. *)
TotalOf(qty, extra) ==
    AtLeast0(SumFunction([p \in Products |-> qty[p] * Price[p]]) + extra)

(* recomputePaymentStatus. *)
PaymentStatus(paid, total) ==
    IF paid <= 0 THEN "UNPAID" ELSE IF paid >= total THEN "PAID" ELSE "PARTIALLY_PAID"

(* The columns that follow from the total and from what is paid.           *)
Priced(order, total, paid) ==
    [order EXCEPT !.total = total, !.paid = paid, !.due = AtLeast0(total - paid),
                  !.payment = PaymentStatus(paid, total)]

(* New lines: nothing is delivered, the cans are planned ones.             *)
Lined(order, cart) ==
    [order EXCEPT !.qty = [p \in Products |-> IF p \in DOMAIN cart THEN cart[p].qty ELSE 0],
                  !.cans = [p \in Products |-> IF p \in DOMAIN cart \cap Tracked
                                               THEN cart[p].cans ELSE 0],
                  !.delivered = Zero, !.empties = Zero]
-----------------------------------------------------------------------------
(* Drafts. *)

(* create, numbered after all earlier orders. *)
Create(c, o, cart, extra) ==
    /\ MayStart(c, "create")
    /\ orders[o].status = "NONE"
    /\ \A n \in Orders : n < o => orders[n].status # "NONE"
    /\ LET order == Lined([orders[o] EXCEPT !.status = "DRAFT", !.extra = extra], cart)
       IN  orders' = [orders EXCEPT ![o] = Priced(order, TotalOf(order.qty, extra), 0)]
    /\ UNCHANGED <<money, goods, pending>>

(* Mutant: a cancelled order can still be edited. *)
CheckChargesCancelled(c, o, extra) ==
    /\ orders[o].status \in {"DRAFT", "CANCELLED"}
    /\ Read(c, "charges", o, extra)

(* update: another discount or other charges. *)
CheckCharges(c, o, extra) ==
    /\ orders[o].status = "DRAFT"
    /\ Read(c, "charges", o, extra)

CommitCharges(c) ==
    /\ In(c, "charges")
    /\ LET tx == pending[c] IN
           orders' = [orders EXCEPT ![tx.order] =
                         [@ EXCEPT !.extra = tx.in,
                                   !.total = TotalOf(tx.read.qty, tx.in),
                                   !.due = AtLeast0(TotalOf(tx.read.qty, tx.in) - tx.read.paid),
                                   !.payment = PaymentStatus(tx.read.paid,
                                                             TotalOf(tx.read.qty, tx.in))]]
    /\ Finish(c)
    /\ UNCHANGED <<money, goods>>

(* replaceItems. *)
CheckItems(c, o, cart) ==
    /\ orders[o].status = "DRAFT"
    /\ Read(c, "items", o, cart)

ReplaceLines(c) ==
    pending' = [d \in Clerks |->
                   IF d = c THEN NoTx
                   ELSE IF pending[d] # NoTx /\ pending[d].order = pending[c].order
                   THEN [pending[d] EXCEPT !.gone = TRUE]
                   ELSE pending[d]]

CommitItems(c) ==
    /\ In(c, "items")
    /\ LET tx == pending[c]
           total == TotalOf(Lined(tx.read, tx.in).qty, tx.read.extra)
       IN  orders' = [orders EXCEPT ![tx.order] =
                         [Lined(@, tx.in) EXCEPT
                              !.total = total, !.due = AtLeast0(total - tx.read.paid),
                              !.payment = PaymentStatus(tx.read.paid, total)]]
    /\ ReplaceLines(c)
    /\ UNCHANGED <<money, goods>>
-----------------------------------------------------------------------------
(* Fulfilment. *)
CheckPlace(c, o) ==
    /\ orders[o].status = "DRAFT"
    /\ Read(c, "place", o, 0)

(* postOrderSaleOut. *)
TakeOut(o, qty) ==
    /\ \A p \in Products : qty[p] <= warehouse[p]
    /\ warehouse' = [p \in Products |-> warehouse[p] - qty[p]]
    /\ outs' = [outs EXCEPT ![o] = [p \in Products |-> @[p] + qty[p]]]

(* The lines are updated by id, which fails once they have been replaced;  *)
(* the sale is debited and the goods leave the warehouse.                  *)
CommitPlace(c) ==
    /\ In(c, "place")
    /\ LET tx == pending[c]
           o == tx.order
           total == TotalOf(tx.read.qty, tx.read.extra)
       IN  /\ ~tx.gone
           /\ orders' = [orders EXCEPT ![o] =
                            [@ EXCEPT !.status = "PLACED", !.total = total,
                                      !.due = AtLeast0(total - tx.read.paid),
                                      !.payment = PaymentStatus(tx.read.paid, total)]]
           /\ ledger' = [ledger EXCEPT ![o].sold = @ + total, ![o].charged = @ + total]
           /\ TakeOut(o, tx.read.qty)
    /\ Finish(c)
    /\ UNCHANGED <<payments, allocated, custody>>

CheckShip(c, o) ==
    /\ orders[o].status = "PLACED"
    /\ Read(c, "ship", o, 0)

CommitShip(c) ==
    /\ In(c, "ship")
    /\ orders' = [orders EXCEPT ![pending[c].order].status = "SHIPPED"]
    /\ Finish(c)
    /\ UNCHANGED <<money, goods>>

CheckDeliver(c, o, h) ==
    /\ orders[o].status \in {"SHIPPED", "PARTIALLY_DELIVERED"}
    /\ \A p \in DOMAIN h : /\ orders[o].qty[p] > 0
                           /\ orders[o].delivered[p] + h[p].qty <= orders[o].qty[p]
    /\ Read(c, "deliver", o, h)

(* What h adds to the lines.  At the first handoff the cans given replace  *)
(* the planned ones.                                                       *)
Delivered(order, h) ==
    [order EXCEPT
        !.delivered = [p \in Products |-> IF p \in DOMAIN h THEN @[p] + h[p].qty ELSE @[p]],
        !.cans = [p \in Products |->
                     IF p \notin DOMAIN h \cap Tracked THEN @[p]
                     ELSE IF order.delivered[p] = 0 THEN h[p].cans ELSE @[p] + h[p].cans],
        !.empties = [p \in Products |-> IF p \in DOMAIN h \cap Tracked
                                        THEN @[p] + h[p].empties ELSE @[p]]]

(* recomputeFulfillmentAfterDeliver, when something was delivered. *)
Fulfilment(order) ==
    IF \A p \in Products : order.delivered[p] >= order.qty[p]
    THEN "DELIVERED" ELSE "PARTIALLY_DELIVERED"

CommitDeliver(c) ==
    /\ In(c, "deliver")
    /\ LET tx == pending[c]
           o == tx.order
           next == Delivered(tx.read, tx.in)
       IN  /\ ~tx.gone
           /\ orders' = [orders EXCEPT ![o] =
                            [@ EXCEPT !.delivered = next.delivered, !.cans = next.cans,
                                      !.empties = next.empties,
                                      !.status = IF Fulfilment(next) # tx.read.status
                                                 THEN Fulfilment(next)
                                                 ELSE orders[o].status]]
           /\ custody' = [p \in Products |-> IF p \in DOMAIN tx.in \cap Tracked
                                             THEN custody[p] + tx.in[p].cans - tx.in[p].empties
                                             ELSE custody[p]]
    /\ Finish(c)
    /\ UNCHANGED <<money, warehouse, outs>>

CheckCancel(c, o) ==
    /\ orders[o].status \in {"DRAFT", "PLACED"}
    /\ orders[o].paid <= 0
    /\ Read(c, "cancel", o, 0)

(* The sale is reversed and reverseOrderSaleOut gives the goods back.      *)
CommitCancel(c) ==
    /\ In(c, "cancel")
    /\ LET o == pending[c].order IN
           /\ IF pending[c].read.status = "PLACED"
              THEN /\ ledger' = [ledger EXCEPT ![o].charged = @ - ledger[o].sold]
                   /\ warehouse' = [p \in Products |-> warehouse[p] + outs[o][p]]
                   /\ outs' = [outs EXCEPT ![o] = Zero]
              ELSE UNCHANGED <<ledger, warehouse, outs>>
           /\ orders' = [orders EXCEPT ![o].status = "CANCELLED"]
    /\ Finish(c)
    /\ UNCHANGED <<payments, allocated, custody>>
-----------------------------------------------------------------------------
(* Money. *)

(* What is allocated of payment i to orders that are not refunded.         *)
Allocated(i) == SumFunction([o \in Orders |-> IF orders[o].status = "REFUNDED" THEN 0
                                              ELSE allocated[o][i]])

(* PaymentsService.create: a payment that names no order. *)
Receive(c, amount) ==
    /\ MayStart(c, "receive")
    /\ Len(payments) < MaxPayments
    /\ payments' = Append(payments, [amount |-> amount, of |-> 0, live |-> TRUE,
                                     credit |-> amount])
    /\ UNCHANGED <<orders, ledger, allocated, goods, pending>>

(* PaymentsService.remove: the credit is reversed, whatever was allocated  *)
(* of the payment and whether or not a refund has reversed it before.      *)
Remove(c, i) ==
    /\ MayStart(c, "remove")
    /\ payments[i].live
    /\ payments' = [payments EXCEPT ![i].live = FALSE, ![i].credit = @ - payments[i].amount]
    /\ UNCHANGED <<orders, ledger, allocated, goods, pending>>

CheckPay(c, o, amount) ==
    /\ orders[o].status \in Payable
    /\ amount <= AtLeast0(orders[o].total - orders[o].paid)
    /\ Read(c, "pay", o, amount)

(* recordPayment: a new payment, its credit, its allocation and what the   *)
(* order has been paid by now.                                             *)
CommitPay(c) ==
    /\ In(c, "pay")
    /\ Len(payments) < MaxPayments
    /\ LET tx == pending[c]
           o == tx.order
           i == Len(payments) + 1
       IN  /\ payments' = Append(payments, [amount |-> tx.in, of |-> o, live |-> TRUE,
                                            credit |-> tx.in])
           /\ allocated' = [allocated EXCEPT ![o][i] = tx.in]
           /\ orders' = [orders EXCEPT ![o] = Priced(@, tx.read.total, tx.read.paid + tx.in)]
    /\ Finish(c)
    /\ UNCHANGED <<ledger, goods>>

CheckApply(c, o, i, amount) ==
    /\ orders[o].status \in Payable
    /\ payments[i].live
    /\ amount <= AtLeast0(payments[i].amount - Allocated(i))
    /\ amount <= AtLeast0(orders[o].total - orders[o].paid)
    /\ Read(c, "apply", o, [payment |-> i, amount |-> amount])

(* applyPayment: an allocation of a payment that was made before. *)
CommitApply(c) ==
    /\ In(c, "apply")
    /\ LET tx == pending[c]
           o == tx.order
       IN  /\ allocated' = [allocated EXCEPT ![o][tx.in.payment] = @ + tx.in.amount]
           /\ orders' = [orders EXCEPT ![o] =
                            Priced(@, tx.read.total, tx.read.paid + tx.in.amount)]
    /\ Finish(c)
    /\ UNCHANGED <<ledger, payments, goods>>

(* The order's payments are read with it, by their allocations. *)
CheckRefund(c, o) ==
    /\ orders[o].status \in Payable
    /\ orders[o].paid > 0
    /\ Read(c, "refund", o, {i \in DOMAIN payments : allocated[o][i] > 0})

(* The text "Order #<n>" contains "Order #<o>": the digits of n begin with *)
(* those of o.                                                             *)
Mentions(n, o) == \E k \in 0..9 : n \div 10 ^ k = o

(* Mutant: every payment allocated to the order is reversed. *)
NativeAll(i, o) == payments[i].live

(* refund's nativeIds: payments whose notes mention this order.            *)
Native(i, o) == payments[i].live /\ payments[i].of # 0 /\ Mentions(payments[i].of, o)

(* refund: the sale and the credits of the order's own payments are        *)
(* reversed; goods and allocations stay.                                   *)
CommitRefund(c) ==
    /\ In(c, "refund")
    /\ LET tx == pending[c]
           o == tx.order
       IN  /\ ledger' = [ledger EXCEPT ![o].charged = @ - ledger[o].sold]
           /\ payments' = [i \in DOMAIN payments |->
                              IF i \in tx.in /\ Native(i, o)
                              THEN [payments[i] EXCEPT !.credit = @ - payments[i].amount]
                              ELSE payments[i]]
           /\ orders' = [orders EXCEPT ![o] = [@ EXCEPT !.status = "REFUNDED", !.paid = 0,
                                                        !.due = 0, !.payment = "UNPAID"]]
    /\ Finish(c)
    /\ UNCHANGED <<allocated, goods>>
-----------------------------------------------------------------------------
(* A check or a query fails, or the process dies, before the commit. *)
Abort(c) ==
    /\ pending[c] # NoTx
    /\ Finish(c)
    /\ UNCHANGED <<orders, money, goods>>

Start(c) ==
    /\ pending[c] = NoTx
    /\ \/ \E o \in Orders :
             \/ \E cart \in Carts : CheckItems(c, o, cart)
                                    \/ \E extra \in Extras : Create(c, o, cart, extra)
             \/ \E extra \in Extras : CheckCharges(c, o, extra)
             \/ CheckPlace(c, o) \/ CheckShip(c, o) \/ CheckCancel(c, o) \/ CheckRefund(c, o)
             \/ \E h \in Handoffs : CheckDeliver(c, o, h)
             \/ \E amount \in Amounts :
                   CheckPay(c, o, amount)
                   \/ \E i \in DOMAIN payments : CheckApply(c, o, i, amount)
       \/ \E amount \in Deposits : Receive(c, amount)
       \/ \E i \in DOMAIN payments : Remove(c, i)

Commit(c) ==
    \/ CommitCharges(c) \/ CommitItems(c) \/ CommitPlace(c) \/ CommitShip(c)
    \/ CommitDeliver(c) \/ CommitCancel(c) \/ CommitPay(c) \/ CommitApply(c) \/ CommitRefund(c)

Next == \E c \in Clerks : Start(c) \/ Commit(c) \/ Abort(c)

Spec == Init /\ [][Next]_vars
-----------------------------------------------------------------------------
Statuses == Payable \cup {"NONE", "DRAFT", "CANCELLED", "REFUNDED"}
Quantity == [Products -> Nat]

OrderType ==
    [status : Statuses, qty : Quantity, delivered : Quantity, cans : Quantity,
     empties : Quantity, extra : Extras \cup {0}, total : Nat, paid : Nat, due : Nat,
     payment : {"UNPAID", "PARTIALLY_PAID", "PAID"}]

TypeOK ==
    /\ orders \in [Orders -> OrderType]
    /\ ledger \in [Orders -> [sold : Nat, charged : Nat]]
    /\ payments \in Seq([amount : Amounts \cup Deposits, of : Orders \cup {0}, live : BOOLEAN, credit : Int])
    /\ allocated \in [Orders -> [1..MaxPayments -> Nat]]
    /\ warehouse \in Quantity
    /\ outs \in [Orders -> Quantity]
    /\ custody \in [Products -> Int]

(* What an order says of its money agrees with the payments allocated to   *)
(* it: it is never paid more than its total, and what is due, the payment  *)
(* status and the total follow from its lines and allocations through any  *)
(* edits, payments, applied payments and refunds.                          *)
MoneyAgrees == \A o \in Orders :
    LET order == orders[o] IN
        /\ order.total = TotalOf(order.qty, order.extra)
        /\ order.status # "REFUNDED" =>
               /\ order.paid = SumFunction(allocated[o])
               /\ order.paid <= order.total
               /\ order.due = order.total - order.paid
               /\ order.payment = PaymentStatus(order.paid, order.total)

(* "unallocated payment balance": a payment is allocated to orders at most *)
(* once over, also after some of them were refunded and it was applied     *)
(* anew.                                                                   *)
AllocatedOnce == \A i \in DOMAIN payments : Allocated(i) <= payments[i].amount

(* The customer owes exactly the orders that stand, and has credit for     *)
(* exactly the payments that stand: a refund or a cancellation reverses    *)
(* the sale and the order's own payments, once.  Only a payment that is    *)
(* deleted after its order was refunded is reversed a second time.         *)
LedgerAgrees ==
    /\ \A o \in Orders :
           ledger[o].charged = IF orders[o].status \in Payable THEN orders[o].total ELSE 0
    /\ \A i \in DOMAIN payments :
           LET reversed == payments[i].of # 0 /\ orders[payments[i].of].status = "REFUNDED"
           IN  /\ payments[i].live =>
                      payments[i].credit = IF reversed THEN 0 ELSE payments[i].amount
               /\ ~payments[i].live => payments[i].credit \in
                      IF reversed THEN {0, - payments[i].amount} ELSE {0}

(* Goods are out of the warehouse exactly for the orders that were placed  *)
(* and not cancelled; the order's status says how much of them is handed   *)
(* over, and the customer holds the cans that its lines say.               *)
GoodsAgree ==
    /\ \A p \in Products :
           /\ warehouse[p] + SumFunction([o \in Orders |-> outs[o][p]]) = Stock[p]
           /\ custody[p] = SumFunction([o \in Orders |->
                            IF orders[o].delivered[p] = 0 THEN 0
                            ELSE orders[o].cans[p] - orders[o].empties[p]])
    /\ \A o \in Orders : LET order == orders[o] IN
           /\ outs[o] = IF order.status \in Payable \cup {"REFUNDED"} THEN order.qty ELSE Zero
           /\ \A p \in Products : order.delivered[p] <= order.qty[p]
           /\ order.status \in {"DRAFT", "PLACED", "SHIPPED", "CANCELLED"} =>
                  order.delivered = Zero
           /\ order.status = "PARTIALLY_DELIVERED" => order.delivered \notin {Zero, order.qty}
           /\ order.status = "DELIVERED" => order.delivered = order.qty

(* Money, allocations, the customer's ledger, goods and containers agree   *)
(* with one another, whichever two requests overlap.                       *)
OrdersAgree == TypeOK /\ MoneyAgrees /\ AllocatedOnce /\ LedgerAgrees /\ GoodsAgree

Rank(status) == CASE status = "NONE" -> 0 [] status = "DRAFT" -> 1 [] status = "PLACED" -> 2
                  [] status = "SHIPPED" -> 3 [] status = "PARTIALLY_DELIVERED" -> 4
                  [] status = "DELIVERED" -> 5 [] status \in {"CANCELLED", "REFUNDED"} -> 6

(* An order only moves forward: once placed it keeps its lines and its     *)
(* total, what was delivered stays delivered, and a cancelled or refunded  *)
(* order never changes again.                                              *)
MovesForward == [][\A o \in Orders : LET old == orders[o]  new == orders'[o] IN
    /\ Rank(old.status) <= Rank(new.status)
    /\ Rank(old.status) >= 2 => /\ new.qty = old.qty /\ new.total = old.total
                                /\ \A p \in Products : old.delivered[p] <= new.delivered[p]
    /\ Rank(old.status) = 6 => new = old]_vars

(* "Only reverse ledger for payments created by Record payment on this     *)
(* order": a refund leaves the credit of every other payment alone.        *)
RefundsOwnPayments == [][\A o \in Orders :
    orders[o].status # "REFUNDED" /\ orders'[o].status = "REFUNDED" =>
        \A i \in DOMAIN payments :
            payments'[i].credit # payments[i].credit => payments[i].of = o]_vars
=============================================================================
