------------------------ MODULE CustomerOrders_proofs ------------------------
(* Proofs about CustomerOrders for any number of clerks and orders, as     *)
(* long as the requests of Overwriting do not overlap, and order numbers   *)
(* of which none begins with another.  The theorem on refunds, at the end, *)
(* needs only the second.                                                  *)
(*                                                                         *)
(* The inductive invariant says of each order that it agrees with its rows *)
(* in the other tables (RowOK), of the payments and of the sums over all   *)
(* orders what the properties say, and of each request in progress which   *)
(* part of what it has read still holds (SeesOrder, SeesMoney): as much of *)
(* it as it is going to write.                                             *)
EXTENDS CustomerOrders, Sums_proofs

(* The number of an order begins with that of no other. *)
DistinctNumbers == \A n, o \in Orders : Mentions(n, o) <=> n = o

Payment == [amount : Amounts \cup Deposits, of : Orders \cup {0}, live : BOOLEAN, credit : Int]
Slots == 1..MaxPayments
Open == {"NONE", "DRAFT", "CANCELLED"}

Typed == /\ orders \in [Orders -> OrderType]
         /\ ledger \in [Orders -> [sold : Nat, charged : Int]]
         /\ payments \in Seq(Payment)
         /\ allocated \in [Orders -> [Slots -> Nat]]
         /\ warehouse \in Quantity
         /\ outs \in [Orders -> Quantity]
         /\ custody \in [Products -> Int]
         /\ pending = [c \in Clerks |-> pending[c]]

(* The columns of money of an order, and what is allocated to it. *)
MoneyOK(order, alloc) ==
    /\ order.total = TotalOf(order.qty, order.extra)
    /\ order.status # "REFUNDED" =>
           /\ order.paid = SumFunction(alloc)
           /\ order.paid <= order.total
           /\ order.due = order.total - order.paid
           /\ order.payment = PaymentStatus(order.paid, order.total)
    /\ order.status \in Open => order.paid = 0

(* What was sold is the total, and is charged while the order stands. *)
ChargeOK(order, led) ==
    /\ order.status \in Payable => led.sold = order.total /\ led.charged = order.total
    /\ order.status \notin Payable => led.charged = 0
    /\ order.status \in {"NONE", "DRAFT"} => led.sold = 0

(* The lines, the order's movements and its status. *)
GoodsOK(order, out) ==
    /\ out = IF order.status \in Payable \cup {"REFUNDED"} THEN order.qty ELSE Zero
    /\ \A p \in Products : /\ order.delivered[p] <= order.qty[p]
                           /\ order.delivered[p] = 0 => order.empties[p] = 0
                           /\ p \notin Tracked => order.cans[p] = 0 /\ order.empties[p] = 0
    /\ order.status \in Open \cup {"PLACED", "SHIPPED"} => order.delivered = Zero
    /\ order.status = "PARTIALLY_DELIVERED" => order.delivered \notin {Zero, order.qty}
    /\ order.status = "DELIVERED" => order.delivered = order.qty

RowOK(order, alloc, led, out) ==
    MoneyOK(order, alloc) /\ ChargeOK(order, led) /\ GoodsOK(order, out)

Rows == \A o \in Orders : RowOK(orders[o], allocated[o], ledger[o], outs[o])

(* Payments: allocated once at most, and credited while they stand. *)
CreditOK(payment) ==
    LET reversed == payment.of # 0 /\ orders[payment.of].status = "REFUNDED"
    IN  /\ payment.live => payment.credit = IF reversed THEN 0 ELSE payment.amount
        /\ ~payment.live => payment.credit \in IF reversed THEN {0, - payment.amount} ELSE {0}

PaymentsOK ==
    /\ Len(payments) <= MaxPayments
    /\ \A i \in DOMAIN payments :
           /\ Allocated(i) <= payments[i].amount
           /\ CreditOK(payments[i])
           /\ payments[i].of # 0 => allocated[payments[i].of][i] > 0
    /\ \A o \in Orders, i \in Slots : i > Len(payments) => allocated[o][i] = 0

(* The sums over all orders. *)
Taken(p) == [o \in Orders |-> outs[o][p]]
Held(order, p) == IF order.delivered[p] = 0 THEN 0 ELSE order.cans[p] - order.empties[p]
Holding(p) == [o \in Orders |-> Held(orders[o], p)]

SumsOK == \A p \in Products : /\ warehouse[p] + SumFunction(Taken(p)) = Stock[p]
                              /\ custody[p] = SumFunction(Holding(p))

(* What a request is going to write absolutely, or relies on, is still     *)
(* what it has read of the order.                                          *)
SeesOrder(tx, now) ==
    LET read == tx.read IN
    /\ tx.op \in {"charges", "items", "place"} => now.status = "DRAFT" /\ read.paid = 0
    /\ tx.op = "charges" => read.qty = now.qty /\ tx.in \in Extras
    /\ tx.op = "items" => read.extra = now.extra /\ tx.in \in Carts
    /\ tx.op = "place" => read.qty = now.qty /\ read.extra = now.extra
    /\ tx.op = "ship" => now.status = "PLACED"
    /\ tx.op = "deliver" =>
           /\ now.status \in {"SHIPPED", "PARTIALLY_DELIVERED"} /\ read.status = now.status
           /\ read.qty = now.qty /\ read.delivered = now.delivered
           /\ read.cans = now.cans /\ read.empties = now.empties
           /\ tx.in \in Handoffs
           /\ \A p \in DOMAIN tx.in : /\ now.qty[p] > 0
                                      /\ now.delivered[p] + tx.in[p].qty <= now.qty[p]
    /\ tx.op = "cancel" =>
           now.status \in {"DRAFT", "PLACED"} /\ read.status = now.status /\ now.paid = 0
    /\ tx.op \in {"pay", "apply"} =>
           now.status \in Payable /\ read.total = now.total /\ read.paid = now.paid
    /\ tx.op = "pay" => tx.in \in Amounts /\ tx.in <= now.total - now.paid
    /\ tx.op = "apply" =>
           tx.in.amount \in Nat \ {0} /\ tx.in.amount <= now.total - now.paid
    /\ tx.op = "refund" => now.status \in Payable /\ now.paid > 0

(* And of the payments. *)
SeesMoney(tx) ==
    /\ tx.op = "apply" =>
           /\ tx.in.payment \in DOMAIN payments
           /\ tx.in.amount <= payments[tx.in.payment].amount - Allocated(tx.in.payment)
    /\ tx.op = "refund" => tx.in = {i \in DOMAIN payments : allocated[tx.order][i] > 0}

Ops == {"charges", "items", "place", "ship", "deliver", "cancel", "pay", "apply", "refund"}

Sees(tx) == \/ tx = NoTx
            \/ /\ tx.op \in Ops /\ tx.order \in Orders /\ tx.read \in OrderType
               /\ DOMAIN tx = {"op", "order", "read", "in", "gone"}
               /\ SeesOrder(tx, orders[tx.order]) /\ SeesMoney(tx)

(* Requests of Overwriting do not overlap. *)
NoRace == \A c, d \in Clerks :
    c # d => \/ pending[c] = NoTx \/ pending[d] = NoTx
             \/ {pending[c].op, pending[d].op} \notin Racing

OrdersInv == /\ Typed /\ Rows /\ PaymentsOK /\ SumsOK
             /\ NoRace /\ \A c \in Clerks : Sees(pending[c])

-----------------------------------------------------------------------------
(* The constants, and the operators on amounts. *)
LEMMA Constants ==
    /\ IsFiniteSet(Orders) /\ IsFiniteSet(Products) /\ IsFiniteSet(Slots) /\ MaxPayments \in Nat
    /\ 0 \notin Orders /\ Tracked \subseteq Products
    /\ Extras \cup {0} \subseteq Int /\ Zero \in Quantity /\ Stock \in Quantity
    /\ \A p \in Products : Price[p] \in Nat
<1>1. MaxPayments \in Int /\ 1 \in Int
  BY InputsAssumption
<1>2. IsFiniteSet(Slots)
  BY <1>1, FS_Interval DEF Slots
<1>3. Stock \in Quantity
  BY InputsAssumption DEF Quantity
<1> QED
  BY InputsAssumption, <1>2, <1>3 DEF Zero, Quantity

LEMMA AtLeast0Is ==
    ASSUME NEW n \in Int
    PROVE  /\ AtLeast0(n) \in Nat /\ (n >= 0 => AtLeast0(n) = n)
           /\ \A m \in Nat \ {0} : m <= AtLeast0(n) => m <= n
BY DEF AtLeast0

LEMMA TotalOfNat ==
    ASSUME NEW qty \in Quantity, NEW extra \in Int PROVE TotalOf(qty, extra) \in Nat
<1> DEFINE f == [p \in Products |-> qty[p] * Price[p]]
<1>1. \A p \in Products : f[p] \in Int
  <2> SUFFICES ASSUME NEW p \in Products PROVE f[p] \in Int
    OBVIOUS
  <2>1. qty[p] \in Int /\ Price[p] \in Int
    BY Constants DEF Quantity
  <2> QED
    BY <2>1
<1>2. DOMAIN f = Products
  OBVIOUS
<1> HIDE DEF f
<1>3. SumFunction(f) \in Int
  BY <1>1, <1>2, Constants, TotalInt
<1>4. SumFunction(f) + extra \in Int
  BY <1>3
<1> QED
  BY <1>4, AtLeast0Is DEF TotalOf, f

LEMMA PaymentStatuses ==
    ASSUME NEW paid, NEW total
    PROVE  PaymentStatus(paid, total) \in {"UNPAID", "PARTIALLY_PAID", "PAID"}
BY DEF PaymentStatus

LEMMA OrderFields ==
    ASSUME NEW order \in OrderType
    PROVE  /\ order.status \in Statuses
           /\ order.qty \in Quantity /\ order.delivered \in Quantity
           /\ order.cans \in Quantity /\ order.empties \in Quantity
           /\ order.extra \in Int /\ order.extra \in Extras \cup {0}
           /\ order.total \in Nat /\ order.paid \in Nat /\ order.due \in Nat
           /\ order.payment \in {"UNPAID", "PARTIALLY_PAID", "PAID"}
BY Constants DEF OrderType

LEMMA QuantityIs ==
    ASSUME NEW q \in Quantity, NEW p \in Products PROVE q[p] \in Nat
BY DEF Quantity

LEMMA StatusSets ==
    /\ Payable \cap (Open \cup {"REFUNDED"}) = {} /\ "REFUNDED" \notin Open
    /\ Statuses = Payable \cup Open \cup {"REFUNDED"}
    /\ Payable = {"PLACED", "SHIPPED", "PARTIALLY_DELIVERED", "DELIVERED"}
    /\ Open = {"NONE", "DRAFT", "CANCELLED"}
BY DEF Payable, Open, Statuses

(* What an order is once its money columns are written anew. *)
LEMMA PricedIs ==
    ASSUME NEW order \in OrderType, NEW total \in Nat, NEW paid \in Nat
    PROVE  /\ Priced(order, total, paid) \in OrderType
           /\ Priced(order, total, paid).total = total
           /\ Priced(order, total, paid).paid = paid
           /\ Priced(order, total, paid).due = AtLeast0(total - paid)
           /\ Priced(order, total, paid).payment = PaymentStatus(paid, total)
           /\ Priced(order, total, paid).status = order.status
           /\ Priced(order, total, paid).qty = order.qty
           /\ Priced(order, total, paid).delivered = order.delivered
           /\ Priced(order, total, paid).cans = order.cans
           /\ Priced(order, total, paid).empties = order.empties
           /\ Priced(order, total, paid).extra = order.extra
<1>1. AtLeast0(total - paid) \in Nat
  <2>1. total - paid \in Int
    OBVIOUS
  <2> QED
    BY <2>1, AtLeast0Is
<1> DEFINE due == AtLeast0(total - paid)
           status == PaymentStatus(paid, total)
<1>2. status \in {"UNPAID", "PARTIALLY_PAID", "PAID"} /\ due \in Nat
  BY <1>1, PaymentStatuses
<1>3. Priced(order, total, paid)
         = [order EXCEPT !.total = total, !.paid = paid, !.due = due, !.payment = status]
  BY DEF Priced
<1> HIDE DEF due, status
<1>4. /\ Priced(order, total, paid) \in OrderType
      /\ Priced(order, total, paid).total = total
      /\ Priced(order, total, paid).paid = paid
      /\ Priced(order, total, paid).due = due
      /\ Priced(order, total, paid).payment = status
      /\ Priced(order, total, paid).status = order.status
      /\ Priced(order, total, paid).qty = order.qty
      /\ Priced(order, total, paid).delivered = order.delivered
      /\ Priced(order, total, paid).cans = order.cans
      /\ Priced(order, total, paid).empties = order.empties
      /\ Priced(order, total, paid).extra = order.extra
  BY <1>2, <1>3 DEF OrderType
<1> QED
  BY <1>4 DEF due, status

(* Of an order that is paid what is allocated to it. *)
LEMMA PaidUp ==
    ASSUME NEW order \in OrderType, NEW total \in Nat, NEW paid \in Nat, paid <= total,
           NEW alloc, paid = SumFunction(alloc), order.status \notin Open \/ paid = 0,
           order.total = total, order.paid = paid, order.due = AtLeast0(total - paid),
           order.payment = PaymentStatus(paid, total), total = TotalOf(order.qty, order.extra)
    PROVE  MoneyOK(order, alloc)
<1>1. total - paid \in Int /\ total - paid >= 0
  OBVIOUS
<1>2. order.due = total - paid
  BY <1>1, AtLeast0Is
<1> QED
  BY <1>2 DEF MoneyOK

-----------------------------------------------------------------------------
(* What the requests in progress have read. *)

(* The pairs of Overwriting, one by one. *)
Apart(a, b) ==
    /\ a = "charges" => b \notin {"items", "place", "cancel"}
    /\ a = "items" => b \notin {"charges", "place", "cancel"}
    /\ a = "place" => b \notin {"charges", "items", "place", "cancel"}
    /\ a = "ship" => b \notin {"ship", "cancel", "refund"}
    /\ a = "deliver" => b \notin {"deliver", "refund"}
    /\ a = "cancel" => b \notin {"charges", "items", "place", "ship", "cancel", "pay", "apply"}
    /\ a = "pay" => b \notin {"cancel", "pay", "apply", "refund"}
    /\ a = "apply" => b \notin {"cancel", "pay", "apply", "refund"}
    /\ a = "refund" => b \notin {"ship", "deliver", "pay", "apply", "refund"}

LEMMA Overlaps ==
    ASSUME Overwriting \subseteq Racing, NEW a, NEW b, {a, b} \notin Racing
    PROVE  Apart(a, b)
<1>1. {a, b} \notin Overwriting
  OBVIOUS
<1>2. \A s \in Overwriting : {a, b} # s
  BY <1>1
<1>3. a = "charges" => b \notin {"items", "place", "cancel"}
  <2>1. {"charges", "items"} \in Overwriting
    BY DEF Overwriting
  <2>2. {"charges", "place"} \in Overwriting
    BY DEF Overwriting
  <2>3. {"charges", "cancel"} \in Overwriting
    BY DEF Overwriting
  <2> QED
    BY <1>2, <2>1, <2>2, <2>3
<1>4. a = "items" => b \notin {"charges", "place", "cancel"}
  <2>1. {"items", "charges"} \in Overwriting
    BY DEF Overwriting
  <2>2. {"items", "place"} \in Overwriting
    BY DEF Overwriting
  <2>3. {"items", "cancel"} \in Overwriting
    BY DEF Overwriting
  <2> QED
    BY <1>2, <2>1, <2>2, <2>3
<1>5. a = "place" => b \notin {"charges", "items", "place", "cancel"}
  <2>1. {"place", "charges"} \in Overwriting
    BY DEF Overwriting
  <2>2. {"place", "items"} \in Overwriting
    BY DEF Overwriting
  <2>3. {"place"} \in Overwriting
    BY DEF Overwriting
  <2>4. {"place", "cancel"} \in Overwriting
    BY DEF Overwriting
  <2> QED
    BY <1>2, <2>1, <2>2, <2>3, <2>4
<1>6. a = "ship" => b \notin {"ship", "cancel", "refund"}
  <2>1. {"ship"} \in Overwriting
    BY DEF Overwriting
  <2>2. {"ship", "cancel"} \in Overwriting
    BY DEF Overwriting
  <2>3. {"ship", "refund"} \in Overwriting
    BY DEF Overwriting
  <2> QED
    BY <1>2, <2>1, <2>2, <2>3
<1>7. a = "deliver" => b \notin {"deliver", "refund"}
  <2>1. {"deliver"} \in Overwriting
    BY DEF Overwriting
  <2>2. {"deliver", "refund"} \in Overwriting
    BY DEF Overwriting
  <2> QED
    BY <1>2, <2>1, <2>2
<1>8. a = "cancel" => b \notin {"charges", "items", "place", "ship", "cancel", "pay", "apply"}
  <2>1. {"cancel", "charges"} \in Overwriting
    BY DEF Overwriting
  <2>2. {"cancel", "items"} \in Overwriting
    BY DEF Overwriting
  <2>3. {"cancel", "place"} \in Overwriting
    BY DEF Overwriting
  <2>4. {"cancel", "ship"} \in Overwriting
    BY DEF Overwriting
  <2>5. {"cancel"} \in Overwriting
    BY DEF Overwriting
  <2>6. {"cancel", "pay"} \in Overwriting
    BY DEF Overwriting
  <2>7. {"cancel", "apply"} \in Overwriting
    BY DEF Overwriting
  <2> QED
    BY <1>2, <2>1, <2>2, <2>3, <2>4, <2>5, <2>6, <2>7
<1>9. a = "pay" => b \notin {"cancel", "pay", "apply", "refund"}
  <2>1. {"pay", "cancel"} \in Overwriting
    BY DEF Overwriting
  <2>2. {"pay"} \in Overwriting
    BY DEF Overwriting
  <2>3. {"pay", "apply"} \in Overwriting
    BY DEF Overwriting
  <2>4. {"pay", "refund"} \in Overwriting
    BY DEF Overwriting
  <2> QED
    BY <1>2, <2>1, <2>2, <2>3, <2>4
<1>10. a = "apply" => b \notin {"cancel", "pay", "apply", "refund"}
  <2>1. {"apply", "cancel"} \in Overwriting
    BY DEF Overwriting
  <2>2. {"apply", "pay"} \in Overwriting
    BY DEF Overwriting
  <2>3. {"apply"} \in Overwriting
    BY DEF Overwriting
  <2>4. {"apply", "refund"} \in Overwriting
    BY DEF Overwriting
  <2> QED
    BY <1>2, <2>1, <2>2, <2>3, <2>4
<1>11. a = "refund" => b \notin {"ship", "deliver", "pay", "apply", "refund"}
  <2>1. {"refund", "ship"} \in Overwriting
    BY DEF Overwriting
  <2>2. {"refund", "deliver"} \in Overwriting
    BY DEF Overwriting
  <2>3. {"refund", "pay"} \in Overwriting
    BY DEF Overwriting
  <2>4. {"refund", "apply"} \in Overwriting
    BY DEF Overwriting
  <2>5. {"refund"} \in Overwriting
    BY DEF Overwriting
  <2> QED
    BY <1>2, <2>1, <2>2, <2>3, <2>4, <2>5
<1> QED
  BY <1>3, <1>4, <1>5, <1>6, <1>7, <1>8, <1>9, <1>10, <1>11 DEF Apart

LEMMA RaceFree ==
    ASSUME NoRace,
           \A d \in Clerks : \/ pending'[d] = NoTx
                             \/ pending[d] # NoTx /\ pending'[d].op = pending[d].op
    PROVE  NoRace'
<1> SUFFICES ASSUME NEW c \in Clerks, NEW d \in Clerks, c # d,
                    pending'[c] # NoTx, pending'[d] # NoTx
             PROVE  {pending'[c].op, pending'[d].op} \notin Racing
  BY DEF NoRace
<1>1. /\ pending[c] # NoTx /\ pending'[c].op = pending[c].op
      /\ pending[d] # NoTx /\ pending'[d].op = pending[d].op
  OBVIOUS
<1> QED
  BY <1>1 DEF NoRace

(* A request is pending once its note is seen. *)
LEMMA Told ==
    ASSUME NEW d \in Clerks, NEW tx, tx = pending'[d], Sees(tx)' PROVE Sees(pending[d])'
BY DEF Sees, SeesOrder, SeesMoney, Allocated

(* What a request sees of the payments does not change with them. *)
LEMMA SeesMoneySame ==
    ASSUME NEW tx, SeesMoney(tx), UNCHANGED <<payments, allocated>>,
           \A i \in DOMAIN payments : Allocated(i)' = Allocated(i)
    PROVE  SeesMoney(tx)'
BY DEF SeesMoney

(* A check notes what it has read, and changes nothing else. *)
LEMMA ReadStep ==
    ASSUME OrdersInv, NEW c \in Clerks, NEW op \in Ops, NEW o \in Orders, NEW in,
           Read(c, op, o, in),
           NEW tx, tx = [op |-> op, order |-> o, read |-> orders[o], in |-> in, gone |-> FALSE],
           SeesOrder(tx, orders[o]), SeesMoney(tx)
    PROVE  OrdersInv'
<1>1. UNCHANGED <<orders, ledger, payments, allocated, warehouse, outs, custody>>
  BY DEF Read, money, goods
<1>2. pending' = [pending EXCEPT ![c] = tx] /\ MayStart(c, op)
  BY DEF Read
<1>3. pending = [d \in Clerks |-> pending[d]] /\ Typed
  BY DEF OrdersInv, Typed
<1>4. \A d \in Clerks : pending'[d] = IF d = c THEN tx ELSE pending[d]
  BY <1>2, <1>3
<1>5. Typed'
  <2>1. pending' = [d \in Clerks |-> pending'[d]]
    BY <1>2, <1>3
  <2> QED
    BY <1>1, <1>3, <2>1 DEF Typed
<1>6. Rows'
  BY <1>1 DEF OrdersInv, Rows
<1>7. PaymentsOK'
  BY <1>1 DEF OrdersInv, PaymentsOK, CreditOK, Allocated
<1>8. SumsOK'
  BY <1>1 DEF OrdersInv, SumsOK, Taken, Holding
<1>9. NoRace'
  <2> SUFFICES ASSUME NEW d \in Clerks, NEW e \in Clerks, d # e,
                      pending'[d] # NoTx, pending'[e] # NoTx
               PROVE  {pending'[d].op, pending'[e].op} \notin Racing
    BY DEF NoRace
  <2>1. tx.op = op
    OBVIOUS
  <2>2. CASE d = c
    BY <1>2, <1>4, <2>1, <2>2 DEF MayStart
  <2>3. CASE e = c
    <3>1. {op, pending[d].op} \notin Racing
      BY <1>2, <1>4, <2>3 DEF MayStart
    <3>2. {op, pending[d].op} = {pending[d].op, op}
      OBVIOUS
    <3> QED
      BY <1>4, <2>1, <2>3, <3>1, <3>2
  <2>4. CASE d # c /\ e # c
    BY <1>4, <2>4 DEF OrdersInv, NoRace
  <2> QED
    BY <2>2, <2>3, <2>4
<1>10. ASSUME NEW d \in Clerks PROVE Sees(pending[d])'
  <2>1. PICK u : u = pending'[d]
    OBVIOUS
  <2>2. Sees(u)
    <3>1. CASE d = c
      <4>1. u = tx
        BY <1>4, <2>1, <3>1
      <4>2. /\ tx.op \in Ops /\ tx.order \in Orders /\ tx.read \in OrderType
            /\ SeesOrder(tx, orders[tx.order]) /\ SeesMoney(tx)
            /\ DOMAIN tx = {"op", "order", "read", "in", "gone"}
        BY <1>3 DEF Typed
      <4> QED
        BY <4>1, <4>2 DEF Sees
    <3>2. CASE d # c
      BY <1>4, <2>1, <3>2 DEF OrdersInv
    <3> QED
      BY <3>1, <3>2
  <2>3. Sees(u)'
    BY <1>1, <2>2 DEF Sees, SeesMoney, Allocated
  <2> QED
    BY <2>1, <2>3, Told
<1> QED
  BY <1>5, <1>6, <1>7, <1>8, <1>9, <1>10 DEF OrdersInv

-----------------------------------------------------------------------------
(* The checks. *)
LEMMA OrderRow ==
    ASSUME OrdersInv, NEW o \in Orders
    PROVE  /\ orders[o] \in OrderType
           /\ MoneyOK(orders[o], allocated[o]) /\ ChargeOK(orders[o], ledger[o])
           /\ GoodsOK(orders[o], outs[o])
BY DEF OrdersInv, Typed, Rows, RowOK

LEMMA CheckChargesStep ==
    ASSUME OrdersInv, NEW c \in Clerks, NEW o \in Orders, NEW extra \in Extras,
           CheckCharges(c, o, extra)
    PROVE  OrdersInv'
<1>1. PICK tx : tx = [op |-> "charges", order |-> o, read |-> orders[o], in |-> extra,
                      gone |-> FALSE]
  OBVIOUS
<1>2. orders[o].status = "DRAFT" /\ orders[o].paid = 0
  BY OrderRow DEF CheckCharges, MoneyOK, Open
<1>3. SeesOrder(tx, orders[o]) /\ SeesMoney(tx)
  BY <1>1, <1>2 DEF SeesOrder, SeesMoney
<1> QED
  BY <1>1, <1>3, ReadStep DEF CheckCharges, Ops

LEMMA CheckItemsStep ==
    ASSUME OrdersInv, NEW c \in Clerks, NEW o \in Orders, NEW cart \in Carts,
           CheckItems(c, o, cart)
    PROVE  OrdersInv'
<1>1. PICK tx : tx = [op |-> "items", order |-> o, read |-> orders[o], in |-> cart,
                      gone |-> FALSE]
  OBVIOUS
<1>2. orders[o].status = "DRAFT" /\ orders[o].paid = 0
  BY OrderRow DEF CheckItems, MoneyOK, Open
<1>3. SeesOrder(tx, orders[o]) /\ SeesMoney(tx)
  BY <1>1, <1>2 DEF SeesOrder, SeesMoney
<1> QED
  BY <1>1, <1>3, ReadStep DEF CheckItems, Ops

LEMMA CheckPlaceStep ==
    ASSUME OrdersInv, NEW c \in Clerks, NEW o \in Orders, CheckPlace(c, o)
    PROVE  OrdersInv'
<1>1. PICK tx : tx = [op |-> "place", order |-> o, read |-> orders[o], in |-> 0,
                      gone |-> FALSE]
  OBVIOUS
<1>2. orders[o].status = "DRAFT" /\ orders[o].paid = 0
  BY OrderRow DEF CheckPlace, MoneyOK, Open
<1>3. SeesOrder(tx, orders[o]) /\ SeesMoney(tx)
  BY <1>1, <1>2 DEF SeesOrder, SeesMoney
<1> QED
  BY <1>1, <1>3, ReadStep DEF CheckPlace, Ops

LEMMA CheckShipStep ==
    ASSUME OrdersInv, NEW c \in Clerks, NEW o \in Orders, CheckShip(c, o)
    PROVE  OrdersInv'
<1>1. PICK tx : tx = [op |-> "ship", order |-> o, read |-> orders[o], in |-> 0,
                      gone |-> FALSE]
  OBVIOUS
<1>2. SeesOrder(tx, orders[o]) /\ SeesMoney(tx)
  BY <1>1 DEF CheckShip, SeesOrder, SeesMoney
<1> QED
  BY <1>1, <1>2, ReadStep DEF CheckShip, Ops

LEMMA CheckDeliverStep ==
    ASSUME OrdersInv, NEW c \in Clerks, NEW o \in Orders, NEW h \in Handoffs,
           CheckDeliver(c, o, h)
    PROVE  OrdersInv'
<1>1. PICK tx : tx = [op |-> "deliver", order |-> o, read |-> orders[o], in |-> h,
                      gone |-> FALSE]
  OBVIOUS
<1>2. SeesOrder(tx, orders[o]) /\ SeesMoney(tx)
  BY <1>1 DEF CheckDeliver, SeesOrder, SeesMoney
<1> QED
  BY <1>1, <1>2, ReadStep DEF CheckDeliver, Ops

LEMMA CheckCancelStep ==
    ASSUME OrdersInv, NEW c \in Clerks, NEW o \in Orders, CheckCancel(c, o)
    PROVE  OrdersInv'
<1>1. PICK tx : tx = [op |-> "cancel", order |-> o, read |-> orders[o], in |-> 0,
                      gone |-> FALSE]
  OBVIOUS
<1>2. orders[o].status \in {"DRAFT", "PLACED"} /\ orders[o].paid = 0
  BY OrderRow, OrderFields DEF CheckCancel
<1>3. SeesOrder(tx, orders[o]) /\ SeesMoney(tx)
  BY <1>1, <1>2 DEF SeesOrder, SeesMoney
<1> QED
  BY <1>1, <1>3, ReadStep DEF CheckCancel, Ops

(* What fits in what is left of an amount. *)
LEMMA FitsLeft ==
    ASSUME NEW n \in Int, NEW m \in Nat \ {0}, m <= AtLeast0(n) PROVE m <= n
BY AtLeast0Is

LEMMA OrderLeft ==
    ASSUME OrdersInv, NEW o \in Orders, NEW m \in Nat \ {0},
           m <= AtLeast0(orders[o].total - orders[o].paid)
    PROVE  m <= orders[o].total - orders[o].paid
<1>1. orders[o].total - orders[o].paid \in Int
  BY OrderRow, OrderFields
<1> QED
  BY <1>1, FitsLeft

LEMMA CheckPayStep ==
    ASSUME OrdersInv, NEW c \in Clerks, NEW o \in Orders, NEW amount \in Amounts,
           CheckPay(c, o, amount)
    PROVE  OrdersInv'
<1>1. PICK tx : tx = [op |-> "pay", order |-> o, read |-> orders[o], in |-> amount,
                      gone |-> FALSE]
  OBVIOUS
<1>2. amount \in Nat \ {0}
  BY InputsAssumption
<1>3. orders[o].status \in Payable /\ amount <= orders[o].total - orders[o].paid
  BY <1>2, OrderLeft DEF CheckPay
<1>4. SeesOrder(tx, orders[o]) /\ SeesMoney(tx)
  BY <1>1, <1>2, <1>3 DEF SeesOrder, SeesMoney
<1> QED
  BY <1>1, <1>4, ReadStep DEF CheckPay, Ops

(* What is allocated of a payment. *)
Shares(i) == [o \in Orders |-> IF orders[o].status = "REFUNDED" THEN 0 ELSE allocated[o][i]]

LEMMA AllocatedInt ==
    ASSUME OrdersInv, NEW i \in DOMAIN payments
    PROVE  /\ Allocated(i) = SumFunction(Shares(i)) /\ Allocated(i) \in Int
           /\ \A o \in Orders : Shares(i)[o] \in Nat
           /\ i \in Slots /\ payments[i] \in Payment /\ payments[i].amount \in Nat \ {0}
<1>1. i \in 1..Len(payments) /\ Len(payments) \in Nat /\ payments[i] \in Payment
  BY SeqDomain DEF OrdersInv, Typed
<1>5. payments[i].amount \in Nat \ {0}
  BY <1>1, InputsAssumption DEF Payment
<1>2. i \in Slots
  BY <1>1, Constants DEF OrdersInv, PaymentsOK, Slots
<1>3. \A o \in Orders : Shares(i)[o] \in Nat
  BY <1>2 DEF OrdersInv, Typed, Shares
<1>4. SumFunction(Shares(i)) \in Int
  <2>1. DOMAIN Shares(i) = Orders
    BY DEF Shares
  <2> QED
    BY <1>3, <2>1, Constants, TotalInt
<1> QED
  BY <1>1, <1>2, <1>3, <1>4, <1>5 DEF Allocated, Shares

LEMMA CheckApplyStep ==
    ASSUME OrdersInv, NEW c \in Clerks, NEW o \in Orders, NEW amount \in Amounts,
           NEW i \in DOMAIN payments, CheckApply(c, o, i, amount)
    PROVE  OrdersInv'
<1>1. PICK tx : tx = [op |-> "apply", order |-> o, read |-> orders[o],
                      in |-> [payment |-> i, amount |-> amount], gone |-> FALSE]
  OBVIOUS
<1>2. amount \in Nat \ {0}
  BY InputsAssumption
<1>3. orders[o].status \in Payable /\ amount <= orders[o].total - orders[o].paid
  BY <1>2, OrderLeft DEF CheckApply
<1>4. amount <= payments[i].amount - Allocated(i)
  <2>1. payments[i].amount - Allocated(i) \in Int
    BY AllocatedInt
  <2> QED
    BY <1>2, <2>1, FitsLeft DEF CheckApply
<1>5. SeesOrder(tx, orders[o])
  BY <1>1, <1>2, <1>3 DEF SeesOrder
<1>6. SeesMoney(tx)
  BY <1>1, <1>4 DEF SeesMoney
<1> QED
  BY <1>1, <1>5, <1>6, ReadStep DEF CheckApply, Ops

LEMMA CheckRefundStep ==
    ASSUME OrdersInv, NEW c \in Clerks, NEW o \in Orders, CheckRefund(c, o)
    PROVE  OrdersInv'
<1>1. PICK tx : tx = [op |-> "refund", order |-> o, read |-> orders[o],
                      in |-> {i \in DOMAIN payments : allocated[o][i] > 0}, gone |-> FALSE]
  OBVIOUS
<1>2. SeesOrder(tx, orders[o]) /\ SeesMoney(tx)
  BY <1>1 DEF CheckRefund, SeesOrder, SeesMoney
<1> QED
  BY <1>1, <1>2, ReadStep DEF CheckRefund, Ops

-----------------------------------------------------------------------------
(* What a commit leaves alone. *)

(* The requests in progress besides c. *)
Others(c) == {pending[d] : d \in Clerks \ {c}}

(* The commit of c ends its request, and may tell others that the lines    *)
(* they have read are gone.                                                *)
Noted(c) ==
    /\ pending' = [d \in Clerks |-> pending'[d]] /\ pending'[c] = NoTx
    /\ \A d \in Clerks \ {c} :
           \/ pending'[d] = pending[d]
           \/ pending[d] # NoTx /\ pending'[d] = [pending[d] EXCEPT !.gone = TRUE]

(* The orders still are what the others have seen, and so is the money. *)
OrdersStand(c) == \A tx \in Others(c) : tx # NoTx => SeesOrder(tx, orders'[tx.order])
MoneyStands(c) == \A tx \in Others(c) : tx # NoTx => SeesMoney(tx)'

LEMMA FinishNoted ==
    ASSUME Typed, NEW c \in Clerks, Finish(c) \/ (pending' = pending /\ pending[c] = NoTx)
    PROVE  Noted(c)
BY DEF Typed, Finish, Noted

LEMMA OtherSees ==
    ASSUME OrdersInv, NEW c \in Clerks, NEW tx \in Others(c), tx # NoTx
    PROVE  /\ tx.op \in Ops /\ tx.order \in Orders /\ tx.read \in OrderType
           /\ DOMAIN tx = {"op", "order", "read", "in", "gone"}
           /\ SeesOrder(tx, orders[tx.order]) /\ SeesMoney(tx)
           /\ pending[c] # NoTx => {pending[c].op, tx.op} \notin Racing
<1>1. PICK d \in Clerks \ {c} : tx = pending[d]
  BY DEF Others
<1>2. Sees(tx)
  BY <1>1 DEF OrdersInv
<1>3. pending[c] # NoTx => {pending[c].op, tx.op} \notin Racing
  BY <1>1 DEF OrdersInv, NoRace
<1> QED
  BY <1>2, <1>3 DEF Sees

LEMMA GoneSame ==
    ASSUME NEW tx, DOMAIN tx = {"op", "order", "read", "in", "gone"}, NEW u,
           u = tx \/ u = [tx EXCEPT !.gone = TRUE]
    PROVE  /\ DOMAIN u = DOMAIN tx /\ u.op = tx.op /\ u.order = tx.order
           /\ u.read = tx.read /\ u.in = tx.in
OBVIOUS

LEMMA AllStand ==
    ASSUME OrdersInv, NEW c \in Clerks, Noted(c), OrdersStand(c), MoneyStands(c)
    PROVE  NoRace' /\ \A d \in Clerks : Sees(pending[d])'
<1>1. \A d \in Clerks \ {c} : pending[d] # NoTx =>
         DOMAIN pending[d] = {"op", "order", "read", "in", "gone"}
  BY DEF OrdersInv, Sees
<1>2. NoRace'
  <2>1. ASSUME NEW d \in Clerks
        PROVE  \/ pending'[d] = NoTx
               \/ pending[d] # NoTx /\ pending'[d].op = pending[d].op
    <3>1. CASE d = c
      BY <3>1 DEF Noted
    <3>2. CASE d # c /\ pending[d] = NoTx
      BY <3>2 DEF Noted
    <3>3. CASE d # c /\ pending[d] # NoTx
      BY <1>1, <3>3, GoneSame DEF Noted
    <3> QED
      BY <3>1, <3>2, <3>3
  <2> QED
    BY <2>1, RaceFree DEF OrdersInv
<1>3. ASSUME NEW d \in Clerks PROVE Sees(pending[d])'
  <2>1. PICK u : u = pending'[d]
    OBVIOUS
  <2>2. CASE u = NoTx
    <3>1. Sees(u)'
      BY <2>2 DEF Sees
    <3> QED
      BY <2>1, <3>1, Told
  <2>3. CASE u # NoTx
    <3>1. PICK tx : tx = pending[d]
      OBVIOUS
    <3>2. d # c /\ tx # NoTx /\ tx \in Others(c) /\ (u = tx \/ u = [tx EXCEPT !.gone = TRUE])
      BY <2>1, <2>3, <3>1 DEF Noted, Others
    <3>3. /\ tx.op \in Ops /\ tx.order \in Orders /\ tx.read \in OrderType
          /\ DOMAIN tx = {"op", "order", "read", "in", "gone"}
      BY <3>2, OtherSees
    <3>4. SeesOrder(tx, orders'[tx.order]) /\ SeesMoney(tx)'
      BY <3>2 DEF OrdersStand, MoneyStands
    <3>5. /\ DOMAIN u = DOMAIN tx /\ u.op = tx.op /\ u.order = tx.order
          /\ u.read = tx.read /\ u.in = tx.in
      BY <3>2, <3>3, GoneSame
    <3>6. SeesOrder(u, orders'[u.order])
      BY <3>4, <3>5 DEF SeesOrder
    <3>7. SeesMoney(u)'
      BY <3>4, <3>5 DEF SeesMoney
    <3>8. Sees(u)'
      BY <3>3, <3>5, <3>6, <3>7 DEF Sees
    <3> QED
      BY <2>1, <3>8, Told
  <2> QED
    BY <2>2, <2>3
<1> QED
  BY <1>2, <1>3

(* What a request of the kind op makes of an order lets the requests stand *)
(* that may overlap with it.                                               *)
Passes(op, old, new) ==
    \A tx : /\ tx.op \in Ops /\ tx.read \in OrderType
            /\ SeesOrder(tx, old) /\ Apart(op, tx.op)
            => SeesOrder(tx, new)

LEMMA OthersPass ==
    ASSUME OrdersInv, Overwriting \subseteq Racing, NEW c \in Clerks, pending[c] # NoTx,
           NEW o \in Orders, NEW new, orders' = [orders EXCEPT ![o] = new],
           Passes(pending[c].op, orders[o], new)
    PROVE  OrdersStand(c)
<1> SUFFICES ASSUME NEW tx \in Others(c), tx # NoTx
             PROVE  SeesOrder(tx, orders'[tx.order])
  BY DEF OrdersStand
<1>1. /\ tx.op \in Ops /\ tx.order \in Orders /\ tx.read \in OrderType
      /\ SeesOrder(tx, orders[tx.order]) /\ {pending[c].op, tx.op} \notin Racing
  BY OtherSees
<1>2. Apart(pending[c].op, tx.op)
  BY <1>1, Overlaps
<1>3. orders'[tx.order] = IF tx.order = o THEN new ELSE orders[tx.order]
  BY <1>1 DEF OrdersInv, Typed
<1>4. CASE tx.order = o
  <2>1. SeesOrder(tx, orders[o])
    BY <1>1, <1>4
  <2>2. SeesOrder(tx, new)
    BY <1>1, <1>2, <2>1 DEF Passes
  <2> QED
    BY <1>3, <1>4, <2>2
<1>5. CASE tx.order # o
  BY <1>1, <1>3, <1>5
<1> QED
  BY <1>4, <1>5

(* One order and its rows. *)
LEMMA OneRow ==
    ASSUME OrdersInv, NEW o \in Orders, NEW new \in OrderType,
           orders' = [orders EXCEPT ![o] = new],
           RowOK(new, allocated'[o], ledger'[o], outs'[o]),
           \A x \in Orders \ {o} : /\ allocated'[x] = allocated[x] /\ ledger'[x] = ledger[x]
                                   /\ outs'[x] = outs[x]
    PROVE  /\ Rows' /\ orders' \in [Orders -> OrderType]
           /\ \A x \in Orders : orders'[x] = IF x = o THEN new ELSE orders[x]
<1>1. orders \in [Orders -> OrderType] /\ Rows
  BY DEF OrdersInv, Typed
<1>2. \A x \in Orders : orders'[x] = IF x = o THEN new ELSE orders[x]
  BY <1>1
<1>3. orders' \in [Orders -> OrderType]
  BY <1>1
<1>4. ASSUME NEW x \in Orders PROVE RowOK(orders'[x], allocated'[x], ledger'[x], outs'[x])
  <2>1. CASE x = o
    BY <1>2, <2>1
  <2>2. CASE x # o
    BY <1>1, <1>2, <2>2 DEF Rows
  <2> QED
    BY <2>1, <2>2
<1> QED
  BY <1>2, <1>3, <1>4 DEF Rows

LEMMA PaymentsSame ==
    ASSUME OrdersInv, UNCHANGED <<payments, allocated>>,
           \A o \in Orders : orders'[o].status = "REFUNDED" <=> orders[o].status = "REFUNDED"
    PROVE  PaymentsOK' /\ \A i \in DOMAIN payments : Allocated(i)' = Allocated(i)
<1>1. ASSUME NEW i \in DOMAIN payments PROVE Allocated(i)' = Allocated(i)
  <2>1. Shares(i)' = Shares(i)
    BY DEF Shares
  <2> QED
    BY <2>1 DEF Allocated, Shares
<1>2. \A i \in DOMAIN payments : payments[i].of \in Orders \cup {0}
  BY AllocatedInt DEF Payment
<1>3. \A i \in DOMAIN payments : CreditOK(payments[i])'
  <2> SUFFICES ASSUME NEW i \in DOMAIN payments PROVE CreditOK(payments[i])'
    OBVIOUS
  <2>1. CreditOK(payments[i])
    BY DEF OrdersInv, PaymentsOK
  <2> QED
    BY <1>2, <2>1 DEF CreditOK
<1> QED
  BY <1>1, <1>3 DEF OrdersInv, PaymentsOK

LEMMA SumsSame ==
    ASSUME OrdersInv, UNCHANGED <<warehouse, outs, custody>>,
           \A o \in Orders, p \in Products : Held(orders'[o], p) = Held(orders[o], p)
    PROVE  SumsOK'
<1> SUFFICES ASSUME NEW p \in Products
             PROVE  (warehouse[p] + SumFunction(Taken(p)) = Stock[p] /\ custody[p] = SumFunction(Holding(p)))'
  BY DEF SumsOK
<1>1. Taken(p)' = Taken(p)
  BY DEF Taken
<1>2. Holding(p)' = Holding(p)
  BY DEF Holding
<1> QED
  BY <1>1, <1>2 DEF OrdersInv, SumsOK

(* A commit that changes nothing but an order. *)
LEMMA OrderOnly ==
    ASSUME OrdersInv, NEW c \in Clerks, Noted(c), OrdersStand(c),
           NEW o \in Orders, NEW new \in OrderType, orders' = [orders EXCEPT ![o] = new],
           UNCHANGED <<money, goods>>,
           RowOK(new, allocated[o], ledger[o], outs[o]),
           new.status # "REFUNDED", orders[o].status # "REFUNDED",
           \A p \in Products : Held(new, p) = Held(orders[o], p)
    PROVE  OrdersInv'
<1>1. UNCHANGED <<ledger, payments, allocated, warehouse, outs, custody>>
  BY DEF money, goods
<1>2. /\ Rows' /\ orders' \in [Orders -> OrderType]
      /\ \A x \in Orders : orders'[x] = IF x = o THEN new ELSE orders[x]
  BY <1>1, OneRow
<1>3. PaymentsOK' /\ \A i \in DOMAIN payments : Allocated(i)' = Allocated(i)
  BY <1>1, <1>2, PaymentsSame
<1>4. SumsOK'
  BY <1>1, <1>2, SumsSame
<1>5. MoneyStands(c)
  <2> SUFFICES ASSUME NEW tx \in Others(c), tx # NoTx PROVE SeesMoney(tx)'
    BY DEF MoneyStands
  <2>1. SeesMoney(tx)
    BY OtherSees
  <2> QED
    BY <1>1, <1>3, <2>1, SeesMoneySame
<1>6. NoRace' /\ \A d \in Clerks : Sees(pending[d])'
  BY <1>5, AllStand
<1>7. Typed'
  BY <1>1, <1>2 DEF OrdersInv, Typed, Noted
<1> QED
  BY <1>2, <1>3, <1>4, <1>6, <1>7 DEF OrdersInv

-----------------------------------------------------------------------------
(* Drafts, and what changes an order only. *)

(* What the clerk at work has read. *)
LEMMA SeesIts ==
    ASSUME OrdersInv, NEW c \in Clerks, NEW op \in Ops, In(c, op)
    PROVE  /\ pending[c] # NoTx /\ pending[c].op = op /\ pending[c].order \in Orders
           /\ pending[c].read \in OrderType
           /\ SeesOrder(pending[c], orders[pending[c].order]) /\ SeesMoney(pending[c])
<1>1. pending[c] # NoTx
  BY DEF In, NoTx, Ops
<1>2. Sees(pending[c])
  BY DEF OrdersInv
<1> QED
  BY <1>1, <1>2 DEF Sees, In

CartQty(cart) == [p \in Products |-> IF p \in DOMAIN cart THEN cart[p].qty ELSE 0]
CartCans(cart) == [p \in Products |-> IF p \in DOMAIN cart \cap Tracked
                                      THEN cart[p].cans ELSE 0]

LEMMA CartTyped ==
    ASSUME NEW cart \in Carts
    PROVE  /\ CartQty(cart) \in Quantity /\ CartCans(cart) \in Quantity
           /\ \A p \in Products : p \notin Tracked => CartCans(cart)[p] = 0
<1>1. \A p \in DOMAIN cart : cart[p].qty \in Nat /\ cart[p].cans \in Nat
  BY InputsAssumption
<1> QED
  BY <1>1 DEF CartQty, CartCans, Quantity

LEMMA LinedIs ==
    ASSUME NEW order \in OrderType, NEW cart \in Carts
    PROVE  /\ Lined(order, cart) \in OrderType
           /\ Lined(order, cart).qty = CartQty(cart)
           /\ Lined(order, cart).cans = CartCans(cart)
           /\ Lined(order, cart).delivered = Zero /\ Lined(order, cart).empties = Zero
           /\ Lined(order, cart).status = order.status /\ Lined(order, cart).extra = order.extra
           /\ Lined(order, cart).paid = order.paid
<1> DEFINE q == CartQty(cart)
           n == CartCans(cart)
           z == Zero
<1>1. Lined(order, cart) = [order EXCEPT !.qty = q, !.cans = n, !.delivered = z, !.empties = z]
  BY DEF Lined, CartQty, CartCans
<1>2. q \in Quantity /\ n \in Quantity /\ z \in Quantity
  BY CartTyped, Constants
<1> HIDE DEF q, n, z
<1>3. /\ Lined(order, cart) \in OrderType
      /\ Lined(order, cart).qty = q
      /\ Lined(order, cart).cans = n
      /\ Lined(order, cart).delivered = z /\ Lined(order, cart).empties = z
      /\ Lined(order, cart).status = order.status /\ Lined(order, cart).extra = order.extra
      /\ Lined(order, cart).paid = order.paid
  BY <1>1, <1>2 DEF OrderType
<1> QED
  BY <1>3 DEF q, n, z

(* A draft with new lines or another price. *)
LEMMA DraftRow ==
    ASSUME NEW new \in OrderType, NEW old \in OrderType, NEW alloc, NEW led, NEW out,
           RowOK(old, alloc, led, out),
           old.status \in {"NONE", "DRAFT"}, new.status = "DRAFT", new.paid = 0,
           new.total = TotalOf(new.qty, new.extra), new.due = AtLeast0(new.total - 0),
           new.payment = PaymentStatus(0, new.total),
           new.delivered = Zero, new.empties = Zero,
           \A p \in Products : p \notin Tracked => new.cans[p] = 0
    PROVE  RowOK(new, alloc, led, out)
<1>1. MoneyOK(old, alloc) /\ ChargeOK(old, led) /\ GoodsOK(old, out)
  BY DEF RowOK
<1>2. MoneyOK(new, alloc)
  <2>1. SumFunction(alloc) = 0
    BY <1>1 DEF MoneyOK, Open
  <2>2. new.total \in Nat /\ 0 \in Nat /\ 0 <= new.total
    BY OrderFields
  <2> QED
    BY <2>1, <2>2, PaidUp
<1>3. ChargeOK(new, led)
  BY <1>1 DEF ChargeOK, Payable
<1>4. GoodsOK(new, out)
  <2>1. out = Zero
    BY <1>1 DEF GoodsOK, Payable
  <2>2. new.qty \in Quantity
    BY OrderFields
  <2>3. \A p \in Products : Zero[p] = 0 /\ new.qty[p] \in Nat
    BY <2>2 DEF Zero, Quantity
  <2> QED
    BY <2>1, <2>3 DEF GoodsOK, Payable, Open
<1> QED
  BY <1>2, <1>3, <1>4 DEF RowOK

LEMMA HeldNothing ==
    ASSUME NEW order, order.delivered = Zero, NEW p \in Products PROVE Held(order, p) = 0
BY DEF Held, Zero

(* Nobody is at work on an order that does not exist. *)
LEMMA NobodyYet ==
    ASSUME OrdersInv, NEW c \in Clerks, NEW o \in Orders, orders[o].status = "NONE",
           NEW new, orders' = [orders EXCEPT ![o] = new]
    PROVE  OrdersStand(c)
<1> SUFFICES ASSUME NEW tx \in Others(c), tx # NoTx
             PROVE  SeesOrder(tx, orders'[tx.order])
  BY DEF OrdersStand
<1>1. tx.op \in Ops /\ tx.order \in Orders /\ SeesOrder(tx, orders[tx.order])
  BY OtherSees
<1>2. tx.order # o
  BY <1>1 DEF SeesOrder, Ops, Payable
<1>3. orders'[tx.order] = orders[tx.order]
  BY <1>1, <1>2 DEF OrdersInv, Typed
<1> QED
  BY <1>1, <1>3

LEMMA CreateStep ==
    ASSUME OrdersInv, NEW c \in Clerks, NEW o \in Orders, NEW cart \in Carts,
           NEW extra \in Extras, Create(c, o, cart, extra)
    PROVE  OrdersInv'
<1> DEFINE old == orders[o]
           base == [old EXCEPT !.status = "DRAFT", !.extra = extra]
           order == Lined(base, cart)
           total == TotalOf(order.qty, extra)
           new == Priced(order, total, 0)
<1>1. old \in OrderType /\ old.status = "NONE" /\ RowOK(old, allocated[o], ledger[o], outs[o])
  BY OrderRow DEF Create, RowOK
<1>2. base \in OrderType /\ base.status = "DRAFT" /\ base.extra = extra
  BY <1>1 DEF OrderType, Statuses
<1>3. orders' = [orders EXCEPT ![o] = new] /\ UNCHANGED <<money, goods, pending>>
  BY DEF Create
<1> HIDE DEF base
<1>4. /\ order \in OrderType /\ order.qty = CartQty(cart) /\ order.cans = CartCans(cart)
      /\ order.delivered = Zero /\ order.empties = Zero
      /\ order.status = "DRAFT" /\ order.extra = extra
  BY <1>2, LinedIs
<1>5. total \in Nat
  BY <1>4, OrderFields, Constants, TotalOfNat
<1> HIDE DEF order
<1>6. /\ new \in OrderType /\ new.total = total /\ new.paid = 0
      /\ new.due = AtLeast0(total - 0) /\ new.payment = PaymentStatus(0, total)
      /\ new.status = "DRAFT" /\ new.qty = order.qty /\ new.delivered = Zero
      /\ new.cans = order.cans /\ new.empties = Zero /\ new.extra = extra
  <2>1. 0 \in Nat
    OBVIOUS
  <2> HIDE DEF total
  <2> QED
    BY <1>4, <1>5, <2>1, PricedIs
<1>7. new.total = TotalOf(new.qty, new.extra)
  BY <1>6
<1>8. \A p \in Products : p \notin Tracked => new.cans[p] = 0
  BY <1>4, <1>6, CartTyped
<1> HIDE DEF new, total
<1>9. RowOK(new, allocated[o], ledger[o], outs[o])
  BY <1>1, <1>6, <1>7, <1>8, DraftRow
<1>10. OrdersStand(c)
  BY <1>1, <1>3, NobodyYet
<1>11. Noted(c)
  BY <1>3, FinishNoted DEF Create, MayStart, OrdersInv
<1>12. \A p \in Products : Held(new, p) = Held(old, p)
  <2>1. old.delivered = Zero
    BY <1>1 DEF RowOK, GoodsOK, Open
  <2> QED
    BY <1>6, <2>1, HeldNothing
<1>13. UNCHANGED <<money, goods>>
  BY <1>3
<1>14. new.status # "REFUNDED" /\ old.status # "REFUNDED"
  BY <1>1, <1>6
<1> QED
  BY <1>3, <1>6, <1>9, <1>10, <1>11, <1>12, <1>13, <1>14, OrderOnly

LEMMA CommitChargesStep ==
    ASSUME OrdersInv, Overwriting \subseteq Racing, NEW c \in Clerks, CommitCharges(c)
    PROVE  OrdersInv'
<1> DEFINE tx == pending[c]
           o == tx.order
           old == orders[o]
           total == TotalOf(tx.read.qty, tx.in)
           due == AtLeast0(total - tx.read.paid)
           status == PaymentStatus(tx.read.paid, total)
           new == [old EXCEPT !.extra = tx.in, !.total = total, !.due = due, !.payment = status]
<1>1. /\ tx # NoTx /\ tx.op = "charges" /\ o \in Orders /\ tx.read \in OrderType
      /\ SeesOrder(tx, old)
  BY SeesIts DEF CommitCharges, Ops
<1>2. /\ old.status = "DRAFT" /\ tx.read.paid = 0 /\ tx.read.qty = old.qty /\ tx.in \in Extras
  BY <1>1 DEF SeesOrder
<1>3. old \in OrderType /\ RowOK(old, allocated[o], ledger[o], outs[o]) /\ old.paid = 0
      /\ old.delivered = Zero /\ \A p \in Products : /\ old.empties[p] = 0
                                                     /\ p \notin Tracked => old.cans[p] = 0
  <2>1. old \in OrderType /\ RowOK(old, allocated[o], ledger[o], outs[o])
    BY <1>1, OrderRow DEF RowOK
  <2>2. old.paid = 0 /\ old.delivered = Zero
    BY <1>2, <2>1 DEF RowOK, MoneyOK, GoodsOK, Open
  <2> QED
    BY <2>1, <2>2 DEF RowOK, GoodsOK, Zero
<1>4. orders' = [orders EXCEPT ![o] = new] /\ UNCHANGED <<money, goods>> /\ Finish(c)
  BY DEF CommitCharges
<1>5. total \in Nat /\ tx.in \in Int /\ tx.in \in Extras \cup {0}
  BY <1>2, <1>3, OrderFields, Constants, TotalOfNat
<1>6. due \in Nat /\ status \in {"UNPAID", "PARTIALLY_PAID", "PAID"}
      /\ due = AtLeast0(total - 0) /\ status = PaymentStatus(0, total)
  <2>1. total - 0 \in Int
    BY <1>5
  <2> HIDE DEF total
  <2> QED
    BY <1>2, <2>1, AtLeast0Is, PaymentStatuses
<1>7. total = TotalOf(old.qty, tx.in)
  BY <1>2
<1> HIDE DEF total, due, status
<1>8. /\ new \in OrderType /\ new.total = total /\ new.paid = 0 /\ new.due = due
      /\ new.payment = status /\ new.status = "DRAFT" /\ new.qty = old.qty
      /\ new.delivered = old.delivered /\ new.cans = old.cans /\ new.empties = old.empties
      /\ new.extra = tx.in
  BY <1>2, <1>3, <1>5, <1>6 DEF OrderType
<1> HIDE DEF new
<1>9. RowOK(new, allocated[o], ledger[o], outs[o])
  <2>1. new.empties = Zero
    <3>1. new.empties \in Quantity /\ \A p \in Products : new.empties[p] = 0
      BY <1>3, <1>8, OrderFields
    <3> QED
      BY <3>1 DEF Quantity, Zero
  <2>2. new.total = TotalOf(new.qty, new.extra) /\ new.due = AtLeast0(new.total - 0)
        /\ new.payment = PaymentStatus(0, new.total)
    BY <1>6, <1>7, <1>8
  <2>3. \A p \in Products : p \notin Tracked => new.cans[p] = 0
    BY <1>3, <1>8
  <2>4. new.delivered = Zero
    BY <1>3, <1>8
  <2> HIDE DEF old
  <2> QED
    BY <1>2, <1>3, <1>8, <2>1, <2>2, <2>3, <2>4, DraftRow
<1>10. Passes(tx.op, old, new)
  <2> SUFFICES ASSUME NEW u, u.op \in Ops, SeesOrder(u, old), Apart("charges", u.op)
               PROVE  SeesOrder(u, new)
    BY <1>1 DEF Passes
  <2>1. u.op \in {"charges", "ship", "deliver", "pay", "apply", "refund"}
    BY DEF Apart, Ops
  <2>2. u.op = "charges"
    BY <1>2, <2>1, StatusSets DEF SeesOrder
  <2> QED
    BY <1>8, <2>2 DEF SeesOrder
<1>11. OrdersStand(c)
  BY <1>1, <1>4, <1>10, OthersPass
<1>12. Noted(c)
  BY <1>4, FinishNoted DEF OrdersInv
<1>13. \A p \in Products : Held(new, p) = Held(old, p)
  BY <1>3, <1>8, HeldNothing
<1>14. new.status # "REFUNDED" /\ old.status # "REFUNDED"
  BY <1>2, <1>8
<1> HIDE DEF old, o
<1> QED
  BY <1>1, <1>4, <1>8, <1>9, <1>11, <1>12, <1>13, <1>14, OrderOnly DEF old

(* Whatever others have read of the lines, they learn that they are gone. *)
LEMMA ReplaceNoted ==
    ASSUME OrdersInv, NEW c \in Clerks, ReplaceLines(c) PROVE Noted(c)
BY DEF ReplaceLines, Noted

LEMMA CommitItemsStep ==
    ASSUME OrdersInv, Overwriting \subseteq Racing, NEW c \in Clerks, CommitItems(c)
    PROVE  OrdersInv'
<1> DEFINE tx == pending[c]
           o == tx.order
           old == orders[o]
           base == Lined(old, tx.in)
           total == TotalOf(Lined(tx.read, tx.in).qty, tx.read.extra)
           due == AtLeast0(total - tx.read.paid)
           status == PaymentStatus(tx.read.paid, total)
           new == [base EXCEPT !.total = total, !.due = due, !.payment = status]
<1>1. /\ tx # NoTx /\ tx.op = "items" /\ o \in Orders /\ tx.read \in OrderType
      /\ SeesOrder(tx, old)
  BY SeesIts DEF CommitItems, Ops
<1>2. old.status = "DRAFT" /\ tx.read.paid = 0 /\ tx.read.extra = old.extra /\ tx.in \in Carts
  BY <1>1 DEF SeesOrder
<1>3. old \in OrderType /\ RowOK(old, allocated[o], ledger[o], outs[o])
      /\ old.paid = 0 /\ old.delivered = Zero
  <2>1. old \in OrderType /\ RowOK(old, allocated[o], ledger[o], outs[o])
    BY <1>1, OrderRow DEF RowOK
  <2> QED
    BY <1>2, <2>1 DEF RowOK, MoneyOK, GoodsOK, Open
<1>4. orders' = [orders EXCEPT ![o] = new] /\ UNCHANGED <<money, goods>> /\ ReplaceLines(c)
  BY DEF CommitItems
<1>5. /\ base \in OrderType /\ base.qty = CartQty(tx.in) /\ base.cans = CartCans(tx.in)
      /\ base.delivered = Zero /\ base.empties = Zero
      /\ base.status = "DRAFT" /\ base.extra = old.extra /\ base.paid = 0
  BY <1>2, <1>3, LinedIs
<1>6. total = TotalOf(base.qty, old.extra) /\ total \in Nat
  <2>1. Lined(tx.read, tx.in).qty = CartQty(tx.in)
    BY <1>1, <1>2, LinedIs
  <2>2. old.extra \in Int /\ CartQty(tx.in) \in Quantity
    BY <1>2, <1>3, OrderFields, CartTyped
  <2> QED
    BY <1>2, <1>5, <2>1, <2>2, TotalOfNat
<1>7. due \in Nat /\ status \in {"UNPAID", "PARTIALLY_PAID", "PAID"}
      /\ due = AtLeast0(total - 0) /\ status = PaymentStatus(0, total)
  <2>1. total - 0 \in Int
    BY <1>6
  <2> HIDE DEF total
  <2> QED
    BY <1>2, <2>1, AtLeast0Is, PaymentStatuses
<1> HIDE DEF total, due, status, base
<1>8. /\ new \in OrderType /\ new.total = total /\ new.paid = 0 /\ new.due = due
      /\ new.payment = status /\ new.status = "DRAFT" /\ new.qty = base.qty
      /\ new.delivered = Zero /\ new.cans = base.cans /\ new.empties = Zero
      /\ new.extra = old.extra
  BY <1>5, <1>6, <1>7 DEF OrderType
<1> HIDE DEF new
<1>9. RowOK(new, allocated[o], ledger[o], outs[o])
  <2>1. new.total = TotalOf(new.qty, new.extra) /\ new.due = AtLeast0(new.total - 0)
        /\ new.payment = PaymentStatus(0, new.total)
    BY <1>6, <1>7, <1>8
  <2>2. \A p \in Products : p \notin Tracked => new.cans[p] = 0
    BY <1>2, <1>5, <1>8, CartTyped
  <2> HIDE DEF old
  <2> QED
    BY <1>2, <1>3, <1>8, <2>1, <2>2, DraftRow
<1>10. Passes(tx.op, old, new)
  <2> SUFFICES ASSUME NEW u, u.op \in Ops, SeesOrder(u, old), Apart("items", u.op)
               PROVE  SeesOrder(u, new)
    BY <1>1 DEF Passes
  <2>1. u.op \in {"items", "ship", "deliver", "pay", "apply", "refund"}
    BY DEF Apart, Ops
  <2>2. u.op = "items"
    BY <1>2, <2>1, StatusSets DEF SeesOrder
  <2> QED
    BY <1>8, <2>2 DEF SeesOrder
<1>11. OrdersStand(c)
  BY <1>1, <1>4, <1>10, OthersPass
<1>12. Noted(c)
  BY <1>4, ReplaceNoted
<1>13. \A p \in Products : Held(new, p) = Held(old, p)
  BY <1>3, <1>8, HeldNothing
<1>14. new.status # "REFUNDED" /\ old.status # "REFUNDED"
  BY <1>2, <1>8
<1> HIDE DEF old, o
<1> QED
  BY <1>1, <1>4, <1>8, <1>9, <1>11, <1>12, <1>13, <1>14, OrderOnly DEF old

LEMMA CommitShipStep ==
    ASSUME OrdersInv, Overwriting \subseteq Racing, NEW c \in Clerks, CommitShip(c)
    PROVE  OrdersInv'
<1> DEFINE tx == pending[c]
           o == tx.order
           old == orders[o]
           new == [old EXCEPT !.status = "SHIPPED"]
<1>1. /\ tx # NoTx /\ tx.op = "ship" /\ o \in Orders /\ SeesOrder(tx, old)
  BY SeesIts DEF CommitShip, Ops
<1>2. old.status = "PLACED"
  BY <1>1 DEF SeesOrder
<1>3. old \in OrderType /\ RowOK(old, allocated[o], ledger[o], outs[o])
  BY <1>1, OrderRow DEF RowOK
<1>4. UNCHANGED <<money, goods>> /\ Finish(c)
  BY DEF CommitShip
<1>5. orders' = [orders EXCEPT ![o] = new]
  BY <1>1 DEF CommitShip, OrdersInv, Typed
<1>6. /\ new \in OrderType /\ new.total = old.total /\ new.paid = old.paid
      /\ new.due = old.due /\ new.payment = old.payment /\ new.status = "SHIPPED"
      /\ new.qty = old.qty /\ new.delivered = old.delivered /\ new.cans = old.cans
      /\ new.empties = old.empties /\ new.extra = old.extra
  BY <1>3 DEF OrderType, Statuses, Payable
<1> HIDE DEF new
<1>7. RowOK(new, allocated[o], ledger[o], outs[o])
  <2>1. MoneyOK(old, allocated[o]) /\ ChargeOK(old, ledger[o]) /\ GoodsOK(old, outs[o])
    BY <1>3 DEF RowOK
  <2>2. MoneyOK(new, allocated[o])
    BY <1>2, <1>6, <2>1 DEF MoneyOK, Open
  <2>3. ChargeOK(new, ledger[o])
    BY <1>2, <1>6, <2>1 DEF ChargeOK, Payable
  <2>4. GoodsOK(new, outs[o])
    BY <1>2, <1>6, <2>1 DEF GoodsOK, Payable
  <2> QED
    BY <2>2, <2>3, <2>4 DEF RowOK
<1>8. Passes(tx.op, old, new)
  <2> SUFFICES ASSUME NEW u, u.op \in Ops, SeesOrder(u, old), Apart("ship", u.op)
               PROVE  SeesOrder(u, new)
    BY <1>1 DEF Passes
  <2>1. u.op \in {"charges", "items", "place", "deliver", "pay", "apply"}
    BY DEF Apart, Ops
  <2>2. u.op \in {"pay", "apply"}
    BY <1>2, <2>1 DEF SeesOrder
  <2> QED
    BY <1>6, <2>2 DEF SeesOrder, Payable
<1>9. OrdersStand(c)
  BY <1>1, <1>5, <1>8, OthersPass
<1>10. Noted(c)
  BY <1>4, FinishNoted DEF OrdersInv
<1>11. \A p \in Products : Held(new, p) = Held(old, p)
  BY <1>6 DEF Held
<1>12. new.status # "REFUNDED" /\ old.status # "REFUNDED"
  BY <1>2, <1>6
<1> HIDE DEF old, o
<1> QED
  BY <1>1, <1>4, <1>5, <1>6, <1>7, <1>9, <1>10, <1>11, <1>12, OrderOnly DEF old

(* A step that only ends a request, or does nothing. *)
LEMMA IdleStep ==
    ASSUME OrdersInv, NEW c \in Clerks, UNCHANGED <<orders, money, goods>>,
           Finish(c) \/ (pending' = pending /\ pending[c] = NoTx)
    PROVE  OrdersInv'
<1>1. UNCHANGED <<orders, ledger, payments, allocated, warehouse, outs, custody>>
  BY DEF money, goods
<1>2. Noted(c)
  BY FinishNoted DEF OrdersInv
<1>3. Rows' /\ SumsOK'
  BY <1>1 DEF OrdersInv, Rows, SumsOK, Taken, Holding
<1>4. PaymentsOK' /\ \A i \in DOMAIN payments : Allocated(i)' = Allocated(i)
  BY <1>1, PaymentsSame
<1>5. OrdersStand(c)
  BY <1>1, OtherSees DEF OrdersStand
<1>6. MoneyStands(c)
  <2> SUFFICES ASSUME NEW tx \in Others(c), tx # NoTx PROVE SeesMoney(tx)'
    BY DEF MoneyStands
  <2>1. SeesMoney(tx)
    BY OtherSees
  <2> QED
    BY <1>1, <1>4, <2>1, SeesMoneySame
<1>7. NoRace' /\ \A d \in Clerks : Sees(pending[d])'
  BY <1>2, <1>5, <1>6, AllStand
<1>8. Typed'
  BY <1>1, <1>2 DEF OrdersInv, Typed, Noted
<1> QED
  BY <1>3, <1>4, <1>7, <1>8 DEF OrdersInv

-----------------------------------------------------------------------------
(* Fulfilment: what moves goods and charges, and no payments. *)
LEMMA SumAt ==
    ASSUME NEW f, NEW g, NEW o \in Orders, f = [x \in Orders |-> f[x]],
           g = [x \in Orders |-> g[x]], \A x \in Orders : f[x] \in Int, g[o] \in Int,
           \A x \in Orders : x # o => g[x] = f[x]
    PROVE  SumFunction(g) = SumFunction(f) - f[o] + g[o] /\ SumFunction(f) \in Int
<1>1. DOMAIN f = Orders /\ DOMAIN g = Orders /\ IsFiniteSet(DOMAIN f)
  BY Constants
<1> QED
  BY <1>1, TotalChange

LEMMA SumTerms ==
    ASSUME Typed, NEW p \in Products
    PROVE  \A o \in Orders : Taken(p)[o] \in Nat /\ Holding(p)[o] \in Int
<1> SUFFICES ASSUME NEW o \in Orders PROVE Taken(p)[o] \in Nat /\ Holding(p)[o] \in Int
  OBVIOUS
<1>1. outs[o] \in Quantity /\ orders[o] \in OrderType
  BY DEF Typed
<1>2. outs[o][p] \in Nat /\ orders[o].cans[p] \in Nat /\ orders[o].empties[p] \in Nat
  BY <1>1, OrderFields, QuantityIs
<1> QED
  BY <1>2 DEF Taken, Holding, Held

(* The movements of one order change by as much as the warehouse. *)
LEMMA TakenChange ==
    ASSUME Typed, NEW p \in Products, NEW o \in Orders, outs'[o][p] \in Nat,
           \A x \in Orders : x # o => outs'[x] = outs[x],
           warehouse'[p] = warehouse[p] + outs[o][p] - outs'[o][p],
           warehouse[p] + SumFunction(Taken(p)) = Stock[p]
    PROVE  warehouse'[p] + SumFunction(Taken(p))' = Stock[p]
<1> DEFINE f == Taken(p)
           g == Taken(p)'
<1>1. \A x \in Orders : f[x] \in Int
  BY SumTerms
<1>2. /\ f = [x \in Orders |-> f[x]] /\ g = [x \in Orders |-> g[x]]
      /\ f[o] = outs[o][p] /\ g[o] = outs'[o][p]
      /\ \A x \in Orders : x # o => g[x] = f[x]
  BY DEF Taken
<1>3. g[o] \in Int
  BY <1>2
<1> HIDE DEF f, g
<1>4. SumFunction(g) = SumFunction(f) - f[o] + g[o] /\ SumFunction(f) \in Int
  BY <1>1, <1>2, <1>3, SumAt
<1>5. warehouse[p] \in Int
  BY DEF Typed, Quantity
<1>6. warehouse[p] + SumFunction(f) = Stock[p]
  BY DEF f
<1>7. warehouse'[p] + SumFunction(g) = Stock[p]
  BY <1>1, <1>2, <1>3, <1>4, <1>5, <1>6
<1> QED
  BY <1>7 DEF g

(* What is held for one order changes by as much as the customer holds. *)
LEMMA HoldingChange ==
    ASSUME Typed, NEW p \in Products, NEW o \in Orders, Held(orders'[o], p) \in Int,
           \A x \in Orders : x # o => orders'[x] = orders[x],
           custody'[p] = custody[p] - Held(orders[o], p) + Held(orders'[o], p),
           custody[p] = SumFunction(Holding(p))
    PROVE  custody'[p] = SumFunction(Holding(p))'
<1> DEFINE f == Holding(p)
           g == Holding(p)'
<1>1. \A x \in Orders : f[x] \in Int
  BY SumTerms
<1>2. /\ f = [x \in Orders |-> f[x]] /\ g = [x \in Orders |-> g[x]]
      /\ f[o] = Held(orders[o], p) /\ g[o] = Held(orders'[o], p)
      /\ \A x \in Orders : x # o => g[x] = f[x]
  BY DEF Holding
<1>3. g[o] \in Int /\ f[o] \in Int
  BY <1>1, <1>2
<1> HIDE DEF f, g
<1>4. SumFunction(g) = SumFunction(f) - f[o] + g[o] /\ SumFunction(f) \in Int
  BY <1>1, <1>2, <1>3, SumAt
<1>5. custody[p] = SumFunction(f)
  BY DEF f
<1>6. custody'[p] = SumFunction(g)
  BY <1>2, <1>3, <1>4, <1>5
<1> QED
  BY <1>6 DEF g

(* A commit that leaves the payments and what others have read alone. *)
LEMMA GoodsCommit ==
    ASSUME OrdersInv, NEW c \in Clerks, Finish(c), OrdersStand(c),
           NEW o \in Orders, NEW new \in OrderType, orders' = [orders EXCEPT ![o] = new],
           UNCHANGED <<payments, allocated>>,
           RowOK(new, allocated[o], ledger'[o], outs'[o]),
           \A x \in Orders \ {o} : ledger'[x] = ledger[x] /\ outs'[x] = outs[x],
           new.status # "REFUNDED", orders[o].status # "REFUNDED",
           ledger' \in [Orders -> [sold : Nat, charged : Int]],
           warehouse' \in Quantity, outs' \in [Orders -> Quantity],
           custody' \in [Products -> Int], SumsOK'
    PROVE  OrdersInv'
<1>1. Noted(c)
  BY FinishNoted DEF OrdersInv
<1>2. /\ Rows' /\ orders' \in [Orders -> OrderType]
      /\ \A x \in Orders : orders'[x] = IF x = o THEN new ELSE orders[x]
  BY OneRow
<1>3. PaymentsOK' /\ \A i \in DOMAIN payments : Allocated(i)' = Allocated(i)
  BY <1>2, PaymentsSame
<1>4. MoneyStands(c)
  <2> SUFFICES ASSUME NEW tx \in Others(c), tx # NoTx PROVE SeesMoney(tx)'
    BY DEF MoneyStands
  <2>1. SeesMoney(tx)
    BY OtherSees
  <2> QED
    BY <1>3, <2>1, SeesMoneySame
<1>5. NoRace' /\ \A d \in Clerks : Sees(pending[d])'
  BY <1>1, <1>4, AllStand
<1>6. Typed'
  BY <1>1, <1>2 DEF OrdersInv, Typed, Noted
<1> QED
  BY <1>2, <1>3, <1>5, <1>6 DEF OrdersInv

LEMMA Debited ==
    ASSUME NEW l \in [sold : Nat, charged : Int], l.sold = 0, l.charged = 0, NEW t \in Nat,
           NEW led, led = [l EXCEPT !.sold = @ + t, !.charged = @ + t]
    PROVE  led \in [sold : Nat, charged : Int] /\ led.sold = t /\ led.charged = t
<1>1. l.sold + t = t /\ l.charged + t = t
  OBVIOUS
<1>2. led = [l EXCEPT !.sold = t, !.charged = t]
  BY <1>1
<1>3. l = [sold |-> l.sold, charged |-> l.charged] /\ t \in Int
  OBVIOUS
<1>4. led = [sold |-> t, charged |-> t]
  BY <1>2, <1>3
<1> QED
  BY <1>3, <1>4

LEMMA CommitPlaceStep ==
    ASSUME OrdersInv, Overwriting \subseteq Racing, NEW c \in Clerks, CommitPlace(c)
    PROVE  OrdersInv'
<1> DEFINE tx == pending[c]
           o == tx.order
           old == orders[o]
           total == TotalOf(tx.read.qty, tx.read.extra)
           due == AtLeast0(total - tx.read.paid)
           status == PaymentStatus(tx.read.paid, total)
           new == [old EXCEPT !.status = "PLACED", !.total = total, !.due = due,
                              !.payment = status]
           led == [ledger[o] EXCEPT !.sold = @ + total, !.charged = @ + total]
           q == tx.read.qty
<1>1. /\ tx # NoTx /\ tx.op = "place" /\ o \in Orders /\ SeesOrder(tx, old)
  BY SeesIts DEF CommitPlace, Ops
<1>2. old.status = "DRAFT" /\ tx.read.paid = 0 /\ q = old.qty /\ tx.read.extra = old.extra
  BY <1>1 DEF SeesOrder
<1>3. /\ old \in OrderType /\ MoneyOK(old, allocated[o]) /\ ChargeOK(old, ledger[o])
      /\ GoodsOK(old, outs[o])
  BY <1>1, OrderRow
<1>4. /\ old.paid = 0 /\ old.total = total /\ total \in Nat /\ q \in Quantity
  <2>1. old.paid = 0 /\ old.total = total
    BY <1>2, <1>3 DEF MoneyOK, Open
  <2> QED
    BY <1>2, <1>3, <2>1, OrderFields
<1>5. due = AtLeast0(total - 0) /\ status = PaymentStatus(0, total) /\ due \in Nat
      /\ status \in {"UNPAID", "PARTIALLY_PAID", "PAID"}
  <2>1. total - 0 \in Int
    BY <1>4
  <2> HIDE DEF total
  <2> QED
    BY <1>2, <2>1, AtLeast0Is, PaymentStatuses
<1>6. /\ orders' = [orders EXCEPT ![o] = new] /\ Finish(c)
      /\ UNCHANGED <<payments, allocated, custody>> /\ TakeOut(o, q)
      /\ ledger' = [ledger EXCEPT ![o].sold = @ + total, ![o].charged = @ + total]
  BY DEF CommitPlace
<1> HIDE DEF total, due, status
<1>7. /\ new \in OrderType /\ new.total = total /\ new.paid = 0 /\ new.due = due
      /\ new.payment = status /\ new.status = "PLACED" /\ new.qty = old.qty
      /\ new.delivered = old.delivered /\ new.cans = old.cans /\ new.empties = old.empties
      /\ new.extra = old.extra
  BY <1>3, <1>4, <1>5, ZenonT(60) DEF OrderType, Statuses, Payable
<1> HIDE DEF new
<1>8. /\ ledger' \in [Orders -> [sold : Nat, charged : Int]]
      /\ ledger'[o].sold = total /\ ledger'[o].charged = total
      /\ \A x \in Orders \ {o} : ledger'[x] = ledger[x]
  <2>1. ledger[o] \in [sold : Nat, charged : Int] /\ ledger[o].sold = 0 /\ ledger[o].charged = 0
    BY <1>1, <1>2, <1>3 DEF ChargeOK, Payable, OrdersInv, Typed
  <2>2. ledger' = [ledger EXCEPT ![o] = led]
    BY <1>1, <1>6, <2>1 DEF OrdersInv, Typed
  <2>3. led \in [sold : Nat, charged : Int] /\ led.sold = total /\ led.charged = total
    <3>1. total \in Nat
      BY <1>4
    <3> QED
      BY <2>1, <3>1, Debited
  <2> HIDE DEF led
  <2> QED
    BY <1>1, <2>2, <2>3 DEF OrdersInv, Typed
<1>9. outs[o] = Zero
  BY <1>2, <1>3 DEF GoodsOK, Payable
<1>10. /\ outs' \in [Orders -> Quantity] /\ outs'[o] = q
       /\ \A x \in Orders \ {o} : outs'[x] = outs[x]
  <2>1. [p \in Products |-> outs[o][p] + q[p]] = q
    <3>1. \A p \in Products : outs[o][p] + q[p] = q[p]
      BY <1>4, <1>9 DEF Zero, Quantity
    <3> QED
      BY <1>4, <3>1 DEF Quantity
  <2>2. outs' = [outs EXCEPT ![o] = q]
    BY <1>1, <1>6, <2>1 DEF TakeOut, OrdersInv, Typed
  <2> QED
    BY <1>1, <1>4, <2>2 DEF OrdersInv, Typed
<1>11. warehouse' \in Quantity /\ \A p \in Products : warehouse'[p] = warehouse[p] - q[p]
  <2>1. warehouse' = [p \in Products |-> warehouse[p] - q[p]]
        /\ \A p \in Products : q[p] <= warehouse[p]
    BY <1>6 DEF TakeOut
  <2>2. \A p \in Products : q[p] \in Nat /\ warehouse[p] \in Nat
    BY <1>4 DEF OrdersInv, Typed, Quantity
  <2> QED
    BY <2>1, <2>2 DEF Quantity
<1>12. RowOK(new, allocated[o], ledger'[o], outs'[o])
  <2>1. MoneyOK(new, allocated[o])
    <3>1. SumFunction(allocated[o]) = 0 /\ total = TotalOf(new.qty, new.extra)
      BY <1>2, <1>3, <1>4, <1>7 DEF MoneyOK
    <3>2. new.status \notin Open /\ 0 \in Nat /\ 0 <= total
      BY <1>4, <1>7 DEF Open
    <3> QED
      BY <1>4, <1>5, <1>7, <3>1, <3>2, PaidUp
  <2>2. ChargeOK(new, ledger'[o])
    BY <1>7, <1>8 DEF ChargeOK, Payable
  <2>3. GoodsOK(new, outs'[o])
    BY <1>2, <1>3, <1>7, <1>10 DEF GoodsOK, Payable, Open
  <2> QED
    BY <2>1, <2>2, <2>3 DEF RowOK
<1>13. OrdersStand(c)
  <2>1. Passes(tx.op, old, new)
    <3> SUFFICES ASSUME NEW u, u.op \in Ops, SeesOrder(u, old), Apart("place", u.op)
                 PROVE  SeesOrder(u, new)
      BY <1>1 DEF Passes
    <3>1. u.op \in {"ship", "deliver", "pay", "apply", "refund"}
      BY DEF Apart, Ops
    <3> QED
      BY <1>2, <3>1, StatusSets DEF SeesOrder
  <2> QED
    BY <1>1, <1>6, <2>1, OthersPass
<1>14. SumsOK'
  <2> SUFFICES ASSUME NEW p \in Products
               PROVE  /\ warehouse'[p] + SumFunction(Taken(p))' = Stock[p]
                      /\ custody'[p] = SumFunction(Holding(p))'
    BY DEF SumsOK
  <2>1. /\ warehouse[p] + SumFunction(Taken(p)) = Stock[p]
        /\ custody[p] = SumFunction(Holding(p)) /\ Typed
    BY DEF OrdersInv, SumsOK
  <2>2. warehouse[p] \in Nat /\ outs[o][p] = 0 /\ outs'[o][p] = q[p] /\ q[p] \in Nat
    BY <1>4, <1>9, <1>10, <2>1, QuantityIs DEF Typed, Zero
  <2>3. warehouse'[p] = warehouse[p] + outs[o][p] - outs'[o][p]
    BY <1>11, <2>2
  <2>4. warehouse'[p] + SumFunction(Taken(p))' = Stock[p]
    BY <1>1, <1>10, <2>1, <2>2, <2>3, TakenChange
  <2>5. \A x \in Orders : Held(orders'[x], p) = Held(orders[x], p)
    <3>1. Held(new, p) = Held(old, p)
      BY <1>7 DEF Held
    <3>2. \A x \in Orders : orders'[x] = IF x = o THEN new ELSE orders[x]
      BY <1>6, <2>1 DEF Typed
    <3> QED
      BY <3>1, <3>2
  <2>6. Holding(p)' = Holding(p)
    BY <2>5 DEF Holding
  <2> QED
    BY <1>6, <2>1, <2>4, <2>6
<1>15. custody' \in [Products -> Int]
  BY <1>6 DEF OrdersInv, Typed
<1>16. new.status # "REFUNDED" /\ old.status # "REFUNDED"
  BY <1>2, <1>7
<1> HIDE DEF old, o
<1> QED
  BY <1>1, <1>6, <1>7, <1>8, <1>10, <1>11, <1>12, <1>13, <1>14, <1>15, <1>16, GoodsCommit,
     ZenonT(60) DEF old


(* What a handoff makes of the lines. *)
LEMMA HandoffTyped ==
    ASSUME NEW h \in Handoffs
    PROVE  /\ DOMAIN h \subseteq Products /\ DOMAIN h # {}
           /\ \A p \in DOMAIN h : h[p].qty \in Nat \ {0} /\ h[p].cans \in Nat /\ h[p].empties \in Nat
BY InputsAssumption

LEMMA DeliveredIs ==
    ASSUME NEW order \in OrderType, NEW h \in Handoffs, NEW next, next = Delivered(order, h)
    PROVE  /\ next.delivered \in Quantity /\ next.cans \in Quantity /\ next.empties \in Quantity
           /\ next.qty = order.qty
           /\ \A p \in Products :
                 /\ next.delivered[p] = IF p \in DOMAIN h THEN order.delivered[p] + h[p].qty
                                        ELSE order.delivered[p]
                 /\ next.cans[p] = IF p \notin DOMAIN h \cap Tracked THEN order.cans[p]
                                   ELSE IF order.delivered[p] = 0 THEN h[p].cans
                                   ELSE order.cans[p] + h[p].cans
                 /\ next.empties[p] = IF p \in DOMAIN h \cap Tracked
                                      THEN order.empties[p] + h[p].empties ELSE order.empties[p]
<1> DEFINE d == [p \in Products |-> IF p \in DOMAIN h THEN order.delivered[p] + h[p].qty
                                    ELSE order.delivered[p]]
           n == [p \in Products |-> IF p \notin DOMAIN h \cap Tracked THEN order.cans[p]
                                    ELSE IF order.delivered[p] = 0 THEN h[p].cans
                                    ELSE order.cans[p] + h[p].cans]
           e == [p \in Products |-> IF p \in DOMAIN h \cap Tracked
                                    THEN order.empties[p] + h[p].empties ELSE order.empties[p]]
<1>1. next = [order EXCEPT !.delivered = d, !.cans = n, !.empties = e]
  BY DEF Delivered, OrderType
<1>2. /\ order.delivered \in Quantity /\ order.cans \in Quantity /\ order.empties \in Quantity
      /\ \A p \in DOMAIN h : h[p].qty \in Nat /\ h[p].cans \in Nat /\ h[p].empties \in Nat
  BY OrderFields, HandoffTyped
<1>3. d \in Quantity
  BY <1>2 DEF Quantity
<1>4. n \in Quantity
  BY <1>2 DEF Quantity
<1>5. e \in Quantity
  BY <1>2 DEF Quantity
<1>6. next.delivered = d /\ next.cans = n /\ next.empties = e /\ next.qty = order.qty
  <2> HIDE DEF d, n, e
  <2> QED
    BY <1>1 DEF OrderType
<1> QED
  BY <1>3, <1>4, <1>5, <1>6

(* The goods and the status after a handoff. *)
LEMMA HandedOver ==
    ASSUME NEW old \in OrderType, NEW new \in OrderType, NEW h \in Handoffs, NEW out,
           GoodsOK(old, out), old.status \in {"SHIPPED", "PARTIALLY_DELIVERED"},
           \A p \in DOMAIN h : /\ old.qty[p] > 0
                               /\ old.delivered[p] + h[p].qty <= old.qty[p],
           new.qty = old.qty,
           \A p \in Products :
              /\ new.delivered[p] = IF p \in DOMAIN h THEN old.delivered[p] + h[p].qty
                                    ELSE old.delivered[p]
              /\ new.cans[p] = IF p \notin DOMAIN h \cap Tracked THEN old.cans[p]
                               ELSE IF old.delivered[p] = 0 THEN h[p].cans
                               ELSE old.cans[p] + h[p].cans
              /\ new.empties[p] = IF p \in DOMAIN h \cap Tracked
                                  THEN old.empties[p] + h[p].empties ELSE old.empties[p],
           new.status = Fulfilment(new)
    PROVE  /\ GoodsOK(new, out) /\ new.status \in {"PARTIALLY_DELIVERED", "DELIVERED"}
           /\ \A p \in Products : Held(new, p) - Held(old, p)
                 = IF p \in DOMAIN h \cap Tracked THEN h[p].cans - h[p].empties ELSE 0
<1>1. /\ old.qty \in Quantity /\ old.delivered \in Quantity /\ old.cans \in Quantity
      /\ old.empties \in Quantity /\ new.delivered \in Quantity
      /\ new.cans \in Quantity /\ new.empties \in Quantity
  BY OrderFields
<1>2. \A p \in Products : /\ old.qty[p] \in Nat /\ old.delivered[p] \in Nat
                          /\ old.cans[p] \in Nat /\ old.empties[p] \in Nat
                          /\ new.delivered[p] \in Nat
  BY <1>1 DEF Quantity
<1>3. new.status \in {"PARTIALLY_DELIVERED", "DELIVERED"}
  BY DEF Fulfilment
<1>4. \A p \in Products : /\ new.delivered[p] <= new.qty[p]
                          /\ old.delivered[p] <= old.qty[p]
                          /\ old.delivered[p] = 0 => old.empties[p] = 0
                          /\ p \notin Tracked => old.cans[p] = 0 /\ old.empties[p] = 0
  BY <1>2 DEF GoodsOK
<1>5. \A p \in DOMAIN h : new.delivered[p] > 0
  BY <1>2, HandoffTyped
<1>6. /\ \A p \in Products : new.delivered[p] = 0 => new.empties[p] = 0
      /\ \A p \in Products : p \notin Tracked => new.cans[p] = 0 /\ new.empties[p] = 0
  BY <1>4, <1>5
<1>7. new.status = "DELIVERED" => new.delivered = new.qty
  <2> SUFFICES ASSUME new.status = "DELIVERED" PROVE new.delivered = new.qty
    OBVIOUS
  <2>1. \A p \in Products : new.delivered[p] >= new.qty[p]
    BY DEF Fulfilment
  <2>2. \A p \in Products : new.delivered[p] = new.qty[p]
    BY <1>2, <1>4, <2>1
  <2> QED
    BY <1>1, <2>2 DEF Quantity
<1>8. new.status = "PARTIALLY_DELIVERED" => new.delivered \notin {Zero, new.qty}
  <2> SUFFICES ASSUME new.status = "PARTIALLY_DELIVERED"
               PROVE  new.delivered # Zero /\ new.delivered # new.qty
    OBVIOUS
  <2>1. new.delivered # Zero
    <3>1. PICK p \in DOMAIN h : TRUE
      BY HandoffTyped
    <3>2. p \in Products /\ new.delivered[p] > 0
      BY <1>5, HandoffTyped
    <3> QED
      BY <3>2 DEF Zero
  <2>2. new.delivered # new.qty
    <3>1. PICK p \in Products : ~(new.delivered[p] >= new.qty[p])
      BY DEF Fulfilment
    <3> QED
      BY <1>2, <3>1
  <2> QED
    BY <2>1, <2>2
<1>9. out = old.qty
  BY DEF GoodsOK, Payable
<1>10. GoodsOK(new, out)
  BY <1>3, <1>4, <1>6, <1>7, <1>8, <1>9 DEF GoodsOK, Payable, Open
<1>11. ASSUME NEW p \in Products
       PROVE  Held(new, p) - Held(old, p)
                 = IF p \in DOMAIN h \cap Tracked THEN h[p].cans - h[p].empties ELSE 0
  <2>1. CASE p \in DOMAIN h \cap Tracked /\ old.delivered[p] = 0
    <3>1. Held(old, p) = 0
      BY <2>1 DEF Held
    <3>2. h[p].cans \in Nat /\ h[p].empties \in Nat /\ old.empties[p] = 0
      BY <1>4, <2>1, HandoffTyped
    <3>3. new.delivered[p] # 0 /\ new.cans[p] = h[p].cans /\ new.empties[p] = h[p].empties
      BY <1>2, <1>5, <2>1, <3>2
    <3> QED
      BY <2>1, <3>1, <3>2, <3>3 DEF Held
  <2>2. CASE p \in DOMAIN h \cap Tracked /\ old.delivered[p] # 0
    <3>1. Held(old, p) = old.cans[p] - old.empties[p]
      BY <2>2 DEF Held
    <3>2. h[p].cans \in Nat /\ h[p].empties \in Nat
      BY <2>2, HandoffTyped
    <3>3. new.delivered[p] # 0 /\ new.cans[p] = old.cans[p] + h[p].cans
          /\ new.empties[p] = old.empties[p] + h[p].empties
      BY <1>2, <1>5, <2>2
    <3>4. Held(new, p) = new.cans[p] - new.empties[p]
      BY <3>3 DEF Held
    <3> QED
      BY <1>2, <2>2, <3>1, <3>2, <3>3, <3>4
  <2>3. CASE p \in DOMAIN h /\ p \notin Tracked
    <3>1. old.cans[p] = 0 /\ old.empties[p] = 0 /\ new.cans[p] = 0 /\ new.empties[p] = 0
      BY <1>4, <1>6, <2>3
    <3> QED
      BY <2>3, <3>1 DEF Held
  <2>4. CASE p \notin DOMAIN h
    <3>1. /\ new.delivered[p] = old.delivered[p] /\ new.cans[p] = old.cans[p]
          /\ new.empties[p] = old.empties[p]
      BY <2>4
    <3>2. Held(new, p) = Held(old, p) /\ Held(old, p) \in Int
      BY <1>2, <3>1 DEF Held
    <3> QED
      BY <2>4, <3>2
  <2> QED
    BY <2>1, <2>2, <2>3, <2>4
<1> QED
  BY <1>3, <1>10, <1>11

LEMMA CommitDeliverStep ==
    ASSUME OrdersInv, Overwriting \subseteq Racing, NEW c \in Clerks, CommitDeliver(c)
    PROVE  OrdersInv'
<1> DEFINE tx == pending[c]
           o == tx.order
           h == tx.in
           old == orders[o]
           next == Delivered(tx.read, h)
           status == IF Fulfilment(next) # tx.read.status THEN Fulfilment(next) ELSE old.status
           new == [old EXCEPT !.delivered = next.delivered, !.cans = next.cans,
                              !.empties = next.empties, !.status = status]
<1>1. /\ tx # NoTx /\ tx.op = "deliver" /\ o \in Orders /\ SeesOrder(tx, old)
      /\ tx.read \in OrderType
  BY SeesIts DEF CommitDeliver, Ops
<1>2. /\ old.status \in {"SHIPPED", "PARTIALLY_DELIVERED"} /\ tx.read.status = old.status
      /\ tx.read.qty = old.qty /\ tx.read.delivered = old.delivered
      /\ tx.read.cans = old.cans /\ tx.read.empties = old.empties /\ h \in Handoffs
      /\ \A p \in DOMAIN h : old.qty[p] > 0 /\ old.delivered[p] + h[p].qty <= old.qty[p]
  BY <1>1 DEF SeesOrder
<1>3. /\ old \in OrderType /\ MoneyOK(old, allocated[o]) /\ ChargeOK(old, ledger[o])
      /\ GoodsOK(old, outs[o])
  BY <1>1, OrderRow
<1>4. /\ orders' = [orders EXCEPT ![o] = new] /\ Finish(c)
      /\ UNCHANGED <<ledger, payments, allocated, warehouse, outs>>
      /\ custody' = [p \in Products |-> IF p \in DOMAIN h \cap Tracked
                                        THEN custody[p] + h[p].cans - h[p].empties
                                        ELSE custody[p]]
  <2>1. orders' = [orders EXCEPT ![o] = new]
    BY DEF CommitDeliver
  <2>2. custody' = [p \in Products |-> IF p \in DOMAIN h \cap Tracked
                                       THEN custody[p] + h[p].cans - h[p].empties
                                       ELSE custody[p]]
    BY DEF CommitDeliver
  <2>3. Finish(c) /\ UNCHANGED <<ledger, payments, allocated, warehouse, outs>>
    BY DEF CommitDeliver, money
  <2> QED
    BY <2>1, <2>2, <2>3
<1>5. /\ next.delivered \in Quantity /\ next.cans \in Quantity /\ next.empties \in Quantity
      /\ next.qty = old.qty
      /\ \A p \in Products :
            /\ next.delivered[p] = IF p \in DOMAIN h THEN old.delivered[p] + h[p].qty
                                   ELSE old.delivered[p]
            /\ next.cans[p] = IF p \notin DOMAIN h \cap Tracked THEN old.cans[p]
                              ELSE IF old.delivered[p] = 0 THEN h[p].cans
                              ELSE old.cans[p] + h[p].cans
            /\ next.empties[p] = IF p \in DOMAIN h \cap Tracked
                                 THEN old.empties[p] + h[p].empties ELSE old.empties[p]
  <2>1. PICK n : n = next
    OBVIOUS
  <2>3. tx.read \in OrderType /\ h \in Handoffs /\ n = Delivered(tx.read, h)
    BY <1>1, <1>2, <2>1
  <2> HIDE DEF next, tx, h
  <2>2. /\ n.delivered \in Quantity /\ n.cans \in Quantity /\ n.empties \in Quantity
        /\ n.qty = tx.read.qty
        /\ \A p \in Products :
              /\ n.delivered[p] = IF p \in DOMAIN h THEN tx.read.delivered[p] + h[p].qty
                                  ELSE tx.read.delivered[p]
              /\ n.cans[p] = IF p \notin DOMAIN h \cap Tracked THEN tx.read.cans[p]
                             ELSE IF tx.read.delivered[p] = 0 THEN h[p].cans
                             ELSE tx.read.cans[p] + h[p].cans
              /\ n.empties[p] = IF p \in DOMAIN h \cap Tracked
                                THEN tx.read.empties[p] + h[p].empties ELSE tx.read.empties[p]
    BY <2>3, DeliveredIs
  <2> QED
    BY <1>2, <2>1, <2>2
<1>6. status = Fulfilment(next) /\ Fulfilment(next) \in {"PARTIALLY_DELIVERED", "DELIVERED"}
  BY <1>2 DEF Fulfilment
<1> HIDE DEF next, status
<1>7. /\ new \in OrderType /\ new.total = old.total /\ new.paid = old.paid
      /\ new.due = old.due /\ new.payment = old.payment /\ new.status = status
      /\ new.qty = old.qty /\ new.delivered = next.delivered /\ new.cans = next.cans
      /\ new.empties = next.empties /\ new.extra = old.extra
  BY <1>3, <1>5, <1>6 DEF OrderType, Statuses, Payable
<1>8. new.status = Fulfilment(new)
  BY <1>5, <1>6, <1>7 DEF Fulfilment
<1> HIDE DEF new
<1>9. /\ GoodsOK(new, outs[o]) /\ new.status \in {"PARTIALLY_DELIVERED", "DELIVERED"}
      /\ \A p \in Products : Held(new, p) - Held(old, p)
            = IF p \in DOMAIN h \cap Tracked THEN h[p].cans - h[p].empties ELSE 0
  <2>1. \A p \in Products :
           /\ new.delivered[p] = IF p \in DOMAIN h THEN old.delivered[p] + h[p].qty
                                 ELSE old.delivered[p]
           /\ new.cans[p] = IF p \notin DOMAIN h \cap Tracked THEN old.cans[p]
                            ELSE IF old.delivered[p] = 0 THEN h[p].cans
                            ELSE old.cans[p] + h[p].cans
           /\ new.empties[p] = IF p \in DOMAIN h \cap Tracked
                               THEN old.empties[p] + h[p].empties ELSE old.empties[p]
    BY <1>5, <1>7
  <2> HIDE DEF old, h, o
  <2> QED
    BY <1>2, <1>3, <1>7, <1>8, <2>1, HandedOver
<1>10. RowOK(new, allocated[o], ledger'[o], outs'[o])
  <2>1. MoneyOK(new, allocated[o])
    BY <1>2, <1>3, <1>7, <1>9 DEF MoneyOK, Open
  <2>2. ChargeOK(new, ledger[o])
    BY <1>2, <1>3, <1>7, <1>9 DEF ChargeOK, Payable
  <2> QED
    BY <1>4, <1>9, <2>1, <2>2 DEF RowOK
<1>11. OrdersStand(c)
  <2>1. Passes(tx.op, old, new)
    <3> SUFFICES ASSUME NEW u, u.op \in Ops, SeesOrder(u, old), Apart("deliver", u.op)
                 PROVE  SeesOrder(u, new)
      BY <1>1 DEF Passes
    <3>1. u.op \in {"charges", "items", "place", "ship", "cancel", "pay", "apply"}
      BY DEF Apart, Ops
    <3>2. u.op \in {"pay", "apply"}
      BY <1>2, <3>1 DEF SeesOrder
    <3>3. new.status \in Payable
      BY <1>9 DEF Payable
    <3> QED
      BY <1>7, <3>2, <3>3 DEF SeesOrder
  <2> QED
    BY <1>1, <1>4, <2>1, OthersPass
<1>12. custody' \in [Products -> Int]
  BY <1>2, <1>4, HandoffTyped DEF OrdersInv, Typed
<1>13. SumsOK'
  <2> SUFFICES ASSUME NEW p \in Products
               PROVE  /\ warehouse'[p] + SumFunction(Taken(p))' = Stock[p]
                      /\ custody'[p] = SumFunction(Holding(p))'
    BY DEF SumsOK
  <2>1. /\ warehouse[p] + SumFunction(Taken(p)) = Stock[p]
        /\ custody[p] = SumFunction(Holding(p)) /\ Typed
    BY DEF OrdersInv, SumsOK
  <2>2. orders'[o] = new /\ \A x \in Orders : x # o => orders'[x] = orders[x]
    BY <1>1, <1>4, <2>1 DEF Typed
  <2>3. Held(new, p) \in Int /\ Held(old, p) \in Int /\ custody[p] \in Int
    <3>1. /\ old.cans[p] \in Nat /\ old.empties[p] \in Nat
          /\ new.cans[p] \in Nat /\ new.empties[p] \in Nat
      BY <1>3, <1>7, OrderFields, QuantityIs
    <3> QED
      BY <2>1, <3>1 DEF Held, Typed
  <2>4. custody'[p] = custody[p] - Held(old, p) + Held(new, p)
    <3>1. CASE p \in DOMAIN h \cap Tracked
      <4>1. h[p].cans \in Nat /\ h[p].empties \in Nat
        BY <1>2, <3>1, HandoffTyped
      <4>2. custody'[p] = custody[p] + h[p].cans - h[p].empties
        BY <1>4, <3>1
      <4>3. Held(new, p) - Held(old, p) = h[p].cans - h[p].empties
        BY <1>9, <3>1
      <4> QED
        BY <2>3, <4>1, <4>2, <4>3
    <3>2. CASE p \notin DOMAIN h \cap Tracked
      <4>1. custody'[p] = custody[p] /\ Held(new, p) - Held(old, p) = 0
        BY <1>4, <1>9, <3>2
      <4> QED
        BY <2>3, <4>1
    <3> QED
      BY <3>1, <3>2
  <2>5. custody'[p] = SumFunction(Holding(p))'
    BY <1>1, <2>1, <2>2, <2>3, <2>4, HoldingChange
  <2>6. Taken(p)' = Taken(p)
    BY <1>4 DEF Taken
  <2> QED
    BY <1>4, <2>1, <2>5, <2>6
<1>14. /\ ledger' \in [Orders -> [sold : Nat, charged : Int]]
       /\ warehouse' \in Quantity /\ outs' \in [Orders -> Quantity]
  BY <1>4 DEF OrdersInv, Typed
<1>15. new.status # "REFUNDED" /\ old.status # "REFUNDED"
  BY <1>2, <1>9
<1> HIDE DEF old, o
<1> QED
  BY <1>1, <1>4, <1>7, <1>10, <1>11, <1>12, <1>13, <1>14, <1>15, GoodsCommit DEF old

(* The sale is reversed: the rows of the ledger of one order. *)
LEMMA Reversed ==
    ASSUME Typed, NEW o \in Orders, ledger[o].charged = ledger[o].sold,
           ledger' = [ledger EXCEPT ![o].charged = @ - ledger[o].sold]
    PROVE  /\ ledger' \in [Orders -> [sold : Nat, charged : Int]]
           /\ ledger'[o].charged = 0 /\ ledger'[o].sold = ledger[o].sold
           /\ \A x \in Orders \ {o} : ledger'[x] = ledger[x]
<1> DEFINE l == ledger[o]
           led == [l EXCEPT !.charged = 0]
<1>1. l \in [sold : Nat, charged : Int]
  BY DEF Typed
<1>2. ledger[o].charged - ledger[o].sold = 0
  BY <1>1
<1>3. ledger' = [ledger EXCEPT ![o] = led]
  BY <1>2 DEF Typed
<1>4. led \in [sold : Nat, charged : Int] /\ led.charged = 0 /\ led.sold = l.sold
  BY <1>1
<1> HIDE DEF led
<1> QED
  BY <1>3, <1>4 DEF Typed

LEMMA CommitCancelStep ==
    ASSUME OrdersInv, Overwriting \subseteq Racing, NEW c \in Clerks, CommitCancel(c)
    PROVE  OrdersInv'
<1> DEFINE tx == pending[c]
           o == tx.order
           old == orders[o]
           new == [old EXCEPT !.status = "CANCELLED"]
<1>1. /\ tx # NoTx /\ tx.op = "cancel" /\ o \in Orders /\ SeesOrder(tx, old)
  BY SeesIts DEF CommitCancel, Ops
<1>2. old.status \in {"DRAFT", "PLACED"} /\ tx.read.status = old.status /\ old.paid = 0
  BY <1>1 DEF SeesOrder
<1>3. /\ old \in OrderType /\ MoneyOK(old, allocated[o]) /\ ChargeOK(old, ledger[o])
      /\ GoodsOK(old, outs[o]) /\ Typed /\ SumsOK
  BY <1>1, OrderRow DEF OrdersInv
<1>4. UNCHANGED <<payments, allocated, custody>> /\ Finish(c)
  BY DEF CommitCancel
<1>5. orders' = [orders EXCEPT ![o] = new]
  BY <1>1, <1>3 DEF CommitCancel, Typed
<1>6. /\ new \in OrderType /\ new.total = old.total /\ new.paid = old.paid
      /\ new.due = old.due /\ new.payment = old.payment /\ new.status = "CANCELLED"
      /\ new.qty = old.qty /\ new.delivered = old.delivered /\ new.cans = old.cans
      /\ new.empties = old.empties /\ new.extra = old.extra
  BY <1>3 DEF OrderType, Statuses, Payable
<1> HIDE DEF new
<1>7. /\ ledger' \in [Orders -> [sold : Nat, charged : Int]] /\ ledger'[o].charged = 0
      /\ \A x \in Orders \ {o} : ledger'[x] = ledger[x]
  <2>1. CASE old.status = "PLACED"
    <3>1. ledger' = [ledger EXCEPT ![o].charged = @ - ledger[o].sold]
      BY <1>2, <2>1 DEF CommitCancel
    <3>2. ledger[o].charged = ledger[o].sold
      BY <1>3, <2>1 DEF ChargeOK, Payable
    <3> QED
      BY <1>1, <1>3, <3>1, <3>2, Reversed
  <2>2. CASE old.status = "DRAFT"
    <3>1. ledger' = ledger
      BY <1>2, <2>2 DEF CommitCancel
    <3> QED
      BY <1>1, <1>3, <2>2, <3>1 DEF Typed, ChargeOK, Payable
  <2> QED
    BY <1>2, <2>1, <2>2
<1>8. outs[o] \in Quantity /\ Zero \in Quantity
  BY <1>1, <1>3, Constants DEF Typed
<1>9. /\ outs' \in [Orders -> Quantity] /\ outs'[o] = Zero
      /\ \A x \in Orders \ {o} : outs'[x] = outs[x]
  <2>1. CASE old.status = "PLACED"
    <3>1. outs' = [outs EXCEPT ![o] = Zero]
      BY <1>2, <2>1 DEF CommitCancel
    <3> QED
      BY <1>1, <1>3, <1>8, <3>1 DEF Typed
  <2>2. CASE old.status = "DRAFT"
    <3>1. outs' = outs
      BY <1>2, <2>2 DEF CommitCancel
    <3> QED
      BY <1>1, <1>3, <2>2, <3>1 DEF Typed, GoodsOK, Payable
  <2> QED
    BY <1>2, <2>1, <2>2
<1>10. warehouse' \in Quantity /\ \A p \in Products : warehouse'[p] = warehouse[p] + outs[o][p]
  <2>1. \A p \in Products : outs[o][p] \in Nat /\ warehouse[p] \in Nat
    BY <1>3, <1>8 DEF Typed, Quantity
  <2>2. CASE old.status = "PLACED"
    <3>1. warehouse' = [p \in Products |-> warehouse[p] + outs[o][p]]
      BY <1>2, <2>2 DEF CommitCancel
    <3> QED
      BY <2>1, <3>1 DEF Quantity
  <2>3. CASE old.status = "DRAFT"
    <3>1. warehouse' = warehouse
      BY <1>2, <2>3 DEF CommitCancel
    <3>2. \A p \in Products : outs[o][p] = 0
      BY <1>3, <2>3 DEF GoodsOK, Payable, Zero
    <3> QED
      BY <1>3, <2>1, <3>1, <3>2 DEF Typed
  <2> QED
    BY <1>2, <2>2, <2>3
<1>11. RowOK(new, allocated[o], ledger'[o], outs'[o])
  <2>1. MoneyOK(new, allocated[o])
    BY <1>2, <1>3, <1>6 DEF MoneyOK, Open
  <2>2. ChargeOK(new, ledger'[o])
    BY <1>6, <1>7 DEF ChargeOK, Payable
  <2>3. GoodsOK(new, outs'[o])
    BY <1>2, <1>3, <1>6, <1>9 DEF GoodsOK, Payable, Open
  <2> QED
    BY <2>1, <2>2, <2>3 DEF RowOK
<1>12. OrdersStand(c)
  <2>1. Passes(tx.op, old, new)
    <3> SUFFICES ASSUME NEW u, u.op \in Ops, SeesOrder(u, old), Apart("cancel", u.op)
                 PROVE  SeesOrder(u, new)
      BY <1>1 DEF Passes
    <3>1. u.op \in {"deliver", "refund"}
      BY DEF Apart, Ops
    <3> QED
      BY <1>2, <3>1 DEF SeesOrder
  <2> QED
    BY <1>1, <1>5, <2>1, OthersPass
<1>13. SumsOK'
  <2> SUFFICES ASSUME NEW p \in Products
               PROVE  /\ warehouse'[p] + SumFunction(Taken(p))' = Stock[p]
                      /\ custody'[p] = SumFunction(Holding(p))'
    BY DEF SumsOK
  <2>1. /\ warehouse[p] + SumFunction(Taken(p)) = Stock[p]
        /\ custody[p] = SumFunction(Holding(p))
    BY <1>3 DEF SumsOK
  <2>2. warehouse[p] \in Nat /\ outs'[o][p] = 0 /\ outs[o][p] \in Nat
    BY <1>3, <1>8, <1>9, QuantityIs DEF Typed, Zero
  <2>3. warehouse'[p] = warehouse[p] + outs[o][p] - outs'[o][p] /\ outs'[o][p] \in Nat
    BY <1>10, <2>2
  <2>4. warehouse'[p] + SumFunction(Taken(p))' = Stock[p]
    BY <1>1, <1>3, <1>9, <2>1, <2>3, TakenChange
  <2>5. \A x \in Orders : Held(orders'[x], p) = Held(orders[x], p)
    <3>1. Held(new, p) = Held(old, p)
      BY <1>6 DEF Held
    <3>2. \A x \in Orders : orders'[x] = IF x = o THEN new ELSE orders[x]
      BY <1>3, <1>5 DEF Typed
    <3> QED
      BY <3>1, <3>2
  <2>6. Holding(p)' = Holding(p)
    BY <2>5 DEF Holding
  <2> QED
    BY <1>4, <2>1, <2>4, <2>6
<1>14. custody' \in [Products -> Int]
  BY <1>3, <1>4 DEF Typed
<1>15. new.status # "REFUNDED" /\ old.status # "REFUNDED"
  BY <1>2, <1>6
<1> HIDE DEF old, o
<1> QED
  BY <1>1, <1>4, <1>5, <1>6, <1>7, <1>9, <1>10, <1>11, <1>12, <1>13, <1>14, <1>15, GoodsCommit
  DEF old

-----------------------------------------------------------------------------
(* Money: what changes payments and allocations, and no goods. *)
LEMMA MoneyCommit ==
    ASSUME OrdersInv, NEW c \in Clerks, Noted(c), OrdersStand(c), MoneyStands(c),
           NEW o \in Orders, NEW new \in OrderType, orders' = [orders EXCEPT ![o] = new],
           UNCHANGED <<warehouse, outs, custody>>,
           RowOK(new, allocated'[o], ledger'[o], outs[o]),
           \A x \in Orders \ {o} : allocated'[x] = allocated[x] /\ ledger'[x] = ledger[x],
           new.delivered = orders[o].delivered, new.cans = orders[o].cans,
           new.empties = orders[o].empties,
           ledger' \in [Orders -> [sold : Nat, charged : Int]], payments' \in Seq(Payment),
           allocated' \in [Orders -> [Slots -> Nat]], PaymentsOK'
    PROVE  OrdersInv'
<1>1. /\ Rows' /\ orders' \in [Orders -> OrderType]
      /\ \A x \in Orders : orders'[x] = IF x = o THEN new ELSE orders[x]
  BY OneRow
<1>2. SumsOK'
  <2>1. \A x \in Orders, p \in Products : Held(orders'[x], p) = Held(orders[x], p)
    BY <1>1 DEF Held
  <2> QED
    BY <2>1, SumsSame
<1>3. NoRace' /\ \A d \in Clerks : Sees(pending[d])'
  BY AllStand
<1>4. Typed'
  BY <1>1 DEF OrdersInv, Typed, Noted
<1> QED
  BY <1>1, <1>2, <1>3, <1>4 DEF OrdersInv

(* One allocation grows by n. *)
LEMMA AllocationGrows ==
    ASSUME OrdersInv, NEW o \in Orders, NEW i \in Slots, NEW n \in Nat,
           allocated' = [allocated EXCEPT ![o][i] = @ + n]
    PROVE  /\ allocated' \in [Orders -> [Slots -> Nat]]
           /\ \A x \in Orders \ {o} : allocated'[x] = allocated[x]
           /\ allocated[o][i] \in Nat /\ allocated'[o][i] = allocated[o][i] + n
           /\ \A j \in Slots : j # i => allocated'[o][j] = allocated[o][j]
           /\ SumFunction(allocated'[o]) = SumFunction(allocated[o]) + n
           /\ SumFunction(allocated[o]) \in Int
<1> DEFINE f == allocated[o]
           g == [f EXCEPT ![i] = @ + n]
<1>1. f \in [Slots -> Nat] /\ allocated \in [Orders -> [Slots -> Nat]]
  BY DEF OrdersInv, Typed
<1>2. allocated' = [allocated EXCEPT ![o] = g]
  BY <1>1
<1>3. /\ g \in [Slots -> Nat] /\ g[i] = f[i] + n /\ f[i] \in Nat
      /\ \A j \in Slots : j # i => g[j] = f[j]
  BY <1>1
<1>4. allocated'[o] = g
  BY <1>1, <1>2
<1> HIDE DEF f, g
<1>5. SumFunction(g) = SumFunction(f) - f[i] + g[i] /\ SumFunction(f) \in Int
  <2>1. DOMAIN f = Slots /\ DOMAIN g = Slots /\ IsFiniteSet(Slots) /\ g[i] \in Int
        /\ \A j \in Slots : f[j] \in Int
    BY <1>1, <1>3, Constants
  <2> QED
    BY <1>3, <2>1, TotalChange
<1>6. SumFunction(g) = SumFunction(f) + n
  BY <1>3, <1>5
<1> QED
  BY <1>1, <1>2, <1>3, <1>4, <1>5, <1>6 DEF f

(* The payment's part in it grows by as much, and no other payment's does. *)
LEMMA SharesGrow ==
    ASSUME OrdersInv, NEW o \in Orders, NEW i \in Slots, NEW n \in Nat,
           allocated' = [allocated EXCEPT ![o][i] = @ + n],
           \A x \in Orders : orders'[x].status = orders[x].status,
           orders[o].status # "REFUNDED"
    PROVE  /\ Allocated(i)' = Allocated(i) + n /\ Allocated(i) \in Int
           /\ \A j \in Slots : j # i => Allocated(j)' = Allocated(j)
<1>1. /\ \A x \in Orders \ {o} : allocated'[x] = allocated[x]
      /\ allocated[o][i] \in Nat /\ allocated'[o][i] = allocated[o][i] + n
      /\ \A j \in Slots : j # i => allocated'[o][j] = allocated[o][j]
  BY AllocationGrows
<1> DEFINE f == Shares(i)
           g == Shares(i)'
<1>2. /\ f = [x \in Orders |-> f[x]] /\ g = [x \in Orders |-> g[x]]
      /\ f[o] = allocated[o][i] /\ g[o] = allocated'[o][i]
      /\ \A x \in Orders : x # o => g[x] = f[x]
  BY <1>1 DEF Shares
<1>3. \A x \in Orders : f[x] \in Int
  BY DEF Shares, OrdersInv, Typed
<1>4. Allocated(i) = SumFunction(f) /\ Allocated(i)' = SumFunction(g)
  BY DEF Allocated, Shares
<1> HIDE DEF f, g
<1>5. g[o] \in Int
  BY <1>1, <1>2
<1>6. SumFunction(g) = SumFunction(f) - f[o] + g[o] /\ SumFunction(f) \in Int
  BY <1>2, <1>3, <1>5, SumAt
<1>7. SumFunction(g) = SumFunction(f) + n
  BY <1>1, <1>2, <1>6
<1>8. ASSUME NEW j \in Slots, j # i PROVE Allocated(j)' = Allocated(j)
  <2>1. Shares(j)' = Shares(j)
    <3>1. \A x \in Orders : allocated'[x][j] = allocated[x][j]
      BY <1>1, <1>8
    <3> QED
      BY <3>1 DEF Shares
  <2> QED
    BY <2>1 DEF Allocated, Shares
<1> QED
  BY <1>4, <1>6, <1>7, <1>8

(* An order that is paid n more. *)
LEMMA PaidMore ==
    ASSUME NEW old \in OrderType, NEW alloc0, NEW led, NEW out, RowOK(old, alloc0, led, out),
           old.status \in Payable, NEW total \in Nat, NEW m \in Nat, m <= total,
           old.total = total, NEW alloc, SumFunction(alloc) = m,
           NEW new \in OrderType, new.total = total, new.paid = m,
           new.due = AtLeast0(total - m), new.payment = PaymentStatus(m, total),
           new.status = old.status, new.qty = old.qty, new.delivered = old.delivered,
           new.cans = old.cans, new.empties = old.empties, new.extra = old.extra
    PROVE  RowOK(new, alloc, led, out)
<1>1. MoneyOK(old, alloc0) /\ ChargeOK(old, led) /\ GoodsOK(old, out)
  BY DEF RowOK
<1>3. MoneyOK(new, alloc)
  <2>1. m = SumFunction(alloc) /\ total = TotalOf(new.qty, new.extra) /\ new.status \notin Open
    BY <1>1, StatusSets DEF MoneyOK
  <2> QED
    BY <2>1, PaidUp
<1>4. ChargeOK(new, led)
  BY <1>1 DEF ChargeOK
<1>5. GoodsOK(new, out)
  BY <1>1 DEF GoodsOK
<1> QED
  BY <1>3, <1>4, <1>5 DEF RowOK

(* What an order that can be paid is paid with n more. *)
LEMMA StillFits ==
    ASSUME OrdersInv, NEW o \in Orders, NEW n \in Nat, n <= orders[o].total - orders[o].paid,
           orders[o].status \in Payable, NEW alloc,
           SumFunction(alloc) = SumFunction(allocated[o]) + n
    PROVE  /\ orders[o].paid + n \in Nat /\ orders[o].paid + n <= orders[o].total
           /\ orders[o].total \in Nat /\ SumFunction(alloc) = orders[o].paid + n
           /\ orders[o] \in OrderType /\ RowOK(orders[o], allocated[o], ledger[o], outs[o])
<1>1. orders[o] \in OrderType /\ RowOK(orders[o], allocated[o], ledger[o], outs[o])
  BY OrderRow DEF RowOK
<1>2. orders[o].total \in Nat /\ orders[o].paid \in Nat
  BY <1>1, OrderFields
<1>3. orders[o].paid = SumFunction(allocated[o])
  BY <1>1, StatusSets DEF RowOK, MoneyOK
<1> QED
  BY <1>1, <1>2, <1>3

LEMMA PaidNew ==
    ASSUME OrdersInv, NEW o \in Orders, NEW n \in Nat, n <= orders[o].total - orders[o].paid,
           orders[o].status \in Payable, NEW alloc,
           SumFunction(alloc) = SumFunction(allocated[o]) + n,
           NEW new, new = Priced(orders[o], orders[o].total, orders[o].paid + n)
    PROVE  /\ new \in OrderType /\ RowOK(new, alloc, ledger[o], outs[o])
           /\ new.status = orders[o].status /\ new.qty = orders[o].qty
           /\ new.delivered = orders[o].delivered /\ new.cans = orders[o].cans
           /\ new.empties = orders[o].empties
<1>1. PICK old, total, m : old = orders[o] /\ total = old.total /\ m = old.paid + n
  OBVIOUS
<1>2. /\ m \in Nat /\ m <= total /\ total \in Nat /\ SumFunction(alloc) = m
      /\ old \in OrderType /\ RowOK(old, allocated[o], ledger[o], outs[o])
  BY <1>1, StillFits
<1>3. /\ new \in OrderType /\ new.total = total /\ new.paid = m
      /\ new.due = AtLeast0(total - m) /\ new.payment = PaymentStatus(m, total)
      /\ new.status = old.status /\ new.qty = old.qty /\ new.delivered = old.delivered
      /\ new.cans = old.cans /\ new.empties = old.empties /\ new.extra = old.extra
  <2>1. old \in OrderType /\ total \in Nat /\ m \in Nat
    BY <1>2
  <2>2. /\ Priced(old, total, m) \in OrderType
        /\ Priced(old, total, m).total = total
        /\ Priced(old, total, m).paid = m
        /\ Priced(old, total, m).due = AtLeast0(total - m)
        /\ Priced(old, total, m).payment = PaymentStatus(m, total)
        /\ Priced(old, total, m).status = old.status
        /\ Priced(old, total, m).qty = old.qty
        /\ Priced(old, total, m).delivered = old.delivered
        /\ Priced(old, total, m).cans = old.cans
        /\ Priced(old, total, m).empties = old.empties
        /\ Priced(old, total, m).extra = old.extra
    BY <2>1, PricedIs
  <2> QED
    BY <1>1, <2>2
<1>4. old.status \in Payable /\ old.total = total
  BY <1>1
<1>5. RowOK(new, alloc, ledger[o], outs[o])
  BY <1>2, <1>3, <1>4, PaidMore
<1> QED
  BY <1>1, <1>3, <1>5

(* Requests that may overlap with one that pays an order. *)
LEMMA PayPasses ==
    ASSUME NEW op \in {"pay", "apply"}, NEW old, NEW new, old.status \in Payable,
           new.status = old.status, new.qty = old.qty, new.delivered = old.delivered,
           new.cans = old.cans, new.empties = old.empties
    PROVE  Passes(op, old, new)
<1> SUFFICES ASSUME NEW u, u.op \in Ops, SeesOrder(u, old), Apart(op, u.op)
             PROVE  SeesOrder(u, new)
  BY DEF Passes
<1>1. u.op \in {"charges", "items", "place", "ship", "deliver"}
  BY DEF Apart, Ops
<1>2. u.op \in {"ship", "deliver"}
  BY <1>1 DEF SeesOrder, Payable
<1> QED
  BY <1>2 DEF SeesOrder

(* Requests that rely on the payments do not overlap with op. *)
LEMMA NoMoneySeen ==
    ASSUME OrdersInv, Overwriting \subseteq Racing, NEW c \in Clerks, pending[c] # NoTx,
           pending[c].op \in {"pay", "apply", "refund"}
    PROVE  MoneyStands(c)
<1> SUFFICES ASSUME NEW tx \in Others(c), tx # NoTx PROVE SeesMoney(tx)'
  BY DEF MoneyStands
<1>1. {pending[c].op, tx.op} \notin Racing
  BY OtherSees
<1>2. Apart(pending[c].op, tx.op)
  BY <1>1, Overlaps
<1>3. tx.op # "apply" /\ tx.op # "refund"
  BY <1>2 DEF Apart
<1> QED
  BY <1>3 DEF SeesMoney

LEMMA CommitApplyStep ==
    ASSUME OrdersInv, Overwriting \subseteq Racing, NEW c \in Clerks, CommitApply(c)
    PROVE  OrdersInv'
<1>t. PICK tx : tx = pending[c]
  OBVIOUS
<1>o. PICK o, i, n : o = tx.order /\ i = tx.in.payment /\ n = tx.in.amount
  OBVIOUS
<1>p. PICK old, total, paid : old = orders[o] /\ total = tx.read.total /\ paid = tx.read.paid
  OBVIOUS
<1>n. PICK new : new = Priced(old, total, paid + n)
  OBVIOUS
<1>1. /\ tx # NoTx /\ tx.op = "apply" /\ o \in Orders /\ SeesOrder(tx, old) /\ SeesMoney(tx)
  BY <1>t, <1>o, <1>p, SeesIts DEF CommitApply, Ops
<1>2. /\ old.status \in Payable /\ total = old.total /\ paid = old.paid
      /\ n \in Nat \ {0} /\ n <= old.total - old.paid
  BY <1>1, <1>o, <1>p DEF SeesOrder
<1>3. i \in DOMAIN payments /\ n <= payments[i].amount - Allocated(i)
  BY <1>1, <1>o DEF SeesMoney
<1>4. /\ i \in Slots /\ payments[i].amount \in Nat \ {0} /\ Allocated(i) \in Int
      /\ DOMAIN payments \subseteq Slots
  BY <1>3, AllocatedInt
<1>5. /\ orders' = [orders EXCEPT ![o] = new] /\ Finish(c)
      /\ UNCHANGED <<ledger, payments, warehouse, outs, custody>>
      /\ allocated' = [allocated EXCEPT ![o][i] = @ + n]
  BY <1>t, <1>o, <1>p, <1>n DEF CommitApply, goods
<1>6. n \in Nat
  BY <1>2
<1>7. /\ allocated' \in [Orders -> [Slots -> Nat]]
      /\ \A x \in Orders \ {o} : allocated'[x] = allocated[x]
      /\ allocated[o][i] \in Nat /\ allocated'[o][i] = allocated[o][i] + n
      /\ \A j \in Slots : j # i => allocated'[o][j] = allocated[o][j]
      /\ SumFunction(allocated'[o]) = SumFunction(allocated[o]) + n
  BY <1>1, <1>4, <1>5, <1>6, AllocationGrows, ZenonT(60)
<1>8. /\ new \in OrderType /\ RowOK(new, allocated'[o], ledger[o], outs[o])
      /\ new.status = old.status /\ new.qty = old.qty
      /\ new.delivered = old.delivered /\ new.cans = old.cans /\ new.empties = old.empties
  <2>1. new = Priced(orders[o], orders[o].total, orders[o].paid + n)
    BY <1>n, <1>p, <1>2
  <2>2. orders[o].status \in Payable /\ n <= orders[o].total - orders[o].paid
    BY <1>p, <1>2
  <2> QED
    BY <1>p, <1>1, <1>6, <1>7, <2>1, <2>2, PaidNew
<1>9. \A x \in Orders : orders'[x].status = orders[x].status
  BY <1>p, <1>1, <1>5, <1>8 DEF OrdersInv, Typed
<1>10. /\ Allocated(i)' = Allocated(i) + n
       /\ \A j \in Slots : j # i => Allocated(j)' = Allocated(j)
  <2>1. old.status # "REFUNDED"
    BY <1>2, StatusSets
  <2> QED
    BY <1>p, <1>1, <1>4, <1>5, <1>6, <1>9, <2>1, SharesGrow
<1>11. PaymentsOK'
  <2>1. PaymentsOK /\ Typed
    BY DEF OrdersInv
  <2>2. ASSUME NEW j \in DOMAIN payments PROVE Allocated(j)' <= payments[j].amount
    <3>1. Allocated(j) <= payments[j].amount /\ j \in Slots
      BY <1>4, <2>1 DEF PaymentsOK
    <3>2. Allocated(i) + n <= payments[i].amount
      BY <1>3, <1>4, <1>6
    <3>3. CASE j = i
      BY <1>10, <3>2, <3>3
    <3>4. CASE j # i
      BY <1>10, <3>1, <3>4
    <3> QED
      BY <3>3, <3>4
  <2>3. ASSUME NEW j \in DOMAIN payments
        PROVE  /\ CreditOK(payments[j])'
               /\ payments[j].of # 0 => allocated'[payments[j].of][j] > 0
    <3>1. /\ CreditOK(payments[j]) /\ j \in Slots /\ payments[j].of \in Orders \cup {0}
          /\ payments[j].of # 0 => allocated[payments[j].of][j] > 0
      BY <1>4, <2>1, AllocatedInt DEF PaymentsOK, OrdersInv, Payment
    <3>2. CreditOK(payments[j])'
      BY <1>5, <1>9, <3>1 DEF CreditOK
    <3>3. ASSUME payments[j].of # 0 PROVE allocated'[payments[j].of][j] > 0
      <4>1. PICK x \in Orders : x = payments[j].of
        BY <3>1, <3>3
      <4>2. allocated[x][j] > 0 /\ allocated[x][j] \in Nat
        BY <2>1, <3>1, <3>3, <4>1 DEF Typed
      <4>3. allocated'[x][j] > 0
        BY <1>1, <1>6, <1>7, <3>1, <4>2
      <4> QED
        BY <4>1, <4>3
    <3> QED
      BY <3>2, <3>3
  <2>4. ASSUME NEW x \in Orders, NEW j \in Slots, j > Len(payments)
        PROVE  allocated'[x][j] = 0
    <3>1. j # i
      BY <1>3, <2>1, <2>4, SeqDomain DEF Typed
    <3> QED
      BY <1>7, <2>1, <2>4, <3>1 DEF PaymentsOK
  <2> QED
    BY <1>5, <2>1, <2>2, <2>3, <2>4 DEF PaymentsOK
<1>12. OrdersStand(c)
  <2>1. Passes(tx.op, old, new)
    BY <1>1, <1>2, <1>8, PayPasses
  <2> QED
    BY <1>t, <1>p, <1>1, <1>5, <2>1, OthersPass
<1>13. Noted(c) /\ MoneyStands(c)
  BY <1>t, <1>1, <1>5, FinishNoted, NoMoneySeen DEF OrdersInv
<1>14. /\ ledger' \in [Orders -> [sold : Nat, charged : Int]] /\ payments' \in Seq(Payment)
       /\ RowOK(new, allocated'[o], ledger'[o], outs[o])
       /\ \A x \in Orders \ {o} : allocated'[x] = allocated[x] /\ ledger'[x] = ledger[x]
  BY <1>5, <1>7, <1>8 DEF OrdersInv, Typed
<1> QED
  BY <1>p, <1>1, <1>5, <1>7, <1>8, <1>11, <1>12, <1>13, <1>14, MoneyCommit

(* A payment that is made is allocated to no order yet. *)
LEMMA NewPayment ==
    ASSUME OrdersInv, Len(payments) < MaxPayments, NEW i, i = Len(payments) + 1
    PROVE  /\ i \in Slots /\ i \notin DOMAIN payments /\ Allocated(i) = 0
           /\ \A o \in Orders : allocated[o][i] = 0
           /\ DOMAIN payments \subseteq Slots
<1>1. DOMAIN payments = 1..Len(payments) /\ Len(payments) \in Nat
  BY SeqDomain DEF OrdersInv, Typed
<1>2. i \in Slots /\ i \notin DOMAIN payments /\ DOMAIN payments \subseteq Slots
  BY <1>1, Constants DEF Slots
<1>3. i > Len(payments)
  BY <1>1
<1>4. \A o \in Orders : allocated[o][i] = 0
  BY <1>2, <1>3 DEF OrdersInv, PaymentsOK
<1>5. Allocated(i) = 0
  <2>1. DOMAIN Shares(i) = Orders /\ \A x \in Orders : Shares(i)[x] = 0
    BY <1>4 DEF Shares
  <2>2. SumFunction(Shares(i)) = 0
    BY <2>1, Constants, TotalZero
  <2> QED
    BY <2>2 DEF Allocated, Shares
<1> QED
  BY <1>2, <1>4, <1>5

LEMMA CommitPayStep ==
    ASSUME OrdersInv, Overwriting \subseteq Racing, NEW c \in Clerks, CommitPay(c)
    PROVE  OrdersInv'
<1>t. PICK tx : tx = pending[c]
  OBVIOUS
<1>o. PICK o, n, i : o = tx.order /\ n = tx.in /\ i = Len(payments) + 1
  OBVIOUS
<1>p. PICK old, total, paid : old = orders[o] /\ total = tx.read.total /\ paid = tx.read.paid
  OBVIOUS
<1>n. PICK new : new = Priced(old, total, paid + n)
  OBVIOUS
<1>r. PICK row : row = [amount |-> n, of |-> o, live |-> TRUE, credit |-> n]
  OBVIOUS
<1>1. /\ tx # NoTx /\ tx.op = "pay" /\ o \in Orders /\ SeesOrder(tx, old)
  BY <1>t, <1>o, <1>p, SeesIts DEF CommitPay, Ops
<1>2. /\ old.status \in Payable /\ total = old.total /\ paid = old.paid
      /\ n \in Amounts /\ n <= old.total - old.paid
  BY <1>1, <1>o, <1>p DEF SeesOrder
<1>3. n \in Nat /\ n > 0
  BY <1>2, InputsAssumption
<1>4. /\ i \in Slots /\ i \notin DOMAIN payments /\ Allocated(i) = 0
      /\ \A x \in Orders : allocated[x][i] = 0
      /\ DOMAIN payments \subseteq Slots
  BY <1>o, NewPayment DEF CommitPay
<1>5. /\ orders' = [orders EXCEPT ![o] = new] /\ Finish(c)
      /\ UNCHANGED <<ledger, warehouse, outs, custody>>
      /\ payments' = Append(payments, row)
      /\ allocated' = [allocated EXCEPT ![o][i] = n]
  BY <1>t, <1>o, <1>p, <1>n, <1>r DEF CommitPay, goods
<1>6. allocated' = [allocated EXCEPT ![o][i] = @ + n]
  <2>1. allocated[o][i] + n = n
    BY <1>1, <1>3, <1>4
  <2> QED
    BY <1>5, <2>1
<1>7. /\ allocated' \in [Orders -> [Slots -> Nat]]
      /\ \A x \in Orders \ {o} : allocated'[x] = allocated[x]
      /\ allocated[o][i] \in Nat /\ allocated'[o][i] = allocated[o][i] + n
      /\ \A j \in Slots : j # i => allocated'[o][j] = allocated[o][j]
      /\ SumFunction(allocated'[o]) = SumFunction(allocated[o]) + n
  BY <1>1, <1>3, <1>4, <1>6, AllocationGrows
<1>8. /\ new \in OrderType /\ RowOK(new, allocated'[o], ledger[o], outs[o])
      /\ new.status = old.status /\ new.qty = old.qty
      /\ new.delivered = old.delivered /\ new.cans = old.cans /\ new.empties = old.empties
  <2>1. new = Priced(orders[o], orders[o].total, orders[o].paid + n)
    BY <1>n, <1>p, <1>2
  <2>2. orders[o].status \in Payable /\ n <= orders[o].total - orders[o].paid
    BY <1>p, <1>2
  <2> QED
    BY <1>p, <1>1, <1>3, <1>7, <2>1, <2>2, PaidNew
<1>9. \A x \in Orders : orders'[x].status = orders[x].status
  BY <1>p, <1>1, <1>5, <1>8 DEF OrdersInv, Typed
<1>10. /\ Allocated(i)' = n
       /\ \A j \in Slots : j # i => Allocated(j)' = Allocated(j)
  <2>1. orders[o].status # "REFUNDED"
    BY <1>p, <1>2, StatusSets
  <2>2. /\ Allocated(i)' = Allocated(i) + n
        /\ \A j \in Slots : j # i => Allocated(j)' = Allocated(j)
    BY <1>1, <1>3, <1>4, <1>6, <1>9, <2>1, SharesGrow
  <2> QED
    BY <1>3, <1>4, <2>2
<1>11. /\ payments' \in Seq(Payment) /\ DOMAIN payments' = DOMAIN payments \cup {i}
       /\ payments'[i] = row /\ \A j \in DOMAIN payments : payments'[j] = payments[j]
       /\ Len(payments') = i
  <2>1. row \in Payment
    BY <1>r, <1>1, <1>2, <1>3 DEF Payment
  <2>2. payments \in Seq(Payment) /\ Len(payments) \in Nat
    BY SeqDomain DEF OrdersInv, Typed
  <2>3. Len(payments') = Len(payments) + 1
    BY <1>5, <2>1, <2>2
  <2> QED
    BY <1>o, <1>5, <2>1, <2>2, <2>3, Appended
<1>12. PaymentsOK'
  <2>1. PaymentsOK /\ Typed
    BY DEF OrdersInv
  <2>2. ASSUME NEW j \in DOMAIN payments
        PROVE  /\ Allocated(j)' <= payments'[j].amount
               /\ CreditOK(payments[j])'
               /\ payments'[j].of # 0 => allocated'[payments'[j].of][j] > 0
    <3>1. /\ CreditOK(payments[j]) /\ j \in Slots /\ payments[j].of \in Orders \cup {0}
          /\ payments[j].of # 0 => allocated[payments[j].of][j] > 0
          /\ Allocated(j) <= payments[j].amount /\ j # i
      BY <1>4, <2>1, AllocatedInt DEF PaymentsOK, OrdersInv, Payment
    <3>2. Allocated(j)' <= payments[j].amount
      BY <1>10, <3>1
    <3>3. PICK row0 : row0 = payments[j]
      OBVIOUS
    <3>4. CreditOK(row0)'
      BY <1>9, <3>1, <3>3 DEF CreditOK
    <3>5. ASSUME row0.of # 0 PROVE allocated'[row0.of][j] > 0
      <4>1. PICK x \in Orders : x = row0.of
        BY <3>1, <3>3, <3>5
      <4>2. allocated[x][j] > 0
        BY <3>1, <3>3, <3>5, <4>1
      <4>3. allocated'[x][j] = allocated[x][j]
        BY <1>7, <3>1
      <4> QED
        BY <4>1, <4>2, <4>3
    <3>6. payments'[j] = row0
      BY <1>11, <3>3
    <3>7. CreditOK(payments[j])'
      BY <3>4, <3>6 DEF CreditOK
    <3> QED
      BY <3>2, <3>3, <3>5, <3>6, <3>7
  <2>3. /\ Allocated(i)' <= payments'[i].amount
        /\ CreditOK(payments[i])'
        /\ payments'[i].of # 0 => allocated'[payments'[i].of][i] > 0
    <3>1. row.amount = n /\ row.of = o /\ row.live = TRUE /\ row.credit = n
      BY <1>r
    <3>2. Allocated(i)' <= row.amount
      BY <1>3, <1>10, <3>1
    <3>3. allocated'[o][i] > 0
      BY <1>1, <1>3, <1>4, <1>7
    <3>4. orders'[o].status # "REFUNDED"
      BY <1>p, <1>1, <1>2, <1>9, StatusSets
    <3>5. CreditOK(row)'
      BY <3>1, <3>4 DEF CreditOK
    <3>6. CreditOK(payments[i])'
      BY <1>11, <3>5 DEF CreditOK
    <3> QED
      BY <1>11, <3>1, <3>2, <3>3, <3>6
  <2>4. ASSUME NEW x \in Orders, NEW j \in Slots, j > Len(payments')
        PROVE  allocated'[x][j] = 0
    <3>1. j \in Nat /\ Len(payments) \in Nat
      BY <2>1, Constants, SeqDomain DEF Typed, Slots
    <3>2. j # i /\ j > Len(payments)
      BY <1>o, <1>11, <2>4, <3>1
    <3>3. allocated[x][j] = 0
      BY <2>1, <3>2 DEF PaymentsOK
    <3> QED
      BY <1>7, <3>2, <3>3
  <2>5. Len(payments') <= MaxPayments
    BY <1>4, <1>11, Constants DEF Slots
  <2> QED
    BY <1>11, <2>2, <2>3, <2>4, <2>5 DEF PaymentsOK
<1>13. OrdersStand(c)
  <2>1. Passes(tx.op, old, new)
    BY <1>1, <1>2, <1>8, PayPasses
  <2> QED
    BY <1>t, <1>p, <1>1, <1>5, <2>1, OthersPass
<1>14. Noted(c) /\ MoneyStands(c)
  BY <1>t, <1>1, <1>5, FinishNoted, NoMoneySeen DEF OrdersInv
<1>15. /\ ledger' \in [Orders -> [sold : Nat, charged : Int]]
       /\ RowOK(new, allocated'[o], ledger'[o], outs[o])
       /\ \A x \in Orders \ {o} : allocated'[x] = allocated[x] /\ ledger'[x] = ledger[x]
  BY <1>5, <1>7, <1>8 DEF OrdersInv, Typed
<1> QED
  BY <1>p, <1>1, <1>5, <1>7, <1>8, <1>11, <1>12, <1>13, <1>14, <1>15, MoneyCommit

(* Payments that no order names, and payments that are deleted. *)
LEMMA PaymentsOnly ==
    ASSUME OrdersInv, UNCHANGED <<orders, ledger, allocated, goods, pending>>,
           payments' \in Seq(Payment), PaymentsOK', DOMAIN payments \subseteq DOMAIN payments',
           \A i \in DOMAIN payments : payments'[i].amount = payments[i].amount,
           \A o \in Orders, i \in DOMAIN payments' \ DOMAIN payments : allocated[o][i] = 0
    PROVE  OrdersInv'
<1>1. UNCHANGED <<warehouse, outs, custody>>
  BY DEF goods
<1>2. Typed' /\ Rows' /\ SumsOK' /\ NoRace'
  BY <1>1 DEF OrdersInv, Typed, Rows, SumsOK, Taken, Holding, NoRace
<1>3. ASSUME NEW d \in Clerks PROVE Sees(pending[d])'
  <2>1. PICK u : u = pending[d]
    OBVIOUS
  <2>2. CASE u = NoTx
    <3>1. Sees(u)'
      BY <2>2 DEF Sees
    <3> QED
      BY <2>1, <3>1, Told
  <2>3. CASE u # NoTx
    <3>1. /\ u.op \in Ops /\ u.order \in Orders /\ u.read \in OrderType
          /\ DOMAIN u = {"op", "order", "read", "in", "gone"}
          /\ SeesOrder(u, orders[u.order]) /\ SeesMoney(u)
      BY <2>1, <2>3 DEF OrdersInv, Sees
    <3>2. ASSUME u.op = "apply"
          PROVE  /\ u.in.payment \in DOMAIN payments'
                 /\ u.in.amount <= payments'[u.in.payment].amount - Allocated(u.in.payment)'
      <4>1. PICK i : i = u.in.payment
        OBVIOUS
      <4>2. i \in DOMAIN payments /\ u.in.amount <= payments[i].amount - Allocated(i)
        BY <3>1, <3>2, <4>1 DEF SeesMoney
      <4>3. Allocated(i)' = Allocated(i)
        BY DEF Allocated
      <4> QED
        BY <4>1, <4>2, <4>3
    <3>3. ASSUME u.op = "refund"
          PROVE  u.in = {i \in DOMAIN payments' : allocated'[u.order][i] > 0}
      <4>1. u.in = {i \in DOMAIN payments : allocated[u.order][i] > 0}
        BY <3>1, <3>3 DEF SeesMoney
      <4>2. \A i \in DOMAIN payments' : allocated[u.order][i] > 0 => i \in DOMAIN payments
        BY <3>1
      <4> QED
        BY <4>1, <4>2
    <3>4. SeesMoney(u)'
      BY <3>2, <3>3 DEF SeesMoney
    <3>5. Sees(u)'
      BY <3>1, <3>4 DEF Sees
    <3> QED
      BY <2>1, <3>5, Told
  <2> QED
    BY <2>2, <2>3
<1> QED
  BY <1>2, <1>3 DEF OrdersInv

LEMMA ReceiveStep ==
    ASSUME OrdersInv, NEW c \in Clerks, NEW amount \in Deposits, Receive(c, amount)
    PROVE  OrdersInv'
<1>1. PICK i, row : i = Len(payments) + 1
                    /\ row = [amount |-> amount, of |-> 0, live |-> TRUE, credit |-> amount]
  OBVIOUS
<1>2. /\ i \in Slots /\ i \notin DOMAIN payments /\ Allocated(i) = 0
      /\ \A x \in Orders : allocated[x][i] = 0
      /\ DOMAIN payments \subseteq Slots
  BY <1>1, NewPayment DEF Receive
<1>3. /\ payments' = Append(payments, row)
      /\ UNCHANGED <<orders, ledger, allocated, goods, pending>>
  BY <1>1 DEF Receive
<1>4. amount \in Nat /\ amount > 0
  BY InputsAssumption
<1>5. /\ payments' \in Seq(Payment) /\ DOMAIN payments' = DOMAIN payments \cup {i}
      /\ payments'[i] = row /\ \A j \in DOMAIN payments : payments'[j] = payments[j]
      /\ Len(payments') = i
  <2>1. row \in Payment
    BY <1>1, <1>4 DEF Payment
  <2>2. payments \in Seq(Payment) /\ Len(payments) \in Nat
    BY SeqDomain DEF OrdersInv, Typed
  <2>3. Len(payments') = Len(payments) + 1
    BY <1>3, <2>1, <2>2
  <2> QED
    BY <1>1, <1>3, <2>1, <2>2, <2>3, Appended
<1>6. \A j : Allocated(j)' = Allocated(j)
  BY <1>3 DEF Allocated
<1>7. PaymentsOK'
  <2>1. PaymentsOK /\ Typed
    BY DEF OrdersInv
  <2>2. ASSUME NEW j \in DOMAIN payments
        PROVE  /\ Allocated(j)' <= payments'[j].amount /\ CreditOK(payments[j])'
               /\ payments'[j].of # 0 => allocated'[payments'[j].of][j] > 0
    <3>1. PICK row0 : row0 = payments[j]
      OBVIOUS
    <3>2. /\ CreditOK(row0) /\ Allocated(j) <= row0.amount
          /\ row0.of # 0 => allocated[row0.of][j] > 0
      BY <2>1, <3>1 DEF PaymentsOK
    <3>3. CreditOK(row0)'
      BY <1>3, <3>2 DEF CreditOK
    <3>4. payments'[j] = row0
      BY <1>5, <3>1
    <3>5. CreditOK(payments[j])'
      BY <3>3, <3>4 DEF CreditOK
    <3> QED
      BY <1>3, <1>6, <3>2, <3>4, <3>5
  <2>3. /\ Allocated(i)' <= payments'[i].amount /\ CreditOK(payments[i])'
        /\ payments'[i].of # 0 => allocated'[payments'[i].of][i] > 0
    <3>1. row.amount = amount /\ row.of = 0 /\ row.live = TRUE /\ row.credit = amount
      BY <1>1
    <3>2. Allocated(i)' <= row.amount
      BY <1>2, <1>4, <1>6, <3>1
    <3>3. CreditOK(row)'
      BY <3>1 DEF CreditOK
    <3>4. CreditOK(payments[i])'
      BY <1>5, <3>3 DEF CreditOK
    <3> QED
      BY <1>5, <3>1, <3>2, <3>4
  <2>4. ASSUME NEW x \in Orders, NEW j \in Slots, j > Len(payments')
        PROVE  allocated'[x][j] = 0
    <3>1. j \in Nat /\ Len(payments) \in Nat
      BY <2>1, Constants, SeqDomain DEF Typed, Slots
    <3>2. j > Len(payments)
      BY <1>1, <1>5, <2>4, <3>1
    <3> QED
      BY <1>3, <2>1, <3>2 DEF PaymentsOK
  <2>5. Len(payments') <= MaxPayments
    BY <1>2, <1>5, Constants DEF Slots
  <2> QED
    BY <1>5, <2>2, <2>3, <2>4, <2>5 DEF PaymentsOK
<1> QED
  BY <1>2, <1>3, <1>5, <1>7, PaymentsOnly

LEMMA RemoveStep ==
    ASSUME OrdersInv, NEW c \in Clerks, NEW i \in DOMAIN payments, Remove(c, i)
    PROVE  OrdersInv'
<1>1. PICK old, row : /\ old = payments[i]
                      /\ row = [old EXCEPT !.live = FALSE, !.credit = old.credit - old.amount]
  OBVIOUS
<1>2. /\ old \in Payment /\ old.amount \in Nat \ {0} /\ old.credit \in Int /\ old.live
      /\ payments \in Seq(Payment)
  BY <1>1, AllocatedInt DEF Remove, Payment, OrdersInv, Typed
<1>3. /\ payments' = [payments EXCEPT ![i] = row]
      /\ UNCHANGED <<orders, ledger, allocated, goods, pending>>
  <2>1. payments' = [payments EXCEPT ![i].live = FALSE, ![i].credit = @ - payments[i].amount]
    BY DEF Remove
  <2> QED
    BY <1>1, <1>2, <2>1 DEF Remove, Payment
<1>4. /\ row \in Payment /\ row.amount = old.amount /\ row.of = old.of /\ row.live = FALSE
      /\ row.credit = old.credit - old.amount
  <2>1. old.credit - old.amount \in Int
    BY <1>2
  <2> QED
    BY <1>1, <1>2, <2>1 DEF Payment
<1>5. /\ payments' \in Seq(Payment) /\ DOMAIN payments' = DOMAIN payments
      /\ Len(payments') = Len(payments)
      /\ \A j \in DOMAIN payments : payments'[j] = IF j = i THEN row ELSE payments[j]
  BY <1>2, <1>3, <1>4
<1>6. \A j : Allocated(j)' = Allocated(j)
  BY <1>3 DEF Allocated
<1>7. PaymentsOK'
  <2>1. PaymentsOK /\ Typed
    BY DEF OrdersInv
  <2>2. ASSUME NEW j \in DOMAIN payments
        PROVE  /\ Allocated(j)' <= payments'[j].amount /\ CreditOK(payments[j])'
               /\ payments'[j].of # 0 => allocated'[payments'[j].of][j] > 0
    <3>1. PICK row0, row1 : row0 = payments[j] /\ row1 = payments'[j]
      OBVIOUS
    <3>2. /\ CreditOK(row0) /\ Allocated(j) <= row0.amount
          /\ row0.of # 0 => allocated[row0.of][j] > 0
      BY <2>1, <3>1 DEF PaymentsOK
    <3>3. CASE j # i
      <4>1. row1 = row0
        BY <1>5, <3>1, <3>3
      <4>2. CreditOK(row1)'
        BY <1>3, <3>2, <4>1 DEF CreditOK
      <4>3. CreditOK(payments[j])'
        BY <3>1, <4>2 DEF CreditOK
      <4> QED
        BY <1>3, <1>6, <3>1, <3>2, <4>1, <4>3
    <3>4. CASE j = i
      <4>1. row0 = old /\ row1 = row
        BY <1>1, <1>5, <3>1, <3>4
      <4>2. PICK gone : gone = (old.of # 0 /\ orders[old.of].status = "REFUNDED")
        OBVIOUS
      <4>3. old.credit = IF gone THEN 0 ELSE old.amount
        BY <1>2, <3>2, <4>1, <4>2 DEF CreditOK
      <4>4. row.credit = IF gone THEN - old.amount ELSE 0
        BY <1>2, <1>4, <4>3
      <4>5. CreditOK(row)'
        BY <1>3, <1>4, <4>2, <4>4 DEF CreditOK
      <4>6. CreditOK(payments[j])'
        BY <3>1, <4>1, <4>5 DEF CreditOK
      <4> QED
        BY <1>3, <1>4, <1>6, <3>1, <3>2, <4>1, <4>6
    <3> QED
      BY <3>3, <3>4
  <2>3. \A x \in Orders, j \in Slots : j > Len(payments') => allocated'[x][j] = 0
    BY <1>3, <1>5, <2>1 DEF PaymentsOK
  <2> QED
    BY <1>5, <2>1, <2>2, <2>3 DEF PaymentsOK
<1>8. \A j \in DOMAIN payments : payments'[j].amount = payments[j].amount
  BY <1>1, <1>4, <1>5
<1> QED
  BY <1>3, <1>5, <1>7, <1>8, PaymentsOnly

(* A refunded order takes part in no payment any more. *)
LEMMA SharesShrink ==
    ASSUME OrdersInv, NEW o \in Orders, UNCHANGED allocated,
           orders'[o].status = "REFUNDED",
           \A x \in Orders : x # o => orders'[x].status = orders[x].status,
           NEW i \in DOMAIN payments
    PROVE  Allocated(i)' <= payments[i].amount
<1> DEFINE f == Shares(i)
           g == Shares(i)'
<1>1. /\ f = [x \in Orders |-> f[x]] /\ g = [x \in Orders |-> g[x]] /\ g[o] = 0
      /\ \A x \in Orders : x # o => g[x] = f[x]
  BY DEF Shares
<1>2. \A x \in Orders : f[x] \in Nat
  BY AllocatedInt
<1>3. Allocated(i) = SumFunction(f) /\ Allocated(i)' = SumFunction(g)
  BY DEF Allocated, Shares
<1>4. Allocated(i) <= payments[i].amount /\ payments[i].amount \in Nat
  BY AllocatedInt DEF OrdersInv, PaymentsOK
<1> HIDE DEF f, g
<1>5. SumFunction(g) = SumFunction(f) - f[o] + g[o] /\ SumFunction(f) \in Int
  BY <1>1, <1>2, SumAt
<1>6. f[o] \in Nat
  BY <1>2
<1> QED
  BY <1>1, <1>3, <1>4, <1>5, <1>6

LEMMA CommitRefundStep ==
    ASSUME OrdersInv, Overwriting \subseteq Racing, DistinctNumbers,
           NEW c \in Clerks, CommitRefund(c)
    PROVE  OrdersInv'
<1>t. PICK tx : tx = pending[c]
  OBVIOUS
<1>o. PICK o : o = tx.order
  OBVIOUS
<1>p. PICK old, new : /\ old = orders[o]
                      /\ new = [old EXCEPT !.status = "REFUNDED", !.paid = 0, !.due = 0,
                                           !.payment = "UNPAID"]
  OBVIOUS
<1>1. /\ tx # NoTx /\ tx.op = "refund" /\ o \in Orders /\ SeesOrder(tx, old) /\ SeesMoney(tx)
  BY <1>t, <1>o, <1>p, SeesIts DEF CommitRefund, Ops
<1>2. old.status \in Payable /\ old.paid > 0
  BY <1>1 DEF SeesOrder
<1>3. tx.in = {i \in DOMAIN payments : allocated[o][i] > 0}
  BY <1>1, <1>o DEF SeesMoney
<1>4. /\ old \in OrderType /\ MoneyOK(old, allocated[o]) /\ ChargeOK(old, ledger[o])
      /\ GoodsOK(old, outs[o]) /\ Typed /\ PaymentsOK
  BY <1>p, <1>1, OrderRow DEF OrdersInv
<1>5. /\ Finish(c) /\ UNCHANGED <<allocated, warehouse, outs, custody>>
      /\ ledger' = [ledger EXCEPT ![o].charged = @ - ledger[o].sold]
      /\ payments' = [i \in DOMAIN payments |->
                         IF i \in tx.in /\ Native(i, o)
                         THEN [payments[i] EXCEPT !.credit = @ - payments[i].amount]
                         ELSE payments[i]]
  BY <1>t, <1>o DEF CommitRefund, goods
<1>6. orders' = [orders EXCEPT ![o] = new]
  BY <1>t, <1>o, <1>p DEF CommitRefund
<1>7. /\ new \in OrderType /\ new.total = old.total /\ new.status = "REFUNDED"
      /\ new.qty = old.qty /\ new.delivered = old.delivered /\ new.cans = old.cans
      /\ new.empties = old.empties /\ new.extra = old.extra
  BY <1>p, <1>4 DEF OrderType, Statuses
<1>8. /\ ledger' \in [Orders -> [sold : Nat, charged : Int]] /\ ledger'[o].charged = 0
      /\ \A x \in Orders \ {o} : ledger'[x] = ledger[x]
  <2>1. ledger[o].charged = ledger[o].sold
    BY <1>2, <1>4 DEF ChargeOK
  <2> QED
    BY <1>1, <1>4, <1>5, <2>1, Reversed
<1>9. RowOK(new, allocated'[o], ledger'[o], outs[o])
  <2>1. MoneyOK(new, allocated[o])
    BY <1>4, <1>7 DEF MoneyOK, Open
  <2>2. ChargeOK(new, ledger'[o])
    BY <1>7, <1>8 DEF ChargeOK, Payable
  <2>3. GoodsOK(new, outs[o])
    BY <1>2, <1>4, <1>7 DEF GoodsOK, Payable, Open
  <2> QED
    BY <1>5, <2>1, <2>2, <2>3 DEF RowOK
<1>10. orders'[o] = new /\ \A x \in Orders : x # o => orders'[x] = orders[x]
  BY <1>1, <1>4, <1>6 DEF Typed
<1>11. ASSUME NEW j \in DOMAIN payments
       PROVE  /\ payments'[j] \in Payment /\ payments'[j].amount = payments[j].amount
              /\ payments'[j].of = payments[j].of /\ CreditOK(payments[j])'
  <2>1. PICK row0, row1 : row0 = payments[j] /\ row1 = payments'[j]
    OBVIOUS
  <2>2. /\ row0 \in Payment /\ row0.of \in Orders \cup {0} /\ row0.amount \in Nat
        /\ row0.credit \in Int /\ row0.live \in BOOLEAN /\ CreditOK(row0)
        /\ row0.of # 0 => allocated[row0.of][j] > 0
    <3>1. row0 \in Payment /\ row0.amount \in Nat
      BY <2>1, AllocatedInt
    <3>2. CreditOK(row0) /\ (row0.of # 0 => allocated[row0.of][j] > 0)
      BY <1>4, <2>1 DEF PaymentsOK
    <3> QED
      BY <3>1, <3>2 DEF Payment
  <2>3. row1 = IF j \in tx.in /\ row0.live /\ row0.of # 0 /\ Mentions(row0.of, o)
               THEN [row0 EXCEPT !.credit = row0.credit - row0.amount] ELSE row0
    BY <1>5, <2>1 DEF Native
  <2>4. CASE row0.of = o /\ row0.live
    <3>1. row0.of # 0 /\ j \in tx.in /\ Mentions(row0.of, o)
      BY <1>1, <1>3, <2>2, <2>4, Constants DEF DistinctNumbers
    <3>2. row0.credit = row0.amount
      BY <1>p, <1>2, <2>2, <2>4, <3>1, StatusSets DEF CreditOK
    <3>3. row0.credit - row0.amount = 0 /\ 0 \in Int
      BY <2>2, <3>2
    <3>4. row1 = [row0 EXCEPT !.credit = 0]
      BY <2>3, <2>4, <3>1, <3>3
    <3>5. /\ row1 \in Payment /\ row1.amount = row0.amount /\ row1.of = row0.of
          /\ row1.live = row0.live /\ row1.credit = 0
      BY <2>2, <3>3, <3>4 DEF Payment
    <3>6. CreditOK(row1)'
      BY <1>7, <1>10, <2>4, <3>1, <3>5 DEF CreditOK
    <3>7. CreditOK(payments[j])'
      BY <2>1, <3>6 DEF CreditOK
    <3> QED
      BY <2>1, <3>5, <3>7
  <2>5. CASE ~(row0.of = o /\ row0.live)
    <3>1. row1 = row0
      BY <1>1, <2>2, <2>3, <2>5 DEF DistinctNumbers
    <3>2. CreditOK(row0)'
      <4>1. CASE row0.of = o
        <5>1. ~row0.live /\ row0.credit = 0
          BY <1>p, <1>2, <2>2, <2>5, <4>1, StatusSets DEF CreditOK
        <5>2. row0.of # 0
          BY <1>1, <4>1, Constants
        <5> QED
          BY <1>7, <1>10, <4>1, <5>1, <5>2 DEF CreditOK
      <4>2. CASE row0.of # o
        <5>1. row0.of # 0 => orders'[row0.of] = orders[row0.of]
          BY <1>10, <2>2, <4>2
        <5> QED
          BY <2>2, <5>1 DEF CreditOK
      <4> QED
        BY <4>1, <4>2
    <3>3. CreditOK(payments[j])'
      BY <2>1, <3>1, <3>2 DEF CreditOK
    <3> QED
      BY <2>1, <2>2, <3>1, <3>3
  <2> QED
    BY <2>4, <2>5
<1>12. /\ DOMAIN payments' = DOMAIN payments /\ payments' \in Seq(Payment)
       /\ Len(payments') = Len(payments)
  <2>1. DOMAIN payments' = DOMAIN payments /\ payments' = [i \in DOMAIN payments |-> payments'[i]]
    BY <1>5
  <2>2. payments \in Seq(Payment)
    BY <1>4 DEF Typed
  <2>3. payments' \in Seq(Payment)
    BY <1>11, <2>1, <2>2, Rewritten
  <2> QED
    BY <2>1, <2>2, <2>3
<1>13. PaymentsOK'
  <2>1. ASSUME NEW j \in DOMAIN payments
        PROVE  /\ Allocated(j)' <= payments'[j].amount
               /\ payments'[j].of # 0 => allocated'[payments'[j].of][j] > 0
    <3>1. Allocated(j)' <= payments[j].amount
      BY <1>1, <1>5, <1>7, <1>10, SharesShrink
    <3>2. payments[j].of # 0 => allocated[payments[j].of][j] > 0
      BY <1>4 DEF PaymentsOK
    <3> QED
      BY <1>5, <1>11, <3>1, <3>2
  <2>2. \A x \in Orders, j \in Slots : j > Len(payments') => allocated'[x][j] = 0
    BY <1>4, <1>5, <1>12 DEF PaymentsOK
  <2>3. Len(payments') <= MaxPayments
    BY <1>4, <1>12 DEF PaymentsOK
  <2> QED
    BY <1>11, <1>12, <2>1, <2>2, <2>3 DEF PaymentsOK
<1>14. OrdersStand(c)
  <2>1. Passes(tx.op, old, new)
    <3> SUFFICES ASSUME NEW u, u.op \in Ops, SeesOrder(u, old), Apart("refund", u.op)
                 PROVE  SeesOrder(u, new)
      BY <1>1 DEF Passes
    <3>1. u.op \in {"charges", "items", "place", "cancel"}
      BY DEF Apart, Ops
    <3> QED
      BY <1>2, <3>1, StatusSets DEF SeesOrder
  <2> QED
    BY <1>t, <1>p, <1>1, <1>6, <2>1, OthersPass
<1>15. Noted(c) /\ MoneyStands(c)
  BY <1>t, <1>1, <1>4, <1>5, FinishNoted, NoMoneySeen
<1>16. /\ allocated' \in [Orders -> [Slots -> Nat]]
       /\ \A x \in Orders \ {o} : allocated'[x] = allocated[x] /\ ledger'[x] = ledger[x]
  BY <1>4, <1>5, <1>8 DEF Typed
<1>17. /\ new.delivered = orders[o].delivered /\ new.cans = orders[o].cans
       /\ new.empties = orders[o].empties
  BY <1>p, <1>7
<1> QED
  BY <1>1, <1>5, <1>6, <1>7, <1>8, <1>9, <1>12, <1>13, <1>14, <1>15, <1>16, <1>17, MoneyCommit

-----------------------------------------------------------------------------
(* The invariant holds at first and is kept. *)
LEMMA OrdersInit == ASSUME Init PROVE OrdersInv
<1> DEFINE first == [status |-> "NONE", qty |-> Zero, delivered |-> Zero, cans |-> Zero,
                     empties |-> Zero, extra |-> 0, total |-> 0, paid |-> 0, due |-> 0,
                     payment |-> "UNPAID"]
           none == [i \in Slots |-> 0]
           led == [sold |-> 0, charged |-> 0]
<1>1. /\ orders = [o \in Orders |-> first] /\ ledger = [o \in Orders |-> led]
      /\ payments = <<>> /\ allocated = [o \in Orders |-> none] /\ warehouse = Stock
      /\ outs = [o \in Orders |-> Zero] /\ custody = Zero /\ pending = [c \in Clerks |-> NoTx]
  BY DEF Init, Slots
<1>2. first \in OrderType /\ led \in [sold : Nat, charged : Int] /\ none \in [Slots -> Nat]
      /\ Zero \in [Products -> Int]
  BY Constants DEF OrderType, Statuses, Zero
<1>3. payments \in Seq(Payment) /\ DOMAIN payments = {} /\ Len(payments) = 0
  BY <1>1
<1>4. /\ first.status = "NONE" /\ first.qty = Zero /\ first.delivered = Zero
      /\ first.cans = Zero /\ first.empties = Zero /\ first.extra = 0 /\ first.total = 0
      /\ first.paid = 0 /\ first.due = 0 /\ first.payment = "UNPAID"
      /\ led.sold = 0 /\ led.charged = 0
  OBVIOUS
<1>5. SumFunction(none) = 0
  <2>1. DOMAIN none = Slots /\ \A i \in Slots : none[i] = 0
    OBVIOUS
  <2> QED
    BY <2>1, Constants, TotalZero
<1>6. TotalOf(Zero, 0) = 0
  <2> DEFINE f == [p \in Products |-> Zero[p] * Price[p]]
  <2>1. DOMAIN f = Products /\ \A p \in Products : f[p] = 0
    BY Constants DEF Zero
  <2> HIDE DEF f
  <2>2. SumFunction(f) = 0
    BY <2>1, Constants, TotalZero
  <2>3. SumFunction(f) + 0 = 0 /\ AtLeast0(0) = 0
    BY <2>2 DEF AtLeast0
  <2> QED
    BY <2>3 DEF TotalOf, f
<1>7. PaymentStatus(0, 0) = "UNPAID"
  BY DEF PaymentStatus
<1> HIDE DEF first, none, led
<1>8. RowOK(first, none, led, Zero)
  <2>1. MoneyOK(first, none)
    BY <1>4, <1>5, <1>6, <1>7 DEF MoneyOK
  <2>2. ChargeOK(first, led)
    BY <1>4 DEF ChargeOK, Payable
  <2>3. GoodsOK(first, Zero)
    BY <1>4 DEF GoodsOK, Payable, Zero
  <2> QED
    BY <2>1, <2>2, <2>3 DEF RowOK
<1>9. Typed
  BY <1>1, <1>2, <1>3, Constants DEF Typed
<1>10. Rows
  BY <1>1, <1>8 DEF Rows
<1>11. PaymentsOK
  <2>1. \A o \in Orders, i \in Slots : allocated[o][i] = 0
    BY <1>1 DEF none
  <2> QED
    BY <1>3, <2>1, Constants DEF PaymentsOK
<1>12. SumsOK
  <2> SUFFICES ASSUME NEW p \in Products
               PROVE  /\ warehouse[p] + SumFunction(Taken(p)) = Stock[p]
                      /\ custody[p] = SumFunction(Holding(p))
    BY DEF SumsOK
  <2>1. DOMAIN Taken(p) = Orders /\ \A o \in Orders : Taken(p)[o] = 0
    BY <1>1 DEF Taken, Zero
  <2>2. DOMAIN Holding(p) = Orders /\ \A o \in Orders : Holding(p)[o] = 0
    BY <1>1, <1>4 DEF Holding, Held, Zero
  <2>3. SumFunction(Taken(p)) = 0 /\ SumFunction(Holding(p)) = 0
    BY <2>1, <2>2, Constants, TotalZero
  <2>4. warehouse[p] = Stock[p] /\ Stock[p] \in Int /\ custody[p] = 0
    BY <1>1, Constants DEF Zero, Quantity
  <2> QED
    BY <2>3, <2>4
<1>13. NoRace /\ \A c \in Clerks : Sees(pending[c])
  BY <1>1 DEF NoRace, Sees
<1> QED
  BY <1>9, <1>10, <1>11, <1>12, <1>13 DEF OrdersInv

LEMMA StartStep ==
    ASSUME OrdersInv, NEW c \in Clerks, Start(c) PROVE OrdersInv'
<1>1. CASE \E o \in Orders : \E cart \in Carts : CheckItems(c, o, cart)
  BY <1>1, CheckItemsStep
<1>2. CASE \E o \in Orders : \E cart \in Carts : \E extra \in Extras : Create(c, o, cart, extra)
  BY <1>2, CreateStep
<1>3. CASE \E o \in Orders : \E extra \in Extras : CheckCharges(c, o, extra)
  BY <1>3, CheckChargesStep
<1>4. CASE \E o \in Orders : CheckPlace(c, o) \/ CheckShip(c, o) \/ CheckCancel(c, o)
                             \/ CheckRefund(c, o)
  BY <1>4, CheckPlaceStep, CheckShipStep, CheckCancelStep, CheckRefundStep
<1>5. CASE \E o \in Orders : \E h \in Handoffs : CheckDeliver(c, o, h)
  BY <1>5, CheckDeliverStep
<1>6. CASE \E o \in Orders : \E amount \in Amounts : CheckPay(c, o, amount)
  BY <1>6, CheckPayStep
<1>7. CASE \E o \in Orders : \E amount \in Amounts : \E i \in DOMAIN payments :
              CheckApply(c, o, i, amount)
  BY <1>7, CheckApplyStep
<1>8. CASE \E amount \in Deposits : Receive(c, amount)
  BY <1>8, ReceiveStep
<1>9. CASE \E i \in DOMAIN payments : Remove(c, i)
  BY <1>9, RemoveStep
<1> QED
  BY <1>1, <1>2, <1>3, <1>4, <1>5, <1>6, <1>7, <1>8, <1>9 DEF Start

LEMMA CommitStep ==
    ASSUME OrdersInv, Overwriting \subseteq Racing, DistinctNumbers,
           NEW c \in Clerks, Commit(c)
    PROVE  OrdersInv'
BY CommitChargesStep, CommitItemsStep, CommitPlaceStep, CommitShipStep, CommitDeliverStep,
   CommitCancelStep, CommitPayStep, CommitApplyStep, CommitRefundStep DEF Commit

LEMMA OrdersNext ==
    ASSUME OrdersInv, Overwriting \subseteq Racing, DistinctNumbers, [Next]_vars
    PROVE  OrdersInv'
<1>1. ASSUME NEW c \in Clerks, Start(c) \/ Commit(c) \/ Abort(c) PROVE OrdersInv'
  <2>1. CASE Abort(c)
    BY <2>1, IdleStep DEF Abort
  <2> QED
    BY <1>1, <2>1, StartStep, CommitStep
<1>2. CASE UNCHANGED vars
  <2>1. UNCHANGED <<orders, ledger, payments, allocated, warehouse, outs, custody, pending>>
    BY <1>2 DEF vars, money, goods
  <2>2. OrdersInv
    OBVIOUS
  <2> QED
    BY <2>1, <2>2 DEF OrdersInv, Typed, Rows, PaymentsOK, CreditOK, Allocated, SumsOK, Taken,
                      Holding, NoRace, Sees, SeesMoney
<1> QED
  BY <1>1, <1>2 DEF Next

LEMMA OrdersAlways ==
    ASSUME Overwriting \subseteq Racing, DistinctNumbers PROVE Spec => []OrdersInv
<1>1. Init => OrdersInv
  BY OrdersInit
<1>2. OrdersInv /\ [Next]_vars => OrdersInv'
  BY OrdersNext
<1> QED
  BY <1>1, <1>2, PTL DEF Spec

-----------------------------------------------------------------------------
(* What the invariant says of what the runs check. *)
LEMMA AgreeIn == ASSUME OrdersInv PROVE OrdersAgree
<1>0. Typed /\ PaymentsOK /\ SumsOK
  BY DEF OrdersInv
<1>1. TypeOK
  <2>1. ledger \in [Orders -> [sold : Nat, charged : Nat]]
    <3>1. \A o \in Orders : ledger[o] \in [sold : Nat, charged : Nat]
      <4> SUFFICES ASSUME NEW o \in Orders PROVE ledger[o] \in [sold : Nat, charged : Nat]
        OBVIOUS
      <4>1. ledger[o].charged \in Nat
        BY OrderRow, OrderFields DEF ChargeOK
      <4>2. ledger[o] \in [sold : Nat, charged : Int]
        BY <1>0 DEF Typed
      <4> QED
        BY <4>1, <4>2
    <3> QED
      BY <1>0, <3>1 DEF Typed
  <2> QED
    BY <1>0, <2>1 DEF Typed, TypeOK, Payment, Slots
<1>2. MoneyAgrees
  <2> SUFFICES ASSUME NEW o \in Orders
               PROVE  LET order == orders[o] IN
                        /\ order.total = TotalOf(order.qty, order.extra)
                        /\ order.status # "REFUNDED" =>
                               /\ order.paid = SumFunction(allocated[o])
                               /\ order.paid <= order.total
                               /\ order.due = order.total - order.paid
                               /\ order.payment = PaymentStatus(order.paid, order.total)
    BY DEF MoneyAgrees
  <2> QED
    BY OrderRow DEF MoneyOK
<1>3. AllocatedOnce
  BY <1>0 DEF PaymentsOK, AllocatedOnce
<1>4. LedgerAgrees
  <2>1. \A o \in Orders :
           ledger[o].charged = IF orders[o].status \in Payable THEN orders[o].total ELSE 0
    BY OrderRow DEF ChargeOK
  <2>2. \A i \in DOMAIN payments : CreditOK(payments[i])
    BY <1>0 DEF PaymentsOK
  <2> QED
    BY <2>1, <2>2 DEF CreditOK, LedgerAgrees
<1>5. GoodsAgree
  <2>1. \A p \in Products :
           /\ warehouse[p] + SumFunction([o \in Orders |-> outs[o][p]]) = Stock[p]
           /\ custody[p] = SumFunction([o \in Orders |->
                            IF orders[o].delivered[p] = 0 THEN 0
                            ELSE orders[o].cans[p] - orders[o].empties[p]])
    BY <1>0 DEF SumsOK, Taken, Holding, Held
  <2>2. ASSUME NEW o \in Orders
        PROVE  LET order == orders[o] IN
           /\ outs[o] = IF order.status \in Payable \cup {"REFUNDED"} THEN order.qty ELSE Zero
           /\ \A p \in Products : order.delivered[p] <= order.qty[p]
           /\ order.status \in {"DRAFT", "PLACED", "SHIPPED", "CANCELLED"} =>
                  order.delivered = Zero
           /\ order.status = "PARTIALLY_DELIVERED" => order.delivered \notin {Zero, order.qty}
           /\ order.status = "DELIVERED" => order.delivered = order.qty
    BY OrderRow DEF GoodsOK, Open
  <2> QED
    BY <2>1, <2>2 DEF GoodsAgree
<1> QED
  BY <1>1, <1>2, <1>3, <1>4, <1>5 DEF OrdersAgree

(* Orders, payments, the ledger, goods and containers always agree, for    *)
(* any orders, products and amounts and any number of requests at once, if *)
(* requests that overwrite one another do not overlap and no order number  *)
(* begins with another (orders.service.ts).                                *)
THEOREM OrdersAlwaysAgree ==
    ASSUME Overwriting \subseteq Racing, DistinctNumbers
    PROVE  Spec => []OrdersAgree
<1>1. Spec => []OrdersInv
  BY OrdersAlways
<1>2. OrdersInv => OrdersAgree
  BY AgreeIn
<1> QED
  BY <1>1, <1>2, PTL

-----------------------------------------------------------------------------
(* What a step makes of one order. *)
Forward(old, new) ==
    /\ Rank(old.status) <= Rank(new.status)
    /\ Rank(old.status) >= 2 => /\ new.qty = old.qty /\ new.total = old.total
                                /\ \A p \in Products : old.delivered[p] <= new.delivered[p]
    /\ Rank(old.status) = 6 => new = old

LEMMA Ranks ==
    /\ Rank("NONE") = 0 /\ Rank("DRAFT") = 1 /\ Rank("PLACED") = 2 /\ Rank("SHIPPED") = 3
    /\ Rank("PARTIALLY_DELIVERED") = 4 /\ Rank("DELIVERED") = 5
    /\ Rank("CANCELLED") = 6 /\ Rank("REFUNDED") = 6
    /\ \A s \in Statuses : Rank(s) \in 0..6
    /\ \A s \in Payable : Rank(s) \in 2..5
BY DEF Rank, Statuses, Payable

LEMMA Stays == ASSUME NEW order \in OrderType PROVE Forward(order, order)
<1>1. order.delivered \in Quantity /\ Rank(order.status) \in 0..6
  BY OrderFields, Ranks
<1> QED
  BY <1>1 DEF Forward, Quantity

(* Of an order that stands the lines and the total stay as they are. *)
LEMMA Keeps ==
    ASSUME NEW old \in OrderType, NEW new, Rank(old.status) \in 0..5,
           Rank(new.status) \in 0..6, Rank(old.status) <= Rank(new.status),
           Rank(old.status) >= 2 => /\ new.qty = old.qty /\ new.total = old.total
                                    /\ \A p \in Products : old.delivered[p] <= new.delivered[p]
    PROVE  Forward(old, new)
BY DEF Forward

LEMMA SameDelivered ==
    ASSUME NEW old \in OrderType PROVE \A p \in Products : old.delivered[p] <= old.delivered[p]
<1>1. old.delivered \in Quantity
  BY OrderFields
<1> QED
  BY <1>1 DEF Quantity

(* The steps that write an order move it forward. *)
LEMMA OneForward ==
    ASSUME OrdersInv, NEW o \in Orders, NEW new, orders' = [orders EXCEPT ![o] = new],
           Forward(orders[o], new)
    PROVE  \A x \in Orders : Forward(orders[x], orders'[x])
<1> SUFFICES ASSUME NEW x \in Orders PROVE Forward(orders[x], orders'[x])
  OBVIOUS
<1>1. orders'[x] = IF x = o THEN new ELSE orders[x]
  BY DEF OrdersInv, Typed
<1>2. Forward(orders[x], orders[x])
  BY Stays DEF OrdersInv, Typed
<1> QED
  BY <1>1, <1>2

LEMMA CreateForward ==
    ASSUME OrdersInv, NEW c \in Clerks, NEW o \in Orders, NEW cart \in Carts,
           NEW extra \in Extras, Create(c, o, cart, extra)
    PROVE  \A x \in Orders : Forward(orders[x], orders'[x])
<1>1. PICK old, base : /\ old = orders[o]
                       /\ base = [old EXCEPT !.status = "DRAFT", !.extra = extra]
  OBVIOUS
<1>2. PICK order : order = Lined(base, cart)
  OBVIOUS
<1>3. PICK new : new = Priced(order, TotalOf(order.qty, extra), 0)
  OBVIOUS
<1>4. orders' = [orders EXCEPT ![o] = new] /\ old.status = "NONE"
  BY <1>1, <1>2, <1>3 DEF Create
<1>5. old \in OrderType
  BY <1>1, OrderRow
<1>6. base \in OrderType /\ base.status = "DRAFT"
  BY <1>1, <1>5 DEF OrderType, Statuses
<1>7. order \in OrderType /\ order.status = "DRAFT"
  BY <1>2, <1>6, LinedIs
<1>8. new.status = "DRAFT"
  BY <1>3, <1>7 DEF Priced, OrderType
<1>9. Forward(old, new)
  BY <1>4, <1>5, <1>8, Ranks, Keeps
<1> QED
  BY <1>1, <1>4, <1>9, OneForward

LEMMA ChargesForward ==
    ASSUME OrdersInv, NEW c \in Clerks, CommitCharges(c)
    PROVE  \A x \in Orders : Forward(orders[x], orders'[x])
<1>1. PICK tx : tx = pending[c]
  OBVIOUS
<1>2. PICK o, old : o = tx.order /\ old = orders[o]
  OBVIOUS
<1>3. tx.op = "charges" /\ o \in Orders /\ SeesOrder(tx, old)
  BY <1>1, <1>2, SeesIts DEF CommitCharges, Ops
<1>4. old.status = "DRAFT" /\ old \in OrderType
  BY <1>2, <1>3, OrderRow DEF SeesOrder
<1>5. PICK total, due, status : /\ total = TotalOf(tx.read.qty, tx.in)
                                /\ due = AtLeast0(total - tx.read.paid)
                                /\ status = PaymentStatus(tx.read.paid, total)
  OBVIOUS
<1>6. PICK new : new = [old EXCEPT !.extra = tx.in, !.total = total, !.due = due,
                                   !.payment = status]
  OBVIOUS
<1>7. orders' = [orders EXCEPT ![o] = new]
  BY <1>1, <1>2, <1>5, <1>6 DEF CommitCharges
<1>8. new.status = "DRAFT"
  BY <1>4, <1>6 DEF OrderType
<1>9. Forward(old, new)
  BY <1>4, <1>8, Ranks, Keeps
<1> QED
  BY <1>2, <1>3, <1>7, <1>9, OneForward

LEMMA ItemsForward ==
    ASSUME OrdersInv, NEW c \in Clerks, CommitItems(c)
    PROVE  \A x \in Orders : Forward(orders[x], orders'[x])
<1>1. PICK tx : tx = pending[c]
  OBVIOUS
<1>2. PICK o, old : o = tx.order /\ old = orders[o]
  OBVIOUS
<1>3. tx.op = "items" /\ o \in Orders /\ SeesOrder(tx, old)
  BY <1>1, <1>2, SeesIts DEF CommitItems, Ops
<1>4. old.status = "DRAFT" /\ old \in OrderType /\ tx.in \in Carts
  BY <1>2, <1>3, OrderRow DEF SeesOrder
<1>5. PICK total, due, status : /\ total = TotalOf(Lined(tx.read, tx.in).qty, tx.read.extra)
                                /\ due = AtLeast0(total - tx.read.paid)
                                /\ status = PaymentStatus(tx.read.paid, total)
  OBVIOUS
<1>6. PICK base : base = Lined(old, tx.in)
  OBVIOUS
<1>7. PICK new : new = [base EXCEPT !.total = total, !.due = due, !.payment = status]
  OBVIOUS
<1>8. orders' = [orders EXCEPT ![o] = new]
  BY <1>1, <1>2, <1>5, <1>6, <1>7 DEF CommitItems
<1>9. base \in OrderType /\ base.status = "DRAFT"
  BY <1>4, <1>6, LinedIs
<1>10. new.status = "DRAFT"
  BY <1>7, <1>9 DEF OrderType
<1>11. Forward(old, new)
  BY <1>4, <1>10, Ranks, Keeps
<1> QED
  BY <1>2, <1>3, <1>8, <1>11, OneForward

LEMMA PlaceForward ==
    ASSUME OrdersInv, NEW c \in Clerks, CommitPlace(c)
    PROVE  \A x \in Orders : Forward(orders[x], orders'[x])
<1>1. PICK tx : tx = pending[c]
  OBVIOUS
<1>2. PICK o, old : o = tx.order /\ old = orders[o]
  OBVIOUS
<1>3. tx.op = "place" /\ o \in Orders /\ SeesOrder(tx, old)
  BY <1>1, <1>2, SeesIts DEF CommitPlace, Ops
<1>4. old.status = "DRAFT" /\ old \in OrderType
  BY <1>2, <1>3, OrderRow DEF SeesOrder
<1>5. PICK total, due, status : /\ total = TotalOf(tx.read.qty, tx.read.extra)
                                /\ due = AtLeast0(total - tx.read.paid)
                                /\ status = PaymentStatus(tx.read.paid, total)
  OBVIOUS
<1>6. PICK new : new = [old EXCEPT !.status = "PLACED", !.total = total, !.due = due,
                                   !.payment = status]
  OBVIOUS
<1>7. orders' = [orders EXCEPT ![o] = new]
  BY <1>1, <1>2, <1>5, <1>6 DEF CommitPlace
<1>8. new.status = "PLACED"
  BY <1>4, <1>6 DEF OrderType
<1>9. Forward(old, new)
  BY <1>4, <1>8, Ranks, Keeps
<1> QED
  BY <1>2, <1>3, <1>7, <1>9, OneForward

LEMMA StatusForward ==
    ASSUME OrdersInv, NEW c \in Clerks, CommitShip(c) \/ CommitCancel(c)
    PROVE  \A x \in Orders : Forward(orders[x], orders'[x])
<1>1. PICK tx : tx = pending[c]
  OBVIOUS
<1>2. PICK o, old : o = tx.order /\ old = orders[o]
  OBVIOUS
<1>3. PICK status : status = IF tx.op = "ship" THEN "SHIPPED" ELSE "CANCELLED"
  OBVIOUS
<1>4. tx.op \in {"ship", "cancel"} /\ o \in Orders /\ SeesOrder(tx, old)
  BY <1>1, <1>2, SeesIts DEF CommitShip, CommitCancel, Ops
<1>5. old \in OrderType /\ old.status \in {"DRAFT", "PLACED"}
      /\ (tx.op = "ship" => old.status = "PLACED")
  BY <1>2, <1>4, OrderRow DEF SeesOrder
<1>6. PICK new : new = [old EXCEPT !.status = status]
  OBVIOUS
<1>7. orders' = [orders EXCEPT ![o] = new]
  <2>1. orders' = [orders EXCEPT ![o].status = status]
    BY <1>1, <1>2, <1>3 DEF CommitShip, CommitCancel, In
  <2> QED
    BY <1>2, <1>4, <1>6, <2>1 DEF OrdersInv, Typed
<1>8. new.status = status /\ new.qty = old.qty /\ new.total = old.total
      /\ new.delivered = old.delivered
  BY <1>5, <1>6 DEF OrderType
<1>9. \A p \in Products : old.delivered[p] <= new.delivered[p]
  BY <1>5, <1>8, SameDelivered
<1>10. Rank(old.status) \in 0..5 /\ Rank(new.status) \in 0..6
       /\ Rank(old.status) <= Rank(new.status)
  BY <1>3, <1>4, <1>5, <1>8, Ranks
<1>11. Forward(old, new)
  BY <1>5, <1>8, <1>9, <1>10, Keeps
<1> QED
  BY <1>2, <1>4, <1>7, <1>11, OneForward

LEMMA DeliverForward ==
    ASSUME OrdersInv, NEW c \in Clerks, CommitDeliver(c)
    PROVE  \A x \in Orders : Forward(orders[x], orders'[x])
<1>1. PICK tx : tx = pending[c]
  OBVIOUS
<1>2. PICK o, old, h : o = tx.order /\ old = orders[o] /\ h = tx.in
  OBVIOUS
<1>3. tx.op = "deliver" /\ o \in Orders /\ SeesOrder(tx, old) /\ tx.read \in OrderType
  BY <1>1, <1>2, SeesIts DEF CommitDeliver, Ops
<1>4. /\ old \in OrderType /\ old.status \in {"SHIPPED", "PARTIALLY_DELIVERED"}
      /\ tx.read.status = old.status /\ tx.read.delivered = old.delivered /\ h \in Handoffs
  BY <1>2, <1>3, OrderRow DEF SeesOrder
<1>5. PICK next : next = Delivered(tx.read, h)
  OBVIOUS
<1>6. PICK status : status = IF Fulfilment(next) # tx.read.status THEN Fulfilment(next)
                             ELSE old.status
  OBVIOUS
<1>7. PICK new : new = [old EXCEPT !.delivered = next.delivered, !.cans = next.cans,
                                   !.empties = next.empties, !.status = status]
  OBVIOUS
<1>8. orders' = [orders EXCEPT ![o] = new]
  BY <1>1, <1>2, <1>5, <1>6, <1>7 DEF CommitDeliver
<1>9. \A p \in Products : old.delivered[p] <= next.delivered[p]
  <2>1. \A p \in Products :
           next.delivered[p] = IF p \in DOMAIN h THEN tx.read.delivered[p] + h[p].qty
                               ELSE tx.read.delivered[p]
    BY <1>3, <1>4, <1>5, DeliveredIs
  <2>2. old.delivered \in Quantity
    BY <1>4, OrderFields
  <2> QED
    BY <1>4, <2>1, <2>2, HandoffTyped DEF Quantity
<1>10. status \in {"PARTIALLY_DELIVERED", "DELIVERED"}
  BY <1>4, <1>6 DEF Fulfilment
<1>11. new.status = status /\ new.qty = old.qty /\ new.total = old.total
       /\ new.delivered = next.delivered
  BY <1>4, <1>7 DEF OrderType
<1>12. Rank(old.status) \in 0..5 /\ Rank(new.status) \in 0..6
       /\ Rank(old.status) <= Rank(new.status)
  BY <1>4, <1>10, <1>11, Ranks
<1>13. Forward(old, new)
  BY <1>4, <1>9, <1>11, <1>12, Keeps
<1> QED
  BY <1>2, <1>3, <1>8, <1>13, OneForward

LEMMA PaidForward ==
    ASSUME OrdersInv, NEW c \in Clerks, CommitPay(c) \/ CommitApply(c)
    PROVE  \A x \in Orders : Forward(orders[x], orders'[x])
<1>1. PICK tx : tx = pending[c]
  OBVIOUS
<1>2. PICK o, old : o = tx.order /\ old = orders[o]
  OBVIOUS
<1>3. tx.op \in {"pay", "apply"} /\ o \in Orders /\ SeesOrder(tx, old)
  BY <1>1, <1>2, SeesIts DEF CommitPay, CommitApply, Ops
<1>4. /\ old \in OrderType /\ old.status \in Payable /\ tx.read.total = old.total
  BY <1>2, <1>3, OrderRow DEF SeesOrder
<1>5. PICK paid : paid = tx.read.paid + (IF tx.op = "pay" THEN tx.in ELSE tx.in.amount)
  OBVIOUS
<1>6. PICK total, due, status : total = old.total /\ due = AtLeast0(total - paid)
                                /\ status = PaymentStatus(paid, total)
  OBVIOUS
<1>7. PICK new : new = Priced(old, total, paid)
  OBVIOUS
<1>8. orders' = [orders EXCEPT ![o] = new]
  BY <1>1, <1>2, <1>4, <1>5, <1>6, <1>7 DEF CommitPay, CommitApply, In
<1>9. new = [old EXCEPT !.total = total, !.paid = paid, !.due = due, !.payment = status]
  BY <1>6, <1>7 DEF Priced
<1>10. new.status = old.status /\ new.qty = old.qty /\ new.total = total
       /\ new.delivered = old.delivered
  BY <1>4, <1>9 DEF OrderType
<1>11. \A p \in Products : old.delivered[p] <= new.delivered[p]
  BY <1>4, <1>10, SameDelivered
<1>12. Rank(old.status) \in 0..5 /\ Rank(new.status) \in 0..6
       /\ Rank(old.status) <= Rank(new.status)
  BY <1>4, <1>10, Ranks
<1>13. Forward(old, new)
  BY <1>4, <1>6, <1>10, <1>11, <1>12, Keeps
<1> QED
  BY <1>2, <1>3, <1>8, <1>13, OneForward

LEMMA RefundForward ==
    ASSUME OrdersInv, NEW c \in Clerks, CommitRefund(c)
    PROVE  \A x \in Orders : Forward(orders[x], orders'[x])
<1>1. PICK tx : tx = pending[c]
  OBVIOUS
<1>2. PICK o, old : o = tx.order /\ old = orders[o]
  OBVIOUS
<1>3. tx.op = "refund" /\ o \in Orders /\ SeesOrder(tx, old)
  BY <1>1, <1>2, SeesIts DEF CommitRefund, Ops
<1>4. old \in OrderType /\ old.status \in Payable
  BY <1>2, <1>3, OrderRow DEF SeesOrder
<1>5. PICK new : new = [old EXCEPT !.status = "REFUNDED", !.paid = 0, !.due = 0,
                                   !.payment = "UNPAID"]
  OBVIOUS
<1>6. orders' = [orders EXCEPT ![o] = new]
  BY <1>1, <1>2, <1>5 DEF CommitRefund
<1>7. new.status = "REFUNDED" /\ new.qty = old.qty /\ new.total = old.total
      /\ new.delivered = old.delivered
  BY <1>4, <1>5 DEF OrderType
<1>8. \A p \in Products : old.delivered[p] <= new.delivered[p]
  BY <1>4, <1>7, SameDelivered
<1>9. Rank(old.status) \in 0..5 /\ Rank(new.status) \in 0..6
      /\ Rank(old.status) <= Rank(new.status)
  BY <1>4, <1>7, Ranks
<1>10. Forward(old, new)
  BY <1>4, <1>7, <1>8, <1>9, Keeps
<1> QED
  BY <1>2, <1>3, <1>6, <1>10, OneForward

MovesStep == \A x \in Orders : Forward(orders[x], orders'[x])

LEMMA NextForward == ASSUME OrdersInv, [Next]_vars PROVE MovesStep
<1>1. ASSUME orders' = orders PROVE MovesStep
  BY <1>1, OrderRow, Stays DEF MovesStep
<1>2. ASSUME NEW c \in Clerks, Start(c) PROVE MovesStep
  <2>1. CASE \E o \in Orders, cart \in Carts, extra \in Extras : Create(c, o, cart, extra)
    BY <2>1, CreateForward DEF MovesStep
  <2>2. CASE orders' = orders
    BY <1>1, <2>2
  <2> QED
    BY <1>2, <2>1, <2>2 DEF Start, CheckItems, CheckCharges, CheckPlace, CheckShip, CheckCancel,
       CheckRefund, CheckDeliver, CheckPay, CheckApply, Receive, Remove, Read
<1>3. ASSUME NEW c \in Clerks, Commit(c) PROVE MovesStep
  BY <1>3, ChargesForward, ItemsForward, PlaceForward, StatusForward, DeliverForward,
     PaidForward, RefundForward DEF Commit, MovesStep
<1>4. ASSUME NEW c \in Clerks, Abort(c) PROVE MovesStep
  BY <1>1, <1>4 DEF Abort
<1>5. CASE UNCHANGED vars
  BY <1>1, <1>5 DEF vars
<1> QED
  BY <1>2, <1>3, <1>4, <1>5 DEF Next

(* An order only moves forward, under the same conditions: a placed order  *)
(* keeps its lines and its total, what was delivered stays delivered, and  *)
(* a cancelled or refunded order never changes again (orders.service.ts).  *)
THEOREM OrdersMoveForward ==
    ASSUME Overwriting \subseteq Racing, DistinctNumbers
    PROVE  Spec => MovesForward
<1>1. Spec => []OrdersInv
  BY OrdersAlways
<1>2. OrdersInv /\ [Next]_vars => [MovesStep]_vars
  BY NextForward
<1>3. MovesStep <=> \A o \in Orders : LET old == orders[o]  new == orders'[o] IN
         /\ Rank(old.status) <= Rank(new.status)
         /\ Rank(old.status) >= 2 => /\ new.qty = old.qty /\ new.total = old.total
                                     /\ \A p \in Products : old.delivered[p] <= new.delivered[p]
         /\ Rank(old.status) = 6 => new = old
  BY DEF MovesStep, Forward
<1>4. Spec => [][MovesStep]_vars
  BY <1>1, <1>2, PTL DEF Spec
<1> QED
  BY <1>3, <1>4, PTL DEF MovesForward

-----------------------------------------------------------------------------
(* Refunds.  Whatever overlaps, a payment that names an order names one    *)
(* that is there, because the request that makes it does.                  *)
Names(tx) == \/ tx = NoTx
             \/ /\ DOMAIN tx = {"op", "order", "read", "in", "gone"}
                /\ tx.op = "pay" => tx.order \in Orders /\ tx.in \in Amounts

NamesInv == /\ orders = [o \in Orders |-> orders[o]]
            /\ payments \in Seq(Payment)
            /\ pending = [c \in Clerks |-> pending[c]]
            /\ \A c \in Clerks : Names(pending[c])

NamesStand == pending' = [c \in Clerks |-> pending'[c]] /\ \A c \in Clerks : Names(pending'[c])

LEMMA NamesChange ==
    ASSUME NamesInv, NEW c \in Clerks, NEW tx, Names(tx), pending' = [pending EXCEPT ![c] = tx]
    PROVE  NamesStand
<1>1. \A d \in Clerks : pending'[d] = IF d = c THEN tx ELSE pending[d]
  BY DEF NamesInv
<1>2. pending' = [d \in Clerks |-> pending'[d]]
  BY DEF NamesInv
<1> QED
  BY <1>1, <1>2 DEF NamesInv, NamesStand

LEMMA NamesFinish == ASSUME NamesInv, NEW c \in Clerks, Finish(c) PROVE NamesStand
BY NamesChange DEF Names, Finish

LEMMA NamesRead ==
    ASSUME NamesInv, NEW c \in Clerks, NEW op, NEW o \in Orders, NEW in, Read(c, op, o, in),
           op = "pay" => in \in Amounts
    PROVE  NamesStand
<1>1. PICK tx : tx = [op |-> op, order |-> o, read |-> orders[o], in |-> in, gone |-> FALSE]
  OBVIOUS
<1>2. Names(tx)
  BY <1>1 DEF Names
<1>3. pending' = [pending EXCEPT ![c] = tx]
  BY <1>1 DEF Read
<1> QED
  BY <1>2, <1>3, NamesChange

LEMMA NamesReplace == ASSUME NamesInv, NEW c \in Clerks, ReplaceLines(c) PROVE NamesStand
<1>1. ASSUME NEW d \in Clerks PROVE Names(pending'[d])
  <2>1. PICK tx : tx = pending[d]
    OBVIOUS
  <2>2. Names(tx)
    BY <2>1 DEF NamesInv
  <2>3. pending'[d] \in {NoTx, tx} \/ (tx # NoTx /\ pending'[d] = [tx EXCEPT !.gone = TRUE])
    BY <2>1 DEF ReplaceLines
  <2>4. CASE tx # NoTx /\ pending'[d] = [tx EXCEPT !.gone = TRUE]
    BY <2>2, <2>4 DEF Names
  <2> QED
    BY <2>2, <2>3, <2>4 DEF Names
<1> QED
  BY <1>1 DEF NamesStand, ReplaceLines

(* A step adds a payment, or changes some in their place.                  *)
LEMMA AmountInt == ASSUME NEW row \in Payment PROVE row.credit - row.amount \in Int
BY InputsAssumption DEF Payment

LEMMA PaymentAdded ==
    ASSUME NamesInv, NEW of \in Orders \cup {0}, NEW amount \in Amounts \cup Deposits,
           payments' = Append(payments, [amount |-> amount, of |-> of, live |-> TRUE,
                                         credit |-> amount])
    PROVE  payments' \in Seq(Payment) /\ \A i \in DOMAIN payments : payments'[i] = payments[i]
<1>1. PICK row : row = [amount |-> amount, of |-> of, live |-> TRUE, credit |-> amount]
  OBVIOUS
<1>2. row \in Payment
  BY <1>1, InputsAssumption DEF Payment
<1> QED
  BY <1>1, <1>2, Appended DEF NamesInv

LEMMA PaymentsKept ==
    ASSUME NamesInv, NEW f, payments' = [i \in DOMAIN payments |-> f[i]],
           \A i \in DOMAIN payments : f[i] \in Payment
    PROVE  payments' \in Seq(Payment)
<1>1. DOMAIN payments = 1..Len(payments) /\ Len(payments) \in Nat
  BY SeqDomain DEF NamesInv
<1> QED
  BY <1>1

LEMMA PaymentRemoved ==
    ASSUME NamesInv, NEW c \in Clerks, NEW i \in DOMAIN payments, Remove(c, i)
    PROVE  payments' \in Seq(Payment)
<1>1. PICK old : old = payments[i]
  OBVIOUS
<1>2. PICK row : row = [old EXCEPT !.live = FALSE, !.credit = old.credit - old.amount]
  OBVIOUS
<1>3. old \in Payment /\ payments \in Seq(Payment)
  BY <1>1, SeqDomain DEF NamesInv
<1>4. payments' = [payments EXCEPT ![i] = row]
  <2>1. payments' = [payments EXCEPT ![i].live = FALSE, ![i].credit = @ - payments[i].amount]
    BY DEF Remove
  <2> QED
    BY <1>1, <1>2, <1>3, <2>1 DEF Payment
<1>5. row \in Payment
  BY <1>2, <1>3, AmountInt DEF Payment
<1> QED
  BY <1>3, <1>4, <1>5

LEMMA PaymentsRefunded ==
    ASSUME NamesInv, NEW c \in Clerks, CommitRefund(c)
    PROVE  payments' \in Seq(Payment)
<1>1. PICK tx : tx = pending[c]
  OBVIOUS
<1>2. PICK f : f = [i \in DOMAIN payments |->
                      IF i \in tx.in /\ Native(i, tx.order)
                      THEN [payments[i] EXCEPT !.credit = @ - payments[i].amount]
                      ELSE payments[i]]
  OBVIOUS
<1>3. payments' = f
  BY <1>1, <1>2 DEF CommitRefund
<1>4. ASSUME NEW i \in DOMAIN payments PROVE f[i] \in Payment
  <2>1. PICK old : old = payments[i]
    OBVIOUS
  <2>2. old \in Payment
    BY <2>1, SeqDomain DEF NamesInv
  <2>3. PICK credit : credit = old.credit - old.amount
    OBVIOUS
  <2>4. [old EXCEPT !.credit = credit] \in Payment
    BY <2>2, <2>3, AmountInt DEF Payment
  <2>5. f[i] = old \/ f[i] = [old EXCEPT !.credit = credit]
    BY <1>2, <2>1, <2>3
  <2> QED
    BY <2>2, <2>4, <2>5
<1>5. payments' = [i \in DOMAIN payments |-> f[i]]
  BY <1>2, <1>3
<1> QED
  BY <1>4, <1>5, PaymentsKept

(* Every step keeps the invariant, and one that refunds an order changes   *)
(* no payment that names another one.                                      *)
OwnRefund ==
    \A o \in Orders : orders[o].status # "REFUNDED" /\ orders'[o].status = "REFUNDED" =>
        \A i \in DOMAIN payments :
            payments'[i].credit # payments[i].credit => payments[i].of = o

NamesKept == NamesInv' /\ (DistinctNumbers => OwnRefund)

LEMMA KeptSame ==
    ASSUME NamesInv, NamesStand, orders' = [o \in Orders |-> orders'[o]],
           payments' \in Seq(Payment),
           orders' = orders \/ \A i \in DOMAIN payments : payments'[i] = payments[i]
    PROVE  NamesKept
BY DEF NamesInv, NamesStand, NamesKept, OwnRefund

LEMMA SamePending == ASSUME NamesInv, pending' = pending PROVE NamesStand
BY DEF NamesInv, NamesStand

LEMMA StartNames == ASSUME NamesInv, NEW c \in Clerks, Start(c) PROVE NamesKept
<1>1. ASSUME NEW op, NEW o \in Orders, NEW in, Read(c, op, o, in), op = "pay" => in \in Amounts
      PROVE  NamesKept
  <2>1. NamesStand
    BY <1>1, NamesRead
  <2> QED
    BY <1>1, <2>1, KeptSame DEF Read, money, NamesInv
<1>2. ASSUME NEW o \in Orders, NEW cart, NEW extra, Create(c, o, cart, extra) PROVE NamesKept
  <2>1. NamesStand /\ payments' = payments
    BY <1>2, SamePending DEF Create, money
  <2>2. orders' = [x \in Orders |-> orders'[x]]
    BY <1>2 DEF Create, NamesInv
  <2> QED
    BY <2>1, <2>2, KeptSame DEF NamesInv
<1>3. ASSUME NEW amount \in Deposits, Receive(c, amount) PROVE NamesKept
  <2>1. NamesStand /\ orders' = orders
    BY <1>3, SamePending DEF Receive
  <2>2. payments' \in Seq(Payment)
    BY <1>3, PaymentAdded DEF Receive
  <2> QED
    BY <2>1, <2>2, KeptSame DEF NamesInv
<1>4. ASSUME NEW i \in DOMAIN payments, Remove(c, i) PROVE NamesKept
  <2>1. NamesStand /\ orders' = orders
    BY <1>4, SamePending DEF Remove
  <2> QED
    BY <1>4, <2>1, PaymentRemoved, KeptSame DEF NamesInv
<1>5. CASE \E o \in Orders : \/ CheckPlace(c, o) \/ CheckShip(c, o) \/ CheckCancel(c, o)
                             \/ CheckRefund(c, o)
  BY <1>1, <1>5 DEF CheckPlace, CheckShip, CheckCancel, CheckRefund
<1>6. CASE \E o \in Orders : \E in :
          CheckItems(c, o, in) \/ CheckCharges(c, o, in) \/ CheckDeliver(c, o, in)
  BY <1>1, <1>6 DEF CheckItems, CheckCharges, CheckDeliver
<1>7. CASE \E o \in Orders, amount \in Amounts :
             CheckPay(c, o, amount) \/ \E i \in DOMAIN payments : CheckApply(c, o, i, amount)
  BY <1>1, <1>7 DEF CheckPay, CheckApply
<1> QED
  BY <1>2, <1>3, <1>4, <1>5, <1>6, <1>7 DEF Start

LEMMA RefundNames == ASSUME NamesInv, NEW c \in Clerks, CommitRefund(c) PROVE NamesKept
<1>1. PICK o : o = pending[c].order
  OBVIOUS
<1>2. NamesStand /\ payments' \in Seq(Payment)
  <2>1. Finish(c)
    BY Zenon DEF CommitRefund
  <2> QED
    BY <2>1, NamesFinish, PaymentsRefunded
<1>3. PICK new : orders' = [orders EXCEPT ![o] = new]
  BY <1>1 DEF CommitRefund
<1>4. orders' = [x \in Orders |-> orders'[x]] /\ \A x \in Orders \ {o} : orders'[x] = orders[x]
  BY <1>3 DEF NamesInv
<1>5. ASSUME DistinctNumbers, o \in Orders, NEW i \in DOMAIN payments,
             payments'[i].credit # payments[i].credit
      PROVE  payments[i].of = o
  <2>1. PICK f : f = [j \in DOMAIN payments |->
                         IF j \in pending[c].in /\ Native(j, o)
                         THEN [payments[j] EXCEPT !.credit = @ - payments[j].amount]
                         ELSE payments[j]]
    OBVIOUS
  <2>2. payments' = f
    BY <1>1, <2>1 DEF CommitRefund
  <2>3. Native(i, o)
    BY <1>5, <2>1, <2>2
  <2>4. payments[i].of \in Orders
    <3>1. payments[i] \in Payment
      BY SeqDomain DEF NamesInv
    <3> QED
      BY <2>3, <3>1 DEF Native, Payment
  <2> QED
    BY <1>5, <2>3, <2>4 DEF Native, DistinctNumbers
<1>6. DistinctNumbers => OwnRefund
  BY <1>4, <1>5 DEF OwnRefund
<1> QED
  BY <1>2, <1>4, <1>6 DEF NamesKept, NamesInv, NamesStand

LEMMA CommitNames == ASSUME NamesInv, NEW c \in Clerks, Commit(c) PROVE NamesKept
<1>1. PICK tx : tx = pending[c]
  OBVIOUS
<1>2. CASE CommitRefund(c)
  BY <1>2, RefundNames
<1>3. CASE CommitPay(c)
  <2>1. tx.op = "pay" /\ tx.order \in Orders /\ tx.in \in Amounts
    BY <1>1, <1>3 DEF CommitPay, In, NamesInv, Names, NoTx
  <2>2. payments' = Append(payments, [amount |-> tx.in, of |-> tx.order, live |-> TRUE,
                                      credit |-> tx.in])
    BY <1>1, <1>3 DEF CommitPay
  <2>3. payments' \in Seq(Payment) /\ \A i \in DOMAIN payments : payments'[i] = payments[i]
    BY <2>1, <2>2, PaymentAdded
  <2>4. PICK new : orders' = [orders EXCEPT ![tx.order] = new]
    BY <1>1, <1>3 DEF CommitPay
  <2>5. orders' = [x \in Orders |-> orders'[x]]
    BY <2>4 DEF NamesInv
  <2> QED
    BY <1>3, <2>3, <2>5, NamesFinish, KeptSame DEF CommitPay
<1>4. CASE \/ CommitCharges(c) \/ CommitItems(c) \/ CommitPlace(c) \/ CommitShip(c)
           \/ CommitDeliver(c) \/ CommitCancel(c) \/ CommitApply(c)
  <2>1. payments' = payments
    BY ZenonT(60), <1>4 DEF CommitCharges, CommitItems, CommitPlace, CommitShip, CommitDeliver, CommitCancel,
                CommitApply, money
  <2>2. NamesStand
    BY ZenonT(60), <1>4, NamesFinish, NamesReplace DEF CommitCharges, CommitItems, CommitPlace, CommitShip,
       CommitDeliver, CommitCancel, CommitApply
  <2>3. orders' = [x \in Orders |-> orders'[x]]
    <3>1. CASE CommitShip(c) \/ CommitCancel(c)
      <4>1. PICK status : orders' = [orders EXCEPT ![tx.order].status = status]
        BY <1>1, <3>1 DEF CommitShip, CommitCancel
      <4> QED
        BY <4>1 DEF NamesInv
    <3>2. CASE ~(CommitShip(c) \/ CommitCancel(c))
      <4>1. PICK new : orders' = [orders EXCEPT ![tx.order] = new]
        BY ZenonT(60), <1>1, <1>4, <3>2 DEF CommitCharges, CommitItems, CommitPlace, CommitDeliver, CommitApply
      <4> QED
        BY <4>1 DEF NamesInv
    <3> QED
      BY <3>1, <3>2
  <2> QED
    BY <2>1, <2>2, <2>3, KeptSame DEF NamesInv
<1> QED
  BY <1>2, <1>3, <1>4 DEF Commit

LEMMA NamesNext == ASSUME NamesInv, [Next]_vars PROVE NamesKept
<1>1. ASSUME NEW c \in Clerks, Abort(c) PROVE NamesKept
  BY <1>1, NamesFinish, KeptSame DEF Abort, money, NamesInv
<1>2. CASE UNCHANGED vars
  <2>1. orders' = orders /\ payments' = payments /\ pending' = pending
    BY <1>2 DEF vars, money
  <2> QED
    BY <2>1, SamePending, KeptSame DEF NamesInv
<1> QED
  BY <1>1, <1>2, StartNames, CommitNames DEF Next

(* "Only reverse ledger for payments created by Record payment on this     *)
(* order" (orders.service.ts:1161) holds of every refund, whatever         *)
(* requests overlap, if no order number begins with another; with orders 1 *)
(* and 10 TLC finds the refund that reverses another order's payment.      *)
THEOREM RefundsKeepToTheirOrder ==
    ASSUME DistinctNumbers PROVE Spec => RefundsOwnPayments
<1>1. Init => NamesInv
  BY DEF Init, NamesInv, Names
<1>2. NamesInv /\ [Next]_vars => NamesInv'
  BY NamesNext DEF NamesKept
<1>3. NamesInv /\ [Next]_vars => [OwnRefund]_vars
  BY NamesNext DEF NamesKept
<1>4. OwnRefund <=>
        \A o \in Orders : orders[o].status # "REFUNDED" /\ orders'[o].status = "REFUNDED" =>
            \A i \in DOMAIN payments :
                payments'[i].credit # payments[i].credit => payments[i].of = o
  BY DEF OwnRefund
<1>5. Spec => [][OwnRefund]_vars
  BY <1>1, <1>2, <1>3, PTL DEF Spec
<1> QED
  BY <1>4, <1>5, PTL DEF RefundsOwnPayments
=============================================================================
