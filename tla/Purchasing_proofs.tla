-------------------------- MODULE Purchasing_proofs --------------------------
(* Proofs about the goods: Purchasing, for any number of clerks, each      *)
(* making every kind of request, and any bounds; and StockPosting, which   *)
(* posts what is received and sold, for any number of requests and cells   *)
(* and any set of plans.                                                   *)
(*                                                                         *)
(* Purchasing: no line receives more than was ordered.  The inductive      *)
(* invariant adds what the steps need, the type of the order and of what   *)
(* the clerks are about to write to it, and that nothing is received       *)
(* before there is an order.  A voided bill stays void: the steps need of  *)
(* the bills only that they are a sequence of records with the columns of  *)
(* a bill.                                                                 *)
(*                                                                         *)
(* StockPosting: the argument is the lock discipline.  Whoever has written *)
(* a balance, or is about to write it from what it has read, holds the     *)
(* row, so the committed balance it started from is still the committed    *)
(* balance when it commits (TxInv).                                        *)
EXTENDS Purchasing, StockPosting, Sums_proofs, SequenceTheorems

Orders == [status : OrderStatuses, ordered : [Lines -> Nat], received : [Lines -> Nat],
           edition : Nat]

(* What a clerk is about to write to the order has the type of what it     *)
(* replaces.                                                               *)
PendingOrder(tx) == /\ tx.op = "edit" => tx.ordered \in [Lines -> Nat]
                    /\ tx.op = "receive" => tx.qty \in [Lines -> Nat]

PendingTyped == /\ pending = [c \in Clerks |-> pending[c]]
                /\ \A c \in Clerks : PendingOrder(pending[c])

(* Until there is an order nothing is received on it. *)
OrderOK(o) == /\ o \in Orders
              /\ \A l \in Lines : o.received[l] <= o.ordered[l]
              /\ o.status = "NONE" => \A l \in Lines : o.received[l] = 0

OrderInv == OrderOK(order) /\ PendingTyped

(* Where Goto leads from a typed state the clerks' notes stay typed. *)
LEMMA GotoTyped ==
    ASSUME PendingTyped, NEW c \in Clerks, NEW tx, PendingOrder(tx), Goto(c, tx)
    PROVE  PendingTyped'
<1>1. \A d \in Clerks : pending'[d] = IF d = c THEN tx ELSE pending[d]
  BY DEF Goto, PendingTyped
<1>2. pending' = [d \in Clerks |-> pending'[d]]
  BY DEF Goto, PendingTyped
<1>3. \A d \in Clerks : PendingOrder(pending'[d])
  BY <1>1 DEF PendingTyped
<1> QED
  BY <1>2, <1>3 DEF PendingTyped

LEMMA NoTxTyped == PendingOrder(NoTx)
BY DEF PendingOrder, NoTx

LEMMA FinishTyped ==
    ASSUME PendingTyped, NEW c \in Clerks, Finish(c) PROVE PendingTyped'
BY GotoTyped, NoTxTyped DEF Finish

LEMMA QuantitiesTyped == Quantities \subseteq [Lines -> Nat]
BY DEF Quantities

(* A note that neither edits nor receives is typed whatever it holds. *)
LEMMA OtherNote ==
    ASSUME NEW tx, tx.op \notin {"edit", "receive"} PROVE PendingOrder(tx)
BY DEF PendingOrder

LEMMA OrderInit == Init => OrderInv
<1> SUFFICES ASSUME Init PROVE OrderInv
  OBVIOUS
<1>1. OrderOK(order)
  BY DEF Init, OrderOK, Orders, Nothing, OrderStatuses
<1>2. PendingTyped
  BY NoTxTyped DEF Init, PendingTyped
<1> QED
  BY <1>1, <1>2 DEF OrderInv

(* A step that leaves the order alone keeps the invariant if what it notes *)
(* is typed.                                                               *)
LEMMA NoteStep ==
    ASSUME OrderInv, NEW c \in Clerks, NEW tx, PendingOrder(tx), Goto(c, tx),
           order' = order
    PROVE  OrderInv'
BY GotoTyped DEF OrderInv

LEMMA CommitReceiveOrder ==
    ASSUME OrderInv, NEW c \in Clerks, CommitReceive(c) PROVE OrderOK(order')
<1> DEFINE qty == pending[c].qty
           received == [l \in Lines |-> order.received[l] + qty[l]]
<1>1. qty \in [Lines -> Nat]
  BY DEF OrderInv, PendingTyped, PendingOrder, CommitReceive, In
<1>2. /\ order' = [order EXCEPT !.received = received, !.status = StatusAfter(received)]
      /\ \A l \in Lines : qty[l] <= order.ordered[l] - order.received[l]
  BY DEF CommitReceive, Accepted, Fits, ReceivedAfter
<1>3. order \in Orders
  BY DEF OrderInv, OrderOK
<1>4. received \in [Lines -> Nat] /\ \A l \in Lines : received[l] <= order.ordered[l]
  BY <1>1, <1>2, <1>3 DEF Orders
<1>5. StatusAfter(received) \in OrderStatuses
  BY <1>3 DEF StatusAfter, Orders, OrderStatuses
<1>6. StatusAfter(received) = "NONE" => \A l \in Lines : received[l] = 0
  BY <1>4 DEF StatusAfter
<1>7. /\ order' \in Orders /\ order'.received = received
      /\ order'.ordered = order.ordered /\ order'.status = StatusAfter(received)
  <2> HIDE DEF received
  <2> QED
    BY <1>2, <1>3, <1>4, <1>5 DEF Orders
<1> QED
  BY <1>4, <1>6, <1>7 DEF OrderOK

LEMMA OrderStep ==
    ASSUME OrderInv, NEW c \in Clerks, Step(c) PROVE OrderInv'
<1> USE DEF OrderInv
<1>1. ASSUME NEW q \in Quantities, CreateOrder(c, q) PROVE OrderInv'
  <2>1. /\ order' = [order EXCEPT !.status = "DRAFT", !.ordered = q]
        /\ pending' = pending /\ order.status = "NONE"
    BY <1>1 DEF CreateOrder
  <2>2. q \in [Lines -> Nat]
    BY QuantitiesTyped
  <2>3. order' \in Orders
    BY <2>1, <2>2 DEF OrderOK, Orders, OrderStatuses
  <2>4. \A l \in Lines : order'.received[l] = 0 /\ order'.received[l] <= order'.ordered[l]
    BY <2>1, <2>2 DEF OrderOK, Orders
  <2> QED
    BY <2>1, <2>3, <2>4 DEF OrderOK, PendingTyped
<1>2. ASSUME NEW q \in Quantities, CheckEdit(c, q) PROVE OrderInv'
  <2>1. PendingOrder([op |-> "edit", ordered |-> q])
    BY QuantitiesTyped DEF PendingOrder
  <2> QED
    BY <1>2, <2>1, NoteStep DEF CheckEdit
<1>3. ASSUME NEW q \in Quantities, NEW billed \in BOOLEAN, CheckReceive(c, q, billed)
      PROVE  OrderInv'
  <2>1. PendingOrder([op |-> "receive", qty |-> q, billed |-> billed,
                      edition |-> order.edition])
    BY QuantitiesTyped DEF PendingOrder
  <2> QED
    BY <1>3, <2>1, NoteStep DEF CheckReceive
<1>4. ASSUME CommitEdit(c) PROVE OrderInv'
  <2>1. pending[c].ordered \in [Lines -> Nat]
    BY <1>4 DEF CommitEdit, In, PendingTyped, PendingOrder
  <2>2. order' = [order EXCEPT !.ordered = pending[c].ordered, !.received = Nothing,
                               !.edition = @ + 1]
    BY <1>4 DEF CommitEdit
  <2>3. Nothing \in [Lines -> Nat] /\ \A l \in Lines : Nothing[l] = 0
    BY DEF Nothing
  <2> DEFINE new == pending[c].ordered
  <2>4. order' \in Orders /\ order'.ordered = new /\ order'.received = Nothing
    <3>1. order \in Orders /\ new \in [Lines -> Nat] /\ Nothing \in [Lines -> Nat]
      BY <2>1, <2>3 DEF OrderOK
    <3>2. order' = [order EXCEPT !.ordered = new, !.received = Nothing,
                                 !.edition = order.edition + 1]
      BY <2>2
    <3>3. order.edition + 1 \in Nat
      BY <3>1 DEF Orders
    <3> HIDE DEF new
    <3> QED
      BY <3>1, <3>2, <3>3 DEF Orders
  <2>5. OrderOK(order')
    BY <2>1, <2>3, <2>4 DEF OrderOK
  <2> QED
    BY <1>4, <2>5, FinishTyped DEF CommitEdit
<1>5. ASSUME CommitSend(c) \/ CommitCancel(c) PROVE OrderInv'
  <2>1. OrderOK(order')
    BY <1>5 DEF CommitSend, CommitCancel, OrderOK, Orders, OrderStatuses
  <2> QED
    BY <1>5, <2>1, FinishTyped DEF CommitSend, CommitCancel
<1>6. ASSUME CheckSend(c) \/ CheckCancel(c) PROVE OrderInv'
  BY <1>6, NoteStep, OtherNote DEF CheckSend, CheckCancel
<1>7. ASSUME CommitReceive(c) PROVE OrderInv'
  <2>1. OrderOK(order')
    BY <1>7, CommitReceiveOrder
  <2> QED
    BY <1>7, <2>1, FinishTyped DEF CommitReceive
<1>8. ASSUME NEW grn \in 0..Len(receipts), NEW total \in 1..MaxTotal,
             CheckBill(c, grn, total)
      PROVE  OrderInv'
  BY <1>8, NoteStep, OtherNote DEF CheckBill
<1>9. ASSUME NEW b \in DOMAIN bills, CheckVoid(c, b) PROVE OrderInv'
  BY <1>9, NoteStep, OtherNote DEF CheckVoid
<1>10. ASSUME NEW b \in DOMAIN bills, NEW amount \in 1..bills[b].total, Pay(c, b, amount)
       PROVE  OrderInv'
  BY <1>10 DEF Pay, PendingTyped
<1>11. ASSUME CommitBill(c) \/ CommitVoid(c) \/ Abort(c) PROVE OrderInv'
  BY <1>11, FinishTyped DEF CommitBill, CommitVoid, Abort
<1> QED
  BY <1>1, <1>2, <1>3, <1>4, <1>5, <1>6, <1>7, <1>8, <1>9, <1>10, <1>11 DEF Step

LEMMA OrderNext == OrderInv /\ [Next]_vars => OrderInv'
<1> SUFFICES ASSUME OrderInv, [Next]_vars PROVE OrderInv'
  OBVIOUS
<1>1. CASE Next
  BY <1>1, OrderStep DEF Next
<1>2. CASE UNCHANGED vars
  BY <1>2 DEF vars, OrderInv, PendingTyped
<1> QED
  BY <1>1, <1>2

(* However receipts, edits, cancellations and bills of any number of       *)
(* clerks interleave (createForPo checks the remaining quantity again      *)
(* under the lock of the line), no line receives more than was ordered.    *)
THEOREM NeverOverReceived == Spec => []NotOverReceived
<1>1. OrderInv => NotOverReceived
  BY DEF OrderInv, OrderOK, NotOverReceived
<1> QED
  BY OrderInit, OrderNext, <1>1, PTL DEF Spec
-----------------------------------------------------------------------------
(* The bills are a sequence of records with the four columns of a bill, so *)
(* that a step tells of every bill what became of it.                      *)
IsBill(x) == x = [grn |-> x.grn, total |-> x.total, paid |-> x.paid, status |-> x.status]

BillsInv == /\ \E S : bills \in Seq(S)
            /\ \A b \in DOMAIN bills : IsBill(bills[b])

(* Every bill that is void is left as it is. *)
VoidsKept == \A b \in DOMAIN bills : bills[b].status = "VOID" => bills'[b] = bills[b]

LEMMA NewIsBill == ASSUME NEW grn, NEW total PROVE IsBill(NewBill(grn, total))
BY DEF IsBill, NewBill

(* What a payment and a void make of a bill, column by column. *)
LEMMA BillPaid ==
    ASSUME NEW x, IsBill(x), NEW paid, NEW status
    PROVE  [x EXCEPT !.paid = paid, !.status = status]
               = [grn |-> x.grn, total |-> x.total, paid |-> paid, status |-> status]
<1>1. [x EXCEPT !.paid = paid]
          = [grn |-> x.grn, total |-> x.total, paid |-> paid, status |-> x.status]
  BY DEF IsBill
<1> DEFINE y == [grn |-> x.grn, total |-> x.total, paid |-> paid, status |-> x.status]
<1>2. [y EXCEPT !.status = status]
          = [grn |-> x.grn, total |-> x.total, paid |-> paid, status |-> status]
  OBVIOUS
<1> QED
  BY <1>1, <1>2

(* A bill is added, the others stay. *)
LEMMA BillAdded ==
    ASSUME BillsInv, NEW x, IsBill(x), bills' = Append(bills, x)
    PROVE  BillsInv' /\ VoidsKept
<1>1. PICK S : bills \in Seq(S)
  BY DEF BillsInv
<1> DEFINE T == S \cup {x}
<1>2. bills \in Seq(T) /\ x \in T
  <2>1. DOMAIN bills = 1..Len(bills) /\ \A b \in 1..Len(bills) : bills[b] \in S
    BY <1>1
  <2> QED
    BY <1>1, <2>1
<1> HIDE DEF T
<1>3. /\ bills' \in Seq(T) /\ Len(bills') = Len(bills) + 1
      /\ \A b \in 1..Len(bills) : bills'[b] = bills[b]
      /\ bills'[Len(bills) + 1] = x
  BY <1>2
<1>4. DOMAIN bills = 1..Len(bills) /\ DOMAIN bills' = 1..(Len(bills) + 1)
      /\ Len(bills) \in Nat
  BY <1>2, <1>3
<1>5. \A b \in DOMAIN bills' : IsBill(bills'[b])
  <2> SUFFICES ASSUME NEW b \in DOMAIN bills' PROVE IsBill(bills'[b])
    OBVIOUS
  <2>1. CASE b = Len(bills) + 1
    BY <2>1, <1>3
  <2>2. CASE b \in 1..Len(bills)
    BY <2>2, <1>3, <1>4 DEF BillsInv
  <2> QED
    BY <1>4, <2>1, <2>2
<1> QED
  BY <1>3, <1>4, <1>5 DEF BillsInv, VoidsKept

(* One bill is replaced; if it was void it is replaced by itself. *)
LEMMA BillReplaced ==
    ASSUME BillsInv, NEW n, NEW x, IsBill(x), bills' = [bills EXCEPT ![n] = x],
           n \in DOMAIN bills /\ bills[n].status = "VOID" => x = bills[n]
    PROVE  BillsInv' /\ VoidsKept
<1>1. PICK S : bills \in Seq(S)
  BY DEF BillsInv
<1>2. /\ DOMAIN bills = 1..Len(bills) /\ Len(bills) \in Nat
      /\ \A b \in 1..Len(bills) : bills[b] \in S
  BY <1>1
<1>3. bills' \in [1..Len(bills) -> S \cup {x}]
  BY <1>1, <1>2
<1>4. bills' \in Seq(S \cup {x})
  BY <1>2, <1>3
<1>5. \A b \in DOMAIN bills' : bills'[b] = IF b = n THEN x ELSE bills[b]
  BY <1>2, <1>3
<1>6. DOMAIN bills' = DOMAIN bills
  OBVIOUS
<1>7. \A b \in DOMAIN bills' : IsBill(bills'[b])
  BY <1>5, <1>6 DEF BillsInv
<1> QED
  BY <1>4, <1>5, <1>6, <1>7 DEF BillsInv, VoidsKept

LEMMA BillsStep ==
    ASSUME BillsInv, NEW c \in Clerks, Step(c) PROVE BillsInv' /\ VoidsKept
<1>1. CASE bills' = bills
  BY <1>1 DEF BillsInv, VoidsKept
<1>2. CASE CommitReceive(c)
  <2>1. bills' = bills \/ \E grn, total : bills' = Append(bills, NewBill(grn, total))
    BY <1>2 DEF CommitReceive
  <2> QED
    BY <1>1, <2>1, NewIsBill, BillAdded
<1>3. CASE CommitBill(c)
  BY <1>3, NewIsBill, BillAdded DEF CommitBill
<1>4. CASE \E b \in DOMAIN bills : \E amount \in 1..bills[b].total : Pay(c, b, amount)
  <2>1. PICK b \in DOMAIN bills : \E amount \in 1..bills[b].total : Pay(c, b, amount)
    BY <1>4
  <2>2. PICK amount \in 1..bills[b].total : Pay(c, b, amount)
    BY <2>1
  <2> DEFINE paid == bills[b].paid + amount
             status == IF bills[b].paid + amount >= bills[b].total
                       THEN "PAID" ELSE "PARTIALLY_PAID"
             x == [grn |-> bills[b].grn, total |-> bills[b].total, paid |-> paid,
                   status |-> status]
  <2>3. /\ bills' = [bills EXCEPT ![b].paid = paid, ![b].status = status]
        /\ bills[b].status # "VOID"
    BY <2>2 DEF Pay
  <2>4. IsBill(bills[b])
    BY DEF BillsInv
  <2> HIDE DEF paid, status
  <2>5. [bills[b] EXCEPT !.paid = paid, !.status = status] = x
    BY <2>4, BillPaid
  <2>6. bills' = [bills EXCEPT ![b] = [bills[b] EXCEPT !.paid = paid, !.status = status]]
    BY <2>3
  <2>7. IsBill(x)
    BY DEF IsBill
  <2>8. bills' = [bills EXCEPT ![b] = x]
    BY <2>5, <2>6
  <2> HIDE DEF x
  <2> QED
    BY <2>3, <2>7, <2>8, BillReplaced
<1>5. CASE CommitVoid(c)
  <2> DEFINE n == pending[c].bill
             x == [grn |-> bills[n].grn, total |-> bills[n].total, paid |-> bills[n].paid,
                   status |-> "VOID"]
  <2>1. bills' = [bills EXCEPT ![n] = [bills[n] EXCEPT !.status = "VOID"]]
    BY <1>5 DEF CommitVoid
  <2> HIDE DEF n
  <2>2. CASE n \in DOMAIN bills
    <3>1. IsBill(bills[n])
      BY <2>2 DEF BillsInv
    <3>2. [bills[n] EXCEPT !.status = "VOID"] = x
      BY <3>1 DEF IsBill
    <3>3. bills[n].status = "VOID" => x = bills[n]
      BY <3>1 DEF IsBill
    <3>4. IsBill(x)
      BY DEF IsBill
    <3>5. bills' = [bills EXCEPT ![n] = x]
      BY <2>1, <3>2
    <3> HIDE DEF x
    <3> QED
      BY <3>3, <3>4, <3>5, BillReplaced
  <2>3. CASE n \notin DOMAIN bills
    <3>1. PICK S : bills \in Seq(S)
      BY DEF BillsInv
    <3>2. bills = [b \in DOMAIN bills |-> bills[b]]
      BY <3>1
    <3>3. bills' = bills
      BY <2>1, <2>3, <3>2
    <3> QED
      BY <1>1, <3>3
  <2> QED
    BY <2>2, <2>3
<1> QED
  BY <1>1, <1>2, <1>3, <1>4, <1>5
     DEF Step, CreateOrder, CheckEdit, CommitEdit, CheckSend, CommitSend, CheckCancel,
         CommitCancel, CheckReceive, CheckBill, CheckVoid, Abort

LEMMA BillsNext == BillsInv /\ [Next]_vars => BillsInv' /\ [VoidsKept]_vars
<1> SUFFICES ASSUME BillsInv, [Next]_vars PROVE BillsInv' /\ [VoidsKept]_vars
  OBVIOUS
<1>1. CASE Next
  BY <1>1, BillsStep DEF Next
<1>2. CASE UNCHANGED vars
  BY <1>2 DEF vars, BillsInv
<1> QED
  BY <1>1, <1>2

(* A bill that was voided stays void and is never paid, however payments,  *)
(* voids and receipts of any number of clerks interleave: a payment checks *)
(* the bill under its lock (vendor-bills pay), and voiding a void bill     *)
(* writes what is there.                                                   *)
THEOREM VoidStaysVoid == Spec => VoidIsFinal
<1>1. Init => BillsInv
  <2> SUFFICES ASSUME Init PROVE BillsInv
    OBVIOUS
  <2>1. bills = <<>>
    BY DEF Init
  <2>2. bills \in Seq({}) /\ DOMAIN bills = {}
    BY <2>1
  <2> QED
    BY <2>2 DEF BillsInv
<1> QED
  BY <1>1, BillsNext, PTL DEF Spec, VoidIsFinal, VoidsKept
-----------------------------------------------------------------------------
(* One clerk c makes every request, any number of others edit the order    *)
(* and receive goods on it.                                                *)
LeadsAlone(c) == \A d \in Clerks \ {c} : Does[d] \subseteq {"edit", "receive"}

BillRow == [grn : Nat, total : Nat \ {0}, paid : Nat, status : BillStatuses]
PaymentRow == [bill : Nat, amount : Nat]

Tables ==
    /\ receipts \in Seq([Lines -> Nat]) /\ bills \in Seq(BillRow)
    /\ payments \in Seq(PaymentRow) /\ payable \in Int
    /\ \A b \in DOMAIN bills : bills[b].grn <= Len(receipts)
    /\ \A p \in DOMAIN payments : payments[p].bill \in DOMAIN bills

(* An order is for something. *)
Asked == order.status # "NONE" => \E l \in Lines : order.ordered[l] > 0
Underway == order.status \notin {"NONE", "DRAFT"}

(* What stays true of a note whoever else receives or edits, ... *)
Joint(tx) ==
    /\ tx.op = "edit" => order.status # "NONE" /\ \E l \in Lines : tx.ordered[l] > 0
    /\ tx.op = "receive" => Underway /\ \E l \in Lines : tx.qty[l] > 0
(* ... and what only as long as nobody else bills, pays, voids or sends. *)
Own(tx) ==
    /\ tx.op = "send" => order.status = "DRAFT"
    /\ tx.op = "cancel" => order.status # "NONE"
    /\ tx.op = "bill" => /\ tx.grn \in 0..Len(receipts) /\ tx.total \in Nat \ {0}
                         /\ tx.grn # 0 => BillOf(tx.grn) = {}
    /\ tx.op = "void" => /\ tx.bill \in DOMAIN bills
                         /\ bills[tx.bill].status # "VOID" /\ bills[tx.bill].paid = 0
Shared(tx) == tx.op \in {"none", "edit", "receive"}

Notes(c) == /\ Own(pending[c])
            /\ \A d \in Clerks : Joint(pending[d]) /\ (d # c => Shared(pending[d]))

Once == \A n \in DOMAIN receipts : \A a, b \in BillOf(n) : a = b

OrderTold == Asked /\ ReceivedIsReceipts /\ StatusIsReceived
BillsTold == Tables /\ Once /\ PaidIsPayments /\ PayableIsOpenBills
Told(c) == OrderInv /\ OrderTold /\ BillsTold /\ Notes(c)

-----------------------------------------------------------------------------
(* The sums, of any tables. *)
ReceivedIn(rs, l) == SumFunction([n \in DOMAIN rs |-> rs[n][l]])
PaidIn(ps, b) == SumFunction([p \in {q \in DOMAIN ps : ps[q].bill = b} |-> ps[p].amount])
Open(bs) == {b \in DOMAIN bs : bs[b].status # "VOID"}
OpenIn(bs) == SumFunction([b \in Open(bs) |-> bs[b].total - bs[b].paid])

LEMMA ReceiptAdded ==
    ASSUME NEW rs \in Seq([Lines -> Nat]), NEW q \in [Lines -> Nat], NEW l \in Lines
    PROVE  ReceivedIn(Append(rs, q), l) = ReceivedIn(rs, l) + q[l] /\ ReceivedIn(rs, l) \in Int
<1> DEFINE S == DOMAIN rs
           n == Len(rs) + 1
           ss == Append(rs, q)
           T == DOMAIN ss
           f == [m \in S |-> rs[m][l]]
           g == [m \in T |-> ss[m][l]]
<1>1. /\ T = S \cup {n} /\ n \notin S /\ ss[n] = q /\ \A m \in S : ss[m] = rs[m]
  BY Appended
<1>2. IsFiniteSet(S) /\ \A m \in S : rs[m] \in [Lines -> Nat]
  BY SeqDomain
<1>3. q[l] \in Int /\ \A m \in S : rs[m][l] \in Int
  BY <1>2
<1> HIDE DEF S, T, n, ss
<1>4. /\ f = [m \in S |-> f[m]] /\ g = [m \in T |-> g[m]] /\ g[n] = q[l]
      /\ \A m \in S : g[m] = f[m] /\ f[m] \in Int
  BY <1>1, <1>3
<1> HIDE DEF f, g
<1>5. Joined(S, T, n, TRUE, f, g, q[l])
  BY <1>1, <1>2, <1>3, <1>4 DEF Joined
<1>6. SumFunction(g) = SumFunction(f) + q[l] /\ SumFunction(f) \in Int
  <2>1. SumFunction(g) = SumFunction(f) + (IF TRUE THEN q[l] ELSE 0) /\ SumFunction(f) \in Int
    BY <1>5, TotalJoined
  <2> QED
    BY <2>1
<1> QED
  BY <1>6 DEF ReceivedIn, f, g, S, T, ss

LEMMA PaymentAdded ==
    ASSUME NEW ps \in Seq(PaymentRow), NEW row \in PaymentRow, NEW b
    PROVE  /\ PaidIn(Append(ps, row), b) = PaidIn(ps, b) + (IF row.bill = b THEN row.amount ELSE 0)
           /\ PaidIn(ps, b) \in Int
<1> DEFINE n == Len(ps) + 1
           ss == Append(ps, row)
           S == {q \in DOMAIN ps : ps[q].bill = b}
           T == {q \in DOMAIN ss : ss[q].bill = b}
           c == row.bill = b
           v == row.amount
           f == [q \in S |-> ps[q].amount]
           g == [q \in T |-> ss[q].amount]
<1>1. /\ DOMAIN ss = DOMAIN ps \cup {n} /\ n \notin DOMAIN ps /\ ss[n] = row
      /\ \A m \in DOMAIN ps : ss[m] = ps[m]
  BY Appended
<1>2. IsFiniteSet(DOMAIN ps) /\ \A m \in DOMAIN ps : ps[m] \in PaymentRow
  BY SeqDomain
<1>3. /\ T = (IF c THEN S \cup {n} ELSE S) /\ n \notin S /\ S \subseteq DOMAIN ps
      /\ c => n \in T
  BY <1>1
<1>4. IsFiniteSet(S) /\ v \in Int /\ c \in BOOLEAN /\ \A m \in S : ps[m].amount \in Int /\ ss[m] = ps[m]
  BY <1>1, <1>2, <1>3, FS_Subset DEF PaymentRow
<1> HIDE DEF S, T, c, ss, n
<1>5. /\ f = [m \in S |-> f[m]] /\ g = [m \in T |-> g[m]] /\ (c => g[n] = v)
      /\ \A m \in S : g[m] = f[m] /\ f[m] \in Int
  BY <1>1, <1>3, <1>4
<1> HIDE DEF f, g, v
<1>6. Joined(S, T, n, c, f, g, v)
  BY <1>3, <1>4, <1>5 DEF Joined
<1>7. SumFunction(g) = SumFunction(f) + (IF c THEN v ELSE 0) /\ SumFunction(f) \in Int
  BY <1>6, TotalJoined
<1> QED
  BY <1>7 DEF PaidIn, S, T, c, f, g, v, ss

(* bs has the open bill n, cs is without it: it is not there or void. *)
OneMore(cs, bs, n) ==
    /\ cs \in Seq(BillRow) /\ bs \in Seq(BillRow) /\ DOMAIN cs \subseteq DOMAIN bs
    /\ n \in Open(bs) /\ n \notin Open(cs)
    /\ \A m \in DOMAIN bs : m # n => m \in DOMAIN cs /\ cs[m] = bs[m]

LEMMA OpenMore ==
    ASSUME NEW bs, NEW cs, NEW n, OneMore(cs, bs, n)
    PROVE  OpenIn(bs) = OpenIn(cs) + (bs[n].total - bs[n].paid) /\ OpenIn(cs) \in Int
<1> DEFINE S == Open(cs)
           T == Open(bs)
           v == bs[n].total - bs[n].paid
           f == [m \in S |-> cs[m].total - cs[m].paid]
           g == [m \in T |-> bs[m].total - bs[m].paid]
<1>1. /\ T = S \cup {n} /\ n \notin S /\ \A m \in S : m \in DOMAIN cs /\ bs[m] = cs[m]
  BY DEF OneMore, Open
<1>2. /\ IsFiniteSet(DOMAIN cs) /\ \A m \in DOMAIN cs : cs[m] \in BillRow
      /\ bs[n] \in BillRow
  BY SeqDomain DEF OneMore, Open
<1>3. IsFiniteSet(S) /\ v \in Int /\ \A m \in S : cs[m].total - cs[m].paid \in Int
  BY <1>1, <1>2, FS_Subset DEF BillRow, Open
<1> HIDE DEF S, T
<1>4. /\ f = [m \in S |-> f[m]] /\ g = [m \in T |-> g[m]] /\ g[n] = v
      /\ \A m \in S : g[m] = f[m] /\ f[m] \in Int
  BY <1>1, <1>3
<1> HIDE DEF f, g, v
<1>5. Joined(S, T, n, TRUE, f, g, v)
  BY <1>1, <1>3, <1>4 DEF Joined
<1>6. SumFunction(g) = SumFunction(f) + v /\ SumFunction(f) \in Int
  <2>1. SumFunction(g) = SumFunction(f) + (IF TRUE THEN v ELSE 0) /\ SumFunction(f) \in Int
    BY <1>5, TotalJoined
  <2> QED
    BY <2>1
<1> QED
  BY <1>6 DEF OpenIn, f, g, S, T, v

(* A bill that is paid stays open. *)
LEMMA OpenPaid ==
    ASSUME NEW bs \in Seq(BillRow), NEW n \in Open(bs), NEW cs, NEW x \in BillRow,
           cs = [bs EXCEPT ![n] = x], x.status # "VOID"
    PROVE  OpenIn(cs) = OpenIn(bs) - (bs[n].total - bs[n].paid) + (x.total - x.paid)
<1> DEFINE S == Open(bs)
           f == [m \in S |-> bs[m].total - bs[m].paid]
           g == [m \in S |-> cs[m].total - cs[m].paid]
<1>1. /\ IsFiniteSet(DOMAIN bs) /\ \A m \in DOMAIN bs : bs[m] \in BillRow
      /\ n \in DOMAIN bs
  BY SeqDomain DEF Open
<1>2. DOMAIN cs = DOMAIN bs /\ cs[n] = x /\ \A m \in DOMAIN bs : m # n => cs[m] = bs[m]
  BY <1>1
<1>3. Open(cs) = S /\ IsFiniteSet(S) /\ S \subseteq DOMAIN bs
  BY <1>1, <1>2, FS_Subset DEF Open
<1>4. \A m \in S : bs[m].total - bs[m].paid \in Int
  BY <1>1, <1>3 DEF BillRow
<1>5. x.total - x.paid \in Int
  BY DEF BillRow
<1>6. n \in S
  OBVIOUS
<1> HIDE DEF S
<1>7. /\ DOMAIN f = S /\ DOMAIN g = S /\ \A m \in S : f[m] \in Int
      /\ \A m \in S : m # n => g[m] = f[m]
      /\ g[n] = x.total - x.paid /\ f[n] = bs[n].total - bs[n].paid
  BY <1>2, <1>3, <1>4, <1>6
<1> HIDE DEF f, g
<1>8. SumFunction(g) = SumFunction(f) - f[n] + g[n]
  BY <1>3, <1>5, <1>6, <1>7, TotalChange
<1> QED
  BY <1>3, <1>7, <1>8 DEF OpenIn, f, g, S

-----------------------------------------------------------------------------
(* Notes. *)
Onward == /\ Underway => Underway'
          /\ order.status # "NONE" => order'.status # "NONE"

LEMMA JointOnward == ASSUME Onward, NEW tx, Joint(tx) PROVE Joint(tx)'
BY DEF Joint, Onward

LEMMA NotesKept ==
    ASSUME NEW l \in Clerks, NEW c \in Clerks, NEW tx, NEW old, PendingTyped, Notes(l), Goto(c, tx),
           Onward, Joint(tx)', old = pending[l],
           IF c = l THEN Own(tx)' ELSE Shared(tx) /\ Own(old)'
    PROVE  Notes(l)'
<1>1. \A d \in Clerks : pending'[d] = IF d = c THEN tx ELSE pending[d]
  BY DEF Goto, PendingTyped
<1>2. \A x : Joint(x) => Joint(x)'
  BY JointOnward
<1>3. \A d \in Clerks : Joint(pending[d]) /\ (d # l => Shared(pending[d]))
  BY DEF Notes
<1>4. \E x : x = pending'[l] /\ Own(x)'
  BY <1>1
<1>5. \A d \in Clerks : \E x : x = pending'[d] /\ Joint(x)' /\ (d # l => Shared(x))
  BY <1>1, <1>2, <1>3
<1>6. \A x : Shared(x)' <=> Shared(x)
  BY DEF Shared
<1>7. Own(pending[l])'
  BY <1>4
<1>8. \A d \in Clerks : Joint(pending[d])' /\ (d # l => Shared(pending[d])')
  BY <1>5, <1>6
<1> QED
  BY <1>7, <1>8 DEF Notes

LEMMA NoTxFits == Joint(NoTx) /\ Own(NoTx) /\ Shared(NoTx) /\ Joint(NoTx)' /\ Own(NoTx)'
BY DEF Joint, Own, Shared, NoTx

(* A note is made, nothing else. *)
Nothings == UNCHANGED <<order, receipts, bills, payments, payable>>

LEMMA TablesStill ==
    ASSUME OrderTold, BillsTold, Nothings PROVE OrderTold' /\ BillsTold' /\ Onward
<1> USE DEF Nothings
<1>1. Asked' /\ ReceivedIsReceipts' /\ StatusIsReceived'
  BY DEF OrderTold, Asked, ReceivedIsReceipts, StatusIsReceived
<1>2. Tables' /\ Once'
  BY DEF BillsTold, Tables, Once, BillOf
<1>3. PaidIsPayments' /\ PayableIsOpenBills'
  BY DEF BillsTold, PaidIsPayments, PayableIsOpenBills, Remaining
<1>4. Onward
  BY DEF Onward, Underway
<1> QED
  BY <1>1, <1>2, <1>3, <1>4 DEF OrderTold, BillsTold

LEMMA OwnStill == ASSUME NEW tx, Nothings, Own(tx) PROVE Own(tx)'
BY DEF Nothings, Own, BillOf

LEMMA JointStill == ASSUME NEW tx, Nothings, Joint(tx) PROVE Joint(tx)'
BY DEF Nothings, Joint, Underway

LEMMA Noted ==
    ASSUME NEW l \in Clerks, NEW c \in Clerks, NEW tx, Told(l), OrderInv', Nothings, Goto(c, tx),
           Joint(tx), Own(tx), c # l => Shared(tx)
    PROVE  Told(l)'
<1>1. OrderTold' /\ BillsTold' /\ Onward
  BY TablesStill DEF Told
<1>2. PICK old : old = pending[l]
  OBVIOUS
<1>3. Joint(tx)' /\ Own(tx)' /\ Own(old)'
  BY <1>2, OwnStill, JointStill DEF Told, Notes
<1>4. Notes(l)'
  BY <1>1, <1>2, <1>3, NotesKept DEF Told, OrderInv
<1> QED
  BY <1>1, <1>4 DEF Told

(* Steps that write the order's row, not its receipts. *)
LEMMA BillsStill ==
    ASSUME BillsTold, UNCHANGED <<receipts, bills, payments, payable>> PROVE BillsTold'
<1>1. Tables' /\ Once'
  BY DEF BillsTold, Tables, Once, BillOf
<1>2. PaidIsPayments' /\ PayableIsOpenBills'
  BY DEF BillsTold, PaidIsPayments, PayableIsOpenBills, Remaining
<1> QED
  BY <1>1, <1>2 DEF BillsTold

LEMMA OrderCreated ==
    ASSUME NEW l \in Clerks, NEW c \in Clerks, NEW q \in Quantities, Told(l), OrderInv',
           LeadsAlone(l), CreateOrder(c, q)
    PROVE  Told(l)'
<1>1. /\ order' = [order EXCEPT !.status = "DRAFT", !.ordered = q] /\ order.status = "NONE"
      /\ UNCHANGED <<receipts, bills, payments, payable, pending>> /\ c = l
      /\ pending[c] = NoTx
  BY DEF CreateOrder, Idle, LeadsAlone
<1>2. order \in Orders /\ \A x \in Lines : order.received[x] = 0
  BY <1>1 DEF Told, OrderInv, OrderOK
<1>3. /\ order'.status = "DRAFT" /\ order'.ordered = q /\ order'.received = order.received
      /\ \E x \in Lines : q[x] > 0
  BY <1>1, <1>2 DEF Orders, Quantities
<1>4. OrderTold'
  BY <1>1, <1>2, <1>3 DEF OrderTold, Asked, ReceivedIsReceipts, StatusIsReceived, Told
<1>5. BillsTold'
  BY <1>1, BillsStill DEF Told
<1>6. Notes(l)'
  BY <1>1, <1>3 DEF Told, Notes, Joint, Own, Shared, Underway, NoTx
<1> QED
  BY <1>4, <1>5, <1>6 DEF Told

(* Nothing has been received, whatever the status, if there is no receipt. *)
LEMMA NoneReceived ==
    ASSUME OrderTold, receipts = <<>> PROVE \A l \in Lines : order.received[l] = 0
<1> SUFFICES ASSUME NEW l \in Lines PROVE order.received[l] = 0
  OBVIOUS
<1> DEFINE f == [n \in DOMAIN receipts |-> receipts[n][l]]
<1>1. DOMAIN f = {}
  OBVIOUS
<1> HIDE DEF f
<1>2. SumFunction(f) = 0
  BY <1>1, TotalEmpty
<1> QED
  BY <1>2 DEF OrderTold, ReceivedIsReceipts, f

LEMMA OrderEdited ==
    ASSUME NEW l \in Clerks, NEW c \in Clerks, Told(l), OrderInv', CommitEdit(c)
    PROVE  Told(l)'
<1> DEFINE new == pending[c].ordered
<1>1. /\ order' = [order EXCEPT !.ordered = new, !.received = Nothing, !.edition = @ + 1]
      /\ receipts = <<>> /\ Goto(c, NoTx) /\ UNCHANGED <<receipts, bills, payments, payable>>
  BY DEF CommitEdit, Finish
<1>2. order.status # "NONE" /\ \E x \in Lines : new[x] > 0
  BY DEF CommitEdit, In, Told, Notes, Joint
<1>3. order \in Orders /\ \A x \in Lines : order.received[x] = 0
  BY <1>1, NoneReceived DEF Told, OrderInv, OrderOK
<1> HIDE DEF new
<1>4. order'.status = order.status /\ order'.ordered = new /\ order'.received = Nothing
  BY <1>1, <1>3 DEF Orders
<1>5. OrderTold'
  <2>1. Asked'
    BY <1>2, <1>4 DEF Asked
  <2>2. ReceivedIsReceipts'
    BY <1>1, <1>3, <1>4 DEF Told, OrderTold, ReceivedIsReceipts, Nothing
  <2>3. order.status \notin {"RECEIVED", "PARTIALLY_RECEIVED"}
    <3>1. order.status = "RECEIVED" => FALSE
      BY <1>2, <1>3 DEF Told, OrderTold, StatusIsReceived, Asked
    <3>2. order.status = "PARTIALLY_RECEIVED" => FALSE
      BY <1>3 DEF Told, OrderTold, StatusIsReceived
    <3> QED
      BY <3>1, <3>2
  <2>4. StatusIsReceived'
    BY <1>4, <2>3 DEF StatusIsReceived, Nothing
  <2> QED
    BY <2>1, <2>2, <2>4 DEF OrderTold
<1>6. BillsTold'
  BY <1>1, BillsStill DEF Told
<1>7. Onward
  BY <1>4 DEF Onward, Underway
<1>8. Notes(l)'
  <2>1. PICK old : old = pending[l]
    OBVIOUS
  <2>2. Own(old)'
    BY <1>1, <1>4, <2>1 DEF Told, Notes, Own, BillOf
  <2> QED
    BY <1>1, <1>7, <2>1, <2>2, NoTxFits, NotesKept DEF Told, OrderInv
<1> QED
  BY <1>5, <1>6, <1>8 DEF Told

LEMMA OrderMoved ==
    ASSUME NEW l \in Clerks, NEW c \in Clerks, Told(l), OrderInv', CommitSend(c) \/ CommitCancel(c)
    PROVE  Told(l)'
<1> DEFINE s == order'.status
<1>1. /\ s \in {"SENT", "CANCELLED"} /\ order' = [order EXCEPT !.status = s]
      /\ UNCHANGED <<receipts, bills, payments, payable>> /\ Goto(c, NoTx) /\ c = l
      /\ order.status # "NONE" /\ (s = "SENT" => order.status = "DRAFT")
  <2>1. c = l
    BY DEF CommitSend, CommitCancel, In, Told, Notes, Shared
  <2>2. order \in Orders
    BY DEF Told, OrderInv, OrderOK
  <2> QED
    BY <2>1, <2>2 DEF CommitSend, CommitCancel, In, Told, Notes, Own, Finish, Orders
<1>2. order'.ordered = order.ordered /\ order'.received = order.received
  BY <1>1 DEF Told, OrderInv, OrderOK, Orders
<1>3. OrderTold'
  BY <1>1, <1>2 DEF Told, OrderTold, Asked, ReceivedIsReceipts, StatusIsReceived
<1>4. BillsTold'
  BY <1>1, BillsStill DEF Told
<1>5. Onward
  BY <1>1 DEF Onward, Underway
<1>6. Notes(l)'
  <2>1. PICK old : old = pending[l]
    OBVIOUS
  <2> QED
    BY <1>1, <1>5, <2>1, NoTxFits, NotesKept DEF Told, OrderInv
<1> QED
  BY <1>3, <1>4, <1>6 DEF Told

-----------------------------------------------------------------------------
(* A bill is made: of a receipt without one, or of none. *)
LEMMA BillMade ==
    ASSUME BillsTold, NEW g \in Nat, NEW t \in Nat \ {0}, receipts' \in Seq([Lines -> Nat]),
           Len(receipts) <= Len(receipts'), g <= Len(receipts'), g # 0 => BillOf(g) = {},
           bills' = Append(bills, NewBill(g, t)), payable' = payable + t, payments' = payments
    PROVE  BillsTold'
<1> DEFINE x == NewBill(g, t)
           k == Len(bills) + 1
<1>1. /\ x \in BillRow /\ x.grn = g /\ x.total = t /\ x.paid = 0 /\ x.status = "UNPAID"
  BY DEF NewBill, BillRow, BillStatuses
<1>2. /\ bills \in Seq(BillRow) /\ receipts \in Seq([Lines -> Nat]) /\ payments \in Seq(PaymentRow)
      /\ payable \in Int /\ \A b \in DOMAIN bills : bills[b] \in BillRow
  BY SeqDomain DEF BillsTold, Tables
<1>3. /\ bills' \in Seq(BillRow) /\ DOMAIN bills' = DOMAIN bills \cup {k} /\ k \notin DOMAIN bills
      /\ bills'[k] = x /\ \A b \in DOMAIN bills : bills'[b] = bills[b]
  BY <1>1, <1>2, Appended
<1> HIDE DEF x, k
<1>4. Tables'
  <2>1. Len(receipts) \in Nat /\ Len(receipts') \in Nat
    BY <1>2
  <2>2. \A b \in DOMAIN bills' : bills'[b].grn <= Len(receipts')
    <3> SUFFICES ASSUME NEW b \in DOMAIN bills' PROVE bills'[b].grn <= Len(receipts')
      OBVIOUS
    <3>1. CASE b = k
      BY <1>1, <1>3, <3>1
    <3>2. CASE b \in DOMAIN bills
      <4>1. bills[b].grn <= Len(receipts) /\ bills[b].grn \in Nat
        BY <1>2, <3>2 DEF BillsTold, Tables, BillRow
      <4> QED
        BY <1>3, <2>1, <3>2, <4>1
    <3> QED
      BY <1>3, <3>1, <3>2
  <2> QED
    BY <1>2, <1>3, <2>2 DEF BillsTold, Tables
<1>5. Once'
  <2> SUFFICES ASSUME NEW n \in DOMAIN receipts', NEW a \in BillOf(n)', NEW b \in BillOf(n)'
               PROVE  a = b
    BY DEF Once
  <2>1. a \in DOMAIN bills' /\ b \in DOMAIN bills' /\ bills'[a].grn = n /\ bills'[b].grn = n
        /\ bills'[a].status # "VOID" /\ bills'[b].status # "VOID"
    BY DEF BillOf
  <2>2. n # 0
    BY SeqDomain
  <2>3. CASE a = k
    <3>1. b = k
      BY <1>1, <1>3, <2>1, <2>2, <2>3 DEF BillOf
    <3> QED
      BY <2>3, <3>1
  <2>4. CASE a # k
    <3>1. a \in DOMAIN bills /\ a \in BillOf(n)
      BY <1>3, <2>1, <2>4 DEF BillOf
    <3>2. b # k
      BY <1>1, <1>3, <2>1, <2>2, <3>1
    <3>3. b \in BillOf(n)
      BY <1>3, <2>1, <3>2 DEF BillOf
    <3>4. n \in DOMAIN receipts
      <4>1. bills[a].grn <= Len(receipts) /\ bills[a].grn = n
        BY <3>1 DEF BillsTold, Tables, BillOf
      <4>2. DOMAIN receipts = 1..Len(receipts) /\ DOMAIN receipts' = 1..Len(receipts')
        BY <1>2
      <4> QED
        BY <4>1, <4>2
    <3> QED
      BY <3>1, <3>3, <3>4 DEF BillsTold, Once
  <2> QED
    BY <2>3, <2>4
<1>6. PaidIsPayments'
  <2> SUFFICES ASSUME NEW b \in DOMAIN bills'
               PROVE  /\ bills'[b].paid = PaidIn(payments, b) /\ bills'[b].paid <= bills'[b].total
                      /\ bills'[b].status = "PAID" <=> bills'[b].paid = bills'[b].total
    BY DEF PaidIsPayments, PaidIn
  <2>1. CASE b \in DOMAIN bills
    BY <1>3, <2>1 DEF BillsTold, PaidIsPayments, PaidIn
  <2>2. CASE b = k
    <3> DEFINE S == {q \in DOMAIN payments : payments[q].bill = b}
               f == [p \in S |-> payments[p].amount]
    <3>1. DOMAIN f = {}
      BY <1>3, <2>2 DEF BillsTold, Tables
    <3> HIDE DEF f
    <3>2. SumFunction(f) = 0
      BY <3>1, TotalEmpty
    <3>3. PaidIn(payments, b) = 0
      BY <3>2 DEF PaidIn, f
    <3> QED
      BY <1>1, <1>3, <2>2, <3>3
  <2> QED
    BY <1>3, <2>1, <2>2
<1>7. PayableIsOpenBills'
  <2> DEFINE new == bills'
  <2>1. OneMore(bills, new, k)
    BY <1>1, <1>2, <1>3 DEF OneMore, Open
  <2> HIDE DEF new
  <2>2. OpenIn(new) = OpenIn(bills) + (new[k].total - new[k].paid) /\ OpenIn(bills) \in Int
    BY <2>1, OpenMore
  <2>3. payable = OpenIn(bills)
    BY DEF BillsTold, PayableIsOpenBills, OpenIn, Open, Remaining
  <2>4. payable' = OpenIn(new)
    BY <1>1, <1>3, <2>2, <2>3 DEF new
  <2> QED
    BY <2>4 DEF PayableIsOpenBills, OpenIn, Open, Remaining, new
<1> QED
  BY <1>4, <1>5, <1>6, <1>7 DEF BillsTold

(* A receipt without a bill. *)
LEMMA ReceiptMade ==
    ASSUME BillsTold, receipts' \in Seq([Lines -> Nat]), Len(receipts) <= Len(receipts'),
           UNCHANGED <<bills, payable, payments>>
    PROVE  BillsTold'
<1>1. /\ Len(receipts) \in Nat /\ Len(receipts') \in Nat
      /\ \A b \in DOMAIN bills : bills[b].grn \in Nat /\ bills[b].grn <= Len(receipts)
  <2>1. \A b \in DOMAIN bills : bills[b] \in BillRow
    BY SeqDomain DEF BillsTold, Tables
  <2>2. Len(receipts) \in Nat /\ Len(receipts') \in Nat
    BY DEF BillsTold, Tables
  <2> QED
    BY <2>1, <2>2 DEF BillsTold, Tables, BillRow
<1>2. Tables'
  BY <1>1 DEF BillsTold, Tables
<1>3. Once'
  <2> SUFFICES ASSUME NEW n \in DOMAIN receipts', NEW a \in BillOf(n)', NEW b \in BillOf(n)'
               PROVE  a = b
    BY DEF Once
  <2>1. a \in BillOf(n) /\ b \in BillOf(n)
    BY DEF BillOf
  <2>2. n \in DOMAIN receipts
    <3>1. n \in 1..Len(receipts') /\ bills[a].grn = n /\ a \in DOMAIN bills
      BY <2>1 DEF BillOf
    <3>2. DOMAIN receipts = 1..Len(receipts)
      BY DEF BillsTold, Tables
    <3> QED
      BY <1>1, <3>1, <3>2
  <2> QED
    BY <2>1, <2>2 DEF BillsTold, Once
<1>4. PaidIsPayments' /\ PayableIsOpenBills'
  BY DEF BillsTold, PaidIsPayments, PayableIsOpenBills, Remaining
<1> QED
  BY <1>2, <1>3, <1>4 DEF BillsTold

LEMMA GoodsReceived ==
    ASSUME NEW l \in Clerks, NEW c \in Clerks, Told(l), OrderInv', CommitReceive(c)
    PROVE  Told(l)'
<1> DEFINE qty == pending[c].qty
           received == ReceivedAfter(qty)
           f == [x \in Lines |-> qty[x] * UnitCost[x]]
           total == SumFunction(f)
           n == Len(receipts) + 1
<1>1. /\ receipts' = Append(receipts, qty) /\ Goto(c, NoTx) /\ payments' = payments
      /\ order' = [order EXCEPT !.received = received, !.status = StatusAfter(received)]
      /\ \/ /\ total > 0 /\ bills' = Append(bills, NewBill(n, total)) /\ payable' = payable + total
         \/ UNCHANGED <<bills, payable>>
      /\ Fits(qty)
  BY DEF CommitReceive, Accepted, Finish
<1>2. /\ qty \in [Lines -> Nat] /\ Underway /\ \E x \in Lines : qty[x] > 0
      /\ c # l => Own(pending[l])
  BY DEF CommitReceive, In, Told, Notes, Joint, OrderInv, PendingTyped, PendingOrder
<1>3. order \in Orders /\ \A x \in Lines : order.received[x] <= order.ordered[x]
  BY DEF Told, OrderInv, OrderOK
<1>4. /\ receipts \in Seq([Lines -> Nat]) /\ Len(receipts) \in Nat
      /\ \A b \in DOMAIN bills : bills[b] \in BillRow /\ bills[b].grn <= Len(receipts)
  BY SeqDomain DEF Told, BillsTold, Tables
<1>5. total \in Nat
  <2>1. DOMAIN f = Lines /\ \A x \in Lines : f[x] \in Nat
    BY <1>2, CostAssumption
  <2> HIDE DEF f
  <2> QED
    BY <2>1, CostAssumption, TotalNat
<1> HIDE DEF qty, total
<1>6. received \in [Lines -> Nat] /\ \A x \in Lines : received[x] = order.received[x] + qty[x]
  BY <1>2, <1>3 DEF ReceivedAfter, Orders
<1>7. /\ order'.received = received /\ order'.ordered = order.ordered
      /\ order'.status = StatusAfter(received)
  <2> DEFINE s == StatusAfter(received)
  <2> HIDE DEF received, s
  <2> QED
    BY <1>1, <1>3 DEF Orders, s
<1> HIDE DEF received
<1>8. /\ \A x \in Lines : received[x] <= order.ordered[x]
      /\ \E x \in Lines : received[x] > 0
  <2>1. \A x \in Lines : order.received[x] \in Nat /\ order.ordered[x] \in Nat /\ qty[x] \in Nat
    BY <1>2, <1>3 DEF Orders
  <2>2. \A x \in Lines : qty[x] <= order.ordered[x] - order.received[x]
    BY <1>1 DEF Fits
  <2> QED
    BY <1>2, <1>6, <2>1, <2>2
<1>9. /\ order'.status \in {"RECEIVED", "PARTIALLY_RECEIVED"}
      /\ order'.status = "RECEIVED" <=> \A x \in Lines : received[x] = order.ordered[x]
  <2>1. (\A x \in Lines : received[x] >= order.ordered[x])
           <=> \A x \in Lines : received[x] = order.ordered[x]
    <3>1. \A x \in Lines : received[x] \in Nat /\ order.ordered[x] \in Nat
      BY <1>3, <1>6 DEF Orders
    <3> QED
      BY <1>8, <3>1
  <2> QED
    BY <1>7, <1>8, <2>1 DEF StatusAfter
<1>10. OrderTold'
  <2>1. Asked'
    BY <1>2, <1>7 DEF Told, OrderTold, Asked, Underway
  <2>2. ReceivedIsReceipts'
    <3> SUFFICES ASSUME NEW x \in Lines PROVE received[x] = ReceivedIn(receipts', x)
      BY <1>7 DEF ReceivedIsReceipts, ReceivedIn
    <3>1. order.received[x] = ReceivedIn(receipts, x)
      BY DEF Told, OrderTold, ReceivedIsReceipts, ReceivedIn
    <3>2. ReceivedIn(receipts', x) = ReceivedIn(receipts, x) + qty[x]
      BY <1>1, <1>2, <1>4, ReceiptAdded
    <3> QED
      BY <1>6, <3>1, <3>2
  <2>3. StatusIsReceived'
    BY <1>7, <1>8, <1>9 DEF StatusIsReceived
  <2> QED
    BY <2>1, <2>2, <2>3 DEF OrderTold
<1>11. /\ receipts' \in Seq([Lines -> Nat]) /\ Len(receipts') = n
  BY <1>1, <1>2, <1>4
<1>12. BillOf(n) = {}
  BY <1>4 DEF BillOf, BillRow
<1>13. BillsTold'
  <2>1. CASE UNCHANGED <<bills, payable>>
    BY <1>1, <1>4, <1>11, <2>1, ReceiptMade DEF Told
  <2>2. CASE /\ total > 0 /\ bills' = Append(bills, NewBill(n, total))
             /\ payable' = payable + total
    <3>1. n \in Nat /\ total \in Nat \ {0} /\ Len(receipts) <= Len(receipts') /\ n <= Len(receipts')
      BY <1>4, <1>5, <1>11, <2>2
    <3>2. BillsTold /\ payments' = payments
      BY <1>1 DEF Told
    <3> HIDE DEF n
    <3> QED
      BY <1>11, <1>12, <2>2, <3>1, <3>2, BillMade
  <2> QED
    BY <1>1, <2>1, <2>2
<1>14. Onward
  BY <1>9 DEF Onward, Underway
<1>15. PICK old : old = pending[l]
  OBVIOUS
<1>16. c # l => Own(old)'
  <2> SUFFICES ASSUME Own(old) PROVE Own(old)'
    BY <1>2, <1>15
  <2>1. old.op = "send" => order'.status = "DRAFT"
    BY <1>2 DEF Own, Underway
  <2>2. old.op = "cancel" => order'.status # "NONE"
    BY <1>9
  <2>3. /\ DOMAIN bills \subseteq DOMAIN bills' /\ \A b \in DOMAIN bills : bills'[b] = bills[b]
        /\ \A b \in DOMAIN bills' : b \in DOMAIN bills \/ bills'[b].grn = n
    <3>1. CASE UNCHANGED <<bills, payable>>
      BY <3>1
    <3>2. CASE bills' = Append(bills, NewBill(n, total)) /\ total > 0
      <4> DEFINE x == NewBill(n, total)
                 T == BillRow \cup {x}
      <4>1. x.grn = n
        BY DEF NewBill
      <4>2. bills \in Seq(T) /\ x \in T
        <5>1. bills \in Seq(BillRow)
          BY DEF Told, BillsTold, Tables
        <5> QED
          BY <5>1
      <4>3. bills' = Append(bills, x)
        BY <3>2
      <4> HIDE DEF T, x
      <4>4. /\ DOMAIN bills' = DOMAIN bills \cup {Len(bills) + 1} /\ bills'[Len(bills) + 1] = x
            /\ \A b \in DOMAIN bills : bills'[b] = bills[b]
        BY <4>2, <4>3, Appended
      <4> QED
        BY <4>1, <4>4
    <3> QED
      BY <1>1, <3>1, <3>2
  <2>4. old.op = "bill" => /\ old.grn \in 0..Len(receipts') /\ old.total \in Nat \ {0}
                           /\ old.grn # 0 => BillOf(old.grn)' = {}
    <3> SUFFICES ASSUME old.op = "bill"
                 PROVE  /\ old.grn \in 0..Len(receipts') /\ old.total \in Nat \ {0}
                        /\ old.grn # 0 => BillOf(old.grn)' = {}
      OBVIOUS
    <3>1. /\ old.grn \in 0..Len(receipts) /\ old.total \in Nat \ {0}
          /\ old.grn # 0 => BillOf(old.grn) = {}
      BY DEF Own
    <3>2. old.grn \in 0..Len(receipts') /\ old.grn # n
      BY <1>4, <1>11, <3>1
    <3> QED
      BY <2>3, <3>1, <3>2 DEF BillOf
  <2>5. old.op = "void" => /\ old.bill \in DOMAIN bills'
                           /\ bills'[old.bill].status # "VOID" /\ bills'[old.bill].paid = 0
    BY <2>3 DEF Own
  <2> QED
    BY <2>1, <2>2, <2>4, <2>5 DEF Own
<1>17. Notes(l)'
  BY <1>1, <1>14, <1>15, <1>16, NoTxFits, NotesKept DEF Told, OrderInv, Shared
<1> QED
  BY <1>10, <1>13, <1>17 DEF Told

LEMMA BillCommitted ==
    ASSUME NEW l \in Clerks, NEW c \in Clerks, Told(l), OrderInv', CommitBill(c)
    PROVE  Told(l)'
<1> DEFINE g == pending[c].grn
           t == pending[c].total
<1>1. /\ c = l /\ g \in 0..Len(receipts) /\ t \in Nat \ {0} /\ (g # 0 => BillOf(g) = {})
  BY DEF CommitBill, In, Told, Notes, Shared, Own
<1>2. /\ bills' = Append(bills, NewBill(g, t)) /\ payable' = payable + t
      /\ UNCHANGED <<order, receipts, payments>> /\ Goto(c, NoTx)
  BY DEF CommitBill, Finish
<1>3. receipts \in Seq([Lines -> Nat]) /\ BillsTold
  BY DEF Told, BillsTold, Tables
<1> HIDE DEF g, t
<1>4. BillsTold'
  <2>1. /\ g \in Nat /\ g <= Len(receipts') /\ Len(receipts) <= Len(receipts')
        /\ receipts' \in Seq([Lines -> Nat])
    BY <1>1, <1>2, <1>3
  <2> QED
    BY <1>1, <1>2, <1>3, <2>1, BillMade
<1>5. OrderTold' /\ Onward
  BY <1>2 DEF Told, OrderTold, Asked, ReceivedIsReceipts, StatusIsReceived, Onward, Underway
<1>6. Notes(l)'
  <2>1. PICK old : old = pending[l]
    OBVIOUS
  <2> QED
    BY <1>1, <1>2, <1>5, <2>1, NoTxFits, NotesKept DEF Told, OrderInv
<1> QED
  BY <1>4, <1>5, <1>6 DEF Told

LEMMA BillPays ==
    ASSUME NEW l \in Clerks, NEW c \in Clerks, NEW b \in DOMAIN bills, NEW amount \in 1..bills[b].total,
           Told(l), OrderInv', LeadsAlone(l), Pay(c, b, amount)
    PROVE  Told(l)'
<1> DEFINE paid == bills[b].paid + amount
           status == IF paid >= bills[b].total THEN "PAID" ELSE "PARTIALLY_PAID"
           x == [grn |-> bills[b].grn, total |-> bills[b].total, paid |-> paid, status |-> status]
           row == [bill |-> b, amount |-> amount]
           k == Len(payments) + 1
<1>1. /\ bills \in Seq(BillRow) /\ payments \in Seq(PaymentRow) /\ receipts \in Seq([Lines -> Nat])
      /\ payable \in Int /\ bills[b] \in BillRow
      /\ \A a \in DOMAIN bills : bills[a] \in BillRow /\ bills[a].grn <= Len(receipts)
  BY SeqDomain DEF Told, BillsTold, Tables
<1>2. /\ amount \in Nat \ {0} /\ paid \in Nat /\ paid <= bills[b].total
      /\ bills[b].status \notin {"VOID", "PAID"}
  <2>1. amount \in 1..(bills[b].total - bills[b].paid)
    BY DEF Pay, Remaining
  <2>2. bills[b].total \in Nat /\ bills[b].paid \in Nat
    BY <1>1 DEF BillRow
  <2> QED
    BY <2>1, <2>2 DEF Pay
<1>3. /\ payments' = Append(payments, row) /\ payable' = payable - amount
      /\ bills' = [bills EXCEPT ![b].paid = paid, ![b].status = status]
      /\ UNCHANGED <<order, receipts, pending>> /\ c = l /\ pending[c] = NoTx
  BY DEF Pay, Idle, LeadsAlone
<1>4. x \in BillRow /\ row \in PaymentRow /\ x.status # "VOID"
      /\ x.paid <= x.total /\ (x.status = "PAID" <=> x.paid = x.total)
  <2>1. status \in BillStatuses /\ status # "VOID" /\ (status = "PAID" <=> paid = bills[b].total)
    BY <1>1, <1>2 DEF BillStatuses, BillRow
  <2>2. b \in Nat
    BY <1>1, SeqDomain
  <2> HIDE DEF paid, status
  <2> QED
    BY <1>1, <1>2, <2>1, <2>2 DEF BillRow, PaymentRow
<1>5. bills' = [bills EXCEPT ![b] = x]
  <2>1. bills' = [bills EXCEPT ![b] = [bills[b] EXCEPT !.paid = paid, !.status = status]]
    BY <1>3
  <2> HIDE DEF paid, status
  <2>2. IsBill(bills[b])
    BY <1>1 DEF IsBill, BillRow
  <2>3. [bills[b] EXCEPT !.paid = paid, !.status = status] = x
    BY <2>2, BillPaid
  <2> QED
    BY <2>1, <2>3
<1>6. x.grn = bills[b].grn /\ x.total = bills[b].total /\ x.paid = bills[b].paid + amount
  OBVIOUS
<1> HIDE DEF x, paid, status
<1>7. /\ DOMAIN bills' = DOMAIN bills /\ bills'[b] = x
      /\ \A a \in DOMAIN bills : a # b => bills'[a] = bills[a]
      /\ bills' \in Seq(BillRow)
  <2>1. /\ DOMAIN bills' = DOMAIN bills /\ bills'[b] = x
        /\ \A a \in DOMAIN bills : a # b => bills'[a] = bills[a]
        /\ bills' = [a \in DOMAIN bills |-> bills'[a]]
    BY <1>5
  <2>2. \A a \in DOMAIN bills : bills'[a] \in BillRow
    BY <1>1, <1>4, <2>1
  <2> QED
    BY <1>1, <2>1, <2>2, Rewritten
<1>8. /\ payments' \in Seq(PaymentRow) /\ DOMAIN payments' = DOMAIN payments \cup {k}
      /\ payments'[k] = row /\ \A p \in DOMAIN payments : payments'[p] = payments[p]
  BY <1>1, <1>3, <1>4, Appended
<1>9. row.bill = b /\ row.amount = amount
  OBVIOUS
<1> HIDE DEF row, k
<1>10. Tables'
  <2>1. \A a \in DOMAIN bills' : bills'[a].grn <= Len(receipts')
    BY <1>1, <1>3, <1>6, <1>7
  <2>2. \A p \in DOMAIN payments' : payments'[p].bill \in DOMAIN bills'
    BY <1>7, <1>8, <1>9 DEF Told, BillsTold, Tables
  <2> QED
    BY <1>1, <1>2, <1>3, <1>7, <1>8, <2>1, <2>2 DEF Tables
<1>11. Once'
  <2>1. \A n : BillOf(n)' = BillOf(n)
    BY <1>2, <1>4, <1>6, <1>7 DEF BillOf
  <2> QED
    BY <1>3, <2>1 DEF Told, BillsTold, Once
<1>12. PaidIsPayments'
  <2> SUFFICES ASSUME NEW a \in DOMAIN bills'
               PROVE  /\ bills'[a].paid = PaidIn(payments', a) /\ bills'[a].paid <= bills'[a].total
                      /\ bills'[a].status = "PAID" <=> bills'[a].paid = bills'[a].total
    BY DEF PaidIsPayments, PaidIn
  <2>1. /\ a \in DOMAIN bills /\ bills[a].paid = PaidIn(payments, a) /\ bills[a].paid <= bills[a].total
        /\ bills[a].status = "PAID" <=> bills[a].paid = bills[a].total
    BY <1>7 DEF Told, BillsTold, PaidIsPayments, PaidIn
  <2>2. PaidIn(payments', a) = PaidIn(payments, a) + (IF b = a THEN amount ELSE 0)
        /\ PaidIn(payments, a) \in Int
    BY <1>1, <1>3, <1>4, <1>9, PaymentAdded
  <2>3. CASE a = b
    BY <1>4, <1>6, <1>7, <2>1, <2>2, <2>3
  <2>4. CASE a # b
    BY <1>7, <2>1, <2>2, <2>4
  <2> QED
    BY <2>3, <2>4
<1>13. PayableIsOpenBills'
  <2> DEFINE new == bills'
  <2>1. b \in Open(bills) /\ new = [bills EXCEPT ![b] = x]
    BY <1>2, <1>5 DEF Open
  <2> HIDE DEF new
  <2>2. OpenIn(new) = OpenIn(bills) - (bills[b].total - bills[b].paid) + (x.total - x.paid)
    BY <1>1, <1>4, <2>1, OpenPaid
  <2>3. payable = OpenIn(bills)
    BY DEF Told, BillsTold, PayableIsOpenBills, OpenIn, Open, Remaining
  <2>4. payable' = OpenIn(new)
    <3>1. bills[b].total \in Int /\ bills[b].paid \in Int
      BY <1>1 DEF BillRow
    <3> QED
      BY <1>1, <1>2, <1>3, <1>6, <2>2, <2>3, <3>1
  <2> QED
    BY <2>4 DEF PayableIsOpenBills, OpenIn, Open, Remaining, new
<1>14. OrderTold'
  BY <1>3 DEF Told, OrderTold, Asked, ReceivedIsReceipts, StatusIsReceived
<1>15. Notes(l)'
  BY <1>3 DEF Told, Notes, Own, Joint, Shared, Underway, NoTx
<1> QED
  BY <1>10, <1>11, <1>12, <1>13, <1>14, <1>15 DEF Told, BillsTold

LEMMA BillGoesVoid ==
    ASSUME NEW l \in Clerks, NEW c \in Clerks, Told(l), OrderInv', CommitVoid(c)
    PROVE  Told(l)'
<1> DEFINE b == pending[c].bill
           x == [grn |-> bills[b].grn, total |-> bills[b].total, paid |-> bills[b].paid,
                 status |-> "VOID"]
<1>1. c = l /\ b \in DOMAIN bills /\ bills[b].status # "VOID" /\ bills[b].paid = 0
  BY DEF CommitVoid, In, Told, Notes, Shared, Own
<1>2. /\ bills' = [bills EXCEPT ![b].status = "VOID"] /\ payable' = payable - bills[b].total
      /\ UNCHANGED <<order, receipts, payments>> /\ Goto(c, NoTx)
  BY DEF CommitVoid, Finish
<1> HIDE DEF b
<1>3. /\ bills \in Seq(BillRow) /\ payments \in Seq(PaymentRow) /\ receipts \in Seq([Lines -> Nat])
      /\ payable \in Int /\ bills[b] \in BillRow
      /\ \A a \in DOMAIN bills : bills[a] \in BillRow /\ bills[a].grn <= Len(receipts)
  BY <1>1, SeqDomain DEF Told, BillsTold, Tables
<1>4. bills' = [bills EXCEPT ![b] = x] /\ x \in BillRow
  <2>1. [bills[b] EXCEPT !.status = "VOID"] = x
    <3>1. IsBill(bills[b])
      BY <1>3 DEF IsBill, BillRow
    <3> DEFINE y == bills[b]
    <3> HIDE DEF y
    <3>2. IsBill(y) => [y EXCEPT !.status = "VOID"]
                        = [grn |-> y.grn, total |-> y.total, paid |-> y.paid, status |-> "VOID"]
      BY DEF IsBill
    <3> QED
      BY <3>1, <3>2 DEF y
  <2>2. bills' = [bills EXCEPT ![b] = [bills[b] EXCEPT !.status = "VOID"]]
    BY <1>2
  <2> QED
    BY <1>3, <2>1, <2>2 DEF BillRow, BillStatuses
<1>5. x.grn = bills[b].grn /\ x.total = bills[b].total /\ x.paid = bills[b].paid /\ x.status = "VOID"
  OBVIOUS
<1> HIDE DEF x
<1>6. /\ DOMAIN bills' = DOMAIN bills /\ bills'[b] = x
      /\ \A a \in DOMAIN bills : a # b => bills'[a] = bills[a]
      /\ bills' \in Seq(BillRow)
  <2>1. /\ DOMAIN bills' = DOMAIN bills /\ bills'[b] = x
        /\ \A a \in DOMAIN bills : a # b => bills'[a] = bills[a]
        /\ bills' = [a \in DOMAIN bills |-> bills'[a]]
    BY <1>1, <1>4
  <2>2. \A a \in DOMAIN bills : bills'[a] \in BillRow
    BY <1>3, <1>4, <2>1
  <2> QED
    BY <1>3, <2>1, <2>2, Rewritten
<1>7. bills[b].total \in Nat \ {0} /\ bills[b].paid \in Nat
  BY <1>3 DEF BillRow
<1>8. Tables'
  <2>1. \A a \in DOMAIN bills' : bills'[a].grn <= Len(receipts')
    BY <1>2, <1>3, <1>5, <1>6
  <2>2. \A p \in DOMAIN payments' : payments'[p].bill \in DOMAIN bills'
    BY <1>2, <1>6 DEF Told, BillsTold, Tables
  <2> QED
    BY <1>2, <1>3, <1>6, <1>7, <2>1, <2>2 DEF Tables
<1>9. Once'
  <2>1. \A n : BillOf(n)' \subseteq BillOf(n)
    BY <1>5, <1>6 DEF BillOf
  <2> QED
    BY <1>2, <2>1 DEF Told, BillsTold, Once
<1>10. PaidIsPayments'
  <2> SUFFICES ASSUME NEW a \in DOMAIN bills'
               PROVE  /\ bills'[a].paid = PaidIn(payments, a) /\ bills'[a].paid <= bills'[a].total
                      /\ bills'[a].status = "PAID" <=> bills'[a].paid = bills'[a].total
    BY <1>2 DEF PaidIsPayments, PaidIn
  <2>1. /\ a \in DOMAIN bills /\ bills[a].paid = PaidIn(payments, a) /\ bills[a].paid <= bills[a].total
        /\ bills[a].status = "PAID" <=> bills[a].paid = bills[a].total
    BY <1>6 DEF Told, BillsTold, PaidIsPayments, PaidIn
  <2>2. CASE a = b
    BY <1>1, <1>5, <1>6, <1>7, <2>1, <2>2
  <2>3. CASE a # b
    BY <1>6, <2>1, <2>3
  <2> QED
    BY <2>2, <2>3
<1>11. PayableIsOpenBills'
  <2> DEFINE new == bills'
  <2>1. OneMore(new, bills, b)
    BY <1>1, <1>3, <1>5, <1>6 DEF OneMore, Open
  <2> HIDE DEF new
  <2>2. OpenIn(bills) = OpenIn(new) + (bills[b].total - bills[b].paid) /\ OpenIn(new) \in Int
    BY <2>1, OpenMore
  <2>3. payable = OpenIn(bills)
    BY DEF Told, BillsTold, PayableIsOpenBills, OpenIn, Open, Remaining
  <2>4. payable' = OpenIn(new)
    BY <1>1, <1>2, <1>7, <2>2, <2>3
  <2> QED
    BY <2>4 DEF PayableIsOpenBills, OpenIn, Open, Remaining, new
<1>12. OrderTold' /\ Onward
  BY <1>2 DEF Told, OrderTold, Asked, ReceivedIsReceipts, StatusIsReceived, Onward, Underway
<1>13. Notes(l)'
  <2>1. PICK old : old = pending[l]
    OBVIOUS
  <2> QED
    BY <1>1, <1>2, <1>12, <2>1, NoTxFits, NotesKept DEF Told, OrderInv
<1> QED
  BY <1>8, <1>9, <1>10, <1>11, <1>12, <1>13 DEF Told, BillsTold

-----------------------------------------------------------------------------
LEMMA NotesMade ==
    ASSUME NEW l \in Clerks, NEW c \in Clerks, LeadsAlone(l), Told(l), OrderInv',
           \/ \E q \in Quantities : \/ CheckEdit(c, q)
                                    \/ \E billed \in BOOLEAN : CheckReceive(c, q, billed)
           \/ CheckSend(c) \/ CheckCancel(c) \/ Abort(c)
           \/ \E grn \in 0..Len(receipts), total \in 1..MaxTotal : CheckBill(c, grn, total)
           \/ \E b \in DOMAIN bills : CheckVoid(c, b)
    PROVE  Told(l)'
<1> USE DEF Nothings
<1>l. \A op : Idle(c, op) /\ c # l => op \in {"edit", "receive"}
  BY DEF Idle, LeadsAlone
<1>1. ASSUME NEW q \in Quantities, CheckEdit(c, q) PROVE Told(l)'
  <2> DEFINE tx == [op |-> "edit", ordered |-> q]
  <2>1. Joint(tx) /\ Own(tx) /\ Shared(tx) /\ Goto(c, tx) /\ Nothings
    BY <1>1 DEF CheckEdit, Joint, Own, Shared, Quantities
  <2> QED
    BY <2>1, Noted
<1>2. ASSUME NEW q \in Quantities, NEW billed \in BOOLEAN, CheckReceive(c, q, billed) PROVE Told(l)'
  <2> DEFINE tx == [op |-> "receive", qty |-> q, billed |-> billed, edition |-> order.edition]
  <2>1. Joint(tx) /\ Own(tx) /\ Shared(tx) /\ Goto(c, tx) /\ Nothings
    BY <1>2 DEF CheckReceive, Joint, Own, Shared, Quantities, Underway
  <2> QED
    BY <2>1, Noted
<1>3. CASE CheckSend(c)
  <2> DEFINE tx == [op |-> "send"]
  <2>1. Joint(tx) /\ Own(tx) /\ Goto(c, tx) /\ Nothings /\ c = l
    BY <1>3, <1>l DEF CheckSend, Joint, Own
  <2> QED
    BY <2>1, Noted
<1>4. CASE CheckCancel(c)
  <2> DEFINE tx == [op |-> "cancel"]
  <2>1. Joint(tx) /\ Own(tx) /\ Goto(c, tx) /\ Nothings /\ c = l
    BY <1>4, <1>l DEF CheckCancel, Joint, Own
  <2> QED
    BY <2>1, Noted
<1>5. CASE Abort(c)
  BY <1>5, NoTxFits, Noted DEF Abort, Finish
<1>6. ASSUME NEW grn \in 0..Len(receipts), NEW total \in 1..MaxTotal, CheckBill(c, grn, total)
      PROVE  Told(l)'
  <2> DEFINE tx == [op |-> "bill", grn |-> grn, total |-> total]
  <2>1. Joint(tx) /\ Own(tx) /\ Goto(c, tx) /\ Nothings /\ c = l
    <3>1. total \in Nat \ {0}
      OBVIOUS
    <3> QED
      BY <1>6, <1>l, <3>1 DEF CheckBill, Joint, Own
  <2> QED
    BY <2>1, Noted
<1>7. ASSUME NEW b \in DOMAIN bills, CheckVoid(c, b) PROVE Told(l)'
  <2> DEFINE tx == [op |-> "void", bill |-> b]
  <2>1. Joint(tx) /\ Own(tx) /\ Goto(c, tx) /\ Nothings /\ c = l
    BY <1>7, <1>l DEF CheckVoid, Joint, Own
  <2> QED
    BY <2>1, Noted
<1> QED
  BY <1>1, <1>2, <1>3, <1>4, <1>5, <1>6, <1>7

LEMMA ToldStep ==
    ASSUME NEW l \in Clerks, LeadsAlone(l), Told(l), [Next]_vars PROVE Told(l)'
<1>0. OrderInv'
  BY OrderNext DEF Told
<1>1. CASE UNCHANGED vars
  <2>1. OrderTold' /\ BillsTold'
    BY <1>1, TablesStill DEF vars, Nothings, Told
  <2>2. Notes(l)'
    BY <1>1 DEF vars, Told, Notes, Own, Joint, Shared, Underway, BillOf
  <2> QED
    BY <1>0, <2>1, <2>2 DEF Told
<1>2. CASE Next
  <2>1. PICK c \in Clerks : Step(c)
    BY <1>2 DEF Next
  <2>2. CASE \E q \in Quantities : CreateOrder(c, q)
    BY <1>0, <2>2, OrderCreated
  <2>3. CASE CommitEdit(c) \/ CommitSend(c) \/ CommitCancel(c) \/ CommitReceive(c)
    BY <1>0, <2>3, OrderEdited, OrderMoved, GoodsReceived
  <2>4. CASE CommitBill(c) \/ CommitVoid(c)
    BY <1>0, <2>4, BillCommitted, BillGoesVoid
  <2>5. CASE \E b \in DOMAIN bills : \E amount \in 1..bills[b].total : Pay(c, b, amount)
    BY <1>0, <2>5, BillPays
  <2> QED
    BY <1>0, <2>1, <2>2, <2>3, <2>4, <2>5, NotesMade DEF Step
<1> QED
  BY <1>1, <1>2

LEMMA InitTold == ASSUME NEW l \in Clerks, Init PROVE Told(l)
<1> USE DEF Init
<1>1. OrderInv
  BY OrderInit
<1>2. OrderTold
  <2>1. ReceivedIsReceipts
    <3> SUFFICES ASSUME NEW x \in Lines
                 PROVE  SumFunction([n \in DOMAIN receipts |-> receipts[n][x]]) = 0
      BY DEF ReceivedIsReceipts, Nothing
    <3> DEFINE f == [n \in DOMAIN receipts |-> receipts[n][x]]
    <3>1. DOMAIN f = {}
      OBVIOUS
    <3> HIDE DEF f
    <3>2. SumFunction(f) = 0
      BY <3>1, TotalEmpty
    <3> QED
      BY <3>2 DEF f
  <2> QED
    BY <2>1 DEF OrderTold, Asked, StatusIsReceived
<1>3. BillsTold
  <2>1. Tables /\ Once /\ PaidIsPayments
    BY DEF Tables, Once, PaidIsPayments
  <2>2. PayableIsOpenBills
    <3> DEFINE f == [b \in Open(bills) |-> Remaining(b)]
    <3>1. DOMAIN f = {}
      BY DEF Open
    <3> HIDE DEF f
    <3>2. SumFunction(f) = 0
      BY <3>1, TotalEmpty
    <3> QED
      BY <3>2 DEF PayableIsOpenBills, Open, f
  <2> QED
    BY <2>1, <2>2 DEF BillsTold
<1>4. Notes(l)
  BY DEF Notes, Own, Joint, Shared, NoTx
<1> QED
  BY <1>1, <1>2, <1>3, <1>4 DEF Told

LEMMA OneAtMost ==
    ASSUME NEW S, IsFiniteSet(S), \A a, b \in S : a = b PROVE Cardinality(S) <= 1
<1>1. CASE S = {}
  BY <1>1, FS_EmptySet
<1>2. CASE S # {}
  <2>1. PICK a : a \in S
    BY <1>2
  <2>2. S = {a}
    BY <2>1
  <2> QED
    BY <2>2, FS_Singleton
<1> QED
  BY <1>1, <1>2

LEMMA ToldAgrees == ASSUME NEW l \in Clerks, Told(l) PROVE PurchasesAgree
<1>1. TypeOK
  <2>1. /\ \A b \in DOMAIN bills : bills[b] \in BillRow
        /\ \A p \in DOMAIN payments : payments[p] \in PaymentRow
        /\ \A n \in DOMAIN receipts : receipts[n] \in [Lines -> Nat]
        /\ Len(receipts) \in Nat
    BY SeqDomain DEF Told, BillsTold, Tables
  <2>2. \A b \in DOMAIN bills : bills[b].grn \in 0..Len(receipts)
    BY <2>1 DEF Told, BillsTold, Tables, BillRow
  <2>3. order \in Orders
    BY DEF Told, OrderInv, OrderOK
  <2> QED
    BY <2>1, <2>2, <2>3 DEF TypeOK, Told, BillsTold, Tables, Orders, BillRow
<1>2. BilledOnce
  <2> SUFFICES ASSUME NEW n \in DOMAIN receipts PROVE Cardinality(BillOf(n)) <= 1
    BY DEF BilledOnce
  <2>1. IsFiniteSet(DOMAIN bills) /\ BillOf(n) \subseteq DOMAIN bills
    BY SeqDomain DEF Told, BillsTold, Tables, BillOf
  <2>2. IsFiniteSet(BillOf(n))
    BY <2>1, FS_Subset
  <2> QED
    BY <2>2, OneAtMost DEF Told, BillsTold, Once
<1> QED
  BY <1>1, <1>2 DEF PurchasesAgree, OrderAgrees, BillsAgree, Told, OrderTold, BillsTold

(* As long as one clerk at a time creates, sends and cancels the order and *)
(* bills, pays and voids, while any number of others edit it and receive   *)
(* on it: the order tells what its receipts brought, no receipt is billed  *)
(* twice, every bill tells its payments, and the vendor's ledger is what   *)
(* remains of the bills that stand.                                        *)
THEOREM PurchasesAlwaysAgree ==
    ASSUME NEW l \in Clerks, LeadsAlone(l) PROVE Spec => []PurchasesAgree
<1>1. Init => Told(l)
  BY InitTold
<1>2. Told(l) /\ [Next]_vars => Told(l)'
  BY ToldStep
<1>3. Told(l) => PurchasesAgree
  BY ToldAgrees
<1> QED
  BY <1>1, <1>2, <1>3, PTL DEF Spec

-----------------------------------------------------------------------------
(* Stock postings.                                                         *)
(* Before it starts a transaction has done nothing. *)
Fresh(t) == /\ \A c \in Cells : draft[t][c] = Unwritten /\ delta[t][c] = 0
            /\ removed[t] = {} /\ entered[t] = {}

(* What t has written rests on a row it holds and on its own movements. *)
Drafted(t, c) ==
    /\ draft[t][c] = Unwritten => delta[t][c] = 0
    /\ draft[t][c] # Unwritten => /\ holder[c] = t
                                  /\ draft[t][c] = balance[c] + delta[t][c]
                                  /\ draft[t][c] >= 0

TxInv(t) ==
    /\ pc[t] = "idle" => Fresh(t)
    /\ Running(t) => \A c \in Cells : Drafted(t, c)
    /\ \A c \in Cells : holder[c] = t => Running(t)
    /\ pc[t] = "apply" => /\ holder[at[t]] = t
                          /\ seen[t] = Current(t, at[t])
    /\ pc[t] \in {"create", "relock", "apply"} => undo[t] # {} \/ lines[t] # <<>>

(* An OUT row enters the table with the commit of the transaction it names *)
(* and leaves it with the commit of one that holds its balance row.        *)
Settled(m) == m.by = Before \/ (m.by \in Txs /\ pc[m.by] = "committed")

RowInv(t) ==
    /\ Running(t) => /\ \A m \in removed[t] : m \in outs /\ holder[m.cell] = t
                     /\ \A m \in entered[t] : m.by = t
    /\ pc[t] = "committed" => \A m \in removed[t] : Settled(m) /\ m \notin outs

IInv == /\ PostingTypeOK
        /\ BalanceIsLedger
        /\ NeverNegative
        /\ \A t \in Txs : TxInv(t)
        /\ \A m \in outs : Settled(m)
        /\ \A t \in Txs : RowInv(t)
        /\ GivenBackOnce

(* What a step of t leaves alone. *)
Others(t) ==
    /\ \A u \in Txs \ {t} :
           /\ pc'[u] = pc[u] /\ at'[u] = at[u] /\ undo'[u] = undo[u]
           /\ lines'[u] = lines[u] /\ seen'[u] = seen[u] /\ draft'[u] = draft[u]
           /\ delta'[u] = delta[u] /\ removed'[u] = removed[u]
           /\ entered'[u] = entered[u]
           /\ \A c \in Cells : /\ holder'[c] = u <=> holder[c] = u
                               /\ holder[c] = u => balance'[c] = balance[c]
-----------------------------------------------------------------------------
(* Types. *)

LEMMA RollbackType ==
    ASSUME PostingTypeOK, NEW t \in Txs, Rollback(t) PROVE PostingTypeOK'
  BY PostingAssumption DEF PostingTypeOK, Rollback, Proceed, db, PostingAssumption

(* A line that is applied exists, and its OUT row is well formed. *)
LEMMA HeadLine ==
    ASSUME PostingTypeOK, NEW t \in Txs, lines[t] # <<>>
    PROVE  /\ Head(lines[t]) \in Line
           /\ Tail(lines[t]) \in Seq(Line)
           /\ \A c \in Cells : Head(lines[t]).doc # NoDoc =>
                  [doc |-> Head(lines[t]).doc, cell |-> c,
                   qty |-> -Head(lines[t]).qty, by |-> t] \in OutRow
  <1>1. lines[t] \in Seq(Line)
    BY DEF PostingTypeOK
  <1>2. Head(lines[t]) \in Line /\ Tail(lines[t]) \in Seq(Line)
    BY <1>1, HeadTailProperties
  <1> QED
    BY <1>2 DEF Line, OutRow

LEMMA ApplyType ==
    ASSUME PostingTypeOK, NEW t \in Txs, TxInv(t), NEW c \in Cells, ApplyLine(t, c)
    PROVE  PostingTypeOK'
  <1> DEFINE l == Head(lines[t])
  <1>1. lines[t] # <<>>
    BY DEF ApplyLine, At, TxInv
  <1>2. /\ l \in Line
        /\ Tail(lines[t]) \in Seq(Line)
        /\ l.doc # NoDoc => [doc |-> l.doc, cell |-> c, qty |-> -l.qty, by |-> t] \in OutRow
    BY <1>1, HeadLine
  <1>3. CASE Rollback(t)
    BY <1>3, RollbackType
  <1>4. CASE ~Rollback(t)
    <2>1. /\ Write(t, c, l.qty)
          /\ lines' = [lines EXCEPT ![t] = Tail(@)]
          /\ entered' = IF l.doc = NoDoc THEN entered
                        ELSE [entered EXCEPT ![t] = @ \cup
                             {[doc |-> l.doc, cell |-> c, qty |-> -l.qty, by |-> t]}]
          /\ Proceed(t, "item")
          /\ UNCHANGED <<db, holder, seen, undo, made, removed>>
      BY <1>4 DEF ApplyLine
    <2>2. l.qty \in Int
      BY <1>2 DEF Line
    <2> HIDE DEF l
    <2>3. /\ draft' \in [Txs -> [Cells -> Int \cup {Unwritten}]]
          /\ delta' \in [Txs -> [Cells -> Int]]
      BY <2>1, <2>2 DEF Write, PostingTypeOK
    <2>4. entered' \in [Txs -> SUBSET OutRow]
      <3>1. CASE l.doc = NoDoc
        BY <2>1, <3>1 DEF PostingTypeOK
      <3>2. CASE l.doc # NoDoc
        BY <2>1, <3>2, <1>2 DEF PostingTypeOK
      <3> QED
        BY <3>1, <3>2
    <2>5. lines' \in [Txs -> Seq(Line)]
      BY <2>1, <1>2 DEF PostingTypeOK
    <2> QED
      BY <2>1, <2>3, <2>4, <2>5 DEF Proceed, db, PostingTypeOK
  <1> QED
    BY <1>3, <1>4

LEMMA GiveBackType ==
    ASSUME PostingTypeOK, NEW t \in Txs, NEW c \in Cells, GiveBack(t, c) PROVE PostingTypeOK'
  <1>1. CASE Rollback(t)
    BY <1>1, RollbackType
  <1>2. CASE ~Rollback(t)
    <2>1. PICK m \in undo[t] :
              /\ m \in outs
              /\ Write(t, c, m.qty)
              /\ undo' = [undo EXCEPT ![t] = @ \ {m}]
              /\ removed' = [removed EXCEPT ![t] = @ \cup {m}]
              /\ Proceed(t, "item")
              /\ UNCHANGED <<db, holder, seen, lines, made, entered>>
      BY <1>2 DEF GiveBack
    <2>2. m \in OutRow /\ m.qty \in Int
      BY <2>1 DEF PostingTypeOK, OutRow
    <2>3. /\ draft' \in [Txs -> [Cells -> Int \cup {Unwritten}]]
          /\ delta' \in [Txs -> [Cells -> Int]]
      BY <2>1, <2>2 DEF Write, PostingTypeOK
    <2>4. undo' \in [Txs -> SUBSET OutRow] /\ removed' \in [Txs -> SUBSET OutRow]
      BY <2>1, <2>2 DEF PostingTypeOK
    <2> QED
      BY <2>1, <2>3, <2>4 DEF Proceed, db, PostingTypeOK
  <1> QED
    BY <1>1, <1>2

LEMMA CommitType ==
    ASSUME PostingTypeOK, NEW t \in Txs, TxInv(t), Commit(t) PROVE PostingTypeOK'
  <1>1. \A c \in Cells : Current(t, c) \in Int
    BY DEF Current, PostingTypeOK
  <1> QED
    BY <1>1 DEF Commit, Proceed, local, PostingTypeOK

LEMMA StepType == IInv /\ [PostingNext]_postingVars => PostingTypeOK'
  <1> SUFFICES ASSUME IInv, [PostingNext]_postingVars PROVE PostingTypeOK'
    OBVIOUS
  <1>0. PostingTypeOK /\ \A t \in Txs : TxInv(t)
    BY DEF IInv
  <1>1. ASSUME NEW t \in Txs, Begin(t) PROVE PostingTypeOK'
    BY <1>0, <1>1, PostingAssumption DEF Begin, Proceed, db, PostingTypeOK, PostingAssumption
  <1>2. ASSUME NEW t \in Txs, NEW c \in Cells, LockRow(t, c) PROVE PostingTypeOK'
    <2>1. Current(t, c) \in Int
      BY <1>0 DEF Current, PostingTypeOK
    <2> QED
      BY <1>0, <1>2, <2>1 DEF LockRow, TakeLock, GotoAt, db, local, PostingTypeOK
  <1>3. ASSUME NEW t \in Txs, NEW c \in Cells, LockMisses(t, c) PROVE PostingTypeOK'
    BY <1>0, <1>3 DEF LockMisses, GotoAt, db, local, PostingTypeOK
  <1>4. ASSUME NEW t \in Txs, NEW c \in Cells, CreateRow(t, c) PROVE PostingTypeOK'
    <2>1. CASE c \in rows
      BY <1>0, <1>4, <2>1 DEF CreateRow, GotoAt, db, PostingTypeOK
    <2>2. CASE c \notin rows
      <3>1. /\ holder' = [holder EXCEPT ![c] = t]
            /\ made' = [made EXCEPT ![t] = @ \cup {c}]
            /\ GotoAt(t, "relock", c)
            /\ UNCHANGED <<db, seen, undo, lines, draft, delta, removed, entered>>
        BY <1>4, <2>2 DEF CreateRow, TakeLock
      <3> QED
        BY <1>0, <3>1 DEF GotoAt, db, PostingTypeOK
    <2> QED
      BY <2>1, <2>2
  <1>5. ASSUME NEW t \in Txs, NEW c \in Cells, ApplyLine(t, c) PROVE PostingTypeOK'
    BY <1>0, <1>5, ApplyType
  <1>6. ASSUME NEW t \in Txs, NEW c \in Cells, GiveBack(t, c) PROVE PostingTypeOK'
    BY <1>0, <1>6, GiveBackType
  <1>7. ASSUME NEW t \in Txs, Commit(t) PROVE PostingTypeOK'
    BY <1>0, <1>7, CommitType
  <1>8. ASSUME NEW t \in Txs, Rollback(t) PROVE PostingTypeOK'
    BY <1>0, <1>8, RollbackType
  <1>9. CASE UNCHANGED postingVars
    BY <1>0, <1>9 DEF postingVars, db, local, PostingTypeOK
  <1> QED
    BY <1>1, <1>2, <1>3, <1>4, <1>5, <1>6, <1>7, <1>8, <1>9
    DEF PostingNext, PostingStep, LockFails, Break
-----------------------------------------------------------------------------
(* The other transactions. *)

(* A rollback gives back only the locks of its own transaction. *)
LEMMA RollbackOthers ==
    ASSUME PostingTypeOK, NEW t \in Txs, Rollback(t) PROVE Others(t)
  <1>1. ASSUME NEW u \in Txs \ {t}, NEW c \in Cells
        PROVE  holder'[c] = u <=> holder[c] = u
    BY PostingAssumption DEF Rollback, PostingAssumption
  <1>2. UNCHANGED balance
    BY DEF Rollback, db
  <1>3. ASSUME NEW u \in Txs \ {t}
        PROVE  /\ pc'[u] = pc[u] /\ at'[u] = at[u] /\ undo'[u] = undo[u]
               /\ lines'[u] = lines[u] /\ seen'[u] = seen[u] /\ draft'[u] = draft[u]
               /\ delta'[u] = delta[u] /\ removed'[u] = removed[u]
               /\ entered'[u] = entered[u]
    BY DEF Rollback, Proceed, PostingTypeOK
  <1> QED
    BY <1>1, <1>2, <1>3 DEF Others

LEMMA StepOthers ==
    ASSUME PostingTypeOK, \A u \in Txs : TxInv(u), NEW t \in Txs, PostingStep(t) \/ Break(t)
    PROVE  Others(t)
  <1>1. CASE Begin(t)
    BY <1>1 DEF Begin, Proceed, db, Others, PostingTypeOK
  <1>2. ASSUME NEW c \in Cells, LockRow(t, c) PROVE Others(t)
    BY <1>2, PostingAssumption
    DEF LockRow, TakeLock, GotoAt, db, local, Others, PostingTypeOK, PostingAssumption
  <1>3. ASSUME NEW c \in Cells, LockMisses(t, c) PROVE Others(t)
    BY <1>3 DEF LockMisses, GotoAt, db, local, Others, PostingTypeOK
  <1>4. ASSUME NEW c \in Cells, CreateRow(t, c) PROVE Others(t)
    <2>1. CASE UNCHANGED holder
      BY <1>4, <2>1 DEF CreateRow, GotoAt, db, Others, PostingTypeOK
    <2>2. CASE TakeLock(t, c)
      BY <1>4, <2>2, PostingAssumption
      DEF CreateRow, TakeLock, GotoAt, db, Others, PostingTypeOK, PostingAssumption
    <2> QED
      BY <1>4, <2>1, <2>2 DEF CreateRow
  <1>5. ASSUME NEW c \in Cells, ApplyLine(t, c) PROVE Others(t)
    <2>1. CASE Rollback(t)
      BY <2>1, RollbackOthers
    <2>2. CASE ~Rollback(t)
      BY <1>5, <2>2, ZenonT(60) DEF ApplyLine, Write, Proceed, db, Others, PostingTypeOK
    <2> QED
      BY <2>1, <2>2
  <1>6. ASSUME NEW c \in Cells, GiveBack(t, c) PROVE Others(t)
    <2>1. CASE Rollback(t)
      BY <2>1, RollbackOthers
    <2>2. CASE ~Rollback(t)
      BY <1>6, <2>2 DEF GiveBack, Write, Proceed, db, Others, PostingTypeOK
    <2> QED
      BY <2>1, <2>2
  <1>7. CASE Commit(t)
    <2>1. ASSUME NEW u \in Txs \ {t}, NEW c \in Cells
          PROVE  /\ holder'[c] = u <=> holder[c] = u
                 /\ holder[c] = u => balance'[c] = balance[c]
      <3>1. holder[c] = u => Current(t, c) = balance[c]
        BY <1>7 DEF Commit, Running, TxInv, Drafted, Current
      <3>2. balance'[c] = Current(t, c)
        BY <1>7 DEF Commit
      <3>3. holder'[c] = u <=> holder[c] = u
        BY <1>7, PostingAssumption DEF Commit, PostingAssumption
      <3> QED
        BY <3>1, <3>2, <3>3
    <2> QED
      BY <1>7, <2>1 DEF Commit, Proceed, local, Others, PostingTypeOK
  <1>8. ASSUME NEW c \in Cells, LockFails(t, c) PROVE Others(t)
    BY <1>8, RollbackOthers DEF LockFails
  <1>9. CASE Break(t)
    BY <1>9, RollbackOthers DEF Break
  <1> QED
    BY <1>1, <1>2, <1>3, <1>4, <1>5, <1>6, <1>7, <1>8, <1>9 DEF PostingStep

(* A step of t does not disturb what holds of u. *)
LEMMA OthersKeep ==
    ASSUME PostingTypeOK, NEW t \in Txs, Others(t), NEW u \in Txs \ {t}, TxInv(u)
    PROVE  TxInv(u)'
  <1>1. /\ pc'[u] = pc[u] /\ at'[u] = at[u] /\ undo'[u] = undo[u]
        /\ lines'[u] = lines[u] /\ seen'[u] = seen[u] /\ draft'[u] = draft[u]
        /\ delta'[u] = delta[u] /\ removed'[u] = removed[u]
        /\ entered'[u] = entered[u]
    BY DEF Others
  <1>2. \A c \in Cells : /\ holder'[c] = u <=> holder[c] = u
                         /\ holder[c] = u => balance'[c] = balance[c]
    BY DEF Others
  <1>3. Running(u)' <=> Running(u)
    BY <1>1 DEF Running
  <1>4. at[u] \in Cells
    BY DEF PostingTypeOK
  <1>5. Fresh(u)' <=> Fresh(u)
    BY <1>1 DEF Fresh
  <1>6. \A c \in Cells : Drafted(u, c) => Drafted(u, c)'
    BY <1>1, <1>2 DEF Drafted
  <1> QED
    BY <1>1, <1>2, <1>3, <1>4, <1>5, <1>6 DEF TxInv, Current
-----------------------------------------------------------------------------
(* The transaction that takes the step. *)

LEMMA RollbackOwn ==
    ASSUME PostingTypeOK, NEW t \in Txs, Rollback(t) PROVE TxInv(t)'
  <1>1. pc'[t] = "failed"
    BY DEF Rollback, Proceed, PostingTypeOK
  <1>2. \A c \in Cells : holder'[c] # t
    BY PostingAssumption DEF Rollback, PostingAssumption
  <1> QED
    BY <1>1, <1>2 DEF TxInv, Running

(* A write adds the same quantity to the draft and to the movements. *)
LEMMA WriteDrafts ==
    ASSUME PostingTypeOK, NEW t \in Txs, NEW c \in Cells, NEW q \in Int,
           \A d \in Cells : Drafted(t, d), holder[c] = t, seen[t] = Current(t, c),
           seen[t] + q >= 0, Write(t, c, q), UNCHANGED <<balance, holder>>,
           NEW d \in Cells
    PROVE  Drafted(t, d)'
  <1>1. /\ draft'[t] = [draft[t] EXCEPT ![c] = seen[t] + q]
        /\ delta'[t] = [delta[t] EXCEPT ![c] = delta[t][c] + q]
    BY DEF Write, PostingTypeOK
  <1>2. CASE d # c
    <2>1. draft'[t][d] = draft[t][d] /\ delta'[t][d] = delta[t][d]
      BY <1>1, <1>2 DEF PostingTypeOK
    <2> QED
      BY <2>1 DEF Drafted
  <1>3. CASE d = c
    <2>1. draft'[t][c] = seen[t] + q /\ delta'[t][c] = delta[t][c] + q
      BY <1>1 DEF PostingTypeOK
    <2>2. /\ seen[t] \in Int /\ delta[t][c] \in Int /\ balance[c] \in Int
          /\ seen[t] = balance[c] + delta[t][c]
      BY DEF Drafted, Current, PostingTypeOK
    <2>3. seen[t] + q # Unwritten
      BY <2>2, PostingAssumption DEF PostingAssumption
    <2> QED
      BY <1>3, <2>1, <2>2, <2>3 DEF Drafted
  <1> QED
    BY <1>2, <1>3

LEMMA ApplyOwn ==
    ASSUME PostingTypeOK, NEW t \in Txs, TxInv(t), NEW c \in Cells, ApplyLine(t, c)
    PROVE  TxInv(t)'
  <1> DEFINE q == Head(lines[t]).qty
  <1>1. CASE Rollback(t)
    BY <1>1, RollbackOwn
  <1>2. CASE ~Rollback(t)
    <2>1. /\ pc[t] = "apply" /\ at[t] = c /\ holder[c] = t /\ seen[t] = Current(t, c)
          /\ lines[t] # <<>>
      BY DEF ApplyLine, At, TxInv
    <2>2. q \in Int
      BY <2>1, HeadLine DEF Line
    <2>3. /\ seen[t] + q >= 0 /\ Write(t, c, q) /\ Proceed(t, "item")
          /\ UNCHANGED <<balance, holder>>
      BY <1>2 DEF ApplyLine, db
    <2> HIDE DEF q
    <2>4. ASSUME NEW d \in Cells PROVE Drafted(t, d)'
      BY <2>1, <2>2, <2>3, WriteDrafts DEF TxInv, Running
    <2>5. pc'[t] = "item"
      BY <2>3 DEF Proceed, PostingTypeOK
    <2> QED
      BY <2>4, <2>5 DEF TxInv, Running
  <1> QED
    BY <1>1, <1>2

LEMMA GiveBackOwn ==
    ASSUME PostingTypeOK, NeverNegative, NEW t \in Txs, TxInv(t), NEW c \in Cells, GiveBack(t, c)
    PROVE  TxInv(t)'
  <1>1. CASE Rollback(t)
    BY <1>1, RollbackOwn
  <1>2. CASE ~Rollback(t)
    <2>1. /\ pc[t] = "apply" /\ at[t] = c /\ holder[c] = t /\ seen[t] = Current(t, c)
      BY DEF GiveBack, At, TxInv
    <2>2. PICK m \in undo[t] : /\ Write(t, c, m.qty) /\ Proceed(t, "item")
                               /\ UNCHANGED <<balance, holder>>
      BY <1>2 DEF GiveBack, db
    <2>3. m.qty \in Nat
      BY DEF PostingTypeOK, OutRow
    <2>4. m.qty \in Int /\ seen[t] + m.qty >= 0
      BY <2>1, <2>3 DEF TxInv, Drafted, Running, Current, NeverNegative, PostingTypeOK
    <2>5. ASSUME NEW d \in Cells PROVE Drafted(t, d)'
      BY <2>1, <2>2, <2>4, WriteDrafts DEF TxInv, Running
    <2>6. pc'[t] = "item"
      BY <2>2 DEF Proceed, PostingTypeOK
    <2> QED
      BY <2>5, <2>6 DEF TxInv, Running
  <1> QED
    BY <1>1, <1>2

LEMMA StepOwn ==
    ASSUME PostingTypeOK, NeverNegative, NEW t \in Txs, TxInv(t), PostingStep(t) \/ Break(t)
    PROVE  TxInv(t)'
  <1>1. CASE Begin(t)
    <2>1. pc[t] = "idle" /\ pc'[t] = "item" /\ UNCHANGED <<balance, holder, draft, delta>>
      BY <1>1 DEF Begin, Proceed, db, PostingTypeOK
    <2> QED
      BY <2>1 DEF TxInv, Running, Fresh, Drafted
  <1>2. ASSUME NEW c \in Cells, LockRow(t, c) PROVE TxInv(t)'
    <2>1. /\ pc[t] \in {"item", "relock"} /\ pc'[t] = "apply" /\ at'[t] = c
          /\ holder' = [holder EXCEPT ![c] = t] /\ seen'[t] = Current(t, c)
          /\ UNCHANGED <<balance, undo, lines, draft, delta>>
          /\ undo[t] # {} \/ lines[t] # <<>>
      BY <1>2 DEF LockRow, Wants, At, TakeLock, GotoAt, db, local, PostingTypeOK, TxInv
    <2> QED
      BY <2>1 DEF TxInv, Running, Drafted, Current, PostingTypeOK
  <1>3. ASSUME NEW c \in Cells, LockMisses(t, c) PROVE TxInv(t)'
    <2>1. /\ pc[t] = "item" /\ pc'[t] = "create"
          /\ UNCHANGED <<balance, holder, undo, lines, draft, delta>>
          /\ undo[t] # {} \/ lines[t] # <<>>
      BY <1>3 DEF LockMisses, Wants, GotoAt, db, local, PostingTypeOK
    <2> QED
      BY <2>1 DEF TxInv, Running, Drafted
  <1>4. ASSUME NEW c \in Cells, CreateRow(t, c) PROVE TxInv(t)'
    <2>1. /\ pc[t] = "create" /\ pc'[t] = "relock"
          /\ UNCHANGED <<balance, undo, lines, draft, delta>>
          /\ UNCHANGED holder \/ holder' = [holder EXCEPT ![c] = t]
      BY <1>4 DEF CreateRow, At, TakeLock, GotoAt, db, PostingTypeOK
    <2>2. \A d \in Cells : holder[d] = t => holder'[d] = t
      BY <2>1 DEF PostingTypeOK
    <2> QED
      BY <2>1, <2>2 DEF TxInv, Running, Drafted
  <1>5. ASSUME NEW c \in Cells, ApplyLine(t, c) PROVE TxInv(t)'
    BY <1>5, ApplyOwn
  <1>6. ASSUME NEW c \in Cells, GiveBack(t, c) PROVE TxInv(t)'
    BY <1>6, GiveBackOwn
  <1>7. CASE Commit(t)
    <2>1. pc'[t] = "committed" /\ \A c \in Cells : holder'[c] # t
      BY <1>7, PostingAssumption DEF Commit, Proceed, PostingTypeOK, PostingAssumption
    <2> QED
      BY <2>1 DEF TxInv, Running
  <1>8. ASSUME NEW c \in Cells, LockFails(t, c) PROVE TxInv(t)'
    BY <1>8, RollbackOwn DEF LockFails
  <1>9. CASE Break(t)
    BY <1>9, RollbackOwn DEF Break
  <1> QED
    BY <1>1, <1>2, <1>3, <1>4, <1>5, <1>6, <1>7, <1>8, <1>9 DEF PostingStep
-----------------------------------------------------------------------------
(* The tables. *)

(* Balances and movements change together, and only at a commit. *)
LEMMA StepBalances ==
    ASSUME IInv, NEW t \in Txs, PostingStep(t) \/ Break(t)
    PROVE  BalanceIsLedger' /\ NeverNegative'
  <1>1. CASE Commit(t)
    <2>1. ASSUME NEW c \in Cells
          PROVE  Current(t, c) = ledger[c] + delta[t][c] /\ Current(t, c) >= 0
      <3>1. Drafted(t, c)
        BY <1>1 DEF Commit, IInv, TxInv, Running
      <3> QED
        BY <3>1 DEF IInv, Drafted, Current, BalanceIsLedger, NeverNegative, PostingTypeOK
    <2> QED
      BY <1>1, <2>1 DEF Commit, BalanceIsLedger, NeverNegative
  <1>2. CASE ~Commit(t)
    <2>1. UNCHANGED <<balance, ledger>>
      BY <1>2 DEF PostingStep, Break, Begin, LockRow, LockMisses, CreateRow, ApplyLine, GiveBack,
                  LockFails, Rollback, db
    <2> QED
      BY <2>1 DEF IInv, BalanceIsLedger, NeverNegative
  <1> QED
    BY <1>1, <1>2

(* A running transaction deletes rows that are there, and inserts its own. *)
LEMMA OwnRows ==
    ASSUME IInv, NEW t \in Txs, (PostingStep(t) \/ Break(t)) /\ ~Commit(t)
    PROVE  /\ pc[t] # "committed" /\ pc'[t] # "committed"
           /\ UNCHANGED outs
           /\ RowInv(t)'
  <1> USE DEF IInv
  <1>1. CASE Rollback(t)
    <2>1. pc'[t] = "failed" /\ UNCHANGED outs
      BY <1>1 DEF Rollback, Proceed, db, PostingTypeOK
    <2>2. pc[t] # "committed"
      BY DEF PostingStep, Break, Begin, LockRow, LockMisses, CreateRow, ApplyLine, GiveBack,
             LockFails, Running, Wants, At
    <2> QED
      BY <2>1, <2>2 DEF RowInv, Running
  <1>2. CASE Begin(t)
    BY <1>2 DEF Begin, Proceed, db, PostingTypeOK, RowInv, TxInv, Fresh
  <1>3. ASSUME NEW c \in Cells, LockRow(t, c) \/ LockMisses(t, c) \/ CreateRow(t, c)
        PROVE  /\ pc[t] # "committed" /\ pc'[t] # "committed" /\ UNCHANGED outs
               /\ RowInv(t)'
    <2>1. /\ Running(t) /\ pc'[t] # "committed"
          /\ UNCHANGED <<outs, removed, entered>>
          /\ UNCHANGED holder \/ holder' = [holder EXCEPT ![c] = t]
      BY <1>3 DEF LockRow, LockMisses, CreateRow, Wants, At, TakeLock, GotoAt, db, local,
                  Running, PostingTypeOK
    <2>2. \A d \in Cells : holder[d] = t => holder'[d] = t
      BY <2>1 DEF PostingTypeOK
    <2>3. \A m \in removed[t] : m.cell \in Cells
      BY DEF PostingTypeOK, OutRow
    <2> QED
      BY <2>1, <2>2, <2>3 DEF RowInv, Running
  <1>4. ASSUME NEW c \in Cells, ApplyLine(t, c), ~Rollback(t)
        PROVE  /\ pc[t] # "committed" /\ pc'[t] # "committed" /\ UNCHANGED outs
               /\ RowInv(t)'
    <2>1. /\ pc[t] = "apply" /\ pc'[t] = "item" /\ UNCHANGED <<outs, holder, removed>>
      BY <1>4 DEF ApplyLine, At, Proceed, db, PostingTypeOK
    <2>2. \A m \in entered'[t] : m \in entered[t] \/ m.by = t
      BY <1>4 DEF ApplyLine, PostingTypeOK
    <2> QED
      BY <2>1, <2>2 DEF RowInv, Running
  <1>5. ASSUME NEW c \in Cells, GiveBack(t, c), ~Rollback(t)
        PROVE  /\ pc[t] # "committed" /\ pc'[t] # "committed" /\ UNCHANGED outs
               /\ RowInv(t)'
    <2>1. /\ pc[t] = "apply" /\ pc'[t] = "item" /\ UNCHANGED <<outs, holder, entered>>
          /\ holder[c] = t
      BY <1>5 DEF GiveBack, At, Proceed, db, PostingTypeOK, TxInv
    <2>2. \A m \in removed'[t] : m \in removed[t] \/ (m \in outs /\ m.cell = c)
      BY <1>5 DEF GiveBack, PostingTypeOK
    <2> QED
      BY <2>1, <2>2 DEF RowInv, Running
  <1> QED
    BY <1>1, <1>2, <1>3, <1>4, <1>5 DEF PostingStep, LockFails, Break

(* No two transactions delete one row, and none comes back. *)
LEMMA StepRows ==
    ASSUME IInv, NEW t \in Txs, PostingStep(t) \/ Break(t)
    PROVE  /\ \A m \in outs' : Settled(m)'
           /\ \A u \in Txs : RowInv(u)'
           /\ GivenBackOnce'
  <1> USE DEF IInv
  <1>1. Others(t)
    BY StepOthers
  <1>2. pc[t] # "committed"
    BY OwnRows DEF Commit
  <1>3. \A m : Settled(m) => Settled(m)'
    BY <1>1, <1>2 DEF Others, Settled
  <1>4. \A u \in Txs \ {t} : \A m \in removed[u] :
            m.cell \in Cells /\ (holder[m.cell] = u => holder'[m.cell] = u)
    BY <1>1, SMTT(30) DEF Others, PostingTypeOK, OutRow
  <1>5. \A u \in Txs \ {t} : /\ removed'[u] = removed[u] /\ entered'[u] = entered[u]
                             /\ pc'[u] = pc[u] /\ (Running(u)' <=> Running(u))
    BY <1>1 DEF Others, Running
  <1>6. CASE ~Commit(t)
    <2>1. pc'[t] # "committed" /\ UNCHANGED outs /\ RowInv(t)'
      BY <1>6, OwnRows
    <2>2. \A u \in Txs \ {t} : RowInv(u)'
      BY <1>3, <1>4, <1>5, <2>1 DEF RowInv
    <2>3. GivenBackOnce'
      BY <1>5, <2>1 DEF GivenBackOnce
    <2> QED
      BY <1>3, <2>1, <2>2, <2>3
  <1>7. CASE Commit(t)
    <2>1. /\ pc[t] = "item" /\ pc'[t] = "committed" /\ removed'[t] = removed[t]
          /\ outs' = (outs \ removed[t]) \cup entered[t]
      BY <1>7 DEF Commit, Proceed, local, PostingTypeOK
    <2>2. /\ \A m \in removed[t] : m \in outs /\ holder[m.cell] = t
          /\ \A m \in entered[t] : m.by = t
      BY <2>1 DEF RowInv, Running
    <2>3. \A m : Settled(m) => m.by # t
      BY <1>2, PostingAssumption DEF Settled, PostingAssumption
    <2>4. \A m \in outs' : Settled(m)'
      BY <1>3, <2>1, <2>2 DEF Settled
    <2>5. RowInv(t)'
      BY <1>3, <2>1, <2>2, <2>3 DEF RowInv, Running
    <2>6. ASSUME NEW u \in Txs \ {t} PROVE RowInv(u)'
      BY <1>3, <1>4, <1>5, <2>1, <2>2, <2>3 DEF RowInv
    <2>7. GivenBackOnce'
      BY <1>5, <2>1, <2>2 DEF GivenBackOnce, RowInv
    <2> QED
      BY <2>4, <2>5, <2>6, <2>7
  <1> QED
    BY <1>6, <1>7
-----------------------------------------------------------------------------
(* A warehouse at rest satisfies the invariant. *)
LEMMA InitIInv == PostingInit => IInv
  <1> SUFFICES ASSUME PostingInit PROVE IInv
    OBVIOUS
  <1>1. PostingTypeOK
    BY PostingAssumption DEF PostingInit, PostingTypeOK, PostingAssumption
  <1>2. BalanceIsLedger /\ NeverNegative /\ GivenBackOnce
    BY PostingAssumption
    DEF PostingInit, BalanceIsLedger, NeverNegative, GivenBackOnce, PostingAssumption
  <1>3. \A t \in Txs : TxInv(t)
    BY PostingAssumption DEF PostingInit, TxInv, Fresh, Running, PostingAssumption
  <1>4. /\ \A m \in outs : Settled(m)
        /\ \A t \in Txs : RowInv(t)
    BY PostingAssumption DEF PostingInit, Settled, RowInv, Running, PostingAssumption
  <1> QED
    BY <1>1, <1>2, <1>3, <1>4 DEF IInv

(* Every query of a transaction keeps the invariant. *)
LEMMA StepIInv == IInv /\ [PostingNext]_postingVars => IInv'
  <1> SUFFICES ASSUME IInv, [PostingNext]_postingVars PROVE IInv'
    OBVIOUS
  <1>1. PostingTypeOK'
    BY StepType
  <1>2. ASSUME NEW t \in Txs, PostingStep(t) \/ Break(t) PROVE IInv'
    <2>1. \A u \in Txs : TxInv(u)'
      BY <1>2, StepOwn, StepOthers, OthersKeep DEF IInv
    <2> QED
      BY <1>1, <1>2, <2>1, StepBalances, StepRows DEF IInv
  <1>3. CASE UNCHANGED postingVars
    BY <1>1, <1>3
    DEF postingVars, db, local, IInv, BalanceIsLedger, NeverNegative, TxInv, Fresh, Drafted,
        Running, Current, Settled, RowInv, GivenBackOnce
  <1> QED
    BY <1>2, <1>3 DEF PostingNext

(* The invariant holds throughout. *)
LEMMA Invariance == PostingSpec => []IInv
  BY InitIInv, StepIInv, PTL DEF PostingSpec
-----------------------------------------------------------------------------
(* No update of a balance is lost, no interleaving overdraws a location,   *)
(* and two reversals of one document cannot both restore an OUT row:       *)
(* stock-lock.helper's row lock and the delete of delivery-runs l.1034     *)
(* suffice for any number of concurrent postings.                          *)
THEOREM PostingsAreSound == PostingSpec => []PostingsSound
  BY Invariance, PTL DEF IInv, PostingsSound
-----------------------------------------------------------------------------
(* The postings implement StockLedger: what a running transaction has done *)
(* so far is the first k lines of one of the plans, and the return of the  *)
(* rows it has deleted.                                                    *)

Effect(ls, k, c) == SumFunction([i \in 1..k |-> IF ls[i].cell = c THEN ls[i].qty ELSE 0])
Returned(rs, c) == SumFunction([m \in {x \in rs : x.cell = c} |-> m.qty])
OutRowOf(t, l) == [doc |-> l.doc, cell |-> l.cell, qty |-> -l.qty, by |-> t]
OutsOf(t, ls, k) == {OutRowOf(t, ls[i]) : i \in {j \in 1..k : ls[j].doc # NoDoc}}

(* The lines that are left are those after the first k. *)
Left(s, ls, k) == /\ k \in Nat /\ Len(ls) = k + Len(s)
                  /\ \A i \in 1..Len(s) : s[i] = ls[k + i]

Did(t, p, k) ==
    /\ p \in Plans
    /\ Left(lines[t], p.lines, k)
    /\ IsFiniteSet(removed[t]) /\ removed[t] \cap undo[t] = {}
    /\ \A m \in removed[t] \cup undo[t] : m.doc = p.undo
    /\ \A c \in Cells : delta[t][c] = Effect(p.lines, k, c) + Returned(removed[t], c)
    /\ entered[t] = OutsOf(t, p.lines, k)

(* It stands at the cell of a row it gives back or of its next line.       *)
AtItem(t) == pc[t] \in {"create", "relock", "apply"} =>
    \/ \E m \in undo[t] : m.cell = at[t]
    \/ undo[t] = {} /\ lines[t] # <<>> /\ Head(lines[t]).cell = at[t]

Origin(t) == AtItem(t) /\ (Running(t) => \E p, k : Did(t, p, k))

LEMMA PlanLines ==
    ASSUME NEW p \in Plans
    PROVE  /\ p.lines \in Seq(Line) /\ DOMAIN p.lines = 1..Len(p.lines) /\ Len(p.lines) \in Nat
           /\ \A i \in 1..Len(p.lines) : p.lines[i] \in Line /\ p.lines[i].qty \in Int
<1>1. p.lines \in Seq(Line)
  BY PostingAssumption DEF PostingAssumption
<1>2. /\ DOMAIN p.lines = 1..Len(p.lines) /\ Len(p.lines) \in Nat
      /\ \A i \in DOMAIN p.lines : p.lines[i] \in Line
  BY <1>1, SeqDomain
<1> QED
  BY <1>1, <1>2 DEF Line

(* One more line. *)
LEMMA EffectNext ==
    ASSUME NEW p \in Plans, NEW k \in Nat, k + 1 <= Len(p.lines), NEW c
    PROVE  /\ Effect(p.lines, k, c) \in Int
           /\ Effect(p.lines, k + 1, c) = Effect(p.lines, k, c)
                  + (IF p.lines[k + 1].cell = c THEN p.lines[k + 1].qty ELSE 0)
<1> DEFINE ls == p.lines
           f == [i \in 1..k |-> IF ls[i].cell = c THEN ls[i].qty ELSE 0]
           g == [i \in 1..(k + 1) |-> IF ls[i].cell = c THEN ls[i].qty ELSE 0]
<1>1. IsFiniteSet(1..k) /\ \A i \in 1..(k + 1) : ls[i].qty \in Int
  <2>1. IsFiniteSet(1..k)
    BY FS_Interval
  <2>2. Len(ls) \in Nat /\ \A i \in 1..Len(ls) : ls[i].qty \in Int
    BY PlanLines
  <2> HIDE DEF ls
  <2>3. k + 1 <= Len(ls)
    BY DEF ls
  <2> QED
    BY <2>1, <2>2, <2>3
<1>2. /\ IsFiniteSet(DOMAIN f) /\ k + 1 \notin DOMAIN f /\ DOMAIN g = DOMAIN f \cup {k + 1}
      /\ \A i \in DOMAIN f : g[i] = f[i] /\ f[i] \in Int
      /\ g[k + 1] \in Int /\ g[k + 1] = IF ls[k + 1].cell = c THEN ls[k + 1].qty ELSE 0
  BY <1>1
<1>3. Effect(ls, k, c) = SumFunction(f) /\ Effect(ls, k + 1, c) = SumFunction(g)
  BY DEF Effect
<1> HIDE DEF f, g, ls
<1>4. SumFunction(g) = SumFunction(f) + g[k + 1] /\ SumFunction(f) \in Int
  BY <1>2, TotalAdd
<1> QED
  BY <1>2, <1>3, <1>4 DEF ls

LEMMA EffectNone == ASSUME NEW ls, NEW c PROVE Effect(ls, 0, c) = 0
<1> DEFINE f == [i \in 1..0 |-> IF ls[i].cell = c THEN ls[i].qty ELSE 0]
<1>1. DOMAIN f = {}
  OBVIOUS
<1> HIDE DEF f
<1>2. SumFunction(f) = 0
  BY <1>1, TotalEmpty
<1> QED
  BY <1>2 DEF Effect, f

LEMMA ReturnedNone == ASSUME NEW c PROVE Returned({}, c) = 0
<1> DEFINE f == [m \in {x \in {} : x.cell = c} |-> m.qty]
<1>1. DOMAIN f = {}
  OBVIOUS
<1> HIDE DEF f
<1>2. SumFunction(f) = 0
  BY <1>1, TotalEmpty
<1> QED
  BY <1>2 DEF Returned, f

(* One more row given back. *)
LEMMA ReturnedNext ==
    ASSUME NEW rs \in SUBSET OutRow, IsFiniteSet(rs), NEW m \in OutRow, m \notin rs, NEW c
    PROVE  /\ Returned(rs, c) \in Int
           /\ Returned(rs \cup {m}, c) = Returned(rs, c) + (IF m.cell = c THEN m.qty ELSE 0)
<1> DEFINE S == {x \in rs : x.cell = c}
           T == {x \in rs \cup {m} : x.cell = c}
           f == [x \in S |-> x.qty]
           g == [x \in T |-> x.qty]
           b == m.cell = c
           v == m.qty
<1>1. IsFiniteSet(S) /\ m \notin S /\ b \in BOOLEAN
  BY FS_Subset
<1>2. v \in Int /\ \A x \in S : x.qty \in Int
  BY DEF OutRow
<1>3. T = IF b THEN S \cup {m} ELSE S
  OBVIOUS
<1>4. f = [x \in S |-> f[x]] /\ g = [x \in T |-> g[x]]
  OBVIOUS
<1>5. /\ \A x \in S : g[x] = f[x] /\ f[x] \in Int
      /\ b => g[m] = v
  BY <1>2
<1>6. Returned(rs, c) = SumFunction(f) /\ Returned(rs \cup {m}, c) = SumFunction(g)
  BY DEF Returned
<1> HIDE DEF S, T, f, g, b, v
<1>7. Joined(S, T, m, b, f, g, v)
  BY <1>1, <1>2, <1>3, <1>4, <1>5 DEF Joined
<1>8. SumFunction(g) = SumFunction(f) + (IF b THEN v ELSE 0) /\ SumFunction(f) \in Int
  BY <1>7, TotalJoined
<1> QED
  BY <1>6, <1>8 DEF b, v

LEMMA ReturnedInt ==
    ASSUME NEW rs \in SUBSET OutRow, IsFiniteSet(rs), NEW c PROVE Returned(rs, c) \in Int
<1> DEFINE f == [m \in {x \in rs : x.cell = c} |-> m.qty]
<1>1. IsFiniteSet(DOMAIN f) /\ \A x \in DOMAIN f : f[x] \in Int
  BY FS_Subset DEF OutRow
<1> HIDE DEF f
<1>2. SumFunction(f) \in Int
  BY <1>1, TotalInt
<1> QED
  BY <1>2 DEF Returned, f

LEMMA EffectInt ==
    ASSUME NEW p \in Plans, NEW s \in Seq(Line), NEW k, Left(s, p.lines, k), NEW c
    PROVE  Effect(p.lines, k, c) \in Int
<1> DEFINE ls == p.lines
           f == [i \in 1..k |-> IF ls[i].cell = c THEN ls[i].qty ELSE 0]
<1>1. k \in Nat /\ k <= Len(ls)
  BY PlanLines DEF Left
<1>2. IsFiniteSet(DOMAIN f) /\ \A i \in DOMAIN f : f[i] \in Int
  <2>1. IsFiniteSet(1..k)
    BY <1>1, FS_Interval
  <2>2. Len(ls) \in Nat /\ \A i \in 1..Len(ls) : ls[i].qty \in Int
    BY PlanLines
  <2>3. \A i \in 1..k : ls[i].qty \in Int
    <3> HIDE DEF ls
    <3> QED
      BY <1>1, <2>2
  <2> QED
    BY <2>1, <2>3
<1> HIDE DEF f
<1>3. SumFunction(f) \in Int
  BY <1>2, TotalInt
<1> QED
  BY <1>3 DEF Effect, f

LEMMA OutsNone == ASSUME NEW t, NEW ls PROVE OutsOf(t, ls, 0) = {}
BY DEF OutsOf

LEMMA OutsNext ==
    ASSUME NEW t, NEW ls, NEW k \in Nat
    PROVE  OutsOf(t, ls, k + 1) = IF ls[k + 1].doc = NoDoc THEN OutsOf(t, ls, k)
                                  ELSE OutsOf(t, ls, k) \cup {OutRowOf(t, ls[k + 1])}
<1>1. 1..(k + 1) = 1..k \cup {k + 1}
  OBVIOUS
<1> QED
  BY <1>1 DEF OutsOf

LEMMA LeftNext ==
    ASSUME NEW s \in Seq(Line), NEW ls, NEW k, Left(s, ls, k), s # <<>>
    PROVE  /\ Left(Tail(s), ls, k + 1) /\ Head(s) = ls[k + 1] /\ k + 1 <= Len(ls)
<1>1. Len(s) \in Nat \ {0}
  BY EmptySeq, LenProperties
<1>2. /\ Len(Tail(s)) = Len(s) - 1 /\ Head(s) = s[1]
      /\ \A i \in 1..Len(Tail(s)) : Tail(s)[i] = s[i + 1]
  BY <1>1, HeadTailProperties
<1> QED
  BY <1>1, <1>2 DEF Left

(* The transactions that take no step keep their origin. *)
LEMMA OthersOrigin ==
    ASSUME PostingTypeOK, NEW t \in Txs, Others(t), NEW u \in Txs \ {t}, Origin(u)
    PROVE  Origin(u)'
<1>1. /\ pc'[u] = pc[u] /\ at'[u] = at[u] /\ undo'[u] = undo[u] /\ lines'[u] = lines[u]
      /\ delta'[u] = delta[u] /\ removed'[u] = removed[u] /\ entered'[u] = entered[u]
  BY DEF Others
<1>2. Running(u)' <=> Running(u)
  BY <1>1 DEF Running
<1>3. \A p, k : Did(u, p, k) => Did(u, p, k)'
  BY <1>1 DEF Did
<1> QED
  BY <1>1, <1>2, <1>3 DEF Origin, AtItem

LEMMA BeginOrigin ==
    ASSUME IInv, NEW t \in Txs, Begin(t) PROVE Origin(t)'
<1>0. PostingTypeOK /\ TxInv(t)
  BY DEF IInv
<1>1. PICK p \in Plans : /\ undo' = [undo EXCEPT ![t] = {m \in outs : m.doc = p.undo}]
                         /\ lines' = [lines EXCEPT ![t] = p.lines]
  BY DEF Begin
<1>2. /\ undo'[t] = {m \in outs : m.doc = p.undo} /\ lines'[t] = p.lines
      /\ removed'[t] = {} /\ entered'[t] = {} /\ \A c \in Cells : delta'[t][c] = 0
  BY <1>0, <1>1 DEF Begin, PostingTypeOK, TxInv, Fresh
<1>3. Left(lines'[t], p.lines, 0)
  BY <1>2, PlanLines DEF Left
<1>4. \A c \in Cells : delta'[t][c] = Effect(p.lines, 0, c) + Returned({}, c)
  BY <1>2, EffectNone, ReturnedNone
<1>5. IsFiniteSet(removed'[t]) /\ removed'[t] \cap undo'[t] = {}
  BY <1>2, FS_EmptySet
<1>6. entered'[t] = OutsOf(t, p.lines, 0)
  BY <1>2, OutsNone
<1>7. \A m \in removed'[t] \cup undo'[t] : m.doc = p.undo
  BY <1>2
<1>8. Did(t, p, 0)'
  BY <1>2, <1>3, <1>4, <1>5, <1>6, <1>7 DEF Did
<1> QED
  <2>1. pc'[t] = "item"
    BY <1>0 DEF Begin, Proceed, PostingTypeOK
  <2> QED
    BY <1>8, <2>1 DEF Origin, AtItem

LEMMA ApplyOrigin ==
    ASSUME IInv, NEW t \in Txs, Origin(t), NEW c \in Cells, ApplyLine(t, c), ~Rollback(t)
    PROVE  Origin(t)'
<1>0. /\ PostingTypeOK /\ TxInv(t) /\ pc[t] = "apply" /\ at[t] = c /\ undo[t] = {} /\ lines[t] # <<>>
      /\ Running(t) /\ lines[t] \in Seq(Line) /\ delta \in [Txs -> [Cells -> Int]]
  BY DEF IInv, ApplyLine, At, TxInv, Running, PostingTypeOK
<1>1. PICK p, k : Did(t, p, k)
  BY <1>0 DEF Origin
<1> DEFINE l == Head(lines[t])
<1>2. /\ Write(t, c, l.qty)
      /\ lines' = [lines EXCEPT ![t] = Tail(@)]
      /\ entered' = IF l.doc = NoDoc THEN entered
                    ELSE [entered EXCEPT ![t] = @ \cup
                            {[doc |-> l.doc, cell |-> c, qty |-> -l.qty, by |-> t]}]
      /\ UNCHANGED <<undo, removed>>
  BY DEF ApplyLine
<1>3. p \in Plans /\ Left(lines[t], p.lines, k) /\ k \in Nat
  BY <1>1 DEF Did, Left
<1>4. /\ Left(Tail(lines[t]), p.lines, k + 1) /\ l = p.lines[k + 1]
      /\ k + 1 <= Len(p.lines)
  BY <1>0, <1>3, LeftNext
<1>5. l.cell = c
  BY <1>0 DEF Origin, AtItem
<1>6. l.qty \in Int
  BY <1>0, HeadLine DEF Line
<1> HIDE DEF l
<1>7. /\ lines'[t] = Tail(lines[t]) /\ undo'[t] = {} /\ removed'[t] = removed[t]
      /\ \A d \in Cells : delta'[t][d] = delta[t][d] + (IF l.cell = d THEN l.qty ELSE 0)
  BY <1>0, <1>2, <1>5, <1>6 DEF Write, PostingTypeOK
<1>8. entered'[t] = OutsOf(t, p.lines, k + 1)
  <2>1. entered[t] = OutsOf(t, p.lines, k)
    BY <1>1 DEF Did
  <2>2. entered'[t] = IF l.doc = NoDoc THEN entered[t] ELSE entered[t] \cup {OutRowOf(t, l)}
    BY <1>0, <1>2, <1>5 DEF OutRowOf, PostingTypeOK
  <2>3. OutsOf(t, p.lines, k + 1)
            = IF p.lines[k + 1].doc = NoDoc THEN OutsOf(t, p.lines, k)
              ELSE OutsOf(t, p.lines, k) \cup {OutRowOf(t, p.lines[k + 1])}
    BY <1>3, OutsNext
  <2> QED
    BY <1>4, <2>1, <2>2, <2>3
<1>9. ASSUME NEW d \in Cells
      PROVE  delta'[t][d] = Effect(p.lines, k + 1, d) + Returned(removed'[t], d)
  <2>1. /\ Effect(p.lines, k, d) \in Int
        /\ Effect(p.lines, k + 1, d) = Effect(p.lines, k, d) + (IF l.cell = d THEN l.qty ELSE 0)
    BY <1>3, <1>4, EffectNext
  <2>2. delta[t][d] = Effect(p.lines, k, d) + Returned(removed[t], d)
    BY <1>1 DEF Did
  <2>3. Returned(removed[t], d) \in Int
    <3>1. removed[t] \in SUBSET OutRow /\ IsFiniteSet(removed[t])
      BY <1>0, <1>1 DEF Did, PostingTypeOK
    <3> QED
      BY <3>1, ReturnedInt
  <2> QED
    BY <1>6, <1>7, <2>1, <2>2, <2>3
<1>10. Did(t, p, k + 1)'
  BY <1>0, <1>1, <1>4, <1>7, <1>8, <1>9 DEF Did
<1>11. pc'[t] = "item"
  BY <1>0 DEF ApplyLine, Proceed, PostingTypeOK
<1> QED
  BY <1>10, <1>11 DEF Origin, AtItem

LEMMA GiveBackOrigin ==
    ASSUME IInv, NEW t \in Txs, Origin(t), NEW c \in Cells, GiveBack(t, c), ~Rollback(t)
    PROVE  Origin(t)'
<1>0. /\ PostingTypeOK /\ pc[t] = "apply" /\ at[t] = c /\ Running(t)
  BY DEF IInv, GiveBack, At, Running
<1>1. PICK p, k : Did(t, p, k)
  BY <1>0 DEF Origin
<1>2. PICK m \in undo[t] :
          /\ m.cell = c /\ Write(t, c, m.qty)
          /\ undo' = [undo EXCEPT ![t] = @ \ {m}]
          /\ removed' = [removed EXCEPT ![t] = @ \cup {m}]
          /\ UNCHANGED <<lines, entered>>
  BY DEF GiveBack
<1>3. /\ m \in OutRow /\ m.qty \in Int /\ removed[t] \in SUBSET OutRow
      /\ IsFiniteSet(removed[t]) /\ m \notin removed[t]
  BY <1>0, <1>1 DEF Did, PostingTypeOK, OutRow
<1>4. /\ lines'[t] = lines[t] /\ entered'[t] = entered[t]
      /\ undo'[t] = undo[t] \ {m} /\ removed'[t] = removed[t] \cup {m}
      /\ \A d \in Cells : delta'[t][d] = delta[t][d] + (IF m.cell = d THEN m.qty ELSE 0)
  BY <1>0, <1>2, <1>3 DEF Write, PostingTypeOK
<1>5. /\ IsFiniteSet(removed'[t]) /\ removed'[t] \cap undo'[t] = {}
      /\ \A x \in removed'[t] \cup undo'[t] : x.doc = p.undo
  BY <1>1, <1>3, <1>4, FS_AddElement DEF Did
<1>6. ASSUME NEW d \in Cells
      PROVE  delta'[t][d] = Effect(p.lines, k, d) + Returned(removed'[t], d)
  <2>1. /\ Returned(removed[t], d) \in Int
        /\ Returned(removed[t] \cup {m}, d)
             = Returned(removed[t], d) + (IF m.cell = d THEN m.qty ELSE 0)
    BY <1>3, ReturnedNext
  <2>2. delta[t][d] = Effect(p.lines, k, d) + Returned(removed[t], d)
    BY <1>1 DEF Did
  <2>3. Effect(p.lines, k, d) \in Int
    BY <1>0, <1>1, EffectInt DEF Did, PostingTypeOK
  <2> QED
    BY <1>3, <1>4, <2>1, <2>2, <2>3
<1>7. Did(t, p, k)'
  BY <1>1, <1>4, <1>5, <1>6 DEF Did
<1>8. pc'[t] = "item"
  BY <1>0 DEF GiveBack, Proceed, PostingTypeOK
<1> QED
  BY <1>7, <1>8 DEF Origin, AtItem

LEMMA RollbackOrigin ==
    ASSUME PostingTypeOK, NEW t \in Txs, Rollback(t) PROVE Origin(t)'
<1>1. pc'[t] = "failed"
  BY DEF Rollback, Proceed, PostingTypeOK
<1> QED
  BY <1>1 DEF Origin, AtItem, Running

LEMMA StepOrigin ==
    ASSUME IInv, NEW t \in Txs, Origin(t), PostingStep(t) \/ Break(t) PROVE Origin(t)'
<1>0. PostingTypeOK
  BY DEF IInv
<1>1. CASE Rollback(t)
  BY <1>0, <1>1, RollbackOrigin
<1>2. CASE Commit(t)
  <2>1. pc'[t] = "committed"
    BY <1>0, <1>2 DEF Commit, Proceed, PostingTypeOK
  <2> QED
    BY <2>1 DEF Origin, AtItem, Running
<1>3. ASSUME NEW c \in Cells, LockRow(t, c) \/ LockMisses(t, c) \/ CreateRow(t, c)
      PROVE  Origin(t)'
  <2>1. /\ Running(t) /\ UNCHANGED <<lines, undo, delta, removed, entered>>
        /\ at'[t] = c
        /\ Wants(t, c) \/ (at[t] = c /\ pc[t] \in {"create", "relock"})
    BY <1>0, <1>3 DEF LockRow, LockMisses, CreateRow, Wants, At, GotoAt, local, Running, PostingTypeOK
  <2>2. AtItem(t)'
    BY <2>1 DEF Origin, AtItem, Wants
  <2>3. \A p, k : Did(t, p, k) => Did(t, p, k)'
    BY <2>1 DEF Did
  <2> QED
    BY <2>1, <2>2, <2>3 DEF Origin
<1> QED
  BY <1>1, <1>2, <1>3, BeginOrigin, ApplyOrigin, GiveBackOrigin DEF PostingStep, LockFails, Break
-----------------------------------------------------------------------------
(* The steps of the postings are steps of StockLedger. *)

LEMMA SumIsLedgers == ASSUME NEW f PROVE Ledger!SumFunction(f) = SumFunction(f)
BY DEF Ledger!SumFunction, Ledger!FoldFunction, Ledger!FoldFunctionOnSet, Ledger!MapThenFoldSet,
       SumFunction, SumFunctionOnSet, FoldFunction, FoldFunctionOnSet, MapThenFoldSet,
       Ledger!SumFunctionOnSet

Posted == {u \in Txs : pc[u] = "committed"}

LEMMA CommitPosts ==
    ASSUME IInv, NEW t \in Txs, Origin(t), Commit(t) PROVE Ledger!Post(t)
<1>0. /\ PostingTypeOK /\ pc[t] = "item" /\ pc'[t] = "committed" /\ Running(t) /\ lines[t] = <<>>
      /\ pc' = [pc EXCEPT ![t] = "committed"]
  BY DEF IInv, Commit, Proceed, PostingTypeOK, Running
<1>1. PICK p, k : Did(t, p, k)
  BY <1>0 DEF Origin
<1> DEFINE ls == p.lines
<1>2. /\ p \in Plans /\ ls \in Seq(Line) /\ DOMAIN ls = 1..k
      /\ \A i \in 1..k : ls[i] \in Line
  <2>1. p \in Plans /\ k \in Nat /\ Len(ls) = k
    BY <1>0, <1>1, EmptySeq DEF Did, Left
  <2> QED
    BY <2>1, PlanLines
<1>3. Posted' = Posted \cup {t} /\ t \notin Posted
  BY <1>0 DEF Posted, PostingTypeOK
<1>4. removed[t] \in SUBSET outs /\ \A m \in removed[t] : m.doc = p.undo
  BY <1>0, <1>1 DEF IInv, RowInv, Did
<1>5. ASSUME NEW c \in Cells
      PROVE  /\ Current(t, c) = balance[c] + Ledger!LineEffect(ls, c)
                                           + Ledger!GivenBack(removed[t], c)
             /\ Current(t, c) >= 0
  <2>1. Drafted(t, c) /\ balance[c] \in Int /\ balance[c] >= 0 /\ delta[t][c] \in Int
    BY <1>0 DEF IInv, TxInv, PostingTypeOK, NeverNegative
  <2>2. Current(t, c) = balance[c] + delta[t][c] /\ Current(t, c) >= 0
    BY <2>1 DEF Drafted, Current
  <2>3. delta[t][c] = Effect(ls, k, c) + Returned(removed[t], c)
    BY <1>1 DEF Did
  <2>4. Effect(ls, k, c) = Ledger!LineEffect(ls, c)
    BY <1>2, SumIsLedgers DEF Effect, Ledger!LineEffect
  <2>5. Returned(removed[t], c) = Ledger!GivenBack(removed[t], c)
    BY SumIsLedgers DEF Returned, Ledger!GivenBack
  <2>6. Effect(ls, k, c) \in Int /\ Returned(removed[t], c) \in Int
    <3>1. /\ lines[t] \in Seq(Line) /\ Left(lines[t], ls, k)
          /\ removed[t] \in SUBSET OutRow /\ IsFiniteSet(removed[t])
      BY <1>0, <1>1 DEF Did, PostingTypeOK
    <3> QED
      BY <1>2, <3>1, EffectInt, ReturnedInt
  <2> QED
    BY <2>1, <2>2, <2>3, <2>4, <2>5, <2>6
<1>6. balance' = [c \in Cells |-> balance[c] + Ledger!LineEffect(ls, c)
                                             + Ledger!GivenBack(removed[t], c)]
  BY <1>5 DEF Commit
<1>7. outs' = (outs \ removed[t]) \cup Ledger!OutRows(t, ls)
  <2>1. outs' = (outs \ removed[t]) \cup OutsOf(t, ls, k)
    BY <1>1 DEF Commit, Did
  <2>2. Ledger!OutRows(t, ls) = OutsOf(t, ls, k)
    BY <1>2 DEF Ledger!OutRows, Ledger!Range, OutsOf, OutRowOf
  <2> QED
    BY <2>1, <2>2
<1>8. \A c \in Cells : balance'[c] >= 0
  BY <1>5 DEF Commit
<1> QED
  BY <1>2, <1>3, <1>4, <1>6, <1>7, <1>8 DEF Ledger!Post, Posted

LEMMA OthersStutter ==
    ASSUME IInv, NEW t \in Txs, PostingStep(t) \/ Break(t), ~Commit(t)
    PROVE  UNCHANGED <<balance, outs, Posted>>
<1>1. UNCHANGED balance
  BY DEF PostingStep, Break, Begin, LockRow, LockMisses, CreateRow, ApplyLine, GiveBack,
         LockFails, Rollback, db
<1>2. pc[t] # "committed" /\ pc'[t] # "committed" /\ UNCHANGED outs
  BY OwnRows
<1>3. \A u \in Txs \ {t} : pc'[u] = pc[u]
  BY StepOthers DEF IInv, Others
<1>4. Posted' = Posted
  BY <1>2, <1>3 DEF Posted
<1> QED
  BY <1>1, <1>2, <1>4

LEMMA InitLedger == PostingInit => Ledger!Init /\ \A t \in Txs : Origin(t)
BY DEF PostingInit, Ledger!Init, Origin, AtItem, Running

LEMMA NextLedger ==
    ASSUME IInv, \A t \in Txs : Origin(t), [PostingNext]_postingVars
    PROVE  /\ \A t \in Txs : Origin(t)'
           /\ Ledger!Next \/ UNCHANGED <<balance, outs, Posted>>
<1>1. ASSUME NEW t \in Txs, PostingStep(t) \/ Break(t)
      PROVE  /\ \A u \in Txs : Origin(u)'
             /\ Ledger!Next \/ UNCHANGED <<balance, outs, Posted>>
  <2>1. \A u \in Txs : Origin(u)'
    BY <1>1, StepOthers, OthersOrigin, StepOrigin DEF IInv
  <2>2. CASE Commit(t)
    BY <2>1, <2>2, CommitPosts DEF Ledger!Next
  <2>3. CASE ~Commit(t)
    BY <1>1, <2>1, <2>3, OthersStutter
  <2> QED
    BY <2>2, <2>3
<1>2. CASE UNCHANGED postingVars
  BY <1>2 DEF postingVars, db, local, Posted, Origin, AtItem, Did, Running
<1> QED
  BY <1>1, <1>2 DEF PostingNext

(* Row by row, with locks, retries, rollbacks and crashes between any two  *)
(* queries, the transactions of postOpening, postAdjustment, postTransfer, *)
(* the truck loads and the reversals take effect as whole postings: they   *)
(* implement StockLedger for any number of requests, cells and plans.      *)
THEOREM PostingsAreAtomic == PostingSpec => ImplementsLedger
<1>1. IInv /\ (\A t \in Txs : Origin(t)) /\ [PostingNext]_postingVars => (\A t \in Txs : Origin(t))'
  BY NextLedger
<1>2. IInv /\ (\A t \in Txs : Origin(t)) /\ [PostingNext]_postingVars => [Ledger!Next]_(Ledger!ledgerVars)
  BY NextLedger DEF Ledger!ledgerVars, Posted
<1> QED
  BY <1>1, <1>2, InitLedger, Invariance, PTL DEF PostingSpec, ImplementsLedger, Ledger!Spec
=============================================================================
