----------------------------- MODULE Purchasing -----------------------------
(***************************************************************************)
(* One purchase order to one vendor, the goods received on it, the         *)
(* vendor's bills, payments and ledger (purchase-orders.service.ts,        *)
(* goods-receipts.service.ts, vendor-bills.service.ts).                    *)
(*                                                                         *)
(* Almost every request checks a status in a read of its own and writes    *)
(* later, by id; only a receipt (its order lines) and a payment (its bill) *)
(* lock what they check.  A receipt's insert holds the order's row through *)
(* its foreign key, so that its transaction is one step to whoever writes  *)
(* the order.  The stock that is received is the subject of StockPosting.  *)
(* Prices are whole, dates and texts are left out.                         *)
(***************************************************************************)
EXTENDS Integers, Sequences, FiniteSetsExt

CONSTANTS
    Clerks,       \* the requests that can be in progress at once
    Does,         \* Does[c]: the requests that clerk c makes
    Lines,        \* line numbers of the order
    UnitCost,     \* UnitCost[l]
    MaxQty, MaxTotal, MaxReceipts, MaxBills, MaxEditions   \* bounds

ASSUME CostAssumption == IsFiniteSet(Lines) /\ UnitCost \in [Lines -> Nat]

VARIABLES
    order,       \* [status, ordered, received, edition]; an edit makes new lines
    receipts,    \* goods receipts: the quantity of each line
    bills,       \* [grn (0: none), total, paid, status]
    payments,    \* rows of VendorBillPayment: [bill, amount]
    payable,     \* the vendor's ledger: bills - payments - voids
    pending      \* what each clerk has read and is about to do

vars == <<order, receipts, bills, payments, payable, pending>>

NoTx == [op |-> "none"]
Idle(c, op) == pending[c] = NoTx /\ op \in Does[c]
In(c, op) == pending[c].op = op
Goto(c, tx) == pending' = [pending EXCEPT ![c] = tx]
Finish(c) == Goto(c, NoTx)

Quantities == {q \in [Lines -> 0..MaxQty] : \E l \in Lines : q[l] > 0}
Nothing == [l \in Lines |-> 0]

Init == /\ order = [status |-> "NONE", ordered |-> Nothing, received |-> Nothing,
                    edition |-> 0]
        /\ receipts = <<>> /\ bills = <<>> /\ payments = <<>>
        /\ payable = 0
        /\ pending = [c \in Clerks |-> NoTx]

BillOf(n) == {b \in DOMAIN bills : bills[b].grn = n /\ bills[b].status # "VOID"}

NewBill(grn, total) == [grn |-> grn, total |-> total, paid |-> 0, status |-> "UNPAID"]
Remaining(b) == bills[b].total - bills[b].paid
-----------------------------------------------------------------------------
(* Purchase orders. *)
CreateOrder(c, ordered) ==
    /\ Idle(c, "order")
    /\ order.status = "NONE"
    /\ order' = [order EXCEPT !.status = "DRAFT", !.ordered = ordered]
    /\ UNCHANGED <<receipts, bills, payments, payable, pending>>

CheckEdit(c, ordered) ==
    /\ Idle(c, "edit")
    /\ order.status = "DRAFT"
    /\ Goto(c, [op |-> "edit", ordered |-> ordered])
    /\ UNCHANGED <<order, receipts, bills, payments, payable>>

(* The old lines are deleted, which the database refuses once something    *)
(* has been received on them (onDelete: Restrict).                         *)
CommitEdit(c) ==
    /\ In(c, "edit")
    /\ receipts = <<>>
    /\ order.edition < MaxEditions
    /\ order' = [order EXCEPT !.ordered = pending[c].ordered, !.received = Nothing,
                              !.edition = @ + 1]
    /\ Finish(c)
    /\ UNCHANGED <<receipts, bills, payments, payable>>

CheckSend(c) ==
    /\ Idle(c, "order")
    /\ order.status = "DRAFT"
    /\ Goto(c, [op |-> "send"])
    /\ UNCHANGED <<order, receipts, bills, payments, payable>>

CommitSend(c) ==
    /\ In(c, "send")
    /\ order' = [order EXCEPT !.status = "SENT"]
    /\ Finish(c)
    /\ UNCHANGED <<receipts, bills, payments, payable>>

CheckCancel(c) ==
    /\ Idle(c, "order")
    /\ order.status \in {"DRAFT", "SENT", "PARTIALLY_RECEIVED"}
    /\ Goto(c, [op |-> "cancel"])
    /\ UNCHANGED <<order, receipts, bills, payments, payable>>

CommitCancel(c) ==
    /\ In(c, "cancel")
    /\ order' = [order EXCEPT !.status = "CANCELLED"]
    /\ Finish(c)
    /\ UNCHANGED <<receipts, bills, payments, payable>>
-----------------------------------------------------------------------------
(* Goods receipts. *)
Fits(qty) == \A l \in Lines : qty[l] <= order.ordered[l] - order.received[l]

StatusAfter(received) ==
    IF \A l \in Lines : received[l] >= order.ordered[l] THEN "RECEIVED"
    ELSE IF \E l \in Lines : received[l] > 0 THEN "PARTIALLY_RECEIVED"
    ELSE order.status

(* billed: the vendor bills feature is on when the receipt is made. *)
CheckReceive(c, qty, billed) ==
    /\ Idle(c, "receive")
    /\ order.status \in {"SENT", "PARTIALLY_RECEIVED"}
    /\ Fits(qty)
    /\ Goto(c, [op |-> "receive", qty |-> qty, billed |-> billed, edition |-> order.edition])
    /\ UNCHANGED <<order, receipts, bills, payments, payable>>

(* Mutant: the remaining quantity is not checked again under the lock. *)
AcceptedUnchecked(tx) == tx.edition = order.edition

(* Under the locks of the lines: they still exist, and what remains of     *)
(* them is checked again.  The status of the order is not.                 *)
Accepted(tx) == tx.edition = order.edition /\ Fits(tx.qty)

ReceivedAfter(qty) == [l \in Lines |-> order.received[l] + qty[l]]

CommitReceive(c) ==
    /\ In(c, "receive")
    /\ Len(receipts) < MaxReceipts
    /\ LET tx == pending[c]
           received == ReceivedAfter(tx.qty)
           total == SumFunction([l \in Lines |-> tx.qty[l] * UnitCost[l]])
       IN  /\ Accepted(tx)
           /\ receipts' = Append(receipts, tx.qty)
           /\ order' = [order EXCEPT !.received = received, !.status = StatusAfter(received)]
           /\ \/ /\ tx.billed
                 /\ total > 0 /\ Len(bills) < MaxBills
                 /\ bills' = Append(bills, NewBill(Len(receipts) + 1, total))
                 /\ payable' = payable + total
              \/ /\ ~tx.billed
                 /\ UNCHANGED <<bills, payable>>
    /\ Finish(c)
    /\ UNCHANGED payments
-----------------------------------------------------------------------------
(* Vendor bills. *)

(* Mutant: bills of the receipt are not looked for. *)
CheckBillAlways(c, grn, total) ==
    /\ Idle(c, "bill")
    /\ total > 0
    /\ Goto(c, [op |-> "bill", grn |-> grn, total |-> total])
    /\ UNCHANGED <<order, receipts, bills, payments, payable>>

(* create, and createFromGoodsReceipt, which has the total computed: a bill *)
(* of a receipt (or of none) that has no bill.                              *)
CheckBill(c, grn, total) ==
    /\ Idle(c, "bill")
    /\ total > 0
    /\ grn # 0 => BillOf(grn) = {}
    /\ Goto(c, [op |-> "bill", grn |-> grn, total |-> total])
    /\ UNCHANGED <<order, receipts, bills, payments, payable>>

CommitBill(c) ==
    /\ In(c, "bill")
    /\ Len(bills) < MaxBills
    /\ bills' = Append(bills, NewBill(pending[c].grn, pending[c].total))
    /\ payable' = payable + pending[c].total
    /\ Finish(c)
    /\ UNCHANGED <<order, receipts, payments>>

(* Mutant: a voided bill can be paid. *)
PayVoided(c, b, amount) ==
    /\ Idle(c, "pay")
    /\ bills[b].status # "PAID" /\ amount \in 1..Remaining(b)
    /\ payments' = Append(payments, [bill |-> b, amount |-> amount])
    /\ payable' = payable - amount
    /\ bills' = [bills EXCEPT ![b].paid = @ + amount,
                              ![b].status = IF bills[b].paid + amount >= bills[b].total
                                            THEN "PAID" ELSE "PARTIALLY_PAID"]
    /\ UNCHANGED <<order, receipts, pending>>

(* pay: the bill's row is locked before it is checked. *)
Pay(c, b, amount) ==
    /\ Idle(c, "pay")
    /\ bills[b].status \notin {"VOID", "PAID"}
    /\ amount \in 1..Remaining(b)
    /\ payments' = Append(payments, [bill |-> b, amount |-> amount])
    /\ payable' = payable - amount
    /\ bills' = [bills EXCEPT ![b].paid = @ + amount,
                              ![b].status = IF bills[b].paid + amount >= bills[b].total
                                            THEN "PAID" ELSE "PARTIALLY_PAID"]
    /\ UNCHANGED <<order, receipts, pending>>

CheckVoid(c, b) ==
    /\ Idle(c, "void")
    /\ bills[b].status # "VOID" /\ bills[b].paid = 0
    /\ Goto(c, [op |-> "void", bill |-> b])
    /\ UNCHANGED <<order, receipts, bills, payments, payable>>

CommitVoid(c) ==
    /\ In(c, "void")
    /\ bills' = [bills EXCEPT ![pending[c].bill].status = "VOID"]
    /\ payable' = payable - bills[pending[c].bill].total
    /\ Finish(c)
    /\ UNCHANGED <<order, receipts, payments>>
-----------------------------------------------------------------------------
(* A check or a query fails, or the process dies, before the write. *)
Abort(c) ==
    /\ pending[c] # NoTx
    /\ Finish(c)
    /\ UNCHANGED <<order, receipts, bills, payments, payable>>

Step(c) ==
    \/ \E q \in Quantities : \/ CreateOrder(c, q) \/ CheckEdit(c, q)
                             \/ \E billed \in BOOLEAN : CheckReceive(c, q, billed)
    \/ CommitEdit(c) \/ CheckSend(c) \/ CommitSend(c) \/ CheckCancel(c) \/ CommitCancel(c)
    \/ CommitReceive(c)
    \/ \E grn \in 0..Len(receipts), total \in 1..MaxTotal : CheckBill(c, grn, total)
    \/ CommitBill(c)
    \/ \E b \in DOMAIN bills :
           CheckVoid(c, b) \/ \E amount \in 1..bills[b].total : Pay(c, b, amount)
    \/ CommitVoid(c) \/ Abort(c)

Next == \E c \in Clerks : Step(c)

Spec == Init /\ [][Next]_vars
-----------------------------------------------------------------------------
OrderStatuses == {"NONE", "DRAFT", "SENT", "PARTIALLY_RECEIVED", "RECEIVED", "CANCELLED"}
BillStatuses == {"UNPAID", "PARTIALLY_PAID", "PAID", "VOID"}

TypeOK ==
    /\ order.status \in OrderStatuses
    /\ order.ordered \in [Lines -> Nat] /\ order.received \in [Lines -> Nat]
    /\ \A n \in DOMAIN receipts : receipts[n] \in [Lines -> Nat]
    /\ \A b \in DOMAIN bills : /\ bills[b].grn \in 0..Len(receipts)
                               /\ bills[b].total \in Nat /\ bills[b].paid \in Nat
                               /\ bills[b].status \in BillStatuses
    /\ \A p \in DOMAIN payments : payments[p].bill \in DOMAIN bills
    /\ payable \in Int

(* However receipts and edits of the order overlap, no line receives more  *)
(* than was ordered.                                                       *)
NotOverReceived == \A l \in Lines : order.received[l] <= order.ordered[l]

(* What a line has received is what its receipts brought.                  *)
ReceivedIsReceipts == \A l \in Lines :
    order.received[l] = SumFunction([n \in DOMAIN receipts |-> receipts[n][l]])

(* The status of an order that is not cancelled tells what was received,   *)
(* also when a receipt on it was made while it was being cancelled.        *)
StatusIsReceived ==
    LET all == \A l \in Lines : order.received[l] = order.ordered[l]
        any == \E l \in Lines : order.received[l] > 0
    IN  /\ order.status = "RECEIVED" => all
        /\ order.status = "PARTIALLY_RECEIVED" => any /\ ~all
        /\ order.status \in {"DRAFT", "SENT"} => ~any

(* An order tells, line by line and by its status, what was received on it. *)
OrderAgrees == ReceivedIsReceipts /\ StatusIsReceived

(* "Goods receipt already has bill": a receipt is billed once; it can be   *)
(* billed again when its bill is void.                                     *)
BilledOnce == \A n \in DOMAIN receipts : Cardinality(BillOf(n)) <= 1

(* A bill's paidAmount is the sum of its payments, and its status follows. *)
PaidIsPayments == \A b \in DOMAIN bills :
    LET rows == {p \in DOMAIN payments : payments[p].bill = b} IN
        /\ bills[b].paid = SumFunction([p \in rows |-> payments[p].amount])
        /\ bills[b].paid <= bills[b].total
        /\ bills[b].status = "PAID" <=> bills[b].paid = bills[b].total

(* payablesSummary adds up the bills, the statement adds up the ledger:    *)
(* both say the same.                                                      *)
PayableIsOpenBills ==
    LET open == {b \in DOMAIN bills : bills[b].status # "VOID"} IN
    payable = SumFunction([b \in open |-> Remaining(b)])

(* Bills, payments and the vendor's ledger agree. *)
BillsAgree == PaidIsPayments /\ PayableIsOpenBills

(* The order with its receipts, and the bills with their payments and the  *)
(* ledger, tell the same story; no receipt is billed twice.                *)
PurchasesAgree == TypeOK /\ OrderAgrees /\ BilledOnce /\ BillsAgree

(* A bill that was voided stays void and is never paid.                    *)
VoidIsFinal == [][\A b \in DOMAIN bills :
    bills[b].status = "VOID" => bills'[b] = bills[b]]_vars
=============================================================================
