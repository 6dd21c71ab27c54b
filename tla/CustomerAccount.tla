--------------------------- MODULE CustomerAccount ---------------------------
(***************************************************************************)
(* What a customer owes: the balance of the ledger entries, the Payment    *)
(* rows that the due dates are computed from, and the promise to pay that  *)
(* a rider notes at a stop (payments.service.ts, promised-due.helper.ts).  *)
(* DeliveryRuns adds the deliveries themselves.                            *)
(*                                                                         *)
(* A request is a transaction of two steps.  Begin... makes the checks and *)
(* the plain reads, all from one snapshot (REPEATABLE READ), and keeps in  *)
(* pending what it read; Commit... makes the writes, which see the rows as *)
(* they are by then.                                                       *)
(***************************************************************************)
EXTENDS Integers, Sequences, FiniteSetsExt

CONSTANTS
    Clerks,     \* the requests that can be in progress at once
    Customers,
    NoPromise,
    Scenes      \* what a behaviour consists of: clerks, inputs and bounds

ASSUME ScenesAssumption == \A s \in Scenes : s.clerks \subseteq Clerks

VARIABLES
    scene,      \* the scene being played
    deliveries, \* all deliveries; the customer's side is used here
    balance,    \* customer_ledger_entries: the sum of each customer
    payments,   \* all Payment rows ever made, with their ledger credit
    promise,    \* Customer.promisedDueDate, ...Amount, ...DeliveryId
    pending     \* the transaction each clerk has open

account == <<balance, payments, promise>>

\* Requests come one at a time.
Serial == Cardinality(scene.clerks) = 1

NoTx == [op |-> "none"]
NoRef == 0  \* the payment belongs to no delivery

Open(c, tx) == pending[c] = NoTx /\ pending' = [pending EXCEPT ![c] = tx]
Close(c) == pending' = [pending EXCEPT ![c] = NoTx]
In(c, op) == pending[c].op = op

(* The process dies, the time limit passes, or MySQL picks a victim.       *)
Abort(c) ==
    /\ pending[c] # NoTx
    /\ Close(c)
    /\ UNCHANGED <<deliveries, account>>

DeliveredTo(ds, cust) ==
    {d \in DOMAIN ds : ds[d].customer = cust /\ ds[d].status = "DELIVERED"}
PaidBy(ps, cust) == {i \in DOMAIN ps : ps[i].customer = cust /\ ps[i].live}

(* paidTowardPromiseSince: the Payment rows, and the cash of deliveries    *)
(* that have no Payment row.                                               *)
PaidSince(cust, due, ps, ds) ==
    LET paid == {i \in PaidBy(ps, cust) : ps[i].day >= due}
        mirrored == {ps[i].ref : i \in PaidBy(ps, cust)}
        other == {d \in DeliveredTo(ds, cust) : ds[d].day >= due /\ d \notin mirrored}
    IN  SumFunction([i \in paid |-> ps[i].amount]) + SumFunction([d \in other |-> ds[d].cash])

(* clearPromisedDueIfSettled, the decision: nothing is owed, or what was   *)
(* paid since the due day covers the amount (any payment if none is set).  *)
Settled(cust, bal, ps, ds) ==
    LET p == promise[cust] IN
        /\ p # NoPromise
        /\ \/ bal <= 0
           \/ p.amount = 0 /\ PaidSince(cust, p.due, ps, ds) > 0
           \/ p.amount > 0 /\ PaidSince(cust, p.due, ps, ds) >= p.amount

ClearIf(clears, cust) ==
    promise' = IF clears THEN [promise EXCEPT ![cust] = NoPromise] ELSE promise

(* Mutant: any payment clears the promise. *)
BeginPaymentClears(c, q) ==
    LET row == [customer |-> q.customer, amount |-> q.amount, day |-> q.day,
                ref |-> NoRef, credit |-> q.amount, live |-> TRUE]
    IN  /\ Open(c, [op |-> "pay", row |-> row, clears |-> TRUE])
        /\ UNCHANGED <<deliveries, account>>

(* PaymentsService.create. *)
BeginPayment(c, q) ==
    LET row == [customer |-> q.customer, amount |-> q.amount, day |-> q.day,
                ref |-> NoRef, credit |-> q.amount, live |-> TRUE]
    IN  /\ Open(c, [op |-> "pay", row |-> row,
                    clears |-> Settled(q.customer, balance[q.customer] - q.amount,
                                       Append(payments, row), deliveries)])
        /\ UNCHANGED <<deliveries, account>>

CommitPayment(c) ==
    /\ In(c, "pay")
    /\ Len(payments) < scene.maxPayments
    /\ LET tx == pending[c] IN
           /\ payments' = Append(payments, tx.row)
           /\ balance' = [balance EXCEPT ![tx.row.customer] = @ - tx.row.amount]
           /\ ClearIf(tx.clears, tx.row.customer)
    /\ Close(c)
    /\ UNCHANGED deliveries

(* PaymentsService.update writes the Payment first, and so holds its lock. *)
(* It fails on the cash of a delivery, whose ledger entry is not linked to *)
(* the payment.                                                            *)
Editing(i) == \E c \in Clerks : In(c, "edit") /\ pending[c].payment = i

BeginEdit(c, i, e) ==
    /\ payments[i].live
    /\ payments[i].ref = NoRef
    /\ ~Editing(i)
    /\ LET cust == payments[i].customer
           ps == [payments EXCEPT ![i].amount = e.amount, ![i].day = e.day]
       IN  Open(c, [op |-> "edit", payment |-> i, amount |-> e.amount, day |-> e.day,
                    clears |-> Settled(cust, balance[cust] + payments[i].credit - e.amount,
                                       ps, deliveries)])
    /\ UNCHANGED <<deliveries, account>>

CommitEdit(c) ==
    /\ In(c, "edit")
    /\ LET tx == pending[c]
           old == payments[tx.payment]
       IN  /\ payments' = [payments EXCEPT ![tx.payment].amount = tx.amount,
                                           ![tx.payment].day = tx.day,
                                           ![tx.payment].credit = tx.amount]
           /\ balance' = [balance EXCEPT ![old.customer] = @ + old.credit - tx.amount]
           /\ ClearIf(tx.clears, old.customer)
    /\ Close(c)
    /\ UNCHANGED deliveries

(* PaymentsService.remove reverses the ledger entry it has read, if there  *)
(* is one, and deletes the row, which throws if it is already gone.        *)
BeginRemove(c, i) ==
    /\ payments[i].live
    /\ Open(c, [op |-> "remove", payment |-> i, credit |-> payments[i].credit])
    /\ UNCHANGED <<deliveries, account>>

CommitRemove(c) ==
    /\ In(c, "remove")
    /\ LET i == pending[c].payment IN
           /\ ~Editing(i)
           /\ payments[i].live
           /\ payments' = [payments EXCEPT ![i].live = FALSE]
           /\ balance' = [balance EXCEPT ![payments[i].customer] = @ + pending[c].credit]
    /\ Close(c)
    /\ UNCHANGED <<deliveries, promise>>

(* clearFulfilledPromisesForTenant: the dashboard heals stale promises.    *)
BeginHeal(c, cust) ==
    /\ Settled(cust, balance[cust], payments, deliveries)
    /\ Open(c, [op |-> "heal", customer |-> cust])
    /\ UNCHANGED <<deliveries, account>>

CommitHeal(c) ==
    /\ In(c, "heal")
    /\ ClearIf(TRUE, pending[c].customer)
    /\ Close(c)
    /\ UNCHANGED <<deliveries, balance, payments>>

AccountStep(c) ==
    \/ \E q \in scene.payments : BeginPayment(c, q)
    \/ \E i \in DOMAIN payments : BeginRemove(c, i) \/ \E e \in scene.edits : BeginEdit(c, i, e)
    \/ \E cust \in Customers : BeginHeal(c, cust)
    \/ CommitPayment(c) \/ CommitEdit(c) \/ CommitRemove(c) \/ CommitHeal(c)
-----------------------------------------------------------------------------
(* Effects of a delivery on the account (deliveries.service.ts).           *)

(* create: the sale is a debit; the cash is a credit and is mirrored into  *)
(* a Payment; a settled promise is cleared, then the new one is set.       *)
Charge(d, n, clears) ==
    /\ balance' = [balance EXCEPT ![d.customer] = @ + d.sale - d.cash]
    /\ payments' = IF d.cash = 0 THEN payments
                   ELSE Append(payments, [customer |-> d.customer, amount |-> d.cash,
                                          day |-> d.day, ref |-> n, credit |-> 0,
                                          live |-> TRUE])
    /\ promise' = [promise EXCEPT ![d.customer] =
                      IF d.promised # NoPromise
                      THEN [due |-> d.promised.due, amount |-> d.promised.amount,
                            delivery |-> n]
                      ELSE IF clears THEN NoPromise ELSE @]

(* Mutant: the mirrored payment stays. *)
UnchargeKeepsPayment(n, clears) ==
    LET d == deliveries[n] IN
        /\ balance' = [balance EXCEPT ![d.customer] = @ - d.sale + d.cash]
        /\ UNCHANGED payments
        /\ ClearIf(clears, d.customer)

(* cancel: both entries are reversed, the mirrored payment deleted and the *)
(* promise of this delivery dropped.                                       *)
Uncharge(n, clears) ==
    LET d == deliveries[n] IN
        /\ balance' = [balance EXCEPT ![d.customer] = @ - d.sale + d.cash]
        /\ payments' = [i \in DOMAIN payments |->
                           IF payments[i].ref = n THEN [payments[i] EXCEPT !.live = FALSE]
                           ELSE payments[i]]
        /\ ClearIf(clears, d.customer)
-----------------------------------------------------------------------------
(* The balance is what the deliveries that stand and the payments that     *)
(* stand amount to: every cancellation, edit and removal has reversed      *)
(* exactly what it replaced.                                               *)
BalanceIsActivity == \A cust \in Customers :
    LET standalone == {i \in PaidBy(payments, cust) : payments[i].ref = NoRef} IN
        balance[cust] =
            SumFunction([d \in DeliveredTo(deliveries, cust) |->
                            deliveries[d].sale - deliveries[d].cash])
            - SumFunction([i \in standalone |-> payments[i].amount])

(* Cash of a cancelled delivery never counts as paid, and cash of one      *)
(* delivery never counts twice.                                            *)
MirrorsStand ==
    \A i \in DOMAIN payments : payments[i].live /\ payments[i].ref # NoRef =>
        /\ deliveries[payments[i].ref].status = "DELIVERED"
        /\ \A j \in DOMAIN payments : payments[j].ref = payments[i].ref => i = j

(* A promise to pay is always one that was made at a delivery that still   *)
(* stands.                                                                 *)
PromiseHasDelivery == \A cust \in Customers :
    promise[cust] # NoPromise =>
        LET d == deliveries[promise[cust].delivery]
        IN  d.status = "DELIVERED" /\ d.customer = cust

(* A promise goes away only because it is settled, because a newer one     *)
(* replaces it, or because its own delivery is cancelled, as long as        *)
(* requests come one at a time.                                            *)
PromiseKept == [][\A cust \in Customers :
    Serial /\ promise[cust] # NoPromise /\ promise'[cust] = NoPromise =>
        \/ deliveries'[promise[cust].delivery].status = "CANCELLED"
        \/ Settled(cust, balance'[cust], payments', deliveries')]_<<account, deliveries>>
=============================================================================
