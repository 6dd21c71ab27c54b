--------------------------- MODULE CustomerBooks ---------------------------
(***************************************************************************)
(* The dated books of a workspace and what is read from them: deliveries,  *)
(* orders, payments, outlays and the customer ledger; ages and dues of     *)
(* receivables (payments.service.ts), statements (customers.service.ts),   *)
(* sales reports (reports.service.ts) and the dashboard                    *)
(* (dashboard.service.ts).                                                 *)
(*                                                                         *)
(* How requests write these rows is modelled in CustomerAccount,           *)
(* DeliveryRuns and CustomerOrders; here a write is one step at one        *)
(* instant, and what the readers make of the dates is the subject.         *)
(* Customers are active and have made no promise.                          *)
(***************************************************************************)
EXTENDS Calendar, SequencesExt

CONSTANTS
    Customers,
    AgeLimits,  \* the ages, in days, at which a bucket ends (7, 30, 60)
    Price, Cost,
    Trips,      \* delivery runs: rider, vehicle, date
    Scenes      \* the operations, customers, billing cycles, time zone and bounds of a behaviour

VARIABLES
    now,        \* the instant
    ledger,     \* customer_ledger_entries, in the order of createdAt
    deliveries, \* deliveryDate is a business date
    orders,     \* with the instant of their PLACED event
    payments,   \* Payment rows
    outlays,    \* expenses and refill batches
    scene       \* constant within a behaviour

ledgerVars == <<ledger, payments>>
saleVars == <<deliveries, orders>>
bookVars == <<now, ledger, payments, deliveries, orders, outlays, scene>>

Today == LocalDay(now, scene.zone)
Does(op) == op \in scene.does

\* No entry is made of nothing.
Entry(c, type, amount, of, id) ==
    IF amount = 0 THEN <<>>
    ELSE <<[who |-> c, at |-> now, type |-> type, amount |-> amount, of |-> of, id |-> id]>>
Post(entries) ==
    /\ Len(ledger) + Len(entries) <= scene.rows
    /\ ledger' = ledger \o entries

\* The entries of one document, taken back as ADJUSTMENT entries in the order they are found in.
EntriesFor(of, id, types) ==
    {i \in DOMAIN ledger : ledger[i].of = of /\ ledger[i].id = id /\ ledger[i].type \in types}
TakeBack(rows) ==
    \E found \in [1..Cardinality(rows) -> rows] :
        /\ \A k, n \in DOMAIN found : k # n => found[k] # found[n]
        /\ Post([k \in DOMAIN found |->
                    [ledger[found[k]] EXCEPT !.at = now, !.type = "ADJUSTMENT", !.amount = -@]])

Paid(c, date, amount, of, id) == [who |-> c, date |-> date, amount |-> amount, of |-> of, id |-> id]
-----------------------------------------------------------------------------
(* The writes. *)

Tick ==
    /\ now + scene.step <= scene.last
    /\ now' = now + scene.step
    /\ UNCHANGED <<ledgerVars, saleVars, outlays, scene>>

Sale(d) == Price * d.units

Deliver(c, date, lot, trip) ==
    /\ Does("deliver") /\ c \in scene.who
    /\ Len(deliveries) < scene.sales
    /\ LET id == Len(deliveries) + 1 IN
           /\ deliveries' = Append(deliveries,
                  [who |-> c, date |-> date, trip |-> trip, product |-> lot.product,
                   units |-> lot.units, cash |-> lot.cash, live |-> TRUE])
           /\ Post(Entry(c, "DELIVERY_SALE", Price * lot.units, "delivery", id)
                   \o Entry(c, "PAYMENT", -lot.cash, "delivery", id))
           /\ payments' = payments \cup
                  (IF lot.cash > 0 THEN {Paid(c, date, lot.cash, "delivery", id)} ELSE {})
    /\ UNCHANGED <<now, orders, outlays, scene>>

CancelDelivery(i) ==
    /\ Does("cancel delivery")
    /\ deliveries[i].live
    /\ deliveries' = [deliveries EXCEPT ![i].live = FALSE]
    /\ TakeBack(EntriesFor("delivery", i, {"DELIVERY_SALE", "PAYMENT"}))
    /\ payments' = {p \in payments : ~(p.of = "delivery" /\ p.id = i)}
    /\ UNCHANGED <<now, orders, outlays, scene>>

Total(o) == Price * o.units + o.fee

PlaceOrder(c, lot, fee) ==
    /\ Does("order") /\ c \in scene.who
    /\ Len(orders) < scene.sales
    /\ orders' = Append(orders, [who |-> c, placed |-> now, product |-> lot.product,
                                 units |-> lot.units, fee |-> fee, paidAt |-> 0, status |-> "PLACED"])
    /\ Post(Entry(c, "ORDER_SALE", Price * lot.units + fee, "order", Len(orders) + 1))
    /\ UNCHANGED <<now, payments, deliveries, outlays, scene>>

\* An order is paid in full here; the part payments are in CustomerOrders.
PayOrder(i) ==
    /\ Does("pay order")
    /\ orders[i].status = "PLACED" /\ orders[i].paidAt = 0
    /\ orders' = [orders EXCEPT ![i].paidAt = now]
    /\ Post(Entry(orders[i].who, "PAYMENT", -Total(orders[i]), "order", i))
    /\ payments' = payments \cup {Paid(orders[i].who, UtcDay(now), Total(orders[i]), "order", i)}
    /\ UNCHANGED <<now, deliveries, outlays, scene>>

CancelOrder(i) ==
    /\ Does("cancel order")
    /\ orders[i].status = "PLACED" /\ orders[i].paidAt = 0
    /\ orders' = [orders EXCEPT ![i].status = "CANCELLED"]
    /\ TakeBack(EntriesFor("order", i, {"ORDER_SALE"}))
    /\ UNCHANGED <<now, payments, deliveries, outlays, scene>>

RecordPayment(c, date, amount) ==
    /\ Does("pay") /\ c \in scene.who
    /\ LET id == Len(ledger) + 1 IN
           /\ Post(Entry(c, "PAYMENT", -amount, "payment", id))
           /\ payments' = payments \cup {Paid(c, date, amount, "payment", id)}
    /\ UNCHANGED <<now, saleVars, outlays, scene>>

\* The entry that PaymentsService finds for a payment: none for the cash of a delivery.
Linked(p) == IF p.of = "delivery" THEN {} ELSE EntriesFor(p.of, p.id, {"PAYMENT"})

\* The entry changes where it stands and keeps its instant.
EditPayment(p, date, amount) ==
    /\ Does("edit payment")
    /\ Linked(p) # {}
    /\ ledger' = [ledger EXCEPT ![Min(Linked(p))].amount = -amount]
    /\ payments' = (payments \ {p}) \cup {Paid(p.who, date, amount, p.of, p.id)}
    /\ UNCHANGED <<now, saleVars, outlays, scene>>

\* What the order was paid stays with the order.
RemovePayment(p) ==
    /\ Does("remove payment")
    /\ payments' = payments \ {p}
    /\ TakeBack(Linked(p))
    /\ UNCHANGED <<now, saleVars, outlays, scene>>

\* openingReceivableBalance is one entry: made, or changed where it stands.
SetOpening(c, amount) ==
    /\ Does("opening") /\ c \in scene.who
    /\ LET found == {i \in DOMAIN ledger : ledger[i].who = c /\ ledger[i].type = "OPENING_BALANCE"}
       IN IF found = {} THEN Post(Entry(c, "OPENING_BALANCE", amount, "customer", 0))
          ELSE ledger' = [ledger EXCEPT ![Min(found)].amount = amount]
    /\ UNCHANGED <<now, payments, saleVars, outlays, scene>>

Spend(kind, date, amount, vehicle) ==
    /\ Does("spend")
    /\ Cardinality(outlays) < scene.sales
    /\ outlays' = outlays \cup {[kind |-> kind, date |-> date, amount |-> amount, vehicle |-> vehicle]}
    /\ UNCHANGED <<now, ledgerVars, saleVars, scene>>
-----------------------------------------------------------------------------
(* Balances and statements. *)

EntriesOf(c) == {i \in DOMAIN ledger : ledger[i].who = c}
Sum(rows) == SumFunction([i \in rows |-> ledger[i].amount])
Balance(c) == Sum(EntriesOf(c))
Before(c, instant) == Sum({i \in EntriesOf(c) : ledger[i].at < instant})

\* ledger, statement and the ledger report filter createdAt by days of UTC.
StatementRows(c, from, to) == {i \in EntriesOf(c) : InUtcDays(ledger[i].at, from, to)}
Statement(c, from, to) ==
    LET opening == Before(c, Midnight(from))
    IN  [opening |-> opening, closing |-> opening + Sum(StatementRows(c, from, to))]
-----------------------------------------------------------------------------
(* Ages and dues of receivables. *)

\* One credit, against the oldest open debits first: those that it reaches in full are closed,
\* the next one loses the rest of it; what is left of it is dropped.
LeftIn(open, k) == SumFunction([j \in 1..k |-> open[j].left])
Settle(open, credit) ==
    LET closed == Cardinality({k \in DOMAIN open : LeftIn(open, k) <= credit})
        rest == SubSeq(open, closed + 1, Len(open))
    IN  IF rest = <<>> THEN rest ELSE [rest EXCEPT ![1].left = LeftIn(open, closed + 1) - credit]

\* Mutant: a credit settles the debits that were open when it was posted, newest first.
AppliedNewest(c, open, e) ==
    IF e.who # c THEN open
    ELSE IF e.amount > 0 THEN Append(open, [left |-> e.amount, at |-> e.at])
    ELSE Reverse(Settle(Reverse(open), -e.amount))

Applied(c, open, e) ==
    IF e.who # c THEN open
    ELSE IF e.amount > 0 THEN Append(open, [left |-> e.amount, at |-> e.at])
    ELSE Settle(open, -e.amount)

OpenDebits(c) ==
    LET open[n \in 0..Len(ledger)] == IF n = 0 THEN <<>> ELSE Applied(c, open[n - 1], ledger[n])
    IN  open[Len(ledger)]

HasOpenDebit(c) == OpenDebits(c) # <<>>
OldestOpenDebitAt(c) == OpenDebits(c)[1].at
AgeDays(c) == IF HasOpenDebit(c) THEN UtcDay(now) - UtcDay(OldestOpenDebitAt(c)) ELSE 0
Bucket(c) == Cardinality({k \in DOMAIN AgeLimits : AgeDays(c) > AgeLimits[k]})

Owing == {c \in Customers : Balance(c) > 0}
Outstanding == SumFunction([c \in Owing |-> Balance(c)])
Ageing(b) == SumFunction([c \in {c \in Owing : Bucket(c) = b} |-> Balance(c)])

PaymentDays(c) == {p.date : p \in {q \in payments : q.who = c}}
PaidSince(c, day) == \E date \in PaymentDays(c) : date >= day

\* The last due date, when the customer is listed as overdue for it.
Overdue(c) ==
    LET due == LastDueDate(scene.cycle[c], Today)
    IN  /\ c \in Owing
        /\ IF scene.cycle[c].kind = "CASH_ON_DELIVERY" THEN AgeDays(c) > AgeLimits[1]
           ELSE /\ due # NoDay /\ Today > due
                /\ ~PaidSince(c, due)
                /\ HasOpenDebit(c) /\ UtcDay(OldestOpenDebitAt(c)) <= due
DueToday(c) ==
    /\ c \in Owing /\ scene.cycle[c].kind # "CASH_ON_DELIVERY"
    /\ NextDueDate(scene.cycle[c], Today) = Today
-----------------------------------------------------------------------------
(* Sales reports, over the business dates of deliveries and the instants   *)
(* of orders.                                                              *)

\* Mutant: the cancelled deliveries are sold.
SoldAny(from, to) == {i \in DOMAIN deliveries : deliveries[i].date \in from..to}

Sold(from, to) == {i \in DOMAIN deliveries : deliveries[i].live /\ deliveries[i].date \in from..to}
Billable(from, to) == {i \in DOMAIN orders : orders[i].status = "PLACED"
                                             /\ InZonedDays(orders[i].placed, from, to, scene.zone)}
SalesOf(rows) == SumFunction([i \in rows |-> Sale(deliveries[i])])
CashOf(rows) == SumFunction([i \in rows |-> deliveries[i].cash])
TotalOf(rows) == SumFunction([i \in rows |-> Total(orders[i])])
FeesOf(rows) == SumFunction([i \in rows |-> orders[i].fee])
GoodsOf(rows) == SumFunction([i \in rows |-> Price * orders[i].units])
AmountOf(rows) == SumFunction([o \in rows |-> o.amount])
SpentOn(kinds, from, to) == {o \in outlays : o.kind \in kinds /\ o.date \in from..to}
Spent(kinds, from, to) == AmountOf(SpentOn(kinds, from, to))

\* Lists every delivery of the day, the cancelled ones with their status.
DailySales(day) == {i \in DOMAIN deliveries : deliveries[i].date = day}
MonthlySummary(m) ==
    [delivery |-> SalesOf(Sold(FirstOf(m), LastOf(m))),
     orders |-> TotalOf(Billable(FirstOf(m), LastOf(m))),
     expenses |-> Spent({"expense"}, FirstOf(m), LastOf(m))]
ProductPerformance(product, from, to) ==
    [delivery |-> SalesOf({i \in Sold(from, to) : deliveries[i].product = product}),
     orders |-> GoodsOf({i \in Billable(from, to) : orders[i].product = product})]
RiderCollection(rider, from, to) ==
    LET rows == {i \in Sold(from, to) : deliveries[i].trip.rider = rider}
    IN  [sales |-> SalesOf(rows), cash |-> CashOf(rows)]
\* By the date of the run, whatever the date of the delivery.
VehiclePerformance(vehicle, from, to) ==
    [sales |-> SalesOf({i \in DOMAIN deliveries : deliveries[i].live
                            /\ deliveries[i].trip.vehicle = vehicle /\ deliveries[i].trip.date \in from..to}),
     expenses |-> AmountOf({o \in SpentOn({"expense"}, from, to) : o.vehicle = vehicle})]

PaidOrders(from, to) ==
    {i \in DOMAIN orders : orders[i].paidAt > 0 /\ InZonedDays(orders[i].paidAt, from, to, scene.zone)}
OrderPayments(from, to) == TotalOf(PaidOrders(from, to))

\* mergePeriodStats over the deliveries and the orders of a period, and its profit.
PeriodStats(from, to) ==
    LET sales == SalesOf(Sold(from, to)) + TotalOf(Billable(from, to))
        cogs == Cost * (SumFunction([i \in Sold(from, to) |-> deliveries[i].units])
                        + SumFunction([i \in Billable(from, to) |-> orders[i].units]))
    IN  [sales |-> sales, cogs |-> cogs,
         cash |-> CashOf(Sold(from, to)) + OrderPayments(from, to),
         profit |-> sales - cogs - Spent({"expense"}, from, to)]
=============================================================================
