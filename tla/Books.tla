-------------------------------- MODULE Books --------------------------------
(***************************************************************************)
(* The books of a workspace as a whole: customers, invoices and vendors    *)
(* under one clock, and what their readers promise each other.             *)
(***************************************************************************)
EXTENDS Invoices, VendorBooks

vars == <<bookVars, invoiceVars, vendorVars>>

LastDay == LastOf(Len(MonthLengths))

(* What a scene may consist of, and how far its clock may run: the         *)
(* calendar goes on for as long as the scene does, and goes back to the    *)
(* last day of the month before its first.                                 *)
Cycle == {cycle \in [kind : {"CASH_ON_DELIVERY", "WEEKS", "MONTHLY"}, weeks : Nat, day : Nat] :
              cycle.kind = "WEEKS" => cycle.weeks > 0}
Lot(s) == [product : s.products, units : Nat \ {0}, cash : Nat]
Inputs(s) ==
    /\ s.who \subseteq Customers /\ s.cycle \in [Customers -> Cycle]
    /\ IsFiniteSet(s.products) /\ s.lots \subseteq Lot(s) /\ s.trips \subseteq Trips
    /\ s.fees \subseteq Nat /\ s.amounts \subseteq Nat \ {0} /\ s.dates \subseteq Nat \ {0}
Clock(s) ==
    /\ s.first \in Nat /\ s.last \in Nat /\ s.first <= s.last /\ s.step \in Nat \ {0} /\ s.zone \in -1..1
    /\ Midnight(1) <= s.first /\ LastOf(1) <= LocalDay(s.first, s.zone)
    /\ s.last < Midnight(LastDay + 1) /\ LocalDay(s.last, s.zone) <= LastDay

ASSUME BooksAssumption ==
    /\ IsFiniteSet(Customers) /\ IsFiniteSet(Trips)
    /\ Price \in Nat \ {0} /\ AgeLimits \in Seq(Nat) /\ MonthLengths # <<>>
    /\ \A p \in Periods : p.from \in Nat /\ p.to \in Nat /\ p.from <= p.to
    /\ \A s \in Scenes : Inputs(s) /\ Clock(s)

Init ==
    /\ scene \in Scenes
    /\ now = scene.first
    /\ ledger = <<>> /\ payments = {} /\ deliveries = <<>> /\ orders = <<>> /\ outlays = {}
    /\ invoices = <<>> /\ lastInvoiceSeq = 0 /\ crossed = {}
    /\ desk = [k \in Desks |-> Idle]
    /\ active = {} /\ bills = <<>> /\ vendorLedger = <<>>

BookStep ==
    \/ Tick
    \/ \E c \in Customers, lot \in scene.lots :
           \/ \E date \in scene.dates, trip \in scene.trips : Deliver(c, date, lot, trip)
           \/ \E fee \in scene.fees : PlaceOrder(c, lot, fee)
    \/ \E i \in DOMAIN deliveries : CancelDelivery(i)
    \/ \E i \in DOMAIN orders : PayOrder(i) \/ CancelOrder(i)
    \/ \E amount \in scene.amounts :
           \/ \E c \in Customers : SetOpening(c, amount)
           \/ \E date \in scene.dates :
                  \/ \E c \in Customers : RecordPayment(c, date, amount)
                  \/ \E p \in payments : EditPayment(p, date, amount)
                  \/ \E kind \in {"expense", "refill"}, trip \in scene.trips : Spend(kind, date, amount, trip.vehicle)
    \/ \E p \in payments : RemovePayment(p)

Next ==
    \/ BookStep /\ UNCHANGED <<invoiceVars, vendorVars>>
    \/ (\E k \in Desks : InvoiceStep(k)) /\ UNCHANGED vendorVars
    \/ VendorStep /\ UNCHANGED invoiceVars

Spec == Init /\ [][Next]_vars
-----------------------------------------------------------------------------
(* The next and the last due date of a customer's billing cycle, computed  *)
(* with remainders and clamped days of the month, are the first due day    *)
(* from today on and the latest until today (billing-due.helpers.ts).      *)
DueDatesRight == \A c \in scene.who : DueDatesOf(scene.cycle[c], Today, LastDay)

UpTo(c, i) == {j \in EntriesOf(c) : j <= i}
Debits(rows) == Sum({i \in rows : ledger[i].amount > 0})
Credits(rows) == -Sum({i \in rows : ledger[i].amount < 0})
NeverInCredit(c) == \A i \in EntriesOf(c) : Sum(UpTo(c, i)) >= 0

(* The buckets of the dashboard hold all that is outstanding; a customer   *)
(* who owes has an open debit, which, if he was never in credit, is the    *)
(* first one that his credits do not reach; and he is overdue exactly when *)
(* they do not reach what he owed on his last due date, and he has paid    *)
(* nothing since (oldestOpenDebitAt, dashboard of payments.service.ts).    *)
AgeingRight ==
    /\ Outstanding = SumFunction([b \in 0..Len(AgeLimits) |-> Ageing(b)])
    /\ \A c \in Owing :
           /\ HasOpenDebit(c)
           /\ NeverInCredit(c) =>
                 LET unpaid == {i \in EntriesOf(c) : Debits(UpTo(c, i)) > Credits(EntriesOf(c))}
                     due == LastDueDate(scene.cycle[c], Today)
                     owed == Debits({i \in EntriesOf(c) : UtcDay(ledger[i].at) <= due})
                 IN  /\ OldestOpenDebitAt(c) = ledger[Min(unpaid)].at
                     /\ scene.cycle[c].kind # "CASH_ON_DELIVERY" =>
                           (Overdue(c) <=> due # NoDay /\ due < Today /\ ~PaidSince(c, due)
                                           /\ owed > Credits(EntriesOf(c)))

(* The reports sell the same goods however they are grouped: a month is    *)
(* the sum of its days, of its products with the fees of its orders, of    *)
(* its riders and, if runs are dated as their deliveries, of its vehicles; *)
(* the dashboard shows deliveries and orders together; and the invoices of *)
(* a month bill what its reports sell, in a workspace that is not west of  *)
(* UTC (reports.service.ts, dashboard.service.ts, invoices.service.ts).    *)
SalesAgree ==
        LET m == MonthOf(Today)
            from == FirstOf(m)
            to == LastOf(m)
            month == MonthlySummary(m)
            live(day) == {i \in DailySales(day) : deliveries[i].live}
            product(p) == ProductPerformance(p, from, to)
            riders == {trip.rider : trip \in Trips}
            vehicles == {trip.vehicle : trip \in Trips}
        IN  /\ month.delivery = SumFunction([day \in from..to |-> SalesOf(live(day))])
            /\ month.delivery = SumFunction([p \in scene.products |-> product(p).delivery])
            /\ month.delivery = SumFunction([r \in riders |-> RiderCollection(r, from, to).sales])
            /\ month.orders = SumFunction([p \in scene.products |-> product(p).orders]) + FeesOf(Billable(from, to))
            /\ PeriodStats(from, to).sales = month.delivery + month.orders
            /\ PeriodStats(from, to).cash = SumFunction([day \in from..to |-> PeriodStats(day, day).cash])
            /\ (\A i \in DOMAIN deliveries : deliveries[i].trip.date = deliveries[i].date) =>
                   month.delivery = SumFunction([v \in vehicles |-> VehiclePerformance(v, from, to).sales])
            /\ month.expenses = SumFunction([v \in vehicles |-> VehiclePerformance(v, from, to).expenses])
            /\ scene.zone >= 0 => month.delivery + month.orders =
                   SumFunction([c \in Customers |-> SalesTotal(c, from, to)])

(* A draft shows one moment of the books, unless something was posted or   *)
(* changed between its reads; and if every sale posted in its period still *)
(* stands and is dated in it, and no other is, it closes at the balance of *)
(* the ledger (generate, recomputeHeaderTotals of invoices.service.ts).    *)
SalePosted(i) == ledger[i].type \in {"DELIVERY_SALE", "ORDER_SALE"}
PeriodIsPlain(c, from, to) ==
    LET posted == {<<ledger[i].of, ledger[i].id>> : i \in {j \in Period(c, from, to) : SalePosted(j)}}
        billed == {<<"delivery", i>> : i \in DeliveryLines(c, from, to)}
                  \cup {<<"order", i>> : i \in OrderLines(c, from, to)}
    IN  posted = billed
ClosesAtBalance == [][\A k \in Desks :
    LET f == desk[k] IN
        Holds(k, "draft") /\ Len(invoices') > Len(invoices) /\ desk'[k] = Idle
        /\ f.seen = {ledger} /\ PeriodIsPlain(f.who, f.from, f.to)
            => invoices'[Len(invoices')].closing = OpeningBalance(f.who, f.to + 1)]_vars

(* While no invoice was handled by two requests at once, the numbers given *)
(* are 1 to lastInvoiceSeq, each to one invoice, and no two issued         *)
(* invoices of a customer cover the same day: the overlap check and the    *)
(* sequence are only read before they are written, but the number is       *)
(* unique (issue of invoices.service.ts, schema.prisma).                   *)
InvoicesStand ==
    crossed = {} =>
        /\ {invoices[i].number : i \in DOMAIN invoices} \ {NoNumber} = 1..lastInvoiceSeq
        /\ \A i, j \in DOMAIN invoices : i # j =>
               /\ invoices[i].number = NoNumber \/ invoices[i].number # invoices[j].number
               /\ ~(invoices[i].status = "ISSUED"
                    /\ Overlaps(j, invoices[i].who, invoices[i].from, invoices[i].to))

(* An issued invoice that no two requests handled at once can only be      *)
(* voided: it is not deleted, renumbered or changed, and a void one stays  *)
(* void (voidInvoice, removeDraft, generate of invoices.service.ts).       *)
IssuedIsFinal == [][\A i \in DOMAIN invoices \ crossed :
    LET old == invoices[i] IN
        /\ old.status = "ISSUED" => invoices'[i] \in {old, [old EXCEPT !.status = "VOID"]}
        /\ old.status = "VOID" => invoices'[i] = old]_vars

(* What the payables screens show of a vendor is one debt: the open bills  *)
(* are the balance of the vendor ledger; every day splits them into those  *)
(* due and those due later; the schedule and the bills without a due date  *)
(* make up the dues of its last day; and the notice counts as overdue what *)
(* the schedule does (vendor-bills.service.ts).                            *)
PayablesAgree ==
    /\ \A v \in Vendors :
           /\ OpenPayablesTotal(v) = ListLedger(v, 1, LastDay)
           /\ OpenPayablesTotal(v) = PayablesSummary(v).billed - PayablesSummary(v).paid
           /\ OpenPayablesTotal(v) = PurchasesByVendor(v, 1, LastDay)
           /\ \A day \in scene.dates : OpenPayablesTotal(v) =
                  RemainingOf(ListDues(day) \cap BillsOf(v))
                  + RemainingOf({b \in BillsOf(v) : IsOpen(b) /\ bills[b].dueDate > day})
    /\ \A ahead \in 1..2 : RemainingOf(ListDues(Today + ahead)) =
           RemainingOf(ListSchedule(ahead)) + RemainingOf({b \in ListDues(Today) : bills[b].dueDate = NoDay})
    /\ NotifyOverduePayables.amount = RemainingOf(OverdueOn(Today, ListSchedule(1)))
=============================================================================
