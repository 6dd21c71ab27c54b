---------------------------- MODULE VendorBooks ----------------------------
(***************************************************************************)
(* What a workspace owes its vendors and when (vendor-bills.service.ts,    *)
(* reports.service.ts): the dated side of the bills whose protocol is in   *)
(* Purchasing, with the clock and the scenes of CustomerBooks.             *)
(***************************************************************************)
EXTENDS CustomerBooks

CONSTANTS Vendors

VARIABLES
    active,      \* the vendors with isActive
    bills,       \* VendorBill rows; dueDate NoDay is null
    vendorLedger \* vendor_ledger_entries, with signedLedgerAmount

vendorVars == <<active, bills, vendorLedger>>

BillEntry(v, type, amount) ==
    [who |-> v, at |-> now, amount |-> IF type = "BILL" THEN amount ELSE -amount]
Record(v, type, amount) == vendorLedger' = Append(vendorLedger, BillEntry(v, type, amount))

AddBill(v, total, due) ==
    /\ Len(bills) < scene.sales
    /\ bills' = Append(bills, [vendor |-> v, total |-> total, paid |-> 0, billDate |-> Today,
                               dueDate |-> due, status |-> "UNPAID"])
    /\ Record(v, "BILL", total)

CreateBill(v, total, due) ==
    /\ Does("bill")
    /\ v \in active
    /\ AddBill(v, total, due)
    /\ UNCHANGED <<bookVars, active>>

\* The vendor is saved first; what it is owed from before becomes a bill in a second
\* transaction, which is refused if the vendor is inactive by then, or never comes.
SaveVendor(v, isActive, openingPayables) ==
    /\ Does("vendor")
    /\ active' = IF isActive THEN active \cup {v} ELSE active \ {v}
    /\ \/ isActive /\ openingPayables > 0 /\ AddBill(v, openingPayables, NoDay)
       \/ UNCHANGED <<bills, vendorLedger>>
    /\ UNCHANGED bookVars

Remaining(b) == IF bills[b].total > bills[b].paid THEN bills[b].total - bills[b].paid ELSE 0
IsOpen(b) == bills[b].status \in {"UNPAID", "PARTIALLY_PAID"}

Pay(b, amount) ==
    /\ Does("bill")
    /\ IsOpen(b) /\ amount <= Remaining(b)
    /\ bills' = [bills EXCEPT ![b].paid = @ + amount,
                              ![b].status = IF amount = Remaining(b) THEN "PAID" ELSE "PARTIALLY_PAID"]
    /\ Record(bills[b].vendor, "PAYMENT", amount)
    /\ UNCHANGED <<bookVars, active>>

SetDueDate(b, due) ==
    /\ Does("bill")
    /\ IsOpen(b)
    /\ bills' = [bills EXCEPT ![b].dueDate = due]
    /\ UNCHANGED <<bookVars, active, vendorLedger>>

Void(b) ==
    /\ Does("bill")
    /\ bills[b].status # "VOID" /\ bills[b].paid = 0
    /\ bills' = [bills EXCEPT ![b].status = "VOID"]
    /\ Record(bills[b].vendor, "VOID", bills[b].total)
    /\ UNCHANGED <<bookVars, active>>

VendorStep ==
    \/ \E v \in Vendors, total \in scene.amounts, due \in {NoDay} \cup scene.dates : CreateBill(v, total, due)
    \/ \E v \in Vendors, isActive \in BOOLEAN, openingPayables \in {0} \cup scene.amounts :
           SaveVendor(v, isActive, openingPayables)
    \/ \E b \in DOMAIN bills :
           \/ \E amount \in scene.amounts : Pay(b, amount)
           \/ \E due \in scene.dates : SetDueDate(b, due)
           \/ Void(b)
-----------------------------------------------------------------------------
(* The readers. *)

BillsOf(v) == {b \in DOMAIN bills : bills[b].vendor = v}
RemainingOf(bs) == SumFunction([b \in bs |-> Remaining(b)])
BilledOn(bs) == SumFunction([b \in bs |-> bills[b].total])
PaidOn(bs) == SumFunction([b \in bs |-> bills[b].paid])

PayablesSummary(v) ==
    LET standing == {b \in BillsOf(v) : bills[b].status # "VOID"}
    IN  [billed |-> BilledOn(standing), paid |-> PaidOn(standing),
         open |-> RemainingOf({b \in standing : IsOpen(b)})]
OpenPayablesTotal(v) == PayablesSummary(v).open

VendorRows(v, from, to) ==
    {i \in DOMAIN vendorLedger : vendorLedger[i].who = v /\ InUtcDays(vendorLedger[i].at, from, to)}
VendorSum(rows) == SumFunction([i \in rows |-> vendorLedger[i].amount])
\* The running balance that the ledger shows last.
ListLedger(v, from, to) ==
    VendorSum({i \in DOMAIN vendorLedger : vendorLedger[i].who = v /\ vendorLedger[i].at < Midnight(from)})
    + VendorSum(VendorRows(v, from, to))

\* Mutant: bills without a due date are never due.
ListDuesDated(date) ==
    {b \in DOMAIN bills : IsOpen(b) /\ bills[b].dueDate \in 1..date /\ Remaining(b) > 0}

ListDues(date) ==
    {b \in DOMAIN bills : IsOpen(b) /\ bills[b].dueDate \in {NoDay} \cup 1..date /\ Remaining(b) > 0}
OverdueOn(date, bs) == {b \in bs : bills[b].dueDate # NoDay /\ bills[b].dueDate < date}

ListSchedule(ahead) ==
    {b \in DOMAIN bills : IsOpen(b) /\ bills[b].dueDate \in 1..(Today + ahead) /\ Remaining(b) > 0}

NotifyOverduePayables ==
    LET overdue == OverdueOn(Today, ListDues(Today))
    IN  [vendors |-> {bills[b].vendor : b \in overdue}, amount |-> RemainingOf(overdue)]

PurchasesByVendor(v, from, to) ==
    LET rows == {b \in BillsOf(v) : bills[b].status # "VOID" /\ bills[b].billDate \in from..to}
    IN  SumFunction([b \in rows |-> bills[b].total - bills[b].paid])
=============================================================================
