------------------------------ MODULE Invoices ------------------------------
(***************************************************************************)
(* Invoices of a customer and a period (invoices.service.ts): drafts made  *)
(* from the books, issued with the next number of the workspace, voided or *)
(* removed.                                                                *)
(*                                                                         *)
(* The reads of generate, and the checks of void and remove, come before   *)
(* the write.  The transactions of generate and issue read one snapshot    *)
(* (REPEATABLE READ) and then write; (tenant, invoiceNumber) is unique.    *)
(***************************************************************************)
EXTENDS CustomerBooks

CONSTANTS Desks,  \* requests that can be in progress at once
          Periods \* the periods asked for: [from, to]

VARIABLES
    invoices,       \* all rows ever made; removed rows have status "none"
    lastInvoiceSeq, \* TenantSettings
    desk,           \* [desk]: the request in progress
    crossed         \* history: invoices that two requests handled at once

invoiceVars == <<invoices, lastInvoiceSeq, desk, crossed>>

Idle == [op |-> "none"]
NoNumber == 0
Starts(k, frame) == desk[k] = Idle /\ desk' = [desk EXCEPT ![k] = frame]
Ends(k) == desk' = [desk EXCEPT ![k] = Idle]
Holds(k, op) == desk[k].op = op

Handled(frame) ==
    IF frame.op = "draft" THEN frame.replaces
    ELSE IF frame.op \in {"issue", "void", "remove"} THEN {frame.invoice} ELSE {}
Crossing(k, ids) == crossed' = crossed \cup UNION {ids \cap Handled(desk[other]) : other \in Desks \ {k}}

Overlaps(i, c, from, to) ==
    /\ invoices[i].who = c /\ invoices[i].status = "ISSUED"
    /\ from <= invoices[i].to /\ to >= invoices[i].from
NoOverlappingIssued(c, from, to, except) ==
    \A i \in DOMAIN invoices \ except : ~Overlaps(i, c, from, to)
-----------------------------------------------------------------------------
(* The lines: days of the wall clock, for instants and business dates alike. *)

Period(c, from, to) == {i \in EntriesOf(c) : InZonedDays(ledger[i].at, from, to, scene.zone)}

OpeningBalance(c, from) == Before(c, Midnight(from) - scene.zone)

DeliveryLines(c, from, to) ==
    {i \in DOMAIN deliveries : /\ deliveries[i].who = c /\ deliveries[i].live
                               /\ InZonedDays(Midnight(deliveries[i].date), from, to, scene.zone)}
OrderLines(c, from, to) == {i \in Billable(from, to) : orders[i].who = c}
SalesTotal(c, from, to) == SalesOf(DeliveryLines(c, from, to)) + TotalOf(OrderLines(c, from, to))

PaymentsTotal(c, from, to) == -Sum({i \in Period(c, from, to) : ledger[i].type = "PAYMENT"})

\* Mutant: an opening balance posted in the period is left out.
AdjustmentsTotalNoOpening(c, from, to) ==
    Sum({i \in Period(c, from, to) : ledger[i].type = "ADJUSTMENT"})

AdjustmentsTotal(c, from, to) ==
    Sum({i \in Period(c, from, to) : ledger[i].type \in {"ADJUSTMENT", "OPENING_BALANCE"}})
-----------------------------------------------------------------------------
(* generate: the reads, one after the other; drafts to replace; the write.  *)

BeginGenerate(k, c, p) ==
    /\ Does("invoice") /\ c \in scene.who
    /\ Len(invoices) < scene.invoices
    /\ NoOverlappingIssued(c, p.from, p.to, {})
    /\ Starts(k, [op |-> "reads", who |-> c, from |-> p.from, to |-> p.to,
                  opening |-> OpeningBalance(c, p.from), sales |-> SalesTotal(c, p.from, p.to),
                  seen |-> {ledger}])
    /\ UNCHANGED <<bookVars, invoices, lastInvoiceSeq, crossed>>

ReadLedger(k) ==
    /\ Holds(k, "reads")
    /\ LET f == desk[k]
           drafts == {i \in DOMAIN invoices : /\ invoices[i].status = "DRAFT" /\ invoices[i].who = f.who
                                              /\ invoices[i].from = f.from /\ invoices[i].to = f.to}
       IN /\ desk' = [desk EXCEPT ![k] =
                [op |-> "draft", who |-> f.who, from |-> f.from, to |-> f.to, replaces |-> drafts,
                 seen |-> f.seen \cup {ledger},
                 closing |-> f.opening + f.sales - PaymentsTotal(f.who, f.from, f.to)
                             + AdjustmentsTotal(f.who, f.from, f.to)]]
          /\ Crossing(k, drafts)
    /\ UNCHANGED <<bookVars, invoices, lastInvoiceSeq>>

Gone(i) == [invoices[i] EXCEPT !.status = "none"]

\* What was a draft when the transaction read it is deleted, whatever it is by now.
CommitGenerate(k) ==
    /\ Holds(k, "draft")
    /\ Len(invoices) < scene.invoices
    /\ LET f == desk[k] IN
           invoices' = Append([i \in DOMAIN invoices |-> IF i \in f.replaces THEN Gone(i) ELSE invoices[i]],
                              [who |-> f.who, from |-> f.from, to |-> f.to, status |-> "DRAFT",
                               number |-> NoNumber, closing |-> f.closing])
    /\ Ends(k)
    /\ UNCHANGED <<bookVars, lastInvoiceSeq, crossed>>

\* A query fails, or the process dies, before the write.
Abort(k) ==
    /\ desk[k] # Idle
    /\ Ends(k)
    /\ UNCHANGED <<bookVars, invoices, lastInvoiceSeq, crossed>>
-----------------------------------------------------------------------------
(* issue, void, removeDraft. *)

\* Mutant: the overlap check is left to generate.
BeginIssueUnchecked(k, i) ==
    /\ invoices[i].status = "DRAFT"
    /\ Starts(k, [op |-> "issue", invoice |-> i, number |-> lastInvoiceSeq + 1])
    /\ Crossing(k, {i})
    /\ UNCHANGED <<bookVars, invoices, lastInvoiceSeq>>

BeginIssue(k, i) ==
    /\ invoices[i].status = "DRAFT"
    /\ NoOverlappingIssued(invoices[i].who, invoices[i].from, invoices[i].to, {i})
    /\ Starts(k, [op |-> "issue", invoice |-> i, number |-> lastInvoiceSeq + 1])
    /\ Crossing(k, {i})
    /\ UNCHANGED <<bookVars, invoices, lastInvoiceSeq>>

\* Fails on a row that is gone or a number that another row has.
CommitIssue(k) ==
    /\ Holds(k, "issue")
    /\ LET f == desk[k] IN
           IF \/ invoices[f.invoice].status = "none"
              \/ \E j \in DOMAIN invoices \ {f.invoice} :
                     invoices[j].number = f.number /\ invoices[j].status # "none"
           THEN UNCHANGED <<invoices, lastInvoiceSeq>>
           ELSE /\ lastInvoiceSeq' = f.number
                /\ invoices' = [invoices EXCEPT ![f.invoice].status = "ISSUED",
                                                ![f.invoice].number = f.number]
    /\ Ends(k)
    /\ UNCHANGED <<bookVars, crossed>>

BeginVoid(k, i) ==
    /\ invoices[i].status = "ISSUED"
    /\ Starts(k, [op |-> "void", invoice |-> i])
    /\ Crossing(k, {i})
    /\ UNCHANGED <<bookVars, invoices, lastInvoiceSeq>>

CommitVoid(k) ==
    /\ Holds(k, "void")
    /\ LET i == desk[k].invoice IN
           invoices' = [invoices EXCEPT ![i] = IF @.status = "none" THEN @ ELSE [@ EXCEPT !.status = "VOID"]]
    /\ Ends(k)
    /\ UNCHANGED <<bookVars, lastInvoiceSeq, crossed>>

\* Mutant: the status is not looked at.
BeginRemoveDraftAny(k, i) ==
    /\ invoices[i].status # "none"
    /\ Starts(k, [op |-> "remove", invoice |-> i])
    /\ Crossing(k, {i})
    /\ UNCHANGED <<bookVars, invoices, lastInvoiceSeq>>

BeginRemoveDraft(k, i) ==
    /\ invoices[i].status = "DRAFT"
    /\ Starts(k, [op |-> "remove", invoice |-> i])
    /\ Crossing(k, {i})
    /\ UNCHANGED <<bookVars, invoices, lastInvoiceSeq>>

CommitRemoveDraft(k) ==
    /\ Holds(k, "remove")
    /\ invoices' = [invoices EXCEPT ![desk[k].invoice] = Gone(desk[k].invoice)]
    /\ Ends(k)
    /\ UNCHANGED <<bookVars, lastInvoiceSeq, crossed>>

InvoiceStep(k) ==
    \/ \E c \in Customers, p \in Periods : BeginGenerate(k, c, p)
    \/ \E i \in DOMAIN invoices : BeginIssue(k, i) \/ BeginVoid(k, i) \/ BeginRemoveDraft(k, i)
    \/ ReadLedger(k) \/ CommitGenerate(k) \/ CommitIssue(k) \/ CommitVoid(k) \/ CommitRemoveDraft(k)
    \/ Abort(k)
=============================================================================
