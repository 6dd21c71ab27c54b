------------------------------ MODULE FieldCash ------------------------------
(***************************************************************************)
(* The cash that riders carry, and the visits on which it is collected     *)
(* (cash-handovers.service.ts, expenses.service.ts, collections.service.ts *)
(* and the reports on them).                                               *)
(*                                                                         *)
(* A rider's balance is summed before the handover is written; a visit     *)
(* writes its payment, its promise and itself one after the other.         *)
(***************************************************************************)
EXTENDS CustomerFiles

CONSTANT Days

VARIABLES
    handovers,  \* CashHandover rows
    expenses,   \* Expense rows
    receipts,   \* Payment rows made on a visit
    visits      \* CollectionVisit rows; receipt is 0 where there is none

cashVars == <<handovers, expenses, receipts, visits>>

Live(rows) == {i \in DOMAIN rows : rows[i].live}
Without(rows, i) == [rows EXCEPT ![i].live = FALSE]
-----------------------------------------------------------------------------
(* cash-handovers.service.ts *)

DropsOf(r) == {d \in Live(drops) : trips[drops[d].trip].rider = r}
PaidBy(r) == {x \in Live(expenses) : expenses[x].byRider /\ expenses[x].staff = r}
HandoversOf(r) == {h \in Live(handovers) : handovers[h].rider = r}

DropCash(rows) == SumFunction([d \in rows |-> drops[d].cash])
Handed(rows) == SumFunction([h \in rows |-> handovers[h].amount])
CashCollected(r) == DropCash(DropsOf(r))
RiderPaid(r) == SumFunction([x \in PaidBy(r) |-> expenses[x].amount])
HandedOver(r) == Handed(HandoversOf(r))
RiderCashBalance(r) == CashCollected(r) - RiderPaid(r) - HandedOver(r)

Handover(h) == <<"handover", h>>

BeginCreateHandover(k, r, amount, day) ==
    /\ Does("handover")
    /\ amount > 0 /\ amount <= RiderCashBalance(r)
    /\ Starts(k, [op |-> "newHandover", on |-> {Rider(r)},
                  row |-> [rider |-> r, amount |-> amount, day |-> day, live |-> TRUE]])
    /\ UNCHANGED <<fileVars, cashVars>>

CommitCreateHandover(k) ==
    /\ Holds(k, "newHandover")
    /\ Len(handovers) < scene.rows
    /\ handovers' = Append(handovers, desk[k].row)
    /\ Ends(k)
    /\ UNCHANGED <<fileVars, expenses, receipts, visits>>

\* Mutant: the amount is freed also when the handover goes to another rider.
BeginUpdateHandoverFreed(k, h, put) ==
    /\ Does("handover")
    /\ h \in Live(handovers)
    /\ LET old == handovers[h]
           new == Patched(old, put)
       IN  /\ new.amount <= RiderCashBalance(new.rider) + old.amount
           /\ Starts(k, [op |-> "handover", on |-> {Handover(h), Rider(old.rider), Rider(new.rider)},
                         id |-> h, put |-> put, rider |-> new.rider])
    /\ UNCHANGED <<fileVars, cashVars>>

\* The rider is always written, the amount and the date only if they are given.
BeginUpdateHandover(k, h, put) ==
    /\ Does("handover")
    /\ h \in Live(handovers)
    /\ LET old == handovers[h]
           new == Patched(old, put)
           freed == IF new.rider = old.rider THEN old.amount ELSE 0
       IN  /\ new.amount <= RiderCashBalance(new.rider) + freed
           /\ Starts(k, [op |-> "handover", on |-> {Handover(h), Rider(old.rider), Rider(new.rider)},
                         id |-> h, put |-> put, rider |-> new.rider])
    /\ UNCHANGED <<fileVars, cashVars>>

CommitUpdateHandover(k) ==
    /\ Holds(k, "handover")
    /\ LET f == desk[k] IN
           handovers' = IF f.id \in Live(handovers)
                        THEN [handovers EXCEPT ![f.id] = [Patched(@, f.put) EXCEPT !.rider = f.rider]]
                        ELSE handovers
    /\ Ends(k)
    /\ UNCHANGED <<fileVars, expenses, receipts, visits>>

RemoveHandover(h) ==
    /\ Does("handover")
    /\ h \in Live(handovers)
    /\ handovers' = Without(handovers, h)
    /\ Touches({Handover(h), Rider(handovers[h].rider)})
    /\ UNCHANGED <<fileVars, expenses, receipts, visits>>
-----------------------------------------------------------------------------
(* expenses.service.ts *)

\* assertRiderPaidRequiresStaff.
HasPayer(x) == x.byRider => x.staff # Nobody
Expense(x) == <<"expense", x>>

CreateExpense(staff, byRider, amount, day) ==
    /\ Does("expense")
    /\ Len(expenses) < scene.rows
    /\ LET row == [staff |-> staff, byRider |-> byRider, amount |-> amount, day |-> day, live |-> TRUE]
       IN  HasPayer(row) /\ expenses' = Append(expenses, row)
    /\ Touches({Rider(staff)})
    /\ UNCHANGED <<fileVars, handovers, receipts, visits>>

\* The check is made on the row as it was read; only what is given is written.
BeginUpdateExpense(k, x, put) ==
    /\ Does("expense")
    /\ x \in Live(expenses)
    /\ HasPayer(Patched(expenses[x], put))
    /\ Starts(k, [op |-> "expense", id |-> x, put |-> put,
                  on |-> {Expense(x), Rider(expenses[x].staff), Rider(Patched(expenses[x], put).staff)}])
    /\ UNCHANGED <<fileVars, cashVars>>

CommitUpdateExpense(k) ==
    /\ Holds(k, "expense")
    /\ LET f == desk[k] IN
           /\ expenses' = IF f.id \in Live(expenses) THEN [expenses EXCEPT ![f.id] = Patched(@, f.put)]
                          ELSE expenses
           /\ EndsTouching(k, {Rider(expenses[f.id].staff)})
    /\ UNCHANGED <<fileVars, handovers, receipts, visits>>

RemoveExpense(x) ==
    /\ Does("expense")
    /\ x \in Live(expenses)
    /\ expenses' = Without(expenses, x)
    /\ Touches({Expense(x), Rider(expenses[x].staff)})
    /\ UNCHANGED <<fileVars, handovers, receipts, visits>>
-----------------------------------------------------------------------------
(* collections.service.ts *)

\* An outcome that collects needs an amount; a rider sees only customers of his own.
BeginVisit(k, c, collector, outcome, amount, day) ==
    /\ Does("visit")
    /\ Len(visits) + Len(receipts) < scene.rows
    /\ files[c].status = "ACTIVE"
    /\ outcome = "COLLECTED" => amount > 0
    /\ Starts(k, [op |-> "visit", on |-> {Customer(c)}, at |-> "pay",
                  row |-> [who |-> c, collector |-> collector, outcome |-> outcome,
                           amount |-> amount, receipt |-> 0, day |-> day]])
    /\ UNCHANGED <<fileVars, cashVars>>

\* A payment clears the promise of a customer who owes nothing any more; it may also do so
\* when what he has paid since the promised day covers it.
VisitPays(k) ==
    /\ Holds(k, "visit") /\ desk[k].at = "pay"
    /\ LET row == desk[k].row IN
           /\ desk' = [desk EXCEPT ![k].at = "promise",
                                   ![k].row.receipt = IF row.amount > 0 THEN Len(receipts) + 1 ELSE 0]
           /\ IF row.amount = 0 THEN UNCHANGED <<files, entries, receipts>>
              ELSE /\ receipts' = Append(receipts, [who |-> row.who, amount |-> row.amount, live |-> TRUE])
                   /\ entries' = entries \o Entry(row.who, "PAYMENT", -row.amount)
                   /\ \E kept \in IF Balance(row.who) <= row.amount THEN {FALSE} ELSE BOOLEAN :
                          files' = [files EXCEPT ![row.who].promised = @ /\ kept]
    /\ UNCHANGED <<scene, crossed, cans, trips, drops, yard, handovers, expenses, visits>>

\* The promise is written with no look at what the payment has left open.
VisitPromises(k) ==
    /\ Holds(k, "visit") /\ desk[k].at = "promise"
    /\ desk' = [desk EXCEPT ![k].at = "record"]
    /\ files' = IF desk[k].row.outcome = "PROMISED" THEN [files EXCEPT ![desk[k].row.who].promised = TRUE]
                ELSE files
    /\ UNCHANGED <<scene, crossed, entries, cans, trips, drops, yard, cashVars>>

\* Mutant: the visit does not say which payment it made.
VisitRecordsUnlinked(k) ==
    /\ Holds(k, "visit") /\ desk[k].at = "record"
    /\ visits' = Append(visits, [desk[k].row EXCEPT !.receipt = 0])
    /\ Ends(k)
    /\ UNCHANGED <<fileVars, handovers, expenses, receipts>>

\* It fails if the payment has been removed meanwhile.
VisitRecords(k) ==
    /\ Holds(k, "visit") /\ desk[k].at = "record"
    /\ LET row == desk[k].row IN
           visits' = IF row.receipt \in DOMAIN receipts \ Live(receipts) THEN visits ELSE Append(visits, row)
    /\ Ends(k)
    /\ UNCHANGED <<fileVars, handovers, expenses, receipts>>

\* remove of payments.service.ts: the entries of the payment and the visit's link go with it.
RemovePayment(p) ==
    /\ Does("visit") /\ Does("removal")
    /\ p \in Live(receipts)
    /\ receipts' = Without(receipts, p)
    /\ entries' = entries \o Entry(receipts[p].who, "ADJUSTMENT", receipts[p].amount)
    /\ visits' = [v \in DOMAIN visits |-> IF visits[v].receipt = p THEN [visits[v] EXCEPT !.receipt = 0]
                                          ELSE visits[v]]
    /\ Touches({Customer(receipts[p].who)})
    /\ UNCHANGED <<files, cans, trips, drops, yard, handovers, expenses>>
-----------------------------------------------------------------------------
(* Readers. *)

\* riderRows of the dashboard: what a rider collected and handed over on a day.
CollectedOn(r, day) == DropCash({d \in DropsOf(r) : drops[d].day = day})
HandedOverOn(r, day) == Handed({h \in HandoversOf(r) : handovers[h].day = day})
\* summary of a run.
RunCash(t) == DropCash(LiveDrops(t))
\* collectionPerformance, by collector, over a range of days.
CollectedBy(collector, days) ==
    SumFunction([v \in {v \in DOMAIN visits : visits[v].collector = collector /\ visits[v].day \in days}
                     |-> visits[v].amount])

CashStep ==
    \/ \E amount \in scene.amounts, day \in scene.days :
           \/ \E k \in Desks :
                  \/ \E r \in Riders : BeginCreateHandover(k, r, amount, day)
                  \/ \E c \in scene.who, r \in Riders, outcome \in {"COLLECTED", "PROMISED", "NO_CONTACT"} :
                         BeginVisit(k, c, r, outcome, amount, day)
           \/ \E staff \in Riders \cup {Nobody}, byRider \in BOOLEAN :
                  CreateExpense(staff, byRider, amount, day)
    \/ \E k \in Desks :
           \/ \E h \in DOMAIN handovers, put \in scene.edits : BeginUpdateHandover(k, h, put)
           \/ \E x \in DOMAIN expenses, put \in scene.edits : BeginUpdateExpense(k, x, put)
           \/ CommitCreateHandover(k) \/ CommitUpdateHandover(k) \/ CommitUpdateExpense(k)
           \/ VisitPays(k) \/ VisitPromises(k) \/ VisitRecords(k)
    \/ \E h \in DOMAIN handovers : RemoveHandover(h)
    \/ \E x \in DOMAIN expenses : RemoveExpense(x)
    \/ \E p \in DOMAIN receipts : RemovePayment(p)
=============================================================================
