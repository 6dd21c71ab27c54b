---------------------------- MODULE CustomerFiles ----------------------------
(***************************************************************************)
(* The files of the customers and the returnable cans of one packaging     *)
(* type (customers.service.ts, container-inventory.service.ts), with what  *)
(* the trips of delivery-runs.service.ts and deliveries.service.ts do to   *)
(* both.                                                                   *)
(*                                                                         *)
(* An update of a customer reads in a snapshot that is older than its      *)
(* writes; whether he may be deactivated is checked before.                *)
(***************************************************************************)
EXTENDS Requests, SequencesExt

CONSTANTS Customers, Riders,
          Nobody   \* stands for the customer of a movement, or the rider of an expense, that has none

VARIABLES
    files,    \* Customer rows
    entries,  \* customer_ledger_entries; a deleted row has type "deleted"
    cans,     \* container_movements
    trips,    \* DeliveryRun rows with their can stock
    drops,    \* Delivery rows
    yard      \* history: the cans that are in the yard

fileVars == <<files, entries, cans, trips, drops, yard>>

Customer(c) == <<"customer", c>>
Rider(r) == <<"rider", r>>
-----------------------------------------------------------------------------
(* What the rows add up to. *)

NoEntry == 0
EntriesOf(c) == {i \in DOMAIN entries : entries[i].who = c}
Openings(c) == {i \in EntriesOf(c) : entries[i].type = "OPENING_BALANCE"}
FirstOpening(c) == IF Openings(c) = {} THEN NoEntry ELSE Min(Openings(c))
Amount(rows) == SumFunction([i \in rows |-> entries[i].amount])
Balance(c) == Amount({i \in EntriesOf(c) : entries[i].type # "deleted"})

\* customerContainerSignedQty, ownedPoolSignedQty.
WithCustomer(m) ==
    IF m.type \in {"OPENING_WITH_CUSTOMER", "DELIVERED_TO_CUSTOMER", "ADJUSTMENT"} THEN m.qty
    ELSE IF m.type = "RETURNED_FROM_CUSTOMER" THEN -m.qty ELSE 0
InFleet(m) ==
    IF m.type \in {"OPENING_ON_HAND", "ADJUSTMENT"} THEN m.qty
    ELSE IF m.type \in {"LOST", "DAMAGED"} THEN -m.qty ELSE 0

CansOf(c) == {i \in DOMAIN cans : cans[i].who = c}
ContainerBalance(c) == SumFunction([i \in CansOf(c) |-> WithCustomer(cans[i])])
OwnedTotal == SumFunction([i \in CansOf(Nobody) |-> InFleet(cans[i])])

LiveDrops(t) == {d \in DOMAIN drops : drops[d].trip = t /\ drops[d].live}
Out(t) == SumFunction([d \in LiveDrops(t) |-> drops[d].out])
Back(t) == SumFunction([d \in LiveDrops(t) |-> drops[d].back])
OpenTrips == {t \in DOMAIN trips : trips[t].open}

\* Mutant: cans of cancelled deliveries are taken off the vehicles too.
OnVehiclesAnyDrop ==
    SumFunction([t \in OpenTrips |-> trips[t].filled])
    - SumFunction([d \in {d \in DOMAIN drops : drops[d].trip \in OpenTrips} |-> drops[d].out])

\* inventory: only the open runs, only their filled cans, less what they have delivered.
OnVehicles == SumFunction([t \in OpenTrips |-> trips[t].filled - Out(t)])
OnHand == OwnedTotal - SumFunction([c \in Customers |-> ContainerBalance(c)]) - OnVehicles

\* summary of a closed run: what was loaded or taken back and is not counted at its end.
MissingContainers(t) ==
    (trips[t].filled - Out(t)) + (trips[t].empty + Back(t)) - trips[t].counted

\* assertCanDeactivate.
CanDeactivate(c) == Balance(c) = 0 /\ ContainerBalance(c) <= 0
-----------------------------------------------------------------------------
(* customers.service.ts *)

Entry(c, type, amount) ==
    IF amount = 0 THEN <<>> ELSE <<[who |-> c, type |-> type, amount |-> amount]>>
Cans(c, type, qty) == IF qty = 0 THEN <<>> ELSE <<[who |-> c, type |-> type, qty |-> qty]>>

CreateCustomer(c, opening, holds, status) ==
    /\ Does("customer")
    /\ files[c].status = "none"
    /\ files' = [files EXCEPT ![c].status = status, ![c].opening = opening]
    /\ entries' = entries \o Entry(c, "OPENING_BALANCE", opening)
    /\ cans' = cans \o Cans(c, "OPENING_WITH_CUSTOMER", holds)
    /\ yard' = yard - holds
    /\ UNCHANGED <<requestVars, trips, drops>>

\* Mutant: the dues and the cans are looked at by softDelete only.
BeginUpdateCustomerUnchecked(k, c, put) ==
    /\ Does("customer")
    /\ files[c].status # "none"
    /\ Starts(k, [op |-> "customer", on |-> {Customer(c)}, who |-> c, put |-> put,
                  seen |-> FirstOpening(c)])
    /\ UNCHANGED fileVars

\* The first opening entry is looked for in the snapshot of the transaction.
BeginUpdateCustomer(k, c, put) ==
    /\ Does("customer")
    /\ files[c].status # "none"
    /\ "status" \in DOMAIN put /\ put.status = "INACTIVE" /\ files[c].status # "INACTIVE" => CanDeactivate(c)
    /\ Starts(k, [op |-> "customer", on |-> {Customer(c)}, who |-> c, put |-> put,
                  seen |-> FirstOpening(c)])
    /\ UNCHANGED fileVars

\* Mutant: another opening entry is added.
SetOpeningEntryTwice(c, seen, opening) == entries' = entries \o Entry(c, "OPENING_BALANCE", opening)

\* The entry that was seen is deleted or changed by id, which fails if it is gone.
SetOpeningEntry(c, seen, opening) ==
    IF seen = NoEntry THEN entries' = entries \o Entry(c, "OPENING_BALANCE", opening)
    ELSE entries' = [entries EXCEPT ![seen] =
                        IF opening = 0 THEN [@ EXCEPT !.type = "deleted"] ELSE [@ EXCEPT !.amount = opening]]

CommitUpdateCustomer(k) ==
    /\ Holds(k, "customer") /\ Len(entries) < scene.rows
    /\ LET f == desk[k]
           gone == f.seen # NoEntry /\ entries[f.seen].type = "deleted"
       IN  IF "opening" \notin DOMAIN f.put
           THEN files' = [files EXCEPT ![f.who] = Patched(@, f.put)] /\ UNCHANGED entries
           ELSE IF gone THEN UNCHANGED <<files, entries>>
           ELSE /\ files' = [files EXCEPT ![f.who] = Patched(@, f.put)]
                /\ SetOpeningEntry(f.who, f.seen, f.put.opening)
    /\ Ends(k)
    /\ UNCHANGED <<cans, trips, drops, yard>>

\* softDelete: the check, then the status by id.
BeginDeactivate(k, c) ==
    /\ Does("customer")
    /\ files[c].status = "ACTIVE"
    /\ CanDeactivate(c)
    /\ Starts(k, [op |-> "customer", on |-> {Customer(c)}, who |-> c,
                  put |-> [status |-> "INACTIVE"], seen |-> NoEntry])
    /\ UNCHANGED fileVars

AdjustContainers(c, delta) ==
    /\ Does("cans")
    /\ Len(cans) < scene.rows
    /\ files[c].status # "none" /\ delta # 0
    /\ cans' = cans \o Cans(c, "ADJUSTMENT", delta)
    /\ yard' = yard - delta
    /\ Touches({Customer(c)})
    /\ UNCHANGED <<files, entries, trips, drops>>
-----------------------------------------------------------------------------
(* container-inventory.service.ts *)

\* setOpening looks for an opening in its snapshot, then inserts one.
BeginSetOpening(k, qty) ==
    /\ Does("cans")
    /\ \A i \in DOMAIN cans : cans[i].type # "OPENING_ON_HAND"
    /\ Starts(k, [op |-> "fleet", on |-> {<<"fleet", "opening">>}, qty |-> qty])
    /\ UNCHANGED fileVars

CommitSetOpening(k) ==
    /\ Holds(k, "fleet")
    /\ cans' = cans \o Cans(Nobody, "OPENING_ON_HAND", desk[k].qty)
    /\ yard' = yard + desk[k].qty
    /\ Ends(k)
    /\ UNCHANGED <<files, entries, trips, drops>>

AdjustOwned(type, qty) ==
    /\ Does("cans")
    /\ Len(cans) < scene.rows
    /\ qty # 0 /\ (type \in {"LOST", "DAMAGED"} => qty > 0)
    /\ LET row == Cans(Nobody, type, qty) IN cans' = cans \o row /\ yard' = yard + InFleet(row[1])
    /\ UNCHANGED <<requestVars, files, entries, trips, drops>>
-----------------------------------------------------------------------------
(* Trips.  Their own protocol is in DeliveryRuns; here each request is one  *)
(* step, and the cans of a run are loaded and counted by packaging type.    *)

OpenTrip(r, filled, empty) ==
    /\ Does("trip")
    /\ Len(trips) < scene.trips
    /\ trips' = Append(trips, [rider |-> r, open |-> TRUE, filled |-> filled, empty |-> empty, counted |-> 0])
    /\ yard' = yard - filled - empty
    /\ UNCHANGED <<requestVars, files, entries, cans, drops>>

\* update of a run: not below what is already delivered.
ReloadTrip(t, filled, empty) ==
    /\ Does("trip")
    /\ trips[t].open /\ filled >= Out(t)
    /\ trips' = [trips EXCEPT ![t].filled = filled, ![t].empty = empty]
    /\ yard' = yard + (trips[t].filled + trips[t].empty) - (filled + empty)
    /\ UNCHANGED <<requestVars, files, entries, cans, drops>>

Deliver(t, c, s) ==
    /\ Does("trip")
    /\ Len(drops) < scene.drops
    /\ trips[t].open /\ files[c].status = "ACTIVE"
    /\ s.out <= trips[t].filled - Out(t)
    /\ drops' = Append(drops, [trip |-> t, who |-> c, out |-> s.out, back |-> s.back, sale |-> s.sale,
                               cash |-> s.cash, day |-> s.day, live |-> TRUE])
    /\ entries' = entries \o Entry(c, "DELIVERY_SALE", s.sale) \o Entry(c, "PAYMENT", -s.cash)
    /\ cans' = cans \o Cans(c, "DELIVERED_TO_CUSTOMER", s.out) \o Cans(c, "RETURNED_FROM_CUSTOMER", s.back)
    /\ Touches({Customer(c), Rider(trips[t].rider)})
    /\ UNCHANGED <<files, trips, yard>>

\* Every movement is reversed by an ADJUSTMENT of the negated quantity, also one that took
\* empties back: the customer loses them twice.
CancelDrop(d) ==
    /\ Does("trip") /\ Does("cancel")
    /\ drops[d].live /\ trips[drops[d].trip].open
    /\ drops' = [drops EXCEPT ![d].live = FALSE]
    /\ LET s == drops[d] IN
           /\ entries' = entries \o Entry(s.who, "ADJUSTMENT", -s.sale) \o Entry(s.who, "ADJUSTMENT", s.cash)
           /\ cans' = cans \o Cans(s.who, "ADJUSTMENT", -s.out) \o Cans(s.who, "ADJUSTMENT", -s.back)
           /\ Touches({Customer(s.who), Rider(trips[s.trip].rider)})
    /\ UNCHANGED <<files, trips, yard>>

CloseTrip(t, counted) ==
    /\ Does("trip")
    /\ trips[t].open
    /\ trips' = [trips EXCEPT ![t].open = FALSE, ![t].counted = counted]
    /\ yard' = yard + counted
    /\ UNCHANGED <<requestVars, files, entries, cans, drops>>

\* deliver of an order: from the yard, without a run.
HandOver(c, s) ==
    /\ Does("cans")
    /\ Len(cans) < scene.rows
    /\ files[c].status # "none"
    /\ cans' = cans \o Cans(c, "DELIVERED_TO_CUSTOMER", s.out) \o Cans(c, "RETURNED_FROM_CUSTOMER", s.back)
    /\ yard' = yard - s.out + s.back
    /\ Touches({Customer(c)})
    /\ UNCHANGED <<files, entries, trips, drops>>

FileStep ==
    \/ \E c \in scene.who :
           \/ \E opening \in scene.amounts, holds \in scene.loads, status \in {"ACTIVE", "INACTIVE"} :
                  CreateCustomer(c, opening, holds, status)
           \/ \E k \in Desks :
                  \/ \E put \in scene.puts : BeginUpdateCustomer(k, c, put)
                  \/ BeginDeactivate(k, c)
           \/ \E delta \in scene.deltas : AdjustContainers(c, delta)
           \/ \E s \in scene.stops : HandOver(c, s) \/ \E t \in DOMAIN trips : Deliver(t, c, s)
    \/ \E type \in {"ADJUSTMENT", "LOST", "DAMAGED"}, delta \in scene.deltas : AdjustOwned(type, delta)
    \/ \E k \in Desks :
           \/ \E qty \in scene.loads : BeginSetOpening(k, qty)
           \/ CommitUpdateCustomer(k) \/ CommitSetOpening(k)
    \/ \E filled, empty \in scene.loads :
           \/ \E r \in Riders : OpenTrip(r, filled, empty)
           \/ \E t \in DOMAIN trips : ReloadTrip(t, filled, empty)
    \/ \E d \in DOMAIN drops : CancelDrop(d)
    \/ \E t \in DOMAIN trips, counted \in scene.loads : CloseTrip(t, counted)
=============================================================================
