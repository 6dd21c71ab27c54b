---------------------------- MODULE DeliveryRuns ----------------------------
(***************************************************************************)
(* A delivery run: the truck is loaded from the warehouse or from refill   *)
(* batches, delivers to customers, and is closed with a count and a return *)
(* to the warehouse (delivery-runs.service.ts, deliveries.service.ts).     *)
(*                                                                         *)
(* Requests are the two-step transactions of CustomerAccount: the checks   *)
(* read one snapshot; increments, locked reads and unique keys act on the  *)
(* rows as they are at the write.  All writes of a request are one step,   *)
(* since each of them locks the row of its run.  Quantities are counted in *)
(* packaging units; the shared can pool per packaging type is left out.    *)
(***************************************************************************)
EXTENDS CustomerAccount

CONSTANTS
    Runs, Products,
    Tracked,        \* the returnable products, whose containers are counted
    Price, Stock,   \* selling prices; the warehouse at the beginning
    Batches,        \* refill batches
    NoRefill

Quantities == [Products -> Nat]
IsLoad(f) == DOMAIN f \subseteq Products /\ f \in [DOMAIN f -> Nat]
Promises == [due : Int, amount : Nat]

(* What the DTOs let in: whole quantities, and none that is negative. *)
ASSUME InputsAssumption ==
    /\ IsFiniteSet(Runs) /\ IsFiniteSet(Products) /\ Tracked \subseteq Products
    /\ Price \in Quantities /\ Stock \in Quantities
    /\ NoPromise \notin [due : Int, amount : Nat, delivery : Nat] \cup Promises
    /\ \A s \in Scenes :
        /\ IsFiniteSet(s.clerks) /\ s.inventory \in BOOLEAN
        /\ \A f \in s.loads \cup s.closings \cup s.returns : IsLoad(f)
        /\ s.filled \in [Batches -> Nat] /\ s.fills \subseteq Nat \ {0}
        /\ s.refills \subseteq [batch : Batches, product : Products, qty : Nat]
        /\ s.stops \subseteq [customer : Customers, items : Quantities, empties : Quantities,
                              cash : Nat, day : Int, promised : Promises \cup {NoPromise}]
        /\ s.payments \subseteq [customer : Customers, amount : Nat, day : Int]
        /\ s.edits \subseteq [amount : Nat, day : Int]

VARIABLES
    run,        \* status and running totals of each run
    opening,    \* OPENING rows: filledCount, 0 where there is no row
    closing,    \* CLOSING rows: a function on the products that have one
    returned,   \* TRANSFER_IN movements of each run
    warehouse,  \* the balance of the load location
    outs,       \* TRANSFER_OUT movements: [run, product, qty, no]
    filled,     \* RefillBatch: the cans each batch filled, 0 where there is no row
    loaded,     \* DeliveryRunRefillLoad: cans taken from each batch
    custody,    \* container_movements: containers each customer holds
    updates     \* how many loads have been posted (numbers the OUT rows)

truck == <<run, opening, closing, returned>>
store == <<warehouse, outs, filled, loaded, updates>>
vars == <<scene, truck, store, custody, deliveries, account, pending>>

(* f, and g wherever f says nothing. *)
Over(f, g) == [x \in DOMAIN f \cup DOMAIN g |-> IF x \in DOMAIN f THEN f[x] ELSE g[x]]

None == [p \in Products |-> 0]
Fill(load) == Over(load, None)

Init ==
    /\ scene \in Scenes
    /\ run = [r \in Runs |-> [status |-> "none", sales |-> 0, cash |-> 0]]
    /\ opening = [r \in Runs |-> None]
    /\ closing = [r \in Runs |-> <<>>]
    /\ returned = [r \in Runs |-> None]
    /\ warehouse = Stock
    /\ outs = {}
    /\ filled = scene.filled
    /\ loaded = [b \in Batches |-> 0]
    /\ custody = [cust \in Customers |-> 0]
    /\ updates = 0
    /\ deliveries = <<>>
    /\ balance = [cust \in Customers |-> 0]
    /\ payments = <<>>
    /\ promise = [cust \in Customers |-> NoPromise]
    /\ pending = [c \in Clerks |-> NoTx]

Standing(r) == {d \in DOMAIN deliveries :
                   deliveries[d].run = r /\ deliveries[d].status = "DELIVERED"}
Delivered(r, p) == SumFunction([d \in Standing(r) |-> deliveries[d].items[p]])
Sales(r) == SumFunction([d \in Standing(r) |-> deliveries[d].sale])
Cash(r) == SumFunction([d \in Standing(r) |-> deliveries[d].cash])

(* computeLeftoverFilled *)
Leftover(r, p) == Max({0, opening[r][p] - Delivered(r, p)})

(* postTruckLoadWarehouseOut: the balance is read under its lock. *)
Available(load, stock) == \A p \in DOMAIN load : load[p] <= stock[p]
OutRows(r, load) == {[run |-> r, product |-> p, qty |-> load[p], no |-> updates] :
                        p \in {q \in DOMAIN load : load[q] > 0}}
-----------------------------------------------------------------------------
(* Create a run.  resolveRefillLoads reads what is left of the batch; what *)
(* a batch gives is the opening quantity of its product.                   *)
BeginCreate(c, r, load, refill) ==
    /\ run[r].status = "none"
    /\ \A x \in Clerks : In(x, "create") => pending[x].run # r
    /\ refill # NoRefill => refill.qty <= filled[refill.batch] - loaded[refill.batch]
    /\ Open(c, [op |-> "create", run |-> r, refill |-> refill,
                load |-> IF refill = NoRefill THEN load
                         ELSE Over([p \in {refill.product} |-> refill.qty], load)])
    /\ UNCHANGED <<truck, store, custody, deliveries, account>>

CommitCreate(c) ==
    /\ In(c, "create")
    /\ LET tx == pending[c] IN
           /\ run' = [run EXCEPT ![tx.run].status = "OPEN"]
           /\ opening' = [opening EXCEPT ![tx.run] = Fill(tx.load)]
           /\ tx.refill # NoRefill => filled[tx.refill.batch] > 0   \* foreign key
           /\ loaded' = IF tx.refill = NoRefill THEN loaded
                        ELSE [loaded EXCEPT ![tx.refill.batch] = @ + tx.refill.qty]
           /\ IF scene.inventory
              THEN /\ Available(tx.load, warehouse)
                   /\ warehouse' = [p \in Products |-> warehouse[p] - Fill(tx.load)[p]]
                   /\ outs' = outs \cup OutRows(tx.run, tx.load)
                   /\ updates' = updates + 1
              ELSE UNCHANGED <<warehouse, outs, updates>>
    /\ Close(c)
    /\ UNCHANGED <<closing, returned, filled, custody, deliveries, account>>

(* Edit the opening stock of an open run: with inventory on, only before   *)
(* the first delivery; never below what is delivered.                      *)
BeginUpdate(c, r, load) ==
    /\ updates < scene.maxUpdates
    /\ run[r].status = "OPEN"
    /\ scene.inventory => Standing(r) = {}
    /\ \A p \in DOMAIN load : load[p] >= Delivered(r, p)
    /\ Open(c, [op |-> "update", run |-> r, load |-> load,
                undo |-> {m \in outs : m.run = r}])
    /\ UNCHANGED <<truck, store, custody, deliveries, account>>

GivenBack(undo, p) == SumFunction([m \in {x \in undo : x.product = p} |-> m.qty])

(* Mutant: deleteMany, no error when an OUT row is gone. *)
CommitUpdateDeleteMany(c) ==
    /\ In(c, "update")
    /\ LET tx == pending[c]
           stock == [p \in Products |-> warehouse[p] + GivenBack(tx.undo, p)]
       IN  /\ opening' = [opening EXCEPT ![tx.run] = Over(tx.load, @)]
           /\ Available(tx.load, stock)
           /\ warehouse' = [p \in Products |-> stock[p] - Fill(tx.load)[p]]
           /\ outs' = (outs \ tx.undo) \cup OutRows(tx.run, tx.load)
    /\ updates' = updates + 1
    /\ Close(c)
    /\ UNCHANGED <<run, closing, returned, filled, loaded, custody, deliveries, account>>

(* Only the products of the request get a new OPENING row and a new OUT    *)
(* row; all OUT rows of the snapshot are given back, and one that somebody *)
(* else has deleted makes the transaction fail.                            *)
CommitUpdate(c) ==
    /\ In(c, "update")
    /\ LET tx == pending[c]
           stock == [p \in Products |-> warehouse[p] + GivenBack(tx.undo, p)]
       IN  /\ opening' = [opening EXCEPT ![tx.run] = Over(tx.load, @)]
           /\ IF scene.inventory
              THEN /\ tx.undo \subseteq outs
                   /\ Available(tx.load, stock)
                   /\ warehouse' = [p \in Products |-> stock[p] - Fill(tx.load)[p]]
                   /\ outs' = (outs \ tx.undo) \cup OutRows(tx.run, tx.load)
              ELSE UNCHANGED <<warehouse, outs>>
    /\ updates' = updates + 1
    /\ Close(c)
    /\ UNCHANGED <<run, closing, returned, filled, loaded, custody, deliveries, account>>

(* Close a run: what goes back to the warehouse, and what is counted of    *)
(* such a product, is at most what is left; the totals are summed anew.    *)
BeginClose(c, r, count, ret) ==
    /\ run[r].status = "OPEN"
    /\ DOMAIN ret # {} => scene.inventory
    /\ \A p \in DOMAIN ret : ret[p] <= Leftover(r, p)
    /\ \A p \in DOMAIN ret \cap DOMAIN count : count[p] + ret[p] <= Leftover(r, p)
    /\ Open(c, [op |-> "close", run |-> r, count |-> count, ret |-> ret,
                sales |-> Sales(r), cash |-> Cash(r)])
    /\ UNCHANGED <<truck, store, custody, deliveries, account>>

(* Mutant: the CLOSING rows are upserted. *)
CommitCloseUpsert(c) ==
    /\ In(c, "close")
    /\ LET tx == pending[c] IN
           /\ closing' = [closing EXCEPT ![tx.run] = Over(tx.count, @)]
           /\ returned' = [returned EXCEPT ![tx.run] =
                              [p \in Products |-> @[p] + Fill(tx.ret)[p]]]
           /\ warehouse' = [p \in Products |-> warehouse[p] + Fill(tx.ret)[p]]
           /\ run' = [run EXCEPT ![tx.run] = [status |-> "CLOSED", sales |-> tx.sales,
                                              cash |-> tx.cash]]
    /\ Close(c)
    /\ UNCHANGED <<opening, outs, filled, loaded, updates, custody, deliveries, account>>

(* The unique key (run, product, CLOSING) makes a second count fail.       *)
CommitClose(c) ==
    /\ In(c, "close")
    /\ LET tx == pending[c] IN
           /\ DOMAIN tx.count \cap DOMAIN closing[tx.run] = {}
           /\ closing' = [closing EXCEPT ![tx.run] = Over(tx.count, @)]
           /\ returned' = [returned EXCEPT ![tx.run] =
                              [p \in Products |-> @[p] + Fill(tx.ret)[p]]]
           /\ warehouse' = [p \in Products |-> warehouse[p] + Fill(tx.ret)[p]]
           /\ run' = [run EXCEPT ![tx.run] = [status |-> "CLOSED", sales |-> tx.sales,
                                              cash |-> tx.cash]]
    /\ Close(c)
    /\ UNCHANGED <<opening, outs, filled, loaded, updates, custody, deliveries, account>>
-----------------------------------------------------------------------------
(* RefillBatchesService: the loads of a batch are looked at before it is   *)
(* written; a batch with loads cannot be deleted (foreign key).  That its  *)
(* product can be changed is left out.                                     *)
FilledRest == <<truck, warehouse, outs, loaded, updates, custody, deliveries, account>>

CreateBatch(b, cans) ==
    /\ filled[b] = 0
    /\ filled' = [filled EXCEPT ![b] = cans]
    /\ UNCHANGED <<FilledRest, pending>>

BeginEditBatch(c, b, cans) ==
    /\ filled[b] > 0 /\ cans >= loaded[b]
    /\ Open(c, [op |-> "batch", batch |-> b, cans |-> cans])
    /\ UNCHANGED <<truck, store, custody, deliveries, account>>

BeginRemoveBatch(c, b) ==
    /\ filled[b] > 0 /\ loaded[b] = 0
    /\ Open(c, [op |-> "batch", batch |-> b, cans |-> 0])
    /\ UNCHANGED <<truck, store, custody, deliveries, account>>

CommitBatch(c) ==
    /\ In(c, "batch")
    /\ LET tx == pending[c] IN
           /\ filled[tx.batch] > 0
           /\ tx.cans = 0 => loaded[tx.batch] = 0
           /\ filled' = [filled EXCEPT ![tx.batch] = tx.cans]
    /\ Close(c)
    /\ UNCHANGED FilledRest
-----------------------------------------------------------------------------
Amount(f) == SumFunction([p \in Products |-> f[p]])
LinesTotal(items) == SumFunction([p \in Products |-> items[p] * Price[p]])

Row(r, s) == [run |-> r, customer |-> s.customer, items |-> s.items,
              empties |-> s.empties, cash |-> s.cash, sale |-> LinesTotal(s.items),
              day |-> s.day, promised |-> s.promised, status |-> "DELIVERED"]

(* Full containers handed over less empty ones taken back. *)
Containers(d) == SumFunction([p \in Tracked |-> d.items[p] - d.empties[p]])

(* What a cancellation takes back: every movement, also that of the        *)
(* empties, is reversed by an ADJUSTMENT of the negated quantity.          *)
Reversed(d) == SumFunction([p \in Tracked |-> d.items[p] + d.empties[p]])

(* Mutant: assertFilledStockAvailable forgets the earlier deliveries. *)
BeginDeliverOpeningOnly(c, r, s) ==
    /\ run[r].status = "OPEN"
    /\ Amount(s.items) + Amount(s.empties) + s.cash > 0
    /\ \A p \in Products \ Tracked : s.empties[p] = 0
    /\ \A p \in Products : s.items[p] > 0 => s.items[p] <= opening[r][p]
    /\ Open(c, [op |-> "deliver", row |-> Row(r, s), clears |-> FALSE])
    /\ UNCHANGED <<truck, store, custody, deliveries, account>>

(* DeliveriesService.create: the run is open, empties belong to returnable *)
(* products, and the truck still has what is handed over.                  *)
BeginDeliver(c, r, s) ==
    /\ run[r].status = "OPEN"
    /\ Amount(s.items) + Amount(s.empties) + s.cash > 0
    /\ \A p \in Products \ Tracked : s.empties[p] = 0
    /\ s.promised # NoPromise => s.promised.due >= s.day
    /\ \A p \in Products : s.items[p] > 0 =>
           s.items[p] <= opening[r][p] - Delivered(r, p)
    /\ LET d == Row(r, s)
           n == Len(deliveries) + 1
           ps == IF d.cash = 0 THEN payments
                 ELSE Append(payments, [customer |-> d.customer, amount |-> d.cash,
                                        day |-> d.day, ref |-> n, credit |-> 0,
                                        live |-> TRUE])
       IN  Open(c, [op |-> "deliver", row |-> d,
                    clears |-> Settled(d.customer, balance[d.customer] + d.sale - d.cash,
                                       ps, Append(deliveries, d))])
    /\ UNCHANGED <<truck, store, custody, deliveries, account>>

CommitDeliver(c) ==
    /\ In(c, "deliver")
    /\ Len(deliveries) < scene.maxDeliveries
    /\ LET d == pending[c].row
           n == Len(deliveries) + 1
       IN  /\ deliveries' = Append(deliveries, d)
           /\ run' = [run EXCEPT ![d.run].sales = @ + d.sale, ![d.run].cash = @ + d.cash]
           /\ custody' = [custody EXCEPT ![d.customer] = @ + Containers(d)]
           /\ Charge(d, n, pending[c].clears)
    /\ Close(c)
    /\ UNCHANGED <<opening, closing, returned, store>>

(* Mutant: the status of the run is not looked at. *)
BeginCancelAnyTime(c, n) ==
    /\ deliveries[n].status = "DELIVERED"
    /\ LET p == promise[deliveries[n].customer] IN
           Open(c, [op |-> "cancel", delivery |-> n,
                    clears |-> p # NoPromise /\ p.delivery = n])
    /\ UNCHANGED <<truck, store, custody, deliveries, account>>

(* DeliveriesService.cancel. *)
BeginCancel(c, n) ==
    /\ deliveries[n].status = "DELIVERED"
    /\ run[deliveries[n].run].status = "OPEN"
    /\ LET p == promise[deliveries[n].customer] IN
           Open(c, [op |-> "cancel", delivery |-> n,
                    clears |-> p # NoPromise /\ p.delivery = n])
    /\ UNCHANGED <<truck, store, custody, deliveries, account>>

CommitCancel(c) ==
    /\ In(c, "cancel")
    /\ LET n == pending[c].delivery
           d == deliveries[n]
       IN  /\ deliveries' = [deliveries EXCEPT ![n].status = "CANCELLED"]
           /\ run' = [run EXCEPT ![d.run].sales = @ - d.sale, ![d.run].cash = @ - d.cash]
           /\ custody' = [custody EXCEPT ![d.customer] = @ - Reversed(d)]
           /\ Uncharge(n, pending[c].clears)
    /\ Close(c)
    /\ UNCHANGED <<opening, closing, returned, store>>
-----------------------------------------------------------------------------
RunStep(c) ==
    \/ \E r \in Runs :
           \/ \E load \in scene.loads : \/ \E refill \in scene.refills \cup {NoRefill} :
                                               BeginCreate(c, r, load, refill)
                                        \/ BeginUpdate(c, r, load)
           \/ \E count \in scene.closings, ret \in scene.returns : BeginClose(c, r, count, ret)
           \/ \E s \in scene.stops : BeginDeliver(c, r, s)
    \/ \E n \in DOMAIN deliveries : BeginCancel(c, n)
    \/ \E b \in Batches : \/ BeginRemoveBatch(c, b)
                          \/ \E cans \in scene.fills : CreateBatch(b, cans) \/ BeginEditBatch(c, b, cans)
    \/ CommitCreate(c) \/ CommitUpdate(c) \/ CommitClose(c) \/ CommitBatch(c)
    \/ CommitDeliver(c) \/ CommitCancel(c)

Next ==
    /\ UNCHANGED scene
    /\ \E c \in scene.clerks :
           \/ RunStep(c)
           \/ (AccountStep(c) \/ Abort(c)) /\ UNCHANGED <<truck, store, custody>>

Spec == Init /\ [][Next]_vars
-----------------------------------------------------------------------------
TypeOK ==
    /\ \A r \in Runs : /\ run[r].status \in {"none", "OPEN", "CLOSED"}
                       /\ run[r].sales \in Int /\ run[r].cash \in Int
                       /\ opening[r] \in Quantities
                       /\ returned[r] \in Quantities
                       /\ DOMAIN closing[r] \subseteq Products
    /\ warehouse \in [Products -> Nat]
    /\ \A m \in outs : m.run \in Runs /\ m.product \in Products /\ m.qty \in Nat \ {0}
    /\ \A n \in DOMAIN deliveries : /\ deliveries[n].status \in {"DELIVERED", "CANCELLED"}
                                    /\ run[deliveries[n].run].status # "none"
    /\ \A cust \in Customers : promise[cust] # NoPromise =>
           promise[cust].delivery \in DOMAIN deliveries

(* The running totals of a run, incremented and decremented one delivery   *)
(* at a time and recomputed at the close, are those of its deliveries.     *)
TotalsAreDeliveries == \A r \in Runs : run[r].sales = Sales(r) /\ run[r].cash = Cash(r)

(* Nothing is handed over that the truck did not load, whatever is edited  *)
(* or cancelled in between.                                                *)
TruckNotOversold == \A r \in Runs, p \in Products : Delivered(r, p) <= opening[r][p]

(* Containers at a customer are those of the deliveries that stand, unless *)
(* a delivery that took empties back was cancelled.                        *)
CustodyIsDeliveries == \A cust \in Customers :
    (\A n \in DOMAIN deliveries : deliveries[n].status = "CANCELLED" =>
         \A p \in Tracked : deliveries[n].empties[p] = 0)
    => custody[cust] = SumFunction([d \in DeliveredTo(deliveries, cust) |-> Containers(deliveries[d])])

(* With inventory on the truck has what the warehouse gave it, and what a  *)
(* run brings back, with what it has sold, left the warehouse for it;      *)
(* unless an edit names only some products, which gives the OUT rows of    *)
(* all of them back.                                                       *)
LoadsAgree == (scene.inventory /\ \A load \in scene.loads : DOMAIN load = Products) =>
    \A r \in Runs, p \in Products :
        LET out == GivenBack({m \in outs : m.run = r}, p) IN
            /\ opening[r][p] = out
            /\ returned[r][p] > 0 => returned[r][p] + Delivered(r, p) <= out

(* What runs have loaded from a batch, the batch has filled.               *)
BatchesSuffice == \A b \in Batches : loaded[b] <= filled[b]

(* A batch that runs have loaded from is never deleted.                    *)
BatchesStand == \A b \in Batches : loaded[b] > 0 => filled[b] > 0

(* As long as requests come one at a time, the totals of a run, the truck, *)
(* the refill batches, the containers, the movements of the warehouse and  *)
(* the customer's balance are those of the deliveries and payments that    *)
(* stand, through every edit and cancellation (deliveries.service.ts,      *)
(* delivery-runs.service.ts, refill-batches.service.ts).                   *)
RunsAgree ==
    Serial => /\ TotalsAreDeliveries /\ TruckNotOversold /\ CustodyIsDeliveries
              /\ LoadsAgree /\ BatchesSuffice /\ BalanceIsActivity

(* The warehouse is what it was, less the OUT rows that stand, plus the    *)
(* returns: loads given back concurrently are given back once.             *)
StockConserved == \A p \in Products :
    warehouse[p] = Stock[p] - GivenBack(outs, p)
                   + SumFunction([r \in Runs |-> returned[r][p]])

(* However requests interleave, the warehouse is conserved, a batch that   *)
(* was loaded from stays, and payments mirrored from deliveries and        *)
(* promises made at deliveries belong to deliveries that stand.            *)
WritesStand ==
    TypeOK /\ StockConserved /\ BatchesStand /\ MirrorsStand /\ PromiseHasDelivery

(* A closed run is final: its count, its totals and its deliveries stay,   *)
(* as long as requests come one at a time.                                 *)
ClosedIsFinal == [][Serial => \A r \in Runs : run[r].status = "CLOSED" =>
    /\ run'[r] = run[r] /\ closing'[r] = closing[r] /\ returned'[r] = returned[r]
    /\ Standing(r)' = Standing(r)]_vars

(* Runs are counted once: a CLOSING row is never overwritten, a closed run *)
(* never opens again, and a cancelled delivery never stands again, however *)
(* the requests interleave.                                                *)
CountedOnce == [][/\ \A r \in Runs : \A p \in DOMAIN closing[r] :
                         p \in DOMAIN closing'[r] /\ closing'[r][p] = closing[r][p]
                  /\ \A r \in Runs : run[r].status = "CLOSED" => run'[r].status = "CLOSED"
                  /\ \A n \in DOMAIN deliveries : deliveries[n].status = "CANCELLED" =>
                         deliveries'[n].status = "CANCELLED"]_vars
=============================================================================
