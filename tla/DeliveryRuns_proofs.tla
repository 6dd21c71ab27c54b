------------------------- MODULE DeliveryRuns_proofs -------------------------
(* Proofs about DeliveryRuns for any number of clerks, runs, products,     *)
(* batches and customers, and any scenes with inputs that the DTOs let in. *)
(*                                                                         *)
(* However requests interleave: what the writes themselves keep (Writes),  *)
(* and that a run is counted once and closed for good.  One request at a   *)
(* time: what the open transaction has read is still so when it commits    *)
(* (Sees), and with that everything agrees with the deliveries and the     *)
(* payments that stand (Agrees).                                           *)
EXTENDS DeliveryRuns, Sums_proofs

-----------------------------------------------------------------------------
(* The rows of the tables. *)
RunRow == [status : {"none", "OPEN", "CLOSED"}, sales : Int, cash : Int]
OutRow == [run : Runs, product : Products, qty : Nat \ {0}, no : Nat]
DeliveryRow == [run : Runs, customer : Customers, items : Quantities, empties : Quantities,
                cash : Nat, sale : Int, day : Int, promised : Promises \cup {NoPromise},
                status : {"DELIVERED", "CANCELLED"}]
PaymentRow == [customer : Customers, amount : Int, day : Int, ref : Nat, credit : Int,
               live : BOOLEAN]
PromiseRow == [due : Int, amount : Nat, delivery : Nat]

TruckTyped == /\ run \in [Runs -> RunRow]
              /\ opening \in [Runs -> Quantities] /\ returned \in [Runs -> Quantities]
              /\ closing = [r \in Runs |-> closing[r]]
              /\ \A r \in Runs : DOMAIN closing[r] \subseteq Products
StoreTyped == /\ warehouse \in Quantities
              /\ outs \subseteq OutRow /\ IsFiniteSet(outs)
              /\ updates \in Nat /\ \A m \in outs : m.no < updates
              /\ filled \in [Batches -> Nat] /\ loaded \in [Batches -> Nat]
BooksTyped == /\ deliveries \in Seq(DeliveryRow) /\ payments \in Seq(PaymentRow)
              /\ balance \in [Customers -> Int] /\ custody \in [Customers -> Int]
              /\ promise \in [Customers -> PromiseRow \cup {NoPromise}]
Typed == scene \in Scenes /\ TruckTyped /\ StoreTyped /\ BooksTyped

(* A delivery belongs to a run; a mirrored payment and a promise to a delivery. *)
Links == /\ \A n \in DOMAIN deliveries : run[deliveries[n].run].status # "none"
         /\ \A i \in DOMAIN payments : payments[i].ref \in {NoRef} \cup DOMAIN deliveries
         /\ \A cust \in Customers : promise[cust] # NoPromise =>
                promise[cust].delivery \in DOMAIN deliveries

(* What an open transaction carries, and what of it no other request can   *)
(* make untrue.                                                            *)
TxGood(tx) ==
    /\ tx.op = "create" => /\ tx.run \in Runs /\ IsLoad(tx.load)
                           /\ tx.refill = NoRefill \/ (tx.refill.batch \in Batches /\ tx.refill.qty \in Nat)
    /\ tx.op = "update" => tx.run \in Runs /\ IsLoad(tx.load)
    /\ tx.op = "close" => /\ tx.run \in Runs /\ run[tx.run].status # "none"
                          /\ DOMAIN tx.count \subseteq Products /\ IsLoad(tx.ret)
                          /\ tx.sales \in Int /\ tx.cash \in Int
    /\ tx.op = "batch" => tx.batch \in Batches /\ tx.cans \in Nat
    /\ tx.op = "deliver" => /\ tx.row \in DeliveryRow /\ run[tx.row.run].status # "none"
                            /\ tx.row.status = "DELIVERED"
    /\ tx.op = "cancel" => /\ tx.delivery \in DOMAIN deliveries
                           /\ LET p == promise[deliveries[tx.delivery].customer] IN
                                  p # NoPromise /\ p.delivery = tx.delivery => tx.clears
    /\ tx.op = "pay" => tx.row \in PaymentRow /\ tx.row.ref = NoRef
    /\ tx.op = "edit" => /\ tx.payment \in DOMAIN payments
                         /\ tx.amount \in Int /\ tx.day \in Int
    /\ tx.op = "remove" => tx.payment \in DOMAIN payments /\ tx.credit \in Int
    /\ tx.op = "heal" => tx.customer \in Customers

(* A run that is being created is not there yet and is created by nobody   *)
(* else: resolve... checks, and the unique key decides.                    *)
Creates(c) == /\ run[pending[c].run].status = "none"
              /\ \A d \in Clerks : In(d, "create") /\ pending[d].run = pending[c].run => d = c

Pend == /\ pending = [c \in Clerks |-> pending[c]]
        /\ \A c \in Clerks : TxGood(pending[c]) /\ (In(c, "create") => Creates(c))

Stands == StockConserved /\ BatchesStand /\ MirrorsStand /\ PromiseHasDelivery

Writes == Typed /\ Links /\ Stands /\ Pend

(* What CountedOnce says of one step. *)
Kept == /\ \A r \in Runs : \A p \in DOMAIN closing[r] :
               p \in DOMAIN closing'[r] /\ closing'[r][p] = closing[r][p]
        /\ \A r \in Runs : run[r].status = "CLOSED" => run'[r].status = "CLOSED"
        /\ \A n \in DOMAIN deliveries : deliveries[n].status = "CANCELLED" =>
               deliveries'[n].status = "CANCELLED"

-----------------------------------------------------------------------------
(* Loads: quantities of some products, completed to all of them. *)
LEMMA FillIs ==
    ASSUME NEW load, IsLoad(load)
    PROVE  /\ Fill(load) \in Quantities
           /\ \A p \in Products : Fill(load)[p] = IF p \in DOMAIN load THEN load[p] ELSE 0
BY DEF Fill, Over, None, IsLoad, Quantities

LEMMA OverIs ==
    ASSUME NEW load, IsLoad(load), NEW q \in Quantities
    PROVE  /\ Over(load, q) \in Quantities
           /\ \A p \in Products : Over(load, q)[p] = IF p \in DOMAIN load THEN load[p] ELSE q[p]
BY DEF Over, IsLoad, Quantities

(* The OUT rows of a load are new, and give the load back. *)
LEMMA OutRowsNew ==
    ASSUME StoreTyped, NEW r \in Runs, NEW load, IsLoad(load)
    PROVE  /\ OutRows(r, load) \subseteq OutRow /\ IsFiniteSet(OutRows(r, load))
           /\ \A m \in OutRows(r, load) : m.no = updates /\ m.run = r
<1> DEFINE ps == {q \in DOMAIN load : load[q] > 0}
           row(p) == [run |-> r, product |-> p, qty |-> load[p], no |-> updates]
<1>1. OutRows(r, load) = {row(p) : p \in ps}
  BY DEF OutRows
<1>2. IsFiniteSet(ps)
  BY InputsAssumption, FS_Subset DEF IsLoad
<1>3. IsFiniteSet({row(p) : p \in ps})
  <2> DEFINE f == [p \in ps |-> row(p)]
             rows == {row(p) : p \in ps}
  <2>1. f \in Surjection(ps, rows)
    BY DEF Surjection
  <2> HIDE DEF f, rows, ps
  <2>2. IsFiniteSet(rows)
    BY <1>2, <2>1, FS_Surjection
  <2> QED
    BY <2>2 DEF rows
<1>4. \A p \in ps : row(p) \in OutRow
  <2> SUFFICES ASSUME NEW p \in ps PROVE row(p) \in OutRow
    OBVIOUS
  <2>1. p \in Products /\ load[p] \in Nat \ {0} /\ updates \in Nat
    BY DEF IsLoad, StoreTyped
  <2> QED
    BY <2>1 DEF OutRow
<1> QED
  BY <1>1, <1>3, <1>4

(* Quantities that rows of the warehouse carry. *)
LEMMA GivenBackNat ==
    ASSUME StoreTyped, NEW S \in SUBSET outs, NEW p
    PROVE  /\ GivenBack(S, p) \in Nat
           /\ IsFiniteSet({x \in S : x.product = p})
           /\ \A m \in {x \in S : x.product = p} : m.qty \in Nat
<1> DEFINE f == [m \in {x \in S : x.product = p} |-> m.qty]
<1>1. IsFiniteSet(DOMAIN f)
  BY FS_Subset DEF StoreTyped
<1>2. \A m \in DOMAIN f : f[m] \in Nat
  BY DEF StoreTyped, OutRow
<1>3. SumFunction(f) \in Nat
  <2> HIDE DEF f
  <2> QED
    BY <1>1, <1>2, TotalNat
<1> QED
  BY <1>1, <1>2, <1>3 DEF GivenBack

LEMMA OutsAdded ==
    ASSUME StoreTyped, NEW S \in SUBSET outs, NEW r \in Runs, NEW load, IsLoad(load), NEW p \in Products
    PROVE  GivenBack(S \cup OutRows(r, load), p) = GivenBack(S, p) + Fill(load)[p]
<1> DEFINE f == [m \in {x \in S : x.product = p} |-> m.qty]
           T == S \cup OutRows(r, load)
           g == [m \in {x \in T : x.product = p} |-> m.qty]
           row == [run |-> r, product |-> p, qty |-> load[p], no |-> updates]
<1>1. /\ GivenBack(S, p) = SumFunction(f) /\ GivenBack(T, p) = SumFunction(g)
      /\ GivenBack(S, p) \in Nat
  BY GivenBackNat DEF GivenBack
<1>2. IsFiniteSet(DOMAIN f) /\ \A m \in DOMAIN f : f[m] \in Int
  <2>1. DOMAIN f = {x \in S : x.product = p} /\ \A m \in DOMAIN f : f[m] = m.qty
    OBVIOUS
  <2> QED
    BY <2>1, GivenBackNat
<1>3. CASE p \in DOMAIN load /\ load[p] > 0
  <2>1. row \in OutRows(r, load) /\ \A m \in OutRows(r, load) : m.product = p => m = row
    BY <1>3 DEF OutRows
  <2>2. row \notin S
    BY DEF StoreTyped
  <2>3. row \notin DOMAIN f /\ DOMAIN g = DOMAIN f \cup {row}
    BY <2>1, <2>2
  <2>4. g[row] = load[p] /\ load[p] \in Int /\ Fill(load)[p] = load[p]
    BY <1>3, <2>3, FillIs DEF IsLoad
  <2>5. \A m \in DOMAIN f : g[m] = f[m]
    OBVIOUS
  <2> HIDE DEF f, g, T, row
  <2> QED
    BY <1>1, <1>2, <2>3, <2>4, <2>5, TotalAdd DEF T
<1>4. CASE ~(p \in DOMAIN load /\ load[p] > 0)
  <2>1. \A m \in OutRows(r, load) : m.product # p
    BY <1>4 DEF OutRows
  <2>2. {x \in T : x.product = p} = {x \in S : x.product = p}
    BY <2>1
  <2>3. f = g
    BY <2>2
  <2>4. Fill(load)[p] = 0
    BY <1>4, FillIs DEF IsLoad
  <2> HIDE DEF f, g
  <2> QED
    BY <1>1, <2>3, <2>4
<1> QED
  BY <1>3, <1>4

LEMMA OutsTaken ==
    ASSUME StoreTyped, NEW S \in SUBSET outs, NEW p
    PROVE  GivenBack(outs, p) = GivenBack(S, p) + GivenBack(outs \ S, p)
<1> DEFINE f == [m \in {x \in outs : x.product = p} |-> m.qty]
           g == [m \in {x \in S : x.product = p} |-> m.qty]
           h == [m \in {x \in outs \ S : x.product = p} |-> m.qty]
<1>1. IsFiniteSet(DOMAIN f) /\ \A m \in DOMAIN f : f[m] \in Int
  <2>1. DOMAIN f = {x \in outs : x.product = p} /\ \A m \in DOMAIN f : f[m] = m.qty
    OBVIOUS
  <2>2. /\ IsFiniteSet({x \in outs : x.product = p})
        /\ \A m \in {x \in outs : x.product = p} : m.qty \in Nat
    BY GivenBackNat
  <2> QED
    BY <2>1, <2>2
<1>2. /\ DOMAIN g \in SUBSET (DOMAIN f) /\ DOMAIN h = DOMAIN f \ DOMAIN g
  OBVIOUS
<1>4. (\A m \in DOMAIN g : g[m] = f[m]) /\ (\A m \in DOMAIN h : h[m] = f[m])
  OBVIOUS
<1>3. SumFunction(f) = SumFunction(g) + SumFunction(h)
  <2> HIDE DEF f, g, h
  <2> QED
    BY <1>1, <1>2, <1>4, TotalSplit, ZenonT(60)
<1> QED
  BY <1>3 DEF GivenBack

-----------------------------------------------------------------------------
(* A request that begins writes nothing. *)
Calm == UNCHANGED <<scene, truck, store, custody, deliveries, account>>

LEMMA CalmTables ==
    ASSUME Typed, Links, Stands, Calm PROVE Typed' /\ Links' /\ Stands' /\ Kept
<1> USE DEF Calm, truck, store, account
<1>1. Typed'
  BY DEF Typed, TruckTyped, StoreTyped, BooksTyped
<1>2. Links' /\ Kept
  BY DEF Links, Kept
<1>3. StockConserved' /\ BatchesStand' /\ MirrorsStand' /\ PromiseHasDelivery'
  BY DEF Stands, StockConserved, GivenBack, BatchesStand, MirrorsStand, PromiseHasDelivery
<1> QED
  BY <1>1, <1>2, <1>3 DEF Stands

LEMMA CalmGood == ASSUME Calm, NEW tx, TxGood(tx) PROVE TxGood(tx)'
BY DEF Calm, truck, store, account, TxGood

LEMMA Opened ==
    ASSUME Writes, NEW c \in Clerks, NEW tx, Open(c, tx), TxGood(tx), Calm,
           tx.op = "create" => /\ run[tx.run].status = "none"
                               /\ \A x \in Clerks : In(x, "create") => pending[x].run # tx.run
    PROVE  Writes' /\ Kept
<1>1. Typed' /\ Links' /\ Stands' /\ Kept
  BY CalmTables DEF Writes
<1>2. \A d \in Clerks : pending'[d] = IF d = c THEN tx ELSE pending[d]
  BY DEF Open, Writes, Pend
<1>3. pending' = [d \in Clerks |-> pending'[d]]
  BY DEF Open, Writes, Pend
<1>4. ASSUME NEW d \in Clerks PROVE TxGood(pending[d])' /\ (In(d, "create")' => Creates(d)')
  <2>1. TxGood(pending[d])'
    <3>1. \A x : TxGood(x) => TxGood(x)'
      BY CalmGood
    <3>2. TxGood(pending'[d])
      BY <1>2 DEF Writes, Pend
    <3> QED
      BY <3>1, <3>2, CalmGood DEF TxGood, Calm, truck, account
  <2>2. ASSUME In(d, "create")' PROVE Creates(d)'
    <3>1. run' = run
      BY DEF Calm, truck
    <3>2. CASE d = c
      BY <1>2, <2>2, <3>1, <3>2 DEF Creates, In
    <3>3. CASE d # c
      <4>1. pending'[d] = pending[d] /\ In(d, "create") /\ Creates(d)
        BY <1>2, <2>2, <3>3 DEF In, Writes, Pend
      <4> QED
        BY <1>2, <3>1, <4>1 DEF Creates, In
    <3> QED
      BY <3>2, <3>3
  <2> QED
    BY <2>1, <2>2
<1> QED
  BY <1>1, <1>3, <1>4 DEF Writes, Pend

-----------------------------------------------------------------------------
(* Quantities computed from rows are whole numbers. *)
LEMMA Finite == IsFiniteSet(Runs) /\ IsFiniteSet(Products) /\ IsFiniteSet(Tracked)
BY InputsAssumption, FS_Subset

LEMMA Whole ==
    ASSUME NEW S, IsFiniteSet(S), NEW f, f = [x \in S |-> f[x]], \A x \in S : f[x] \in Int
    PROVE  SumFunction(f) \in Int
BY TotalInt

LEMMA LinesTotalInt == ASSUME NEW items \in Quantities PROVE LinesTotal(items) \in Int
<1> DEFINE f == [p \in Products |-> items[p] * Price[p]]
<1>1. \A p \in Products : f[p] \in Int
  BY InputsAssumption DEF Quantities
<1>2. SumFunction(f) \in Int
  <2>1. f = [p \in Products |-> f[p]]
    OBVIOUS
  <2> HIDE DEF f
  <2> QED
    BY <1>1, <2>1, Finite, Whole
<1> QED
  BY <1>2 DEF LinesTotal

LEMMA ContainersInt ==
    ASSUME NEW d, d.items \in Quantities, d.empties \in Quantities
    PROVE  Containers(d) \in Int /\ Reversed(d) \in Int
<1> DEFINE f == [p \in Tracked |-> d.items[p] - d.empties[p]]
           g == [p \in Tracked |-> d.items[p] + d.empties[p]]
<1>1. \A p \in Tracked : f[p] \in Int /\ g[p] \in Int
  BY InputsAssumption DEF Quantities
<1>2. SumFunction(f) \in Int /\ SumFunction(g) \in Int
  <2>1. f = [p \in Tracked |-> f[p]] /\ g = [p \in Tracked |-> g[p]]
    OBVIOUS
  <2> HIDE DEF f, g
  <2> QED
    BY <1>1, <2>1, Finite, Whole
<1> QED
  BY <1>2 DEF Containers, Reversed

LEMMA StandingRows ==
    ASSUME BooksTyped, NEW r
    PROVE  /\ Standing(r) \subseteq DOMAIN deliveries /\ IsFiniteSet(Standing(r))
           /\ IsFiniteSet(DOMAIN deliveries)
           /\ \A n \in DOMAIN deliveries : deliveries[n] \in DeliveryRow
<1>1. IsFiniteSet(DOMAIN deliveries) /\ \A n \in DOMAIN deliveries : deliveries[n] \in DeliveryRow
  BY SeqDomain DEF BooksTyped
<1>2. Standing(r) \subseteq DOMAIN deliveries
  BY DEF Standing
<1> QED
  BY <1>1, <1>2, FS_Subset

LEMMA TotalsInt == ASSUME BooksTyped, NEW r PROVE Sales(r) \in Int /\ Cash(r) \in Int
<1> DEFINE S == Standing(r)
           f == [d \in S |-> deliveries[d].sale]
           g == [d \in S |-> deliveries[d].cash]
<1>1. IsFiniteSet(S) /\ \A d \in S : deliveries[d] \in DeliveryRow
  BY StandingRows
<1>2. \A d \in S : f[d] \in Int /\ g[d] \in Int
  BY <1>1 DEF DeliveryRow
<1>3. f = [d \in S |-> f[d]] /\ g = [d \in S |-> g[d]]
  OBVIOUS
<1>4. SumFunction(f) \in Int /\ SumFunction(g) \in Int
  <2> HIDE DEF f, g, S
  <2> QED
    BY <1>1, <1>2, <1>3, Whole
<1> QED
  BY <1>4 DEF Sales, Cash

-----------------------------------------------------------------------------
(* The requests that open a transaction. *)
LEMMA SceneInputs ==
    ASSUME scene \in Scenes
    PROVE  /\ scene.inventory \in BOOLEAN /\ IsFiniteSet(scene.clerks) /\ scene.clerks \subseteq Clerks
           /\ \A f \in scene.loads \cup scene.closings \cup scene.returns : IsLoad(f)
           /\ \A b \in Batches : scene.filled[b] \in Nat
           /\ scene.fills \subseteq Nat \ {0}
           /\ scene.refills \subseteq [batch : Batches, product : Products, qty : Nat]
           /\ scene.stops \subseteq [customer : Customers, items : Quantities, empties : Quantities,
                                     cash : Nat, day : Int, promised : Promises \cup {NoPromise}]
           /\ scene.payments \subseteq [customer : Customers, amount : Nat, day : Int]
           /\ scene.edits \subseteq [amount : Nat, day : Int]
BY InputsAssumption, ScenesAssumption

(* What a run is loaded with when it takes cans from a batch. *)
LEMMA RefilledLoad ==
    ASSUME NEW load, IsLoad(load), NEW p \in Products, NEW q \in Nat
    PROVE  IsLoad(Over([x \in {p} |-> q], load))
BY DEF IsLoad, Over

LEMMA CreateOpens ==
    ASSUME Writes, NEW c \in Clerks, NEW r \in Runs, NEW load \in scene.loads,
           NEW refill \in scene.refills \cup {NoRefill}, BeginCreate(c, r, load, refill), scene' = scene
    PROVE  Writes' /\ Kept
<1>1. IsLoad(load) /\ (refill = NoRefill \/ refill \in [batch : Batches, product : Products, qty : Nat])
  BY SceneInputs DEF Writes, Typed
<1> DEFINE all == IF refill = NoRefill THEN load ELSE Over([p \in {refill.product} |-> refill.qty], load)
           tx == [op |-> "create", run |-> r, refill |-> refill, load |-> all]
<1>2. IsLoad(all)
  BY <1>1, RefilledLoad
<1>3. Open(c, tx) /\ Calm
  BY DEF BeginCreate, Calm
<1>4. /\ run[r].status = "none"
      /\ \A x \in Clerks : In(x, "create") => pending[x].run # r
  BY DEF BeginCreate
<1> HIDE DEF all
<1>5. TxGood(tx)
  BY <1>1, <1>2 DEF TxGood
<1> QED
  BY <1>3, <1>4, <1>5, Opened

LEMMA UpdateOpens ==
    ASSUME Writes, NEW c \in Clerks, NEW r \in Runs, NEW load \in scene.loads,
           BeginUpdate(c, r, load), scene' = scene
    PROVE  Writes' /\ Kept
<1> DEFINE tx == [op |-> "update", run |-> r, load |-> load, undo |-> {m \in outs : m.run = r}]
<1>1. TxGood(tx)
  BY SceneInputs DEF TxGood, Writes, Typed
<1>2. Open(c, tx) /\ Calm
  BY DEF BeginUpdate, Calm
<1> QED
  BY <1>1, <1>2, Opened

LEMMA CloseOpens ==
    ASSUME Writes, NEW c \in Clerks, NEW r \in Runs, NEW count \in scene.closings,
           NEW ret \in scene.returns, BeginClose(c, r, count, ret), scene' = scene
    PROVE  Writes' /\ Kept
<1> DEFINE tx == [op |-> "close", run |-> r, count |-> count, ret |-> ret,
                  sales |-> Sales(r), cash |-> Cash(r)]
<1>1. Sales(r) \in Int /\ Cash(r) \in Int /\ IsLoad(count) /\ IsLoad(ret) /\ run[r].status # "none"
  BY TotalsInt, SceneInputs DEF Writes, Typed, BeginClose
<1>2. TxGood(tx)
  BY <1>1 DEF TxGood, IsLoad
<1>3. Open(c, tx) /\ Calm
  BY DEF BeginClose, Calm
<1> QED
  BY <1>2, <1>3, Opened

LEMMA BatchOpens ==
    ASSUME Writes, NEW c \in Clerks, NEW b \in Batches, scene' = scene,
           BeginRemoveBatch(c, b) \/ \E cans \in scene.fills : BeginEditBatch(c, b, cans)
    PROVE  Writes' /\ Kept
<1>1. PICK cans \in Nat : Open(c, [op |-> "batch", batch |-> b, cans |-> cans])
  BY SceneInputs DEF BeginRemoveBatch, BeginEditBatch, Writes, Typed
<1> DEFINE tx == [op |-> "batch", batch |-> b, cans |-> cans]
<1>2. TxGood(tx)
  BY DEF TxGood
<1>3. Calm
  BY DEF BeginRemoveBatch, BeginEditBatch, Calm
<1> QED
  BY <1>1, <1>2, <1>3, Opened

LEMMA RowTyped ==
    ASSUME scene \in Scenes, NEW r \in Runs, NEW s \in scene.stops
    PROVE  Row(r, s) \in DeliveryRow /\ Row(r, s).run = r /\ Row(r, s).status = "DELIVERED"
<1>1. s \in [customer : Customers, items : Quantities, empties : Quantities,
             cash : Nat, day : Int, promised : Promises \cup {NoPromise}]
  BY SceneInputs
<1>2. LinesTotal(s.items) \in Int
  BY <1>1, LinesTotalInt
<1> QED
  BY <1>1, <1>2 DEF Row, DeliveryRow

LEMMA DeliverOpens ==
    ASSUME Writes, NEW c \in Clerks, NEW r \in Runs, NEW s \in scene.stops,
           BeginDeliver(c, r, s), scene' = scene
    PROVE  Writes' /\ Kept
<1>1. PICK tx : Open(c, tx) /\ tx.op = "deliver" /\ tx.row = Row(r, s)
  BY DEF BeginDeliver
<1>2. TxGood(tx)
  BY <1>1, RowTyped DEF TxGood, BeginDeliver, Writes, Typed
<1>3. Calm
  BY DEF BeginDeliver, Calm
<1> QED
  BY <1>1, <1>2, <1>3, Opened

LEMMA CancelOpens ==
    ASSUME Writes, NEW c \in Clerks, NEW n \in DOMAIN deliveries, BeginCancel(c, n), scene' = scene
    PROVE  Writes' /\ Kept
<1> DEFINE p == promise[deliveries[n].customer]
           tx == [op |-> "cancel", delivery |-> n, clears |-> p # NoPromise /\ p.delivery = n]
<1>1. TxGood(tx)
  BY DEF TxGood
<1>2. Open(c, tx) /\ Calm
  BY DEF BeginCancel, Calm
<1> QED
  BY <1>1, <1>2, Opened

LEMMA AccountOpens ==
    ASSUME Writes, NEW c \in Clerks, UNCHANGED <<scene, truck, store, custody>>,
           \/ \E q \in scene.payments : BeginPayment(c, q)
           \/ \E i \in DOMAIN payments : BeginRemove(c, i) \/ \E e \in scene.edits : BeginEdit(c, i, e)
           \/ \E cust \in Customers : BeginHeal(c, cust)
    PROVE  Writes' /\ Kept
<1>1. Calm
  BY DEF Calm, BeginPayment, BeginRemove, BeginEdit, BeginHeal
<1>2. ASSUME NEW q \in scene.payments, BeginPayment(c, q) PROVE Writes' /\ Kept
  <2> DEFINE row == [customer |-> q.customer, amount |-> q.amount, day |-> q.day,
                     ref |-> NoRef, credit |-> q.amount, live |-> TRUE]
  <2> DEFINE clears == Settled(q.customer, balance[q.customer] - q.amount,
                               Append(payments, row), deliveries)
             tx == [op |-> "pay", row |-> row, clears |-> clears]
  <2>1. Open(c, tx)
    BY <1>2 DEF BeginPayment
  <2> HIDE DEF clears
  <2>2. q \in [customer : Customers, amount : Nat, day : Int]
    BY SceneInputs DEF Writes, Typed
  <2>3. row \in PaymentRow /\ row.ref = NoRef
    BY <2>2 DEF PaymentRow, NoRef
  <2>4. TxGood(tx)
    BY <2>1, <2>3 DEF TxGood
  <2> QED
    BY <1>1, <2>1, <2>4, Opened
<1>3. ASSUME NEW i \in DOMAIN payments, BeginRemove(c, i) PROVE Writes' /\ Kept
  <2>1. PICK tx : Open(c, tx) /\ tx.op = "remove" /\ tx.payment = i /\ tx.credit = payments[i].credit
    BY <1>3 DEF BeginRemove
  <2>2. payments[i] \in PaymentRow
    BY SeqDomain DEF Writes, Typed, BooksTyped
  <2>3. TxGood(tx)
    BY <2>1, <2>2 DEF TxGood, PaymentRow
  <2> QED
    BY <1>1, <2>1, <2>3, Opened
<1>4. ASSUME NEW i \in DOMAIN payments, NEW e \in scene.edits, BeginEdit(c, i, e) PROVE Writes' /\ Kept
  <2> DEFINE cust == payments[i].customer
             clears == Settled(cust, balance[cust] + payments[i].credit - e.amount,
                               [payments EXCEPT ![i].amount = e.amount, ![i].day = e.day],
                               deliveries)
             tx == [op |-> "edit", payment |-> i, amount |-> e.amount, day |-> e.day,
                    clears |-> clears]
  <2>1. Open(c, tx)
    BY <1>4 DEF BeginEdit
  <2> HIDE DEF clears
  <2>2. e \in [amount : Nat, day : Int]
    BY SceneInputs DEF Writes, Typed
  <2>3. TxGood(tx)
    BY <2>1, <2>2 DEF TxGood
  <2> QED
    BY <1>1, <2>1, <2>3, Opened
<1>5. ASSUME NEW cust \in Customers, BeginHeal(c, cust) PROVE Writes' /\ Kept
  <2>1. PICK tx : Open(c, tx) /\ tx.op = "heal" /\ tx.customer = cust
    BY <1>5 DEF BeginHeal
  <2>2. TxGood(tx)
    BY <2>1 DEF TxGood
  <2> QED
    BY <1>1, <2>1, <2>2, Opened
<1> QED
  BY <1>2, <1>3, <1>4, <1>5

-----------------------------------------------------------------------------
(* What every commit lets grow: runs, deliveries and payments stay; a new  *)
(* promise belongs to a new delivery.                                      *)
Grows ==
    /\ \A r \in Runs : run[r].status # "none" => run'[r].status # "none"
    /\ \A n \in DOMAIN deliveries : /\ n \in DOMAIN deliveries'
                                    /\ deliveries'[n].customer = deliveries[n].customer
    /\ \A i \in DOMAIN payments : i \in DOMAIN payments'
    /\ \A cust \in Customers : promise'[cust] # NoPromise =>
           promise'[cust] = promise[cust] \/ promise'[cust].delivery \notin DOMAIN deliveries

LEMMA GrowsGood ==
    ASSUME Typed, Grows, NEW tx, TxGood(tx) PROVE TxGood(tx)'
<1>1. deliveries \in Seq(DeliveryRow)
  BY DEF Typed, BooksTyped
<1>2. \A n \in DOMAIN deliveries : deliveries[n] \in DeliveryRow
  BY <1>1, SeqDomain
<1>3. \A n \in DOMAIN deliveries : deliveries[n].customer \in Customers
  BY <1>2 DEF DeliveryRow
<1>4. tx.op = "deliver" => tx.row.run \in Runs
  BY DEF TxGood, DeliveryRow
<1>5. ASSUME tx.op = "cancel"
      PROVE  /\ tx.delivery \in DOMAIN deliveries'
             /\ LET p == promise'[deliveries'[tx.delivery].customer] IN
                    p # NoPromise /\ p.delivery = tx.delivery => tx.clears
  <2> DEFINE cust == deliveries[tx.delivery].customer
  <2>1. /\ tx.delivery \in DOMAIN deliveries
        /\ promise[cust] # NoPromise /\ promise[cust].delivery = tx.delivery => tx.clears
    BY <1>5 DEF TxGood
  <2>2. /\ tx.delivery \in DOMAIN deliveries' /\ deliveries'[tx.delivery].customer = cust
        /\ cust \in Customers
    BY <1>3, <2>1 DEF Grows
  <2>3. promise'[cust] # NoPromise =>
            promise'[cust] = promise[cust] \/ promise'[cust].delivery \notin DOMAIN deliveries
    BY <2>2 DEF Grows
  <2> QED
    BY <2>1, <2>2, <2>3
<1> QED
  BY <1>4, <1>5 DEF Grows, TxGood

(* What the open transactions rely on survives the commit of another one. *)
LEMMA Closed ==
    ASSUME Typed, Pend, Grows, NEW c \in Clerks, Close(c),
           \A d \in Clerks \ {c} : In(d, "create") => run'[pending[d].run].status = "none"
    PROVE  Pend'
<1>1. \A d \in Clerks : pending'[d] = IF d = c THEN NoTx ELSE pending[d]
  BY DEF Close, Pend
<1>2. pending' = [d \in Clerks |-> pending'[d]]
  BY DEF Close, Pend
<1>3. TxGood(NoTx)
  BY DEF TxGood, NoTx
<1>4. ASSUME NEW d \in Clerks PROVE TxGood(pending[d])'
  <2>1. \A x : TxGood(x) => TxGood(x)'
    BY GrowsGood
  <2>2. TxGood(pending'[d])
    BY <1>1, <1>3 DEF Pend
  <2> QED
    BY <2>1, <2>2 DEF TxGood
<1>5. ASSUME NEW d \in Clerks, In(d, "create")' PROVE Creates(d)'
  <2>1. d # c /\ pending'[d] = pending[d] /\ In(d, "create")
    BY <1>1, <1>5 DEF In, NoTx
  <2>2. \A e \in Clerks : In(e, "create")' => e # c /\ pending'[e] = pending[e] /\ In(e, "create")
    BY <1>1 DEF In, NoTx
  <2> QED
    BY <2>1, <2>2 DEF Pend, Creates
<1> QED
  BY <1>2, <1>4, <1>5 DEF Pend

-----------------------------------------------------------------------------
(* Commits that leave the truck and the warehouse alone. *)
StillStore == UNCHANGED <<scene, truck, store>>

LEMMA StoreStill ==
    ASSUME Typed, Stands, StillStore
    PROVE  (scene \in Scenes /\ TruckTyped /\ StoreTyped /\ StockConserved /\ BatchesStand)'
<1> USE DEF StillStore, truck, store
<1>1. (scene \in Scenes /\ TruckTyped /\ StoreTyped)'
  BY DEF Typed, TruckTyped, StoreTyped
<1>2. StockConserved' /\ BatchesStand'
  BY DEF Stands, StockConserved, GivenBack, BatchesStand
<1> QED
  BY <1>1, <1>2

(* Promises are only taken away. *)
PromisesLast == /\ promise' \in [Customers -> PromiseRow \cup {NoPromise}]
                /\ \A cust \in Customers : promise'[cust] # NoPromise => promise'[cust] = promise[cust]

LEMMA Cleared == ASSUME BooksTyped, NEW b, NEW cust, ClearIf(b, cust) PROVE PromisesLast
BY DEF BooksTyped, ClearIf, PromisesLast

LEMMA PromisesStay == ASSUME BooksTyped, UNCHANGED promise PROVE PromisesLast
BY DEF BooksTyped, PromisesLast

(* Payments keep the delivery they mirror, and none comes back to life. *)
PaymentsKeep ==
    /\ payments' \in Seq(PaymentRow)
    /\ \A i \in DOMAIN payments : /\ i \in DOMAIN payments' /\ payments'[i].ref = payments[i].ref
                                  /\ payments'[i].live => payments[i].live
    /\ \A i \in DOMAIN payments' \ DOMAIN payments : payments'[i].ref = NoRef

LEMMA BooksKept ==
    ASSUME Writes, StillStore, UNCHANGED <<deliveries, custody>>, PaymentsKeep, PromisesLast,
           balance' \in [Customers -> Int], NEW c \in Clerks, Close(c)
    PROVE  Writes' /\ Kept
<1> USE DEF Writes
<1>1. (scene \in Scenes /\ TruckTyped /\ StoreTyped /\ StockConserved /\ BatchesStand)'
  BY StoreStill
<1>2. BooksTyped'
  BY DEF Typed, BooksTyped, PaymentsKeep, PromisesLast
<1>3. Links'
  BY DEF Links, PaymentsKeep, PromisesLast, StillStore, truck
<1>4. MirrorsStand'
  BY DEF Stands, MirrorsStand, PaymentsKeep
<1>5. PromiseHasDelivery'
  BY DEF Stands, PromiseHasDelivery, PromisesLast
<1>6. Kept
  BY DEF Kept, StillStore, truck
<1>7. Grows
  BY DEF Grows, StillStore, truck, PaymentsKeep, PromisesLast
<1>8. \A d \in Clerks \ {c} : In(d, "create") => run'[pending[d].run].status = "none"
  BY DEF Pend, Creates, StillStore, truck
<1>9. Pend'
  BY <1>7, <1>8, Closed
<1> QED
  BY <1>1, <1>2, <1>3, <1>4, <1>5, <1>6, <1>9 DEF Typed, Stands

LEMMA PaymentCommits ==
    ASSUME Writes, NEW c \in Clerks, CommitPayment(c), StillStore, UNCHANGED custody
    PROVE  Writes' /\ Kept
<1> DEFINE row == pending[c].row
<1>1. row \in PaymentRow /\ row.ref = NoRef
  BY DEF CommitPayment, In, Writes, Pend, TxGood
<1>2. payments \in Seq(PaymentRow) /\ payments' = Append(payments, row)
  BY DEF CommitPayment, Writes, Typed, BooksTyped
<1>3. PaymentsKeep
  <2> HIDE DEF row
  <2>1. /\ payments' \in Seq(PaymentRow) /\ DOMAIN payments' = DOMAIN payments \cup {Len(payments) + 1}
        /\ payments'[Len(payments) + 1] = row /\ \A i \in DOMAIN payments : payments'[i] = payments[i]
    BY <1>1, <1>2, Appended
  <2> QED
    BY <1>1, <2>1 DEF PaymentsKeep
<1>4. PromisesLast
  BY Cleared DEF CommitPayment, Writes, Typed
<1>5. balance' \in [Customers -> Int]
  <2>1. balance' = [balance EXCEPT ![row.customer] = @ - row.amount]
    BY DEF CommitPayment
  <2>2. row.amount \in Int /\ row.customer \in Customers
    BY <1>1 DEF PaymentRow
  <2>3. balance \in [Customers -> Int]
    BY DEF Writes, Typed, BooksTyped
  <2> HIDE DEF row
  <2> QED
    BY <2>1, <2>2, <2>3
<1> QED
  BY <1>3, <1>4, <1>5, BooksKept DEF CommitPayment

LEMMA EditCommits ==
    ASSUME Writes, NEW c \in Clerks, CommitEdit(c), StillStore, UNCHANGED custody
    PROVE  Writes' /\ Kept
<1> DEFINE i == pending[c].payment
           x == [payments EXCEPT ![i].amount = pending[c].amount]
           y == [x EXCEPT ![i].day = pending[c].day]
           z == [y EXCEPT ![i].credit = pending[c].amount]
<1>1. i \in DOMAIN payments /\ pending[c].amount \in Int /\ pending[c].day \in Int
  BY DEF CommitEdit, In, Writes, Pend, TxGood
<1>2. payments \in Seq(PaymentRow)
  BY DEF Writes, Typed, BooksTyped
<1>3. payments[i] \in PaymentRow
  BY <1>1, <1>2, SeqDomain
<1>4. payments' = z
  BY Zenon DEF CommitEdit
<1>5. /\ DOMAIN z = DOMAIN payments /\ z = [j \in DOMAIN payments |-> z[j]]
      /\ \A j \in DOMAIN payments : j # i => z[j] = payments[j]
      /\ z[i] \in PaymentRow /\ z[i].ref = payments[i].ref /\ z[i].live = payments[i].live
  <2> HIDE DEF i
  <2>1. /\ x = [j \in DOMAIN payments |-> x[j]] /\ \A j \in DOMAIN payments : j # i => x[j] = payments[j]
        /\ x[i] = [payments[i] EXCEPT !.amount = pending[c].amount]
    BY <1>1
  <2>2. x[i] \in PaymentRow /\ x[i].ref = payments[i].ref /\ x[i].live = payments[i].live
    BY <1>1, <1>3, <2>1 DEF PaymentRow
  <2> HIDE DEF x
  <2>3. /\ y = [j \in DOMAIN payments |-> y[j]] /\ \A j \in DOMAIN payments : j # i => y[j] = payments[j]
        /\ y[i] = [x[i] EXCEPT !.day = pending[c].day]
    BY <1>1, <2>1
  <2>4. y[i] \in PaymentRow /\ y[i].ref = payments[i].ref /\ y[i].live = payments[i].live
    BY <1>1, <2>2, <2>3 DEF PaymentRow
  <2> HIDE DEF y
  <2>5. /\ z = [j \in DOMAIN payments |-> z[j]] /\ \A j \in DOMAIN payments : j # i => z[j] = payments[j]
        /\ z[i] = [y[i] EXCEPT !.credit = pending[c].amount]
    BY <1>1, <2>3
  <2>6. z[i] \in PaymentRow /\ z[i].ref = payments[i].ref /\ z[i].live = payments[i].live
    BY <1>1, <2>4, <2>5 DEF PaymentRow
  <2> QED
    BY <2>5, <2>6
<1>6. PaymentsKeep
  <2> HIDE DEF z, i
  <2>1. \A j \in DOMAIN payments : z[j] \in PaymentRow
    BY <1>2, <1>5, SeqDomain
  <2>2. z \in Seq(PaymentRow)
    BY <1>2, <1>5, <2>1, Rewritten
  <2> QED
    BY <1>4, <1>5, <2>2 DEF PaymentsKeep
<1>7. PromisesLast
  <2>1. PICK cust : ClearIf(pending[c].clears, cust)
    BY DEF CommitEdit
  <2> QED
    BY <2>1, Cleared DEF Writes, Typed
<1>8. balance' \in [Customers -> Int]
  <2>1. balance' = [balance EXCEPT ![payments[i].customer] = @ + payments[i].credit - pending[c].amount]
    BY DEF CommitEdit
  <2>2. payments[i].credit \in Int /\ payments[i].customer \in Customers
    BY <1>3 DEF PaymentRow
  <2>3. balance \in [Customers -> Int]
    BY DEF Writes, Typed, BooksTyped
  <2> HIDE DEF i
  <2> QED
    BY <1>1, <2>1, <2>2, <2>3
<1> HIDE DEF z
<1> QED
  BY <1>6, <1>7, <1>8, BooksKept DEF CommitEdit

LEMMA RemoveCommits ==
    ASSUME Writes, NEW c \in Clerks, CommitRemove(c), StillStore, UNCHANGED custody
    PROVE  Writes' /\ Kept
<1> DEFINE i == pending[c].payment
<1>1. i \in DOMAIN payments /\ pending[c].credit \in Int
  BY DEF CommitRemove, In, Writes, Pend, TxGood
<1>2. payments \in Seq(PaymentRow)
  BY DEF Writes, Typed, BooksTyped
<1>3. payments' = [payments EXCEPT ![i].live = FALSE]
  BY DEF CommitRemove
<1>4. balance' = [balance EXCEPT ![payments[i].customer] = @ + pending[c].credit]
  BY DEF CommitRemove
<1> HIDE DEF i
<1>5. \A j \in DOMAIN payments : payments[j] \in PaymentRow
  BY <1>2, SeqDomain
<1>6. /\ payments' = [j \in DOMAIN payments |-> payments'[j]]
      /\ \A j \in DOMAIN payments : j # i => payments'[j] = payments[j]
      /\ payments'[i] = [payments[i] EXCEPT !.live = FALSE]
  BY <1>1, <1>3
<1>7. payments'[i] \in PaymentRow /\ payments'[i].ref = payments[i].ref /\ ~payments'[i].live
  BY <1>1, <1>5, <1>6 DEF PaymentRow
<1>8. payments' \in Seq(PaymentRow)
  BY <1>2, <1>5, <1>6, <1>7, Rewritten
<1>9. PaymentsKeep
  BY <1>6, <1>7, <1>8 DEF PaymentsKeep
<1>10. PromisesLast
  BY PromisesStay DEF CommitRemove, Writes, Typed
<1>11. balance' \in [Customers -> Int]
  <2>1. balance \in [Customers -> Int]
    BY DEF Writes, Typed, BooksTyped
  <2>2. payments[i].customer \in Customers
    BY <1>1, <1>5 DEF PaymentRow
  <2> QED
    BY <1>1, <1>4, <2>1, <2>2
<1> QED
  BY <1>9, <1>10, <1>11, BooksKept DEF CommitRemove

LEMMA HealCommits ==
    ASSUME Writes, NEW c \in Clerks, CommitHeal(c), StillStore, UNCHANGED custody
    PROVE  Writes' /\ Kept
<1>1. PaymentsKeep
  BY DEF PaymentsKeep, CommitHeal, Writes, Typed, BooksTyped
<1>2. PromisesLast
  BY Cleared DEF CommitHeal, Writes, Typed
<1>3. balance' \in [Customers -> Int]
  BY DEF CommitHeal, Writes, Typed, BooksTyped
<1> QED
  BY <1>1, <1>2, <1>3, BooksKept DEF CommitHeal

LEMMA Aborts ==
    ASSUME Writes, NEW c \in Clerks, Abort(c), StillStore, UNCHANGED custody
    PROVE  Writes' /\ Kept
<1>1. PaymentsKeep
  BY DEF PaymentsKeep, Abort, account, Writes, Typed, BooksTyped
<1>2. PromisesLast
  BY PromisesStay DEF Abort, account, Writes, Typed
<1>3. balance' \in [Customers -> Int]
  BY DEF Abort, account, Writes, Typed, BooksTyped
<1> QED
  BY <1>1, <1>2, <1>3, BooksKept DEF Abort

-----------------------------------------------------------------------------
(* Commits that move the running totals of a run. *)
Moved(r, s, k, x, y) == /\ x = [run EXCEPT ![r].sales = s]
                        /\ y = [x EXCEPT ![r].cash = k]
                        /\ x[r].cash = run[r].cash => k \in Int

LEMMA RunMoved ==
    ASSUME run \in [Runs -> RunRow], NEW r \in Runs, NEW s \in Int, NEW k, NEW x, NEW y,
           Moved(r, s, k, x, y)
    PROVE  /\ x[r].cash = run[r].cash
           /\ y \in [Runs -> RunRow] /\ \A q \in Runs : q # r => y[q] = run[q]
           /\ y[r] = [status |-> run[r].status, sales |-> s, cash |-> k]
<1>1. run[r] \in RunRow
  OBVIOUS
<1> USE DEF Moved
<1>2. /\ x = [q \in Runs |-> x[q]] /\ \A q \in Runs : q # r => x[q] = run[q]
      /\ x[r] = [run[r] EXCEPT !.sales = s]
  OBVIOUS
<1>3. x[r] = [status |-> run[r].status, sales |-> s, cash |-> run[r].cash]
  BY <1>1, <1>2 DEF RunRow
<1>4. /\ y = [q \in Runs |-> y[q]] /\ \A q \in Runs : q # r => y[q] = x[q]
      /\ y[r] = [x[r] EXCEPT !.cash = k]
  BY <1>2
<1>5. x[r].cash = run[r].cash /\ k \in Int
  BY <1>3
<1>6. y[r] = [status |-> run[r].status, sales |-> s, cash |-> k]
  BY <1>3, <1>4
<1>7. y[r] \in RunRow
  BY <1>1, <1>5, <1>6 DEF RunRow
<1>8. \A q \in Runs : y[q] \in RunRow
  BY <1>2, <1>4, <1>7
<1> QED
  BY <1>2, <1>4, <1>5, <1>6, <1>8

LEMMA TruckMoved ==
    ASSUME Typed, run' \in [Runs -> RunRow], \A r \in Runs : run'[r].status = run[r].status,
           UNCHANGED <<scene, opening, closing, returned, store>>, Stands
    PROVE  /\ (scene \in Scenes /\ TruckTyped /\ StoreTyped /\ StockConserved /\ BatchesStand)'
           /\ \A r \in Runs : \A p \in DOMAIN closing[r] :
                  p \in DOMAIN closing'[r] /\ closing'[r][p] = closing[r][p]
           /\ \A r \in Runs : run[r].status = "CLOSED" => run'[r].status = "CLOSED"
<1> USE DEF store
<1>1. (scene \in Scenes /\ TruckTyped /\ StoreTyped)'
  BY DEF Typed, TruckTyped, StoreTyped
<1>2. StockConserved' /\ BatchesStand'
  BY DEF Stands, StockConserved, GivenBack, BatchesStand
<1> QED
  BY <1>1, <1>2

LEMMA DeliverCommits ==
    ASSUME Writes, NEW c \in Clerks, CommitDeliver(c), UNCHANGED scene
    PROVE  Writes' /\ Kept
<1> DEFINE d == pending[c].row
           n == Len(deliveries) + 1
           paid == [customer |-> d.customer, amount |-> d.cash, day |-> d.day,
                    ref |-> n, credit |-> 0, live |-> TRUE]
<1>1. d \in DeliveryRow /\ run[d.run].status # "none" /\ d.status = "DELIVERED"
  BY DEF CommitDeliver, In, Writes, Pend, TxGood
<1>2. deliveries \in Seq(DeliveryRow) /\ payments \in Seq(PaymentRow) /\ run \in [Runs -> RunRow]
  BY DEF Writes, Typed, BooksTyped, TruckTyped
<1>3. /\ deliveries' \in Seq(DeliveryRow) /\ n \in Nat \ {0} /\ n \notin DOMAIN deliveries
      /\ DOMAIN deliveries' = DOMAIN deliveries \cup {n} /\ deliveries'[n] = d
      /\ \A m \in DOMAIN deliveries : deliveries'[m] = deliveries[m]
  <2>1. deliveries' = Append(deliveries, d)
    BY DEF CommitDeliver
  <2> HIDE DEF d
  <2> QED
    BY <1>1, <1>2, <2>1, Appended
<1>4. /\ run' \in [Runs -> RunRow] /\ \A r \in Runs : run'[r].status = run[r].status
  <2> DEFINE x == [run EXCEPT ![d.run].sales = @ + d.sale]
             y == [x EXCEPT ![d.run].cash = @ + d.cash]
             s == run[d.run].sales + d.sale
             k == x[d.run].cash + d.cash
  <2>1. run' = y
    BY Zenon DEF CommitDeliver
  <2>2. d.run \in Runs /\ d.sale \in Int /\ d.cash \in Int
    BY <1>1 DEF DeliveryRow
  <2> HIDE DEF d
  <2>3. s \in Int /\ (x[d.run].cash = run[d.run].cash => k \in Int)
    BY <1>2, <2>2 DEF RunRow
  <2>4. Moved(d.run, s, k, x, y)
    BY <2>3 DEF Moved
  <2> HIDE DEF x, y, s, k
  <2>7. /\ y \in [Runs -> RunRow] /\ \A q \in Runs : q # d.run => y[q] = run[q]
        /\ y[d.run] = [status |-> run[d.run].status, sales |-> s, cash |-> k]
    BY <1>2, <2>2, <2>3, <2>4, RunMoved
  <2> QED
    BY <2>1, <2>7
<1>5. /\ payments' \in Seq(PaymentRow) /\ DOMAIN payments \subseteq DOMAIN payments'
      /\ \A i \in DOMAIN payments : payments'[i] = payments[i]
      /\ \A i \in DOMAIN payments' \ DOMAIN payments : payments'[i].ref = n
      /\ \A i, j \in DOMAIN payments' \ DOMAIN payments : i = j
  <2>1. payments' = IF d.cash = 0 THEN payments ELSE Append(payments, paid)
    BY DEF CommitDeliver, Charge
  <2>2. paid \in PaymentRow
    BY <1>1, <1>3 DEF PaymentRow, DeliveryRow
  <2>3. paid.ref = n
    OBVIOUS
  <2> HIDE DEF paid, n, d
  <2>4. CASE d.cash = 0
    BY <1>2, <2>1, <2>4
  <2>5. CASE d.cash # 0
    BY <1>2, <2>1, <2>2, <2>3, <2>5, Appended
  <2> QED
    BY <2>4, <2>5
<1>6. d.customer \in Customers /\ d.promised \in Promises \cup {NoPromise}
  BY <1>1 DEF DeliveryRow
<1>7. /\ promise' \in [Customers -> PromiseRow \cup {NoPromise}]
      /\ \A cust \in Customers : promise'[cust] # NoPromise =>
             \/ promise'[cust] = promise[cust]
             \/ cust = d.customer /\ promise'[cust].delivery = n
  <2> DEFINE new == [due |-> d.promised.due, amount |-> d.promised.amount, delivery |-> n]
             got == IF d.promised # NoPromise THEN new
                    ELSE IF pending[c].clears THEN NoPromise ELSE promise[d.customer]
  <2>1. promise \in [Customers -> PromiseRow \cup {NoPromise}]
    BY DEF Writes, Typed, BooksTyped
  <2>2. promise' = [promise EXCEPT ![d.customer] = got]
    BY DEF CommitDeliver, Charge
  <2>3. d.promised # NoPromise => new \in PromiseRow
    BY <1>3, <1>6 DEF Promises, PromiseRow
  <2>4. new.delivery = n
    OBVIOUS
  <2> HIDE DEF new, n, d
  <2> QED
    BY <1>6, <2>1, <2>2, <2>3, <2>4
<1>8. balance' \in [Customers -> Int] /\ custody' \in [Customers -> Int]
  <2>1. /\ balance' = [balance EXCEPT ![d.customer] = @ + d.sale - d.cash]
        /\ custody' = [custody EXCEPT ![d.customer] = @ + Containers(d)]
    BY DEF CommitDeliver, Charge
  <2>2. d.sale \in Int /\ d.cash \in Int /\ Containers(d) \in Int
    BY <1>1, ContainersInt DEF DeliveryRow
  <2>3. balance \in [Customers -> Int] /\ custody \in [Customers -> Int]
    BY DEF Writes, Typed, BooksTyped
  <2> HIDE DEF d
  <2> QED
    BY <1>6, <2>1, <2>2, <2>3
<1>9. BooksTyped'
  BY <1>3, <1>5, <1>7, <1>8 DEF BooksTyped
<1> HIDE DEF n, d, paid
<1>l. /\ \A m \in DOMAIN deliveries : deliveries[m].run \in Runs /\ deliveries[m].customer \in Customers
      /\ \A i \in DOMAIN payments : payments[i].ref \in {NoRef} \cup DOMAIN deliveries
      /\ d.run \in Runs
  <2>1. \A m \in DOMAIN deliveries : deliveries[m] \in DeliveryRow
    BY <1>2, SeqDomain
  <2> QED
    BY <1>1, <2>1 DEF DeliveryRow, Writes, Links
<1>10. Links'
  <2>1. \A m \in DOMAIN deliveries' : run'[deliveries'[m].run].status # "none"
    BY <1>1, <1>3, <1>4, <1>l DEF Writes, Links
  <2>2. \A i \in DOMAIN payments' : payments'[i].ref \in {NoRef} \cup DOMAIN deliveries'
    BY <1>3, <1>5, <1>l
  <2>3. \A cust \in Customers : promise'[cust] # NoPromise => promise'[cust].delivery \in DOMAIN deliveries'
    BY <1>3, <1>7 DEF Writes, Links
  <2> QED
    BY <2>1, <2>2, <2>3 DEF Links
<1>11. MirrorsStand'
  <2> SUFFICES ASSUME NEW i \in DOMAIN payments', payments'[i].live, payments'[i].ref # NoRef
               PROVE  /\ deliveries'[payments'[i].ref].status = "DELIVERED"
                      /\ \A j \in DOMAIN payments' : payments'[j].ref = payments'[i].ref => i = j
    BY DEF MirrorsStand
  <2>1. CASE i \in DOMAIN payments
    <3>1. /\ payments'[i] = payments[i] /\ payments[i].ref \in DOMAIN deliveries
          /\ deliveries[payments[i].ref].status = "DELIVERED"
          /\ \A j \in DOMAIN payments : payments[j].ref = payments[i].ref => i = j
      BY <1>5, <1>l, <2>1 DEF Writes, Stands, MirrorsStand
    <3> QED
      BY <1>3, <1>5, <3>1
  <2>2. CASE i \notin DOMAIN payments
    BY <1>1, <1>3, <1>5, <1>l, <2>2 DEF NoRef
  <2> QED
    BY <2>1, <2>2
<1>12. PromiseHasDelivery'
  <2> SUFFICES ASSUME NEW cust \in Customers, promise'[cust] # NoPromise
               PROVE  LET m == promise'[cust].delivery IN
                          deliveries'[m].status = "DELIVERED" /\ deliveries'[m].customer = cust
    BY DEF PromiseHasDelivery
  <2> QED
    BY <1>1, <1>3, <1>7 DEF Writes, Links, Stands, PromiseHasDelivery
<1>13. /\ (scene \in Scenes /\ TruckTyped /\ StoreTyped /\ StockConserved /\ BatchesStand)' /\ Kept
  <2>1. UNCHANGED <<scene, opening, closing, returned, store>>
    BY DEF CommitDeliver
  <2> QED
    BY <1>3, <1>4, <2>1, TruckMoved DEF Writes, Kept
<1>14. Grows
  BY <1>3, <1>4, <1>5, <1>7 DEF Grows
<1>15. \A e \in Clerks \ {c} : In(e, "create") => run'[pending[e].run].status = "none"
  BY <1>4 DEF Writes, Pend, Creates, TxGood, In
<1>16. Pend'
  BY <1>14, <1>15, Closed DEF CommitDeliver, Writes
<1> QED
  BY <1>9, <1>10, <1>11, <1>12, <1>13, <1>16 DEF Writes, Typed, Stands

LEMMA CancelCommits ==
    ASSUME Writes, NEW c \in Clerks, CommitCancel(c), UNCHANGED scene
    PROVE  Writes' /\ Kept
<1> DEFINE n == pending[c].delivery
           d == deliveries[n]
<1>1. /\ n \in DOMAIN deliveries
      /\ promise[d.customer] # NoPromise /\ promise[d.customer].delivery = n => pending[c].clears
  BY DEF CommitCancel, In, Writes, Pend, TxGood
<1>2. deliveries \in Seq(DeliveryRow) /\ payments \in Seq(PaymentRow) /\ run \in [Runs -> RunRow]
  BY DEF Writes, Typed, BooksTyped, TruckTyped
<1>3. /\ deliveries' = [deliveries EXCEPT ![n].status = "CANCELLED"]
      /\ custody' = [custody EXCEPT ![d.customer] = @ - Reversed(d)]
      /\ balance' = [balance EXCEPT ![d.customer] = @ - d.sale + d.cash]
      /\ payments' = [i \in DOMAIN payments |->
                         IF payments[i].ref = n THEN [payments[i] EXCEPT !.live = FALSE]
                         ELSE payments[i]]
      /\ ClearIf(pending[c].clears, d.customer)
  BY DEF CommitCancel, Uncharge
<1>4. \A m \in DOMAIN deliveries : deliveries[m] \in DeliveryRow
  BY <1>2, SeqDomain
<1>5. /\ d \in DeliveryRow /\ d.run \in Runs /\ d.customer \in Customers
      /\ d.sale \in Int /\ d.cash \in Int /\ Reversed(d) \in Int
  <2>1. d \in DeliveryRow
    BY <1>1, <1>4
  <2> HIDE DEF d
  <2> QED
    BY <2>1, ContainersInt DEF DeliveryRow
<1>6. /\ run' \in [Runs -> RunRow] /\ \A r \in Runs : run'[r].status = run[r].status
  <2> DEFINE x == [run EXCEPT ![d.run].sales = @ - d.sale]
             y == [x EXCEPT ![d.run].cash = @ - d.cash]
             s == run[d.run].sales - d.sale
             k == x[d.run].cash - d.cash
  <2>1. run' = y
    BY Zenon DEF CommitCancel
  <2> HIDE DEF d
  <2>3. s \in Int /\ (x[d.run].cash = run[d.run].cash => k \in Int)
    BY <1>2, <1>5 DEF RunRow
  <2>4. Moved(d.run, s, k, x, y)
    BY <2>3 DEF Moved
  <2> HIDE DEF x, y, s, k
  <2>7. /\ y \in [Runs -> RunRow] /\ \A q \in Runs : q # d.run => y[q] = run[q]
        /\ y[d.run] = [status |-> run[d.run].status, sales |-> s, cash |-> k]
    BY <1>2, <1>5, <2>3, <2>4, RunMoved
  <2> QED
    BY <2>1, <2>7
<1> HIDE DEF n
<1>7. /\ deliveries' \in Seq(DeliveryRow) /\ DOMAIN deliveries' = DOMAIN deliveries
      /\ \A m \in DOMAIN deliveries : /\ m # n => deliveries'[m] = deliveries[m]
                                      /\ deliveries'[m].run = deliveries[m].run
                                      /\ deliveries'[m].customer = deliveries[m].customer
      /\ deliveries'[n].status = "CANCELLED"
  <2>1. /\ deliveries' = [m \in DOMAIN deliveries |-> deliveries'[m]]
        /\ DOMAIN deliveries' = DOMAIN deliveries
        /\ \A m \in DOMAIN deliveries : m # n => deliveries'[m] = deliveries[m]
        /\ deliveries'[n] = [deliveries[n] EXCEPT !.status = "CANCELLED"]
    BY <1>1, <1>3
  <2>2. /\ deliveries'[n] \in DeliveryRow /\ deliveries'[n].status = "CANCELLED"
        /\ deliveries'[n].run = deliveries[n].run /\ deliveries'[n].customer = deliveries[n].customer
    BY <1>1, <1>4, <2>1 DEF DeliveryRow
  <2>3. \A m \in DOMAIN deliveries : deliveries'[m] \in DeliveryRow
    BY <1>4, <2>1, <2>2
  <2>4. deliveries' \in Seq(DeliveryRow)
    BY <1>2, <2>1, <2>3, Rewritten
  <2> QED
    BY <2>1, <2>2, <2>4
<1>8. /\ payments' \in Seq(PaymentRow) /\ DOMAIN payments' = DOMAIN payments
      /\ \A i \in DOMAIN payments : /\ payments'[i].ref = payments[i].ref
                                    /\ payments'[i].live => payments[i].live /\ payments[i].ref # n
  <2>1. \A i \in DOMAIN payments : payments[i] \in PaymentRow
    BY <1>2, SeqDomain
  <2>2. /\ payments' = [i \in DOMAIN payments |-> payments'[i]] /\ DOMAIN payments' = DOMAIN payments
        /\ \A i \in DOMAIN payments :
               payments'[i] = IF payments[i].ref = n THEN [payments[i] EXCEPT !.live = FALSE] ELSE payments[i]
    BY <1>3
  <2>3. ASSUME NEW i \in DOMAIN payments
        PROVE  /\ payments'[i] \in PaymentRow /\ payments'[i].ref = payments[i].ref
               /\ payments'[i].live => payments[i].live /\ payments[i].ref # n
    BY <2>1, <2>2 DEF PaymentRow
  <2>4. payments' \in Seq(PaymentRow)
    BY <1>2, <2>2, <2>3, Rewritten
  <2> QED
    BY <2>2, <2>3, <2>4
<1> HIDE DEF d
<1>9. balance' \in [Customers -> Int] /\ custody' \in [Customers -> Int]
  <2>1. balance \in [Customers -> Int] /\ custody \in [Customers -> Int]
    BY DEF Writes, Typed, BooksTyped
  <2> QED
    BY <1>3, <1>5, <2>1
<1>10. PromisesLast /\ (pending[c].clears => promise'[d.customer] = NoPromise)
  <2>1. BooksTyped
    BY DEF Writes, Typed
  <2>2. PromisesLast
    BY <1>3, <2>1, Cleared
  <2> QED
    BY <1>3, <1>5, <2>1, <2>2 DEF ClearIf, BooksTyped
<1>11. BooksTyped'
  BY <1>7, <1>8, <1>9, <1>10 DEF BooksTyped, PromisesLast
<1>12. Links'
  <2>1. \A m \in DOMAIN deliveries' : run'[deliveries'[m].run].status # "none"
    BY <1>4, <1>6, <1>7, ZenonT(60) DEF Writes, Links, DeliveryRow
  <2> QED
    BY <1>7, <1>8, <1>10, <2>1 DEF Links, Writes, PromisesLast
<1>13. MirrorsStand'
  BY <1>7, <1>8 DEF Writes, Links, Stands, MirrorsStand
<1>14. PromiseHasDelivery'
  <2> SUFFICES ASSUME NEW cust \in Customers, promise'[cust] # NoPromise
               PROVE  LET m == promise'[cust].delivery IN
                          deliveries'[m].status = "DELIVERED" /\ deliveries'[m].customer = cust
    BY DEF PromiseHasDelivery
  <2>1. /\ promise'[cust] = promise[cust] /\ promise[cust].delivery \in DOMAIN deliveries
        /\ deliveries[promise[cust].delivery].status = "DELIVERED"
        /\ deliveries[promise[cust].delivery].customer = cust
    BY <1>10 DEF PromisesLast, Writes, Links, Stands, PromiseHasDelivery
  <2>2. promise[cust].delivery # n
    BY <1>1, <1>10, <2>1 DEF d
  <2> QED
    BY <1>7, <2>1, <2>2
<1>15. /\ (scene \in Scenes /\ TruckTyped /\ StoreTyped /\ StockConserved /\ BatchesStand)' /\ Kept
  <2>1. UNCHANGED <<scene, opening, closing, returned, store>>
    BY DEF CommitCancel
  <2> QED
    BY <1>6, <1>7, <2>1, TruckMoved DEF Writes, Kept
<1>16. Grows
  BY <1>6, <1>7, <1>8, <1>10 DEF Grows, PromisesLast
<1>17. \A e \in Clerks \ {c} : In(e, "create") => run'[pending[e].run].status = "none"
  BY <1>6 DEF Writes, Pend, Creates, TxGood, In
<1>18. Pend'
  BY <1>16, <1>17, Closed DEF CommitCancel, Writes
<1> QED
  BY <1>11, <1>12, <1>13, <1>14, <1>15, <1>18 DEF Writes, Typed, Stands

-----------------------------------------------------------------------------
(* Refill batches. *)
LEMMA BatchTables ==
    ASSUME Writes, UNCHANGED <<scene, FilledRest>>, NEW b, NEW n \in Nat,
           filled' = [filled EXCEPT ![b] = n], n = 0 => loaded[b] = 0
    PROVE  Typed' /\ Links' /\ Stands' /\ Kept /\ Grows
<1> USE DEF FilledRest, truck, account
<1>1. filled \in [Batches -> Nat]
  BY DEF Writes, Typed, StoreTyped
<1>2. /\ filled' \in [Batches -> Nat]
      /\ \A a \in Batches : filled'[a] = IF a = b THEN n ELSE filled[a]
  BY <1>1
<1>3. Typed'
  BY <1>2 DEF Writes, Typed, TruckTyped, StoreTyped, BooksTyped
<1>4. BatchesStand'
  BY <1>2 DEF Writes, Typed, StoreTyped, Stands, BatchesStand
<1>5. StockConserved' /\ MirrorsStand' /\ PromiseHasDelivery'
  BY DEF Writes, Stands, StockConserved, GivenBack, MirrorsStand, PromiseHasDelivery
<1>6. Links' /\ Kept /\ Grows
  BY DEF Writes, Links, Kept, Grows
<1> QED
  BY <1>3, <1>4, <1>5, <1>6 DEF Stands

LEMMA BatchCommits ==
    ASSUME Writes, NEW c \in Clerks, CommitBatch(c), UNCHANGED scene
    PROVE  Writes' /\ Kept
<1> DEFINE b == pending[c].batch
           n == pending[c].cans
<1>1. n \in Nat /\ filled' = [filled EXCEPT ![b] = n] /\ (n = 0 => loaded[b] = 0)
  BY DEF CommitBatch, In, Writes, Pend, TxGood
<1>2. UNCHANGED <<scene, FilledRest>>
  BY DEF CommitBatch
<1> HIDE DEF n, b
<1>3. Typed' /\ Links' /\ Stands' /\ Kept /\ Grows
  BY <1>1, <1>2, BatchTables
<1>4. \A e \in Clerks \ {c} : In(e, "create") => run'[pending[e].run].status = "none"
  BY <1>2 DEF Writes, Pend, Creates, FilledRest, truck
<1>5. Pend'
  BY <1>3, <1>4, Closed DEF CommitBatch, Writes
<1> QED
  BY <1>3, <1>5 DEF Writes

LEMMA BatchCreated ==
    ASSUME Writes, NEW b \in Batches, NEW cans \in scene.fills, CreateBatch(b, cans), UNCHANGED scene
    PROVE  Writes' /\ Kept
<1>1. cans \in Nat \ {0}
  BY SceneInputs DEF Writes, Typed
<1>2. /\ UNCHANGED <<scene, FilledRest>> /\ pending' = pending
      /\ filled' = [filled EXCEPT ![b] = cans]
  BY DEF CreateBatch
<1>3. Typed' /\ Links' /\ Stands' /\ Kept
  BY <1>1, <1>2, BatchTables
<1>4. Pend'
  BY <1>2 DEF FilledRest, truck, account, Writes, Pend, TxGood, Creates, In
<1> QED
  BY <1>3, <1>4 DEF Writes

-----------------------------------------------------------------------------
(* Commits at the run and the warehouse; the books stay as they are. *)
StillBooks == UNCHANGED <<scene, custody, deliveries, account>>

LEMMA BooksStill ==
    ASSUME Writes, StillBooks, \A r \in Runs : run[r].status # "none" => run'[r].status # "none"
    PROVE  (BooksTyped /\ Links /\ MirrorsStand /\ PromiseHasDelivery)' /\ Grows
           /\ scene' \in Scenes
           /\ \A n \in DOMAIN deliveries : deliveries[n].status = "CANCELLED" =>
                  deliveries'[n].status = "CANCELLED"
<1> USE DEF StillBooks, account
<1>1. /\ \A n \in DOMAIN deliveries : deliveries[n].run \in Runs
      /\ scene \in Scenes /\ BooksTyped
  <2>1. \A n \in DOMAIN deliveries : deliveries[n] \in DeliveryRow
    BY SeqDomain DEF Writes, Typed, BooksTyped
  <2> QED
    BY <2>1 DEF DeliveryRow, Writes, Typed
<1>2. BooksTyped' /\ MirrorsStand' /\ PromiseHasDelivery'
  BY DEF Writes, Typed, BooksTyped, Stands, MirrorsStand, PromiseHasDelivery
<1>3. Links' /\ Grows
  BY <1>1 DEF Writes, Links, Grows
<1> QED
  BY <1>1, <1>2, <1>3

LEMMA ReturnsInt ==
    ASSUME returned \in [Runs -> Quantities], NEW p \in Products
    PROVE  SumFunction([r \in Runs |-> returned[r][p]]) \in Int
<1> DEFINE f == [r \in Runs |-> returned[r][p]]
<1>1. f = [r \in Runs |-> f[r]] /\ \A r \in Runs : f[r] \in Int
  BY DEF Quantities
<1> HIDE DEF f
<1>2. SumFunction(f) \in Int
  BY <1>1, Finite, Whole
<1> QED
  BY <1>2 DEF f

(* A load leaves the warehouse when the OUT rows outside S are given back. *)
LEMMA LoadPosted ==
    ASSUME Typed, StockConserved, NEW S \in SUBSET outs, NEW r \in Runs, NEW load, IsLoad(load),
           NEW stock, Available(load, stock),
           \A p \in Products : /\ stock[p] \in Nat
                               /\ stock[p] = warehouse[p] + GivenBack(outs, p) - GivenBack(S, p),
           warehouse' = [p \in Products |-> stock[p] - Fill(load)[p]],
           outs' = S \cup OutRows(r, load), updates' = updates + 1,
           filled' = filled, loaded' \in [Batches -> Nat], returned' = returned
    PROVE  StoreTyped' /\ StockConserved'
<1>1. StoreTyped /\ returned \in [Runs -> Quantities]
  BY DEF Typed, TruckTyped
<1>2. ASSUME NEW p \in Products
      PROVE  /\ Fill(load)[p] \in Nat /\ Fill(load)[p] <= stock[p]
             /\ warehouse'[p] = stock[p] - Fill(load)[p] /\ warehouse'[p] \in Nat
  BY FillIs DEF Available, IsLoad
<1>3. warehouse' \in Quantities
  BY <1>2 DEF Quantities
<1>4. /\ OutRows(r, load) \subseteq OutRow /\ IsFiniteSet(OutRows(r, load))
      /\ \A m \in OutRows(r, load) : m.no = updates
  BY <1>1, OutRowsNew
<1>5. IsFiniteSet(S) /\ S \subseteq OutRow /\ \A m \in S : m.no < updates /\ m.no \in Nat
  BY <1>1, FS_Subset DEF StoreTyped, OutRow
<1>6. outs' \subseteq OutRow /\ IsFiniteSet(outs')
  BY <1>4, <1>5, FS_Union
<1>7. updates' \in Nat /\ \A m \in outs' : m.no < updates'
  BY <1>1, <1>4, <1>5 DEF StoreTyped
<1>8. StoreTyped'
  BY <1>1, <1>3, <1>6, <1>7 DEF StoreTyped
<1>9. ASSUME NEW p \in Products
      PROVE  warehouse'[p] = Stock[p] - GivenBack(outs', p) + SumFunction([q \in Runs |-> returned[q][p]])
  <2> DEFINE back == SumFunction([q \in Runs |-> returned[q][p]])
  <2>1. back \in Int
    BY <1>1, ReturnsInt
  <2>2. warehouse[p] = Stock[p] - GivenBack(outs, p) + back
    BY DEF StockConserved
  <2>3. GivenBack(outs', p) = GivenBack(S, p) + Fill(load)[p]
    BY <1>1, OutsAdded
  <2>4. GivenBack(outs, p) \in Nat /\ GivenBack(S, p) \in Nat
    BY <1>1, GivenBackNat
  <2>5. Stock[p] \in Nat
    BY InputsAssumption DEF Quantities
  <2> HIDE DEF back
  <2>6. warehouse'[p] = Stock[p] - GivenBack(outs', p) + back
    BY <1>2, <2>1, <2>2, <2>3, <2>4, <2>5
  <2> QED
    BY <2>6 DEF back
<1> QED
  BY <1>8, <1>9 DEF StockConserved, GivenBack

LEMMA CreateCommits ==
    ASSUME Writes, NEW c \in Clerks, CommitCreate(c), UNCHANGED scene
    PROVE  Writes' /\ Kept
<1> DEFINE tx == pending[c]
           r == tx.run
           load == tx.load
           refill == tx.refill
<1>1. /\ r \in Runs /\ IsLoad(load) /\ run[r].status = "none"
      /\ refill = NoRefill \/ (refill.batch \in Batches /\ refill.qty \in Nat)
      /\ \A d \in Clerks : In(d, "create") /\ pending[d].run = r => d = c
  BY DEF CommitCreate, In, Writes, Pend, TxGood, Creates
<1>2. /\ run' = [run EXCEPT ![r].status = "OPEN"]
      /\ opening' = [opening EXCEPT ![r] = Fill(load)]
      /\ refill # NoRefill => filled[refill.batch] > 0
      /\ loaded' = IF refill = NoRefill THEN loaded
                   ELSE [loaded EXCEPT ![refill.batch] = @ + refill.qty]
      /\ \/ /\ Available(load, warehouse)
            /\ warehouse' = [p \in Products |-> warehouse[p] - Fill(load)[p]]
            /\ outs' = outs \cup OutRows(r, load) /\ updates' = updates + 1
         \/ UNCHANGED <<warehouse, outs, updates>>
      /\ UNCHANGED <<closing, returned, filled>>
  BY DEF CommitCreate
<1> HIDE DEF load, refill, r
<1>3. /\ run \in [Runs -> RunRow] /\ opening \in [Runs -> Quantities] /\ warehouse \in Quantities
      /\ loaded \in [Batches -> Nat] /\ filled \in [Batches -> Nat] /\ StoreTyped /\ Typed
  BY DEF Writes, Typed, TruckTyped, StoreTyped
<1>4. /\ run' \in [Runs -> RunRow] /\ run'[r].status = "OPEN"
      /\ \A q \in Runs : q # r => run'[q] = run[q]
  <2>1. run'[r] = [run[r] EXCEPT !.status = "OPEN"] /\ \A q \in Runs : q # r => run'[q] = run[q]
    BY <1>1, <1>2, <1>3
  <2>2. run'[r] \in RunRow /\ run'[r].status = "OPEN"
    BY <1>1, <1>3, <2>1 DEF RunRow
  <2>3. run' = [q \in Runs |-> run'[q]]
    BY <1>2, <1>3
  <2>4. \A q \in Runs : run'[q] \in RunRow
    BY <1>3, <2>1, <2>2
  <2> QED
    BY <2>1, <2>2, <2>3, <2>4
<1>5. TruckTyped'
  <2>1. opening' \in [Runs -> Quantities]
    BY <1>1, <1>2, <1>3, FillIs
  <2> QED
    BY <1>2, <1>4, <2>1 DEF TruckTyped, Writes, Typed
<1>6. loaded' \in [Batches -> Nat] /\ BatchesStand'
  <2>1. CASE refill = NoRefill
    BY <1>2, <1>3, <2>1 DEF Writes, Stands, BatchesStand
  <2>2. CASE refill # NoRefill
    <3>1. /\ refill.batch \in Batches /\ refill.qty \in Nat /\ filled[refill.batch] > 0
          /\ loaded' = [loaded EXCEPT ![refill.batch] = loaded[refill.batch] + refill.qty]
      BY <1>1, <1>2, <2>2
    <3>2. loaded' \in [Batches -> Nat]
      BY <1>3, <3>1
    <3>3. \A b \in Batches : b # refill.batch => loaded'[b] = loaded[b]
      BY <1>3, <3>1
    <3> QED
      BY <1>2, <3>1, <3>2, <3>3 DEF Writes, Stands, BatchesStand
  <2> QED
    BY <2>1, <2>2
<1>7. StoreTyped' /\ StockConserved'
  <2>1. CASE UNCHANGED <<warehouse, outs, updates>>
    BY <1>2, <1>6, <2>1 DEF Writes, Typed, StoreTyped, Stands, StockConserved, GivenBack
  <2>2. CASE ~UNCHANGED <<warehouse, outs, updates>>
    <3>1. /\ Available(load, warehouse)
          /\ warehouse' = [p \in Products |-> warehouse[p] - Fill(load)[p]]
          /\ outs' = outs \cup OutRows(r, load) /\ updates' = updates + 1
      BY <1>2, <2>2
    <3>2. \A p \in Products : /\ warehouse[p] \in Nat
                              /\ warehouse[p] = warehouse[p] + GivenBack(outs, p) - GivenBack(outs, p)
      <4> TAKE p \in Products
      <4>1. GivenBack(outs, p) \in Nat
        BY <1>3, GivenBackNat
      <4>2. warehouse[p] \in Nat
        BY <1>3 DEF Quantities
      <4> QED
        BY <4>1, <4>2
    <3>3. StockConserved /\ filled' = filled /\ returned' = returned /\ outs \in SUBSET outs
      BY <1>2 DEF Writes, Stands
    <3> QED
      BY <1>1, <1>3, <1>6, <3>1, <3>2, <3>3, LoadPosted
  <2> QED
    BY <2>1, <2>2
<1>8. (BooksTyped /\ Links /\ MirrorsStand /\ PromiseHasDelivery)' /\ Grows /\ scene' \in Scenes
  BY <1>4, BooksStill DEF CommitCreate, StillBooks
<1>9. Kept
  BY <1>1, <1>2, <1>4 DEF Kept, CommitCreate
<1>10. \A d \in Clerks \ {c} : In(d, "create") => run'[pending[d].run].status = "none"
  BY <1>1, <1>4 DEF Writes, Pend, Creates, TxGood, In
<1>11. Pend'
  BY <1>8, <1>10, Closed DEF CommitCreate, Writes
<1> QED
  BY <1>5, <1>6, <1>7, <1>8, <1>9, <1>11 DEF Writes, Typed, Stands

LEMMA UpdateCommits ==
    ASSUME Writes, NEW c \in Clerks, CommitUpdate(c), UNCHANGED scene
    PROVE  Writes' /\ Kept
<1> DEFINE tx == pending[c]
           r == tx.run
           load == tx.load
           undo == tx.undo
           stock == [p \in Products |-> warehouse[p] + GivenBack(undo, p)]
<1>1. r \in Runs /\ IsLoad(load)
  BY DEF CommitUpdate, In, Writes, Pend, TxGood
<1>2. /\ opening' = [opening EXCEPT ![r] = Over(load, @)]
      /\ \/ /\ undo \subseteq outs /\ Available(load, stock)
            /\ warehouse' = [p \in Products |-> stock[p] - Fill(load)[p]]
            /\ outs' = (outs \ undo) \cup OutRows(r, load)
         \/ UNCHANGED <<warehouse, outs>>
      /\ updates' = updates + 1
      /\ UNCHANGED <<run, closing, returned, filled, loaded>>
  BY DEF CommitUpdate
<1>3. /\ opening \in [Runs -> Quantities] /\ warehouse \in Quantities
      /\ loaded \in [Batches -> Nat] /\ StoreTyped /\ Typed
  BY DEF Writes, Typed, TruckTyped, StoreTyped
<1> HIDE DEF load, undo, r
<1>4. TruckTyped'
  <2>1. opening' \in [Runs -> Quantities]
    BY <1>1, <1>2, <1>3, OverIs
  <2> QED
    BY <1>2, <2>1 DEF TruckTyped, Typed, Writes
<1>5. StoreTyped' /\ StockConserved'
  <2>1. CASE UNCHANGED <<warehouse, outs>>
    <3>1. \A m \in outs : m.no < updates /\ m.no \in Nat
      BY <1>3 DEF StoreTyped, OutRow
    <3>2. updates' \in Nat /\ \A m \in outs : m.no < updates'
      BY <1>2, <1>3, <3>1 DEF StoreTyped
    <3>3. StoreTyped'
      BY <1>2, <1>3, <2>1, <3>2 DEF StoreTyped
    <3>4. StockConserved'
      BY <1>2, <2>1 DEF Writes, Stands, StockConserved, GivenBack
    <3> QED
      BY <3>3, <3>4
  <2>2. CASE ~UNCHANGED <<warehouse, outs>>
    <3> DEFINE S == outs \ undo
    <3>1. /\ undo \subseteq outs /\ Available(load, stock)
          /\ warehouse' = [p \in Products |-> stock[p] - Fill(load)[p]]
          /\ outs' = S \cup OutRows(r, load)
      BY <1>2, <2>2
    <3>2. \A p \in Products : /\ stock[p] \in Nat
                              /\ stock[p] = warehouse[p] + GivenBack(outs, p) - GivenBack(S, p)
      <4> TAKE p \in Products
      <4>1. GivenBack(undo, p) \in Nat /\ GivenBack(S, p) \in Nat /\ GivenBack(outs, p) \in Nat
        BY <1>3, <3>1, GivenBackNat
      <4>2. warehouse[p] \in Nat
        BY <1>3 DEF Quantities
      <4>3. GivenBack(outs, p) = GivenBack(undo, p) + GivenBack(S, p)
        BY <1>3, <3>1, OutsTaken
      <4> HIDE DEF S
      <4> QED
        BY <4>1, <4>2, <4>3
    <3>3. /\ StockConserved /\ filled' = filled /\ returned' = returned
          /\ S \in SUBSET outs /\ loaded' \in [Batches -> Nat] /\ updates' = updates + 1
      BY <1>2, <1>3 DEF Writes, Stands
    <3> HIDE DEF S, stock
    <3> QED
      BY <1>1, <1>3, <3>1, <3>2, <3>3, LoadPosted
  <2> QED
    BY <2>1, <2>2
<1>6. BatchesStand'
  BY <1>2 DEF Writes, Stands, BatchesStand
<1>7. (BooksTyped /\ Links /\ MirrorsStand /\ PromiseHasDelivery)' /\ Grows /\ scene' \in Scenes
  BY BooksStill DEF CommitUpdate, StillBooks
<1>8. Kept
  BY DEF Kept, CommitUpdate
<1>9. \A d \in Clerks \ {c} : In(d, "create") => run'[pending[d].run].status = "none"
  BY <1>2 DEF Writes, Pend, Creates
<1>10. Pend'
  BY <1>7, <1>9, Closed DEF CommitUpdate, Writes
<1> QED
  BY <1>4, <1>5, <1>6, <1>7, <1>8, <1>10 DEF Writes, Typed, Stands

LEMMA CloseCommits ==
    ASSUME Writes, NEW c \in Clerks, CommitClose(c), UNCHANGED scene
    PROVE  Writes' /\ Kept
<1> DEFINE tx == pending[c]
           r == tx.run
           count == tx.count
           ret == tx.ret
           total == [status |-> "CLOSED", sales |-> tx.sales, cash |-> tx.cash]
<1>1. /\ r \in Runs /\ DOMAIN count \subseteq Products /\ IsLoad(ret)
      /\ run[r].status # "none" /\ total \in RunRow
  BY DEF CommitClose, In, Writes, Pend, TxGood, RunRow
<1>2. /\ DOMAIN count \cap DOMAIN closing[r] = {}
      /\ closing' = [closing EXCEPT ![r] = Over(count, @)]
      /\ returned' = [returned EXCEPT ![r] = [p \in Products |-> @[p] + Fill(ret)[p]]]
      /\ warehouse' = [p \in Products |-> warehouse[p] + Fill(ret)[p]]
      /\ run' = [run EXCEPT ![r] = total]
      /\ UNCHANGED <<opening, outs, filled, loaded, updates>>
  BY DEF CommitClose
<1>3. /\ run \in [Runs -> RunRow] /\ returned \in [Runs -> Quantities] /\ warehouse \in Quantities
      /\ closing = [q \in Runs |-> closing[q]] /\ \A q \in Runs : DOMAIN closing[q] \subseteq Products
      /\ opening \in [Runs -> Quantities] /\ StoreTyped
  BY DEF Writes, Typed, TruckTyped, StoreTyped
<1>t. total.status = "CLOSED"
  OBVIOUS
<1> HIDE DEF r, count, ret, total
<1>4. /\ closing' = [q \in Runs |-> closing'[q]]
      /\ \A q \in Runs : q # r => closing'[q] = closing[q]
      /\ DOMAIN closing'[r] \subseteq Products
      /\ \A p \in DOMAIN closing[r] : p \in DOMAIN closing'[r] /\ closing'[r][p] = closing[r][p]
  <2>1. /\ closing' = [q \in Runs |-> closing'[q]]
        /\ \A q \in Runs : q # r => closing'[q] = closing[q]
        /\ closing'[r] = Over(count, closing[r])
    BY <1>1, <1>2, <1>3
  <2>2. /\ DOMAIN Over(count, closing[r]) = DOMAIN count \cup DOMAIN closing[r]
        /\ \A p \in DOMAIN closing[r] : Over(count, closing[r])[p] = closing[r][p]
    BY <1>2 DEF Over
  <2> QED
    BY <1>1, <1>3, <2>1, <2>2
<1>5. \A p \in Products : Fill(ret)[p] \in Nat
  BY <1>1, FillIs DEF Quantities
<1>6. /\ returned' \in [Runs -> Quantities] /\ \A q \in Runs : q # r => returned'[q] = returned[q]
      /\ \A p \in Products : returned'[r][p] = returned[r][p] + Fill(ret)[p]
  <2> DEFINE new == [p \in Products |-> returned[r][p] + Fill(ret)[p]]
  <2>1. new \in Quantities
    BY <1>1, <1>3, <1>5 DEF Quantities
  <2>2. returned' = [returned EXCEPT ![r] = new] /\ \A p \in Products : new[p] = returned[r][p] + Fill(ret)[p]
    BY <1>2
  <2> HIDE DEF new
  <2> QED
    BY <1>1, <1>3, <2>1, <2>2
<1>7. warehouse' \in Quantities /\ \A p \in Products : warehouse'[p] = warehouse[p] + Fill(ret)[p]
  BY <1>2, <1>3, <1>5 DEF Quantities
<1>8. /\ run' \in [Runs -> RunRow] /\ run'[r].status = "CLOSED"
      /\ \A q \in Runs : q # r => run'[q] = run[q]
  BY <1>1, <1>2, <1>3, <1>t
<1>9. TruckTyped' /\ StoreTyped'
  BY <1>1, <1>2, <1>3, <1>4, <1>6, <1>7, <1>8 DEF TruckTyped, StoreTyped
<1>10. StockConserved'
  <2> SUFFICES ASSUME NEW p \in Products
               PROVE  warehouse'[p] = Stock[p] - GivenBack(outs, p)
                                      + SumFunction([q \in Runs |-> returned'[q][p]])
    BY <1>2 DEF StockConserved, GivenBack
  <2> DEFINE f == [q \in Runs |-> returned[q][p]]
             g == [q \in Runs |-> returned'[q][p]]
  <2>1. /\ DOMAIN f = Runs /\ DOMAIN g = Runs /\ \A q \in Runs : f[q] \in Int /\ g[q] \in Int
        /\ \A q \in Runs : q # r => g[q] = f[q]
        /\ g[r] = f[r] + Fill(ret)[p]
    BY <1>1, <1>3, <1>6 DEF Quantities
  <2>2. warehouse[p] = Stock[p] - GivenBack(outs, p) + SumFunction(f)
    BY DEF Writes, Stands, StockConserved
  <2> HIDE DEF f, g
  <2>3. SumFunction(g) = SumFunction(f) - f[r] + g[r] /\ SumFunction(f) \in Int
    BY <1>1, <2>1, Finite, TotalChange
  <2>4. GivenBack(outs, p) \in Nat /\ Stock[p] \in Nat
    BY <1>3, GivenBackNat, InputsAssumption DEF Quantities
  <2>5. warehouse'[p] = Stock[p] - GivenBack(outs, p) + SumFunction(g)
    BY <1>1, <1>5, <1>7, <2>1, <2>2, <2>3, <2>4
  <2> QED
    BY <2>5 DEF g
<1>11. BatchesStand'
  BY <1>2 DEF Writes, Stands, BatchesStand
<1>12. (BooksTyped /\ Links /\ MirrorsStand /\ PromiseHasDelivery)' /\ Grows /\ scene' \in Scenes
  BY <1>1, <1>8, BooksStill DEF CommitClose, StillBooks
<1>13. Kept
  BY <1>4, <1>8 DEF Kept, CommitClose
<1>14. \A d \in Clerks \ {c} : In(d, "create") => run'[pending[d].run].status = "none"
  BY <1>1, <1>8 DEF Writes, Pend, Creates, TxGood, In
<1>15. Pend'
  BY <1>12, <1>14, Closed DEF CommitClose, Writes
<1> QED
  BY <1>9, <1>10, <1>11, <1>12, <1>13, <1>15 DEF Writes, Typed, Stands

-----------------------------------------------------------------------------
LEMMA InitWrites == Init => Writes
<1> SUFFICES ASSUME Init PROVE Writes
  OBVIOUS
<1> USE DEF Init
<1>1. None \in Quantities
  BY DEF None, Quantities
<1>2. scene \in Scenes /\ TruckTyped
  BY <1>1 DEF TruckTyped, RunRow
<1>3. StoreTyped
  <2>1. IsFiniteSet({})
    BY FS_EmptySet
  <2> QED
    BY <1>2, <2>1, InputsAssumption DEF StoreTyped
<1>4. BooksTyped
  BY DEF BooksTyped
<1>5. Links
  BY DEF Links
<1>6. StockConserved
  <2> SUFFICES ASSUME NEW p \in Products
               PROVE  warehouse[p] = Stock[p] - GivenBack(outs, p)
                                     + SumFunction([r \in Runs |-> returned[r][p]])
    BY DEF StockConserved
  <2> DEFINE none == [m \in {x \in outs : x.product = p} |-> m.qty]
             back == [r \in Runs |-> returned[r][p]]
  <2>1. DOMAIN none = {}
    OBVIOUS
  <2>2. DOMAIN back = Runs /\ \A r \in Runs : back[r] = 0
    BY DEF None
  <2>3. GivenBack(outs, p) = SumFunction(none)
    BY DEF GivenBack
  <2> HIDE DEF none, back
  <2>4. SumFunction(none) = 0
    BY <2>1, TotalEmpty
  <2>5. SumFunction(back) = 0
    BY <2>2, Finite, TotalZero
  <2>6. warehouse[p] = Stock[p] /\ Stock[p] \in Nat
    BY InputsAssumption DEF Quantities
  <2>7. warehouse[p] = Stock[p] - GivenBack(outs, p) + SumFunction(back)
    BY <2>3, <2>4, <2>5, <2>6
  <2> QED
    BY <2>7 DEF back
<1>7. BatchesStand /\ MirrorsStand /\ PromiseHasDelivery
  BY DEF BatchesStand, MirrorsStand, PromiseHasDelivery
<1>8. Pend
  BY DEF Pend, TxGood, Creates, In, NoTx
<1> QED
  BY <1>2, <1>3, <1>4, <1>5, <1>6, <1>7, <1>8 DEF Writes, Typed, Stands

LEMMA WritesStep ==
    ASSUME Writes, [Next]_vars PROVE Writes' /\ Kept
<1>1. CASE UNCHANGED vars
  <2>1. Calm /\ pending' = pending
    BY <1>1 DEF vars, Calm
  <2>2. Typed' /\ Links' /\ Stands' /\ Kept
    BY <2>1, CalmTables DEF Writes
  <2>3. Pend'
    BY <2>1 DEF Calm, truck, store, account, Writes, Pend, TxGood, Creates, In
  <2> QED
    BY <2>2, <2>3 DEF Writes
<1>2. CASE Next
  <2>1. PICK c \in scene.clerks :
            \/ RunStep(c)
            \/ (AccountStep(c) \/ Abort(c)) /\ UNCHANGED <<truck, store, custody>>
    BY <1>2 DEF Next
  <2>2. c \in Clerks /\ scene' = scene
    BY <1>2, SceneInputs DEF Next, Writes, Typed
  <2>3. CASE RunStep(c)
    <3>1. ASSUME NEW r \in Runs, NEW load \in scene.loads,
                 NEW refill \in scene.refills \cup {NoRefill}, BeginCreate(c, r, load, refill)
          PROVE  Writes' /\ Kept
      BY <2>2, <3>1, CreateOpens
    <3>2. ASSUME NEW r \in Runs, NEW load \in scene.loads, BeginUpdate(c, r, load)
          PROVE  Writes' /\ Kept
      BY <2>2, <3>2, UpdateOpens
    <3>3. ASSUME NEW r \in Runs, NEW count \in scene.closings, NEW ret \in scene.returns,
                 BeginClose(c, r, count, ret)
          PROVE  Writes' /\ Kept
      BY <2>2, <3>3, CloseOpens
    <3>4. ASSUME NEW r \in Runs, NEW s \in scene.stops, BeginDeliver(c, r, s) PROVE Writes' /\ Kept
      BY <2>2, <3>4, DeliverOpens
    <3>5. ASSUME NEW n \in DOMAIN deliveries, BeginCancel(c, n) PROVE Writes' /\ Kept
      BY <2>2, <3>5, CancelOpens
    <3>6. ASSUME NEW b \in Batches, BeginRemoveBatch(c, b) PROVE Writes' /\ Kept
      BY <2>2, <3>6, BatchOpens
    <3>7. ASSUME NEW b \in Batches, NEW cans \in scene.fills,
                 CreateBatch(b, cans) \/ BeginEditBatch(c, b, cans)
          PROVE  Writes' /\ Kept
      BY <2>2, <3>7, BatchOpens, BatchCreated
    <3>8. CASE CommitCreate(c) \/ CommitUpdate(c) \/ CommitClose(c)
      BY <2>2, <3>8, CreateCommits, UpdateCommits, CloseCommits
    <3>9. CASE CommitBatch(c) \/ CommitDeliver(c) \/ CommitCancel(c)
      BY <2>2, <3>9, BatchCommits, DeliverCommits, CancelCommits
    <3> QED
      BY <2>3, <3>1, <3>2, <3>3, <3>4, <3>5, <3>6, <3>7, <3>8, <3>9 DEF RunStep
  <2>4. CASE (AccountStep(c) \/ Abort(c)) /\ UNCHANGED <<truck, store, custody>>
    <3>1. StillStore /\ UNCHANGED custody
      BY <2>2, <2>4 DEF StillStore
    <3>2. CASE Abort(c)
      BY <2>2, <3>1, <3>2, Aborts
    <3>3. CASE AccountStep(c)
      <4>1. CASE CommitPayment(c) \/ CommitEdit(c) \/ CommitRemove(c) \/ CommitHeal(c)
        BY <2>2, <3>1, <4>1, PaymentCommits, EditCommits, RemoveCommits, HealCommits
      <4>2. CASE \/ \E q \in scene.payments : BeginPayment(c, q)
                 \/ \E i \in DOMAIN payments : BeginRemove(c, i) \/ \E e \in scene.edits : BeginEdit(c, i, e)
                 \/ \E cust \in Customers : BeginHeal(c, cust)
        BY <2>2, <2>4, <4>2, AccountOpens
      <4> QED
        BY <3>3, <4>1, <4>2 DEF AccountStep
    <3> QED
      BY <2>4, <3>2, <3>3
  <2> QED
    BY <2>1, <2>3, <2>4
<1> QED
  BY <1>1, <1>2

(* Written out from the invariant. *)
LEMMA WritesType == ASSUME Writes PROVE TypeOK
<1>1. \A n \in DOMAIN deliveries : deliveries[n] \in DeliveryRow
  BY SeqDomain DEF Writes, Typed, BooksTyped
<1>2. /\ \A r \in Runs : /\ run[r].status \in {"none", "OPEN", "CLOSED"}
                         /\ run[r].sales \in Int /\ run[r].cash \in Int
                         /\ opening[r] \in Quantities /\ returned[r] \in Quantities
                         /\ DOMAIN closing[r] \subseteq Products
      /\ warehouse \in [Products -> Nat]
      /\ \A m \in outs : m.run \in Runs /\ m.product \in Products /\ m.qty \in Nat \ {0}
  BY DEF Writes, Typed, TruckTyped, StoreTyped, RunRow, OutRow, Quantities
<1>3. \A n \in DOMAIN deliveries : deliveries[n].status \in {"DELIVERED", "CANCELLED"}
  BY <1>1 DEF DeliveryRow
<1> QED
  BY <1>2, <1>3 DEF TypeOK, Writes, Links

LEMMA AlwaysWrites == Spec => []Writes
BY InitWrites, WritesStep, PTL DEF Spec

(* However requests interleave, every table keeps its shape, the warehouse *)
(* is conserved (what went out to trucks and did not come back is missing, *)
(* nothing else), a batch that was loaded from stays, the cash of a        *)
(* delivery counts as one payment while the delivery stands, and a promise *)
(* to pay belongs to a delivery that stands.                               *)
THEOREM WritesAlwaysStand == Spec => []WritesStand
<1>1. Writes => WritesStand
  BY WritesType DEF Writes, Stands, WritesStand
<1> QED
  BY <1>1, AlwaysWrites, PTL

(* However requests interleave, a product is counted once at the close of  *)
(* a run, a closed run never opens again (close has no lock: the unique    *)
(* key of the CLOSING rows and the states alone hold), and a cancelled     *)
(* delivery never stands again.                                            *)
THEOREM ClosedAndCountedOnce == Spec => CountedOnce
<1>1. Writes /\ [Next]_vars => [Kept]_vars
  BY WritesStep
<1> QED
  BY <1>1, AlwaysWrites, PTL DEF Spec, CountedOnce, Kept

-----------------------------------------------------------------------------
(* One request at a time.  The sums over deliveries, of any state. *)
StandingIn(ds, r) == {d \in DOMAIN ds : ds[d].run = r /\ ds[d].status = "DELIVERED"}
DeliveredIn(ds, r, p) == SumFunction([d \in StandingIn(ds, r) |-> ds[d].items[p]])
SalesIn(ds, r) == SumFunction([d \in StandingIn(ds, r) |-> ds[d].sale])
CashIn(ds, r) == SumFunction([d \in StandingIn(ds, r) |-> ds[d].cash])
HeldIn(ds, cust) == SumFunction([d \in DeliveredTo(ds, cust) |-> Containers(ds[d])])
OwedIn(ds, cust) == SumFunction([d \in DeliveredTo(ds, cust) |-> ds[d].sale - ds[d].cash])

(* In b delivery n stands, in a it is not there yet, or is cancelled. *)
More(a, b, n) ==
    /\ a \in Seq(DeliveryRow) /\ b \in Seq(DeliveryRow) /\ DOMAIN a \subseteq DOMAIN b
    /\ n \in DOMAIN b /\ b[n].status = "DELIVERED"
    /\ n \in DOMAIN a => a[n].status # "DELIVERED"
    /\ \A m \in DOMAIN b : m # n => m \in DOMAIN a /\ a[m] = b[m]

LEMMA MoreSets ==
    ASSUME NEW a, NEW b, NEW n, More(a, b, n)
    PROVE  /\ \A r : /\ StandingIn(b, r) = IF b[n].run = r THEN StandingIn(a, r) \cup {n}
                                           ELSE StandingIn(a, r)
                     /\ n \notin StandingIn(a, r) /\ IsFiniteSet(StandingIn(a, r))
           /\ \A k : /\ DeliveredTo(b, k) = IF b[n].customer = k THEN DeliveredTo(a, k) \cup {n}
                                            ELSE DeliveredTo(a, k)
                     /\ n \notin DeliveredTo(a, k) /\ IsFiniteSet(DeliveredTo(a, k))
           /\ b[n] \in DeliveryRow /\ \A m \in DOMAIN a : a[m] \in DeliveryRow
           /\ \A r : \A m \in StandingIn(a, r) : m \in DOMAIN a /\ b[m] = a[m]
           /\ \A k : \A m \in DeliveredTo(a, k) : m \in DOMAIN a /\ b[m] = a[m]
<1>1. /\ IsFiniteSet(DOMAIN a) /\ \A m \in DOMAIN a : a[m] \in DeliveryRow
      /\ b[n] \in DeliveryRow
  BY SeqDomain DEF More
<1>2. ASSUME NEW r
      PROVE  /\ StandingIn(b, r) = IF b[n].run = r THEN StandingIn(a, r) \cup {n}
                                   ELSE StandingIn(a, r)
             /\ n \notin StandingIn(a, r) /\ StandingIn(a, r) \subseteq DOMAIN a
             /\ \A m \in StandingIn(a, r) : b[m] = a[m]
  BY DEF StandingIn, More
<1>3. ASSUME NEW k
      PROVE  /\ DeliveredTo(b, k) = IF b[n].customer = k THEN DeliveredTo(a, k) \cup {n}
                                    ELSE DeliveredTo(a, k)
             /\ n \notin DeliveredTo(a, k) /\ DeliveredTo(a, k) \subseteq DOMAIN a
             /\ \A m \in DeliveredTo(a, k) : b[m] = a[m]
  BY DEF DeliveredTo, More
<1>4. /\ \A r : IsFiniteSet(StandingIn(a, r))
      /\ \A k : IsFiniteSet(DeliveredTo(a, k))
  BY <1>1, <1>2, <1>3, FS_Subset
<1> QED
  BY <1>1, <1>2, <1>3, <1>4

LEMMA MoreOfRun ==
    ASSUME NEW a, NEW b, NEW n, More(a, b, n), NEW r
    PROVE  /\ SalesIn(b, r) = SalesIn(a, r) + (IF b[n].run = r THEN b[n].sale ELSE 0)
           /\ CashIn(b, r) = CashIn(a, r) + (IF b[n].run = r THEN b[n].cash ELSE 0)
           /\ \A p \in Products :
                  /\ DeliveredIn(b, r, p) = DeliveredIn(a, r, p) + (IF b[n].run = r THEN b[n].items[p] ELSE 0)
                  /\ DeliveredIn(a, r, p) \in Int
           /\ SalesIn(a, r) \in Int /\ CashIn(a, r) \in Int
<1> DEFINE S == StandingIn(a, r)
           T == StandingIn(b, r)
           c == b[n].run = r
<1>1. /\ IsFiniteSet(S) /\ n \notin S /\ T = (IF c THEN S \cup {n} ELSE S)
      /\ b[n] \in DeliveryRow /\ \A m \in S : a[m] \in DeliveryRow /\ b[m] = a[m]
      /\ c \in BOOLEAN
  BY MoreSets
<1>2. SalesIn(b, r) = SalesIn(a, r) + (IF c THEN b[n].sale ELSE 0) /\ SalesIn(a, r) \in Int
  <2> DEFINE f == [d \in S |-> a[d].sale]
             g == [d \in T |-> b[d].sale]
  <2> HIDE DEF S, T, c
  <2>1. /\ f = [d \in S |-> f[d]] /\ g = [d \in T |-> g[d]] /\ (c => g[n] = b[n].sale)
        /\ b[n].sale \in Int /\ \A d \in S : g[d] = f[d] /\ f[d] \in Int
    BY <1>1 DEF DeliveryRow
  <2> HIDE DEF f, g
  <2>2. Joined(S, T, n, c, f, g, b[n].sale)
    BY <1>1, <2>1 DEF Joined
  <2>3. SumFunction(g) = SumFunction(f) + (IF c THEN b[n].sale ELSE 0) /\ SumFunction(f) \in Int
    BY <2>2, TotalJoined
  <2> QED
    BY <2>3 DEF SalesIn, f, g, S, T
<1>3. CashIn(b, r) = CashIn(a, r) + (IF c THEN b[n].cash ELSE 0) /\ CashIn(a, r) \in Int
  <2> DEFINE f == [d \in S |-> a[d].cash]
             g == [d \in T |-> b[d].cash]
  <2> HIDE DEF S, T, c
  <2>1. /\ f = [d \in S |-> f[d]] /\ g = [d \in T |-> g[d]] /\ (c => g[n] = b[n].cash)
        /\ b[n].cash \in Int /\ \A d \in S : g[d] = f[d] /\ f[d] \in Int
    BY <1>1 DEF DeliveryRow
  <2> HIDE DEF f, g
  <2>2. Joined(S, T, n, c, f, g, b[n].cash)
    BY <1>1, <2>1 DEF Joined
  <2>3. SumFunction(g) = SumFunction(f) + (IF c THEN b[n].cash ELSE 0) /\ SumFunction(f) \in Int
    BY <2>2, TotalJoined
  <2> QED
    BY <2>3 DEF CashIn, f, g, S, T
<1>4. ASSUME NEW p \in Products
      PROVE  /\ DeliveredIn(b, r, p) = DeliveredIn(a, r, p) + (IF c THEN b[n].items[p] ELSE 0)
             /\ DeliveredIn(a, r, p) \in Int
  <2> DEFINE f == [d \in S |-> a[d].items[p]]
             g == [d \in T |-> b[d].items[p]]
  <2> HIDE DEF S, T, c
  <2>1. /\ f = [d \in S |-> f[d]] /\ g = [d \in T |-> g[d]] /\ (c => g[n] = b[n].items[p])
        /\ b[n].items[p] \in Int /\ \A d \in S : g[d] = f[d] /\ f[d] \in Int
    BY <1>1 DEF DeliveryRow, Quantities
  <2> HIDE DEF f, g
  <2>2. Joined(S, T, n, c, f, g, b[n].items[p])
    BY <1>1, <2>1 DEF Joined
  <2>3. SumFunction(g) = SumFunction(f) + (IF c THEN b[n].items[p] ELSE 0) /\ SumFunction(f) \in Int
    BY <2>2, TotalJoined
  <2> QED
    BY <2>3 DEF DeliveredIn, f, g, S, T
<1> QED
  BY <1>2, <1>3, <1>4

LEMMA MoreOfCustomer ==
    ASSUME NEW a, NEW b, NEW n, More(a, b, n), NEW k
    PROVE  /\ HeldIn(b, k) = HeldIn(a, k) + (IF b[n].customer = k THEN Containers(b[n]) ELSE 0)
           /\ OwedIn(b, k) = OwedIn(a, k) + (IF b[n].customer = k THEN b[n].sale - b[n].cash ELSE 0)
           /\ HeldIn(a, k) \in Int /\ OwedIn(a, k) \in Int
<1> DEFINE S == DeliveredTo(a, k)
           T == DeliveredTo(b, k)
           c == b[n].customer = k
<1>1. /\ IsFiniteSet(S) /\ n \notin S /\ T = (IF c THEN S \cup {n} ELSE S)
      /\ b[n] \in DeliveryRow /\ \A m \in S : a[m] \in DeliveryRow /\ b[m] = a[m]
      /\ c \in BOOLEAN
  BY MoreSets
<1>2. HeldIn(b, k) = HeldIn(a, k) + (IF c THEN Containers(b[n]) ELSE 0) /\ HeldIn(a, k) \in Int
  <2> DEFINE f == [d \in S |-> Containers(a[d])]
             g == [d \in T |-> Containers(b[d])]
  <2> HIDE DEF S, T, c
  <2>0. \A d \in DeliveryRow : Containers(d) \in Int
    BY ContainersInt DEF DeliveryRow
  <2>1. /\ f = [d \in S |-> f[d]] /\ g = [d \in T |-> g[d]] /\ (c => g[n] = Containers(b[n]))
        /\ Containers(b[n]) \in Int /\ \A d \in S : g[d] = f[d] /\ f[d] \in Int
    BY <1>1, <2>0
  <2> HIDE DEF f, g
  <2>2. Joined(S, T, n, c, f, g, Containers(b[n]))
    BY <1>1, <2>1 DEF Joined
  <2>3. SumFunction(g) = SumFunction(f) + (IF c THEN Containers(b[n]) ELSE 0) /\ SumFunction(f) \in Int
    BY <2>2, TotalJoined
  <2> QED
    BY <2>3 DEF HeldIn, f, g, S, T
<1>3. OwedIn(b, k) = OwedIn(a, k) + (IF c THEN b[n].sale - b[n].cash ELSE 0) /\ OwedIn(a, k) \in Int
  <2> DEFINE f == [d \in S |-> a[d].sale - a[d].cash]
             g == [d \in T |-> b[d].sale - b[d].cash]
             v == b[n].sale - b[n].cash
  <2> HIDE DEF S, T, c
  <2>1. /\ f = [d \in S |-> f[d]] /\ g = [d \in T |-> g[d]] /\ (c => g[n] = v)
        /\ v \in Int /\ \A d \in S : g[d] = f[d] /\ f[d] \in Int
    BY <1>1 DEF DeliveryRow
  <2> HIDE DEF f, g, v
  <2>2. Joined(S, T, n, c, f, g, v)
    BY <1>1, <2>1 DEF Joined
  <2>3. SumFunction(g) = SumFunction(f) + (IF c THEN v ELSE 0) /\ SumFunction(f) \in Int
    BY <2>2, TotalJoined
  <2> QED
    BY <2>3 DEF OwedIn, f, g, S, T, v
<1> QED
  BY <1>2, <1>3

-----------------------------------------------------------------------------
(* Standalone payments, in any state. *)
StandaloneIn(ps, cust) == {i \in PaidBy(ps, cust) : ps[i].ref = NoRef}
PaidIn(ps, cust) == SumFunction([i \in StandaloneIn(ps, cust) |-> ps[i].amount])

(* The payments once the cash of delivery n is mirrored. *)
WithCash(d, n) ==
    IF d.cash = 0 THEN payments
    ELSE Append(payments, [customer |-> d.customer, amount |-> d.cash, day |-> d.day,
                           ref |-> n, credit |-> 0, live |-> TRUE])

(* What an open transaction has read is still so. *)
CreateSees(tx) == tx.refill # NoRefill =>
    tx.refill.qty <= filled[tx.refill.batch] - loaded[tx.refill.batch]
UpdateSees(tx) ==
    /\ run[tx.run].status = "OPEN" /\ tx.load \in scene.loads
    /\ \A p \in DOMAIN tx.load : tx.load[p] >= Delivered(tx.run, p)
    /\ tx.undo = {m \in outs : m.run = tx.run}
CloseSees(tx) ==
    /\ run[tx.run].status = "OPEN"
    /\ \A p \in DOMAIN tx.ret : tx.ret[p] <= Leftover(tx.run, p)
    /\ tx.sales = Sales(tx.run) /\ tx.cash = Cash(tx.run)
BatchSees(tx) == tx.cans >= loaded[tx.batch]
DeliverSees(tx) ==
    LET d == tx.row IN
        /\ run[d.run].status = "OPEN"
        /\ \A p \in Products : d.items[p] > 0 =>
               d.items[p] <= opening[d.run][p] - Delivered(d.run, p)
        /\ tx.clears => Settled(d.customer, balance[d.customer] + d.sale - d.cash,
                                WithCash(d, Len(deliveries) + 1), Append(deliveries, d))
CancelSees(tx) ==
    LET d == deliveries[tx.delivery] IN
        /\ d.status = "DELIVERED" /\ run[d.run].status = "OPEN"
        /\ tx.clears => promise[d.customer].delivery = tx.delivery
PaySees(tx) ==
    /\ tx.row.live /\ tx.row.credit = tx.row.amount
    /\ tx.clears => Settled(tx.row.customer, balance[tx.row.customer] - tx.row.amount,
                            Append(payments, tx.row), deliveries)
EditSees(tx) ==
    LET old == payments[tx.payment]
        ps == [payments EXCEPT ![tx.payment].amount = tx.amount, ![tx.payment].day = tx.day]
    IN  /\ old.live /\ old.ref = NoRef
        /\ tx.clears => Settled(old.customer, balance[old.customer] + old.credit - tx.amount,
                                ps, deliveries)
RemoveSees(tx) == payments[tx.payment].live /\ tx.credit = payments[tx.payment].credit
HealSees(tx) == Settled(tx.customer, balance[tx.customer], payments, deliveries)

Sees(tx) ==
    /\ tx.op = "create" => CreateSees(tx)
    /\ tx.op = "update" => UpdateSees(tx)
    /\ tx.op = "close" => CloseSees(tx)
    /\ tx.op = "batch" => BatchSees(tx)
    /\ tx.op = "deliver" => DeliverSees(tx)
    /\ tx.op = "cancel" => CancelSees(tx)
    /\ tx.op = "pay" => PaySees(tx)
    /\ tx.op = "edit" => EditSees(tx)
    /\ tx.op = "remove" => RemoveSees(tx)
    /\ tx.op = "heal" => HealSees(tx)

Seen == \A c \in Clerks : Sees(pending[c])

(* Everything agrees; the last three are what keeps it so. *)
Agreed ==
    /\ TotalsAreDeliveries /\ TruckNotOversold /\ CustodyIsDeliveries
    /\ LoadsAgree /\ BatchesSuffice /\ BalanceIsActivity
    /\ \A m \in outs : run[m.run].status # "none"
    /\ \A r \in Runs : run[r].status # "CLOSED" => returned[r] = None
    /\ \A i \in DOMAIN payments :
           payments[i].credit = IF payments[i].ref = NoRef THEN payments[i].amount ELSE 0

(* Clerks outside the scene do nothing. *)
Idle == \A c \in Clerks \ scene.clerks : pending[c] = NoTx

Alone == Idle /\ (Serial => Agreed /\ Seen)

(* What ClosedIsFinal and PromiseKept say of one step. *)
Final == \A r \in Runs : run[r].status = "CLOSED" =>
    /\ run'[r] = run[r] /\ closing'[r] = closing[r] /\ returned'[r] = returned[r]
    /\ Standing(r)' = Standing(r)
PromisesHold == \A cust \in Customers : promise[cust] # NoPromise /\ promise'[cust] = NoPromise =>
    \/ deliveries'[promise[cust].delivery].status = "CANCELLED"
    \/ Settled(cust, balance'[cust], payments', deliveries')
Orderly == Final /\ PromisesHold

-----------------------------------------------------------------------------
(* Steps that write none of what Agreed and Sees speak of. *)
LEMMA CalmAgrees == ASSUME Agreed, Calm PROVE Agreed' /\ Orderly
<1> USE DEF Calm, truck, store, account
<1>1. TotalsAreDeliveries' /\ TruckNotOversold' /\ CustodyIsDeliveries'
  <2>1. TotalsAreDeliveries'
    BY DEF Agreed, TotalsAreDeliveries, Sales, Cash, Standing
  <2>2. TruckNotOversold'
    BY DEF Agreed, TruckNotOversold, Delivered, Standing
  <2>3. CustodyIsDeliveries'
    BY DEF Agreed, CustodyIsDeliveries
  <2> QED
    BY <2>1, <2>2, <2>3
<1>2. LoadsAgree'
  <2>1. \A r \in Runs, p \in Products :
            /\ Delivered(r, p)' = Delivered(r, p)
            /\ GivenBack({m \in outs' : m.run = r}, p) = GivenBack({m \in outs : m.run = r}, p)
    BY DEF Delivered, Standing
  <2>2. opening' = opening /\ returned' = returned /\ scene' = scene
    OBVIOUS
  <2> QED
    BY <2>1, <2>2 DEF Agreed, LoadsAgree, GivenBack
<1>5. BatchesSuffice' /\ BalanceIsActivity'
  BY DEF Agreed, BatchesSuffice, BalanceIsActivity
<1>3. /\ \A m \in outs' : run'[m.run].status # "none"
      /\ \A r \in Runs : run'[r].status # "CLOSED" => returned'[r] = None
      /\ \A i \in DOMAIN payments' :
             payments'[i].credit = IF payments'[i].ref = NoRef THEN payments'[i].amount ELSE 0
  BY DEF Agreed
<1>4. Orderly
  BY DEF Orderly, Final, PromisesHold, Standing
<1> QED
  BY <1>1, <1>2, <1>3, <1>4, <1>5 DEF Agreed

(* The same without the batches, which may be created meanwhile. *)
CalmTrucks == UNCHANGED <<scene, truck, outs, loaded, deliveries, account>>

LEMMA CalmSees ==
    ASSUME CalmTrucks, NEW tx, Sees(tx), tx.op = "create" => CreateSees(tx)'
    PROVE  Sees(tx)'
<1> USE DEF CalmTrucks, truck, account
<1>1. /\ tx.op = "update" => UpdateSees(tx)'
      /\ tx.op = "batch" => BatchSees(tx)'
      /\ tx.op = "cancel" => CancelSees(tx)'
      /\ tx.op = "remove" => RemoveSees(tx)'
  BY ZenonT(60) DEF Sees, UpdateSees, BatchSees, CancelSees, RemoveSees, Delivered, Standing
<1>2. tx.op = "close" => CloseSees(tx)'
  BY DEF Sees, CloseSees, Leftover, Delivered, Sales, Cash, Standing
<1>3. tx.op = "deliver" => DeliverSees(tx)'
  BY ZenonT(60) DEF Sees, DeliverSees, WithCash, Settled, PaidSince, Delivered, Standing
<1>4. tx.op = "pay" => PaySees(tx)'
  BY DEF Sees, PaySees, Settled
<1>5. tx.op = "edit" => EditSees(tx)'
  BY DEF Sees, EditSees, Settled
<1>6. tx.op = "heal" => HealSees(tx)'
  BY DEF Sees, HealSees, Settled
<1> QED
  BY <1>1, <1>2, <1>3, <1>4, <1>5, <1>6 DEF Sees

LEMMA Begun ==
    ASSUME Pend, NEW c \in Clerks, NEW tx, Open(c, tx), Sees(tx), Calm, Agreed, Seen
    PROVE  Agreed' /\ Seen' /\ Orderly
<1>1. Agreed' /\ Orderly
  BY CalmAgrees
<1>2. \A d \in Clerks : pending'[d] = IF d = c THEN tx ELSE pending[d]
  BY DEF Open, Pend
<1>3. ASSUME NEW d \in Clerks PROVE Sees(pending[d])'
  <2>1. \A x : Sees(x) => Sees(x)'
    <3> SUFFICES ASSUME NEW x, Sees(x) PROVE Sees(x)'
      OBVIOUS
    <3>1. x.op = "create" => CreateSees(x)'
      BY DEF Calm, store, Sees, CreateSees
    <3> QED
      BY <3>1, CalmSees DEF Calm, CalmTrucks, store
  <2>2. Sees(pending'[d])
    BY <1>2 DEF Seen
  <2> QED
    BY <2>1, <2>2
<1> QED
  BY <1>1, <1>3 DEF Seen

(* Whoever begins has just read. *)
LEMMA TruckBegins ==
    ASSUME Writes, Agreed, Seen, NEW c \in Clerks, scene' = scene,
           NEW r \in Runs,
           \/ \E load \in scene.loads, refill \in scene.refills \cup {NoRefill} :
                  BeginCreate(c, r, load, refill)
           \/ \E load \in scene.loads : BeginUpdate(c, r, load)
           \/ \E count \in scene.closings, ret \in scene.returns : BeginClose(c, r, count, ret)
    PROVE  Agreed' /\ Seen' /\ Orderly
<1>p. Pend
  BY DEF Writes
<1>1. ASSUME NEW load \in scene.loads, NEW refill \in scene.refills \cup {NoRefill},
             BeginCreate(c, r, load, refill)
      PROVE  Agreed' /\ Seen' /\ Orderly
  <2> DEFINE all == IF refill = NoRefill THEN load ELSE Over([p \in {refill.product} |-> refill.qty], load)
             tx == [op |-> "create", run |-> r, refill |-> refill, load |-> all]
  <2>1. Open(c, tx) /\ Calm
    BY <1>1 DEF BeginCreate, Calm
  <2>2. refill # NoRefill => refill.qty <= filled[refill.batch] - loaded[refill.batch]
    BY <1>1 DEF BeginCreate
  <2> HIDE DEF all
  <2>3. Sees(tx)
    BY <2>2 DEF Sees, CreateSees
  <2> QED
    BY <1>p, <2>1, <2>3, Begun
<1>2. ASSUME NEW load \in scene.loads, BeginUpdate(c, r, load) PROVE Agreed' /\ Seen' /\ Orderly
  <2> DEFINE tx == [op |-> "update", run |-> r, load |-> load, undo |-> {m \in outs : m.run = r}]
  <2>1. Open(c, tx) /\ Calm
    BY <1>2 DEF BeginUpdate, Calm
  <2>2. Sees(tx)
    BY <1>2 DEF BeginUpdate, Sees, UpdateSees
  <2> QED
    BY <1>p, <2>1, <2>2, Begun
<1>3. ASSUME NEW count \in scene.closings, NEW ret \in scene.returns, BeginClose(c, r, count, ret)
      PROVE  Agreed' /\ Seen' /\ Orderly
  <2> DEFINE tx == [op |-> "close", run |-> r, count |-> count, ret |-> ret,
                    sales |-> Sales(r), cash |-> Cash(r)]
  <2>1. Open(c, tx) /\ Calm
    BY <1>3 DEF BeginClose, Calm
  <2>2. Sees(tx)
    BY <1>3 DEF BeginClose, Sees, CloseSees
  <2> QED
    BY <1>p, <2>1, <2>2, Begun
<1> QED
  BY <1>1, <1>2, <1>3

LEMMA StopBegins ==
    ASSUME Writes, Agreed, Seen, NEW c \in Clerks, scene' = scene,
           \/ \E r \in Runs, s \in scene.stops : BeginDeliver(c, r, s)
           \/ \E n \in DOMAIN deliveries : BeginCancel(c, n)
           \/ \E b \in Batches : BeginRemoveBatch(c, b)
           \/ \E b \in Batches, cans \in scene.fills : BeginEditBatch(c, b, cans)
    PROVE  Agreed' /\ Seen' /\ Orderly
<1>p. Pend
  BY DEF Writes
<1>1. ASSUME NEW r \in Runs, NEW s \in scene.stops, BeginDeliver(c, r, s)
      PROVE  Agreed' /\ Seen' /\ Orderly
  <2> DEFINE d == Row(r, s)
             clears == Settled(d.customer, balance[d.customer] + d.sale - d.cash,
                               WithCash(d, Len(deliveries) + 1), Append(deliveries, d))
             tx == [op |-> "deliver", row |-> d, clears |-> clears]
  <2>1. Open(c, tx) /\ Calm
    BY <1>1 DEF BeginDeliver, WithCash, Calm
  <2>2. /\ d.run = r /\ d.items = s.items /\ run[r].status = "OPEN"
        /\ \A p \in Products : s.items[p] > 0 => s.items[p] <= opening[r][p] - Delivered(r, p)
    BY <1>1 DEF BeginDeliver, Row
  <2> HIDE DEF d
  <2>3. DeliverSees(tx)
    BY <2>2 DEF DeliverSees
  <2> HIDE DEF clears
  <2>4. Sees(tx)
    BY <2>3 DEF Sees
  <2> QED
    BY <1>p, <2>1, <2>4, Begun
<1>2. ASSUME NEW n \in DOMAIN deliveries, BeginCancel(c, n) PROVE Agreed' /\ Seen' /\ Orderly
  <2> DEFINE p == promise[deliveries[n].customer]
             tx == [op |-> "cancel", delivery |-> n, clears |-> p # NoPromise /\ p.delivery = n]
  <2>1. Open(c, tx) /\ Calm
    BY <1>2 DEF BeginCancel, Calm
  <2>2. Sees(tx)
    BY <1>2 DEF BeginCancel, Sees, CancelSees
  <2> QED
    BY <1>p, <2>1, <2>2, Begun
<1>3. ASSUME NEW b \in Batches, BeginRemoveBatch(c, b) PROVE Agreed' /\ Seen' /\ Orderly
  <2> DEFINE tx == [op |-> "batch", batch |-> b, cans |-> 0]
  <2>1. Open(c, tx) /\ Calm
    BY <1>3 DEF BeginRemoveBatch, Calm
  <2>2. Sees(tx)
    BY <1>3 DEF BeginRemoveBatch, Sees, BatchSees
  <2> QED
    BY <1>p, <2>1, <2>2, Begun
<1>4. ASSUME NEW b \in Batches, NEW cans \in scene.fills, BeginEditBatch(c, b, cans)
      PROVE  Agreed' /\ Seen' /\ Orderly
  <2> DEFINE tx == [op |-> "batch", batch |-> b, cans |-> cans]
  <2>1. Open(c, tx) /\ Calm
    BY <1>4 DEF BeginEditBatch, Calm
  <2>2. Sees(tx)
    BY <1>4 DEF BeginEditBatch, Sees, BatchSees
  <2> QED
    BY <1>p, <2>1, <2>2, Begun
<1> QED
  BY <1>1, <1>2, <1>3, <1>4

LEMMA AccountBegins ==
    ASSUME Writes, Agreed, Seen, NEW c \in Clerks, UNCHANGED <<scene, truck, store, custody>>,
           \/ \E q \in scene.payments : BeginPayment(c, q)
           \/ \E i \in DOMAIN payments : BeginRemove(c, i) \/ \E e \in scene.edits : BeginEdit(c, i, e)
           \/ \E cust \in Customers : BeginHeal(c, cust)
    PROVE  Agreed' /\ Seen' /\ Orderly
<1>p. Pend /\ Calm
  BY DEF Writes, Calm, BeginPayment, BeginRemove, BeginEdit, BeginHeal
<1>1. ASSUME NEW q \in scene.payments, BeginPayment(c, q) PROVE Agreed' /\ Seen' /\ Orderly
  <2> DEFINE row == [customer |-> q.customer, amount |-> q.amount, day |-> q.day,
                     ref |-> NoRef, credit |-> q.amount, live |-> TRUE]
             clears == Settled(q.customer, balance[q.customer] - q.amount,
                               Append(payments, row), deliveries)
             tx == [op |-> "pay", row |-> row, clears |-> clears]
  <2>1. Open(c, tx)
    BY <1>1 DEF BeginPayment
  <2>2. /\ row.customer = q.customer /\ row.amount = q.amount /\ row.live
        /\ row.credit = row.amount
    OBVIOUS
  <2> HIDE DEF row
  <2>3. PaySees(tx)
    BY <2>2 DEF PaySees
  <2> HIDE DEF clears
  <2>4. Sees(tx)
    BY <2>3 DEF Sees
  <2> QED
    BY <1>p, <2>1, <2>4, Begun
<1>2. ASSUME NEW i \in DOMAIN payments, BeginRemove(c, i) PROVE Agreed' /\ Seen' /\ Orderly
  <2> DEFINE tx == [op |-> "remove", payment |-> i, credit |-> payments[i].credit]
  <2>1. Open(c, tx)
    BY <1>2 DEF BeginRemove
  <2>2. Sees(tx)
    BY <1>2 DEF BeginRemove, Sees, RemoveSees
  <2> QED
    BY <1>p, <2>1, <2>2, Begun
<1>3. ASSUME NEW i \in DOMAIN payments, NEW e \in scene.edits, BeginEdit(c, i, e)
      PROVE  Agreed' /\ Seen' /\ Orderly
  <2> DEFINE cust == payments[i].customer
             ps == [payments EXCEPT ![i].amount = e.amount, ![i].day = e.day]
             clears == Settled(cust, balance[cust] + payments[i].credit - e.amount, ps, deliveries)
             tx == [op |-> "edit", payment |-> i, amount |-> e.amount, day |-> e.day,
                    clears |-> clears]
  <2>1. Open(c, tx) /\ payments[i].live /\ payments[i].ref = NoRef
    BY <1>3 DEF BeginEdit
  <2>2. EditSees(tx)
    <3>1. tx.payment = i /\ tx.amount = e.amount /\ tx.day = e.day /\ tx.clears = clears
      OBVIOUS
    <3> HIDE DEF tx
    <3> QED
      BY <2>1, <3>1 DEF EditSees
  <2> HIDE DEF clears
  <2>4. Sees(tx)
    BY <2>2 DEF Sees
  <2> QED
    BY <1>p, <2>1, <2>4, Begun
<1>4. ASSUME NEW cust \in Customers, BeginHeal(c, cust) PROVE Agreed' /\ Seen' /\ Orderly
  <2> DEFINE tx == [op |-> "heal", customer |-> cust]
  <2>1. Open(c, tx)
    BY <1>4 DEF BeginHeal
  <2>2. Sees(tx)
    BY <1>4 DEF BeginHeal, Sees, HealSees
  <2> QED
    BY <1>p, <2>1, <2>2, Begun
<1> QED
  BY <1>1, <1>2, <1>3, <1>4

-----------------------------------------------------------------------------
(* Sums over payments: a standalone payment more, or only mirrored ones    *)
(* that differ.                                                            *)
MorePaid(a, b, i) ==
    /\ a \in Seq(PaymentRow) /\ b \in Seq(PaymentRow) /\ DOMAIN a \subseteq DOMAIN b
    /\ i \in DOMAIN b /\ b[i].live /\ b[i].ref = NoRef
    /\ i \in DOMAIN a => ~a[i].live
    /\ \A j \in DOMAIN b : j # i => j \in DOMAIN a /\ a[j] = b[j]

SamePaid(a, b) ==
    /\ DOMAIN a \subseteq DOMAIN b
    /\ \A j \in DOMAIN b : b[j].ref = NoRef => j \in DOMAIN a /\ a[j] = b[j]
    /\ \A j \in DOMAIN a : a[j].ref = b[j].ref

LEMMA MorePaidSum ==
    ASSUME NEW a, NEW b, NEW i, MorePaid(a, b, i), NEW k
    PROVE  /\ PaidIn(b, k) = PaidIn(a, k) + (IF b[i].customer = k THEN b[i].amount ELSE 0)
           /\ PaidIn(a, k) \in Int
<1> DEFINE S == StandaloneIn(a, k)
           T == StandaloneIn(b, k)
           c == b[i].customer = k
           v == b[i].amount
           f == [j \in S |-> a[j].amount]
           g == [j \in T |-> b[j].amount]
<1>1. /\ IsFiniteSet(DOMAIN a) /\ \A j \in DOMAIN a : a[j] \in PaymentRow
      /\ b[i] \in PaymentRow
  BY SeqDomain DEF MorePaid
<1>2. S \subseteq DOMAIN a /\ i \notin S /\ T = (IF c THEN S \cup {i} ELSE S)
  BY DEF MorePaid, StandaloneIn, PaidBy
<1>3. IsFiniteSet(S) /\ v \in Int /\ c \in BOOLEAN
  BY <1>1, <1>2, FS_Subset DEF PaymentRow
<1>4. \A j \in S : b[j] = a[j] /\ a[j].amount \in Int
  BY <1>1, <1>2 DEF MorePaid, PaymentRow
<1> HIDE DEF S, T, c
<1>5. /\ f = [j \in S |-> f[j]] /\ g = [j \in T |-> g[j]] /\ (c => g[i] = v)
      /\ \A j \in S : g[j] = f[j] /\ f[j] \in Int
  BY <1>2, <1>4
<1>6. Joined(S, T, i, c, f, g, v)
  BY <1>2, <1>3, <1>5 DEF Joined
<1> HIDE DEF f, g, v
<1>7. SumFunction(g) = SumFunction(f) + (IF c THEN v ELSE 0) /\ SumFunction(f) \in Int
  BY <1>6, TotalJoined
<1> QED
  BY <1>7 DEF PaidIn, S, T, c, f, g, v

LEMMA SamePaidSum ==
    ASSUME NEW a, NEW b, SamePaid(a, b), NEW k PROVE PaidIn(a, k) = PaidIn(b, k)
<1>1. StandaloneIn(a, k) = StandaloneIn(b, k)
  BY DEF SamePaid, StandaloneIn, PaidBy
<1>2. \A j \in StandaloneIn(b, k) : a[j] = b[j]
  BY DEF SamePaid, StandaloneIn, PaidBy
<1>3. [j \in StandaloneIn(a, k) |-> a[j].amount] = [j \in StandaloneIn(b, k) |-> b[j].amount]
  BY <1>1, <1>2
<1> QED
  BY <1>3 DEF PaidIn

LEMMA PaidInt == ASSUME NEW ps \in Seq(PaymentRow), NEW k PROVE PaidIn(ps, k) \in Int
<1> DEFINE S == StandaloneIn(ps, k)
           f == [i \in S |-> ps[i].amount]
<1>1. /\ IsFiniteSet(DOMAIN ps) /\ \A i \in DOMAIN ps : ps[i] \in PaymentRow
      /\ S \subseteq DOMAIN ps
  BY SeqDomain DEF StandaloneIn, PaidBy
<1>2. IsFiniteSet(S) /\ \A i \in S : ps[i].amount \in Int
  BY <1>1, FS_Subset DEF PaymentRow
<1> HIDE DEF S
<1>3. f = [i \in S |-> f[i]] /\ \A i \in S : f[i] \in Int
  BY <1>2
<1> HIDE DEF f
<1>4. SumFunction(f) \in Int
  BY <1>2, <1>3, Whole
<1> QED
  BY <1>4 DEF PaidIn, f, S

LEMMA BalanceIs ==
    BalanceIsActivity <=> \A k \in Customers : balance[k] = OwedIn(deliveries, k) - PaidIn(payments, k)
BY DEF BalanceIsActivity, OwedIn, PaidIn, StandaloneIn

LEMMA OwedInt == ASSUME BooksTyped, NEW k PROVE OwedIn(deliveries, k) \in Int
<1> DEFINE S == DeliveredTo(deliveries, k)
           f == [d \in S |-> deliveries[d].sale - deliveries[d].cash]
<1>1. /\ IsFiniteSet(DOMAIN deliveries) /\ \A d \in DOMAIN deliveries : deliveries[d] \in DeliveryRow
      /\ S \subseteq DOMAIN deliveries
  BY SeqDomain DEF BooksTyped, DeliveredTo
<1>2. IsFiniteSet(S) /\ \A d \in S : deliveries[d].sale - deliveries[d].cash \in Int
  BY <1>1, FS_Subset DEF DeliveryRow
<1> HIDE DEF S
<1>3. f = [d \in S |-> f[d]] /\ \A d \in S : f[d] \in Int
  BY <1>2
<1> HIDE DEF f
<1>4. SumFunction(f) \in Int
  BY <1>2, <1>3, Whole
<1> QED
  BY <1>4 DEF OwedIn, f, S

-----------------------------------------------------------------------------
(* Commits, one request at a time. *)
Sole(c) == \A d \in Clerks \ {c} : pending[d] = NoTx

LEMMA Ended == ASSUME Pend, NEW c \in Clerks, Close(c), Sole(c) PROVE Seen'
<1>1. \A d \in Clerks : pending'[d] = NoTx
  BY DEF Close, Pend, Sole
<1>2. Sees(NoTx)'
  BY DEF Sees, NoTx
<1> QED
  BY <1>1, <1>2 DEF Seen, Sees

(* The credits of payments. *)
Credits == \A i \in DOMAIN payments :
    payments[i].credit = IF payments[i].ref = NoRef THEN payments[i].amount ELSE 0

LEMMA TruckStill ==
    ASSUME Agreed, StillStore, UNCHANGED <<deliveries, custody>>,
           BalanceIsActivity', Credits', PromisesHold
    PROVE  Agreed' /\ Orderly
<1> USE DEF StillStore, truck, store
<1>1. TotalsAreDeliveries' /\ TruckNotOversold' /\ CustodyIsDeliveries'
  <2>1. TotalsAreDeliveries'
    BY DEF Agreed, TotalsAreDeliveries, Sales, Cash, Standing
  <2>2. TruckNotOversold'
    BY DEF Agreed, TruckNotOversold, Delivered, Standing
  <2>3. CustodyIsDeliveries'
    BY DEF Agreed, CustodyIsDeliveries
  <2> QED
    BY <2>1, <2>2, <2>3
<1>2. LoadsAgree'
  <2>1. \A r \in Runs, p \in Products :
            /\ Delivered(r, p)' = Delivered(r, p)
            /\ GivenBack({m \in outs' : m.run = r}, p) = GivenBack({m \in outs : m.run = r}, p)
    BY DEF Delivered, Standing
  <2>2. opening' = opening /\ returned' = returned /\ scene' = scene
    OBVIOUS
  <2> QED
    BY <2>1, <2>2 DEF Agreed, LoadsAgree, GivenBack
<1>3. BatchesSuffice'
  BY DEF Agreed, BatchesSuffice
<1>4. /\ \A m \in outs' : run'[m.run].status # "none"
      /\ \A r \in Runs : run'[r].status # "CLOSED" => returned'[r] = None
  BY DEF Agreed
<1>5. Orderly
  BY DEF Orderly, Final, Standing
<1> QED
  BY <1>1, <1>2, <1>3, <1>4, <1>5 DEF Agreed, Credits

(* Whether a promise is settled depends on the payments, not on their      *)
(* credits.                                                                *)
LEMMA SettledSame ==
    ASSUME NEW ps, NEW qs, DOMAIN ps = DOMAIN qs,
           \A i \in DOMAIN ps : /\ qs[i].customer = ps[i].customer /\ qs[i].live = ps[i].live
                                /\ qs[i].day = ps[i].day /\ qs[i].ref = ps[i].ref
                                /\ qs[i].amount = ps[i].amount,
           NEW cust, NEW bal, NEW ds, Settled(cust, bal, ps, ds)
    PROVE  Settled(cust, bal, qs, ds)
<1>1. PaidBy(ps, cust) = PaidBy(qs, cust)
  BY DEF PaidBy
<1>2. ASSUME NEW due PROVE PaidSince(cust, due, ps, ds) = PaidSince(cust, due, qs, ds)
  <2>1. {i \in PaidBy(ps, cust) : ps[i].day >= due} = {i \in PaidBy(qs, cust) : qs[i].day >= due}
    BY <1>1 DEF PaidBy
  <2>2. {ps[i].ref : i \in PaidBy(ps, cust)} = {qs[i].ref : i \in PaidBy(qs, cust)}
    BY <1>1 DEF PaidBy
  <2>3. [i \in {j \in PaidBy(ps, cust) : ps[j].day >= due} |-> ps[i].amount]
          = [i \in {j \in PaidBy(qs, cust) : qs[j].day >= due} |-> qs[i].amount]
    BY <2>1 DEF PaidBy
  <2> QED
    BY <2>2, <2>3 DEF PaidSince
<1> QED
  BY <1>2 DEF Settled

LEMMA PaymentAgrees ==
    ASSUME Writes, Agreed, NEW c \in Clerks, Sees(pending[c]), Sole(c), CommitPayment(c),
           StillStore, UNCHANGED custody
    PROVE  Agreed' /\ Seen' /\ Orderly
<1> DEFINE row == pending[c].row
           i == Len(payments) + 1
           k == row.customer
<1>1. /\ row \in PaymentRow /\ row.ref = NoRef /\ row.live /\ row.credit = row.amount
      /\ pending[c].clears => Settled(k, balance[k] - row.amount, Append(payments, row), deliveries)
  BY DEF CommitPayment, In, Writes, Pend, TxGood, Sees, PaySees
<1>2. /\ payments' = Append(payments, row) /\ deliveries' = deliveries
      /\ balance' = [balance EXCEPT ![k] = @ - row.amount] /\ ClearIf(pending[c].clears, k)
  BY DEF CommitPayment
<1>3. payments \in Seq(PaymentRow) /\ BooksTyped /\ balance \in [Customers -> Int]
  BY DEF Writes, Typed, BooksTyped
<1> HIDE DEF row
<1>4. /\ payments' \in Seq(PaymentRow) /\ DOMAIN payments' = DOMAIN payments \cup {i} /\ i \notin DOMAIN payments
      /\ payments'[i] = row /\ \A j \in DOMAIN payments : payments'[j] = payments[j]
  BY <1>1, <1>2, <1>3, Appended
<1> HIDE DEF i
<1>5. k \in Customers /\ row.amount \in Int
  BY <1>1 DEF PaymentRow
<1>6. BalanceIsActivity'
  <2>1. MorePaid(payments, payments', i)
    BY <1>1, <1>3, <1>4 DEF MorePaid
  <2>2. ASSUME NEW cust \in Customers
        PROVE  balance'[cust] = OwedIn(deliveries', cust) - PaidIn(payments', cust)
    <3>1. /\ PaidIn(payments', cust) = PaidIn(payments, cust) + (IF k = cust THEN row.amount ELSE 0)
          /\ PaidIn(payments, cust) \in Int
      BY <1>4, <2>1, MorePaidSum
    <3>2. balance[cust] = OwedIn(deliveries, cust) - PaidIn(payments, cust)
      BY BalanceIs DEF Agreed
    <3>3. OwedIn(deliveries, cust) \in Int /\ OwedIn(deliveries', cust) = OwedIn(deliveries, cust)
      BY <1>2, <1>3, OwedInt
    <3>4. balance'[cust] = balance[cust] - (IF k = cust THEN row.amount ELSE 0)
      BY <1>2, <1>3, <1>5
    <3> QED
      BY <1>5, <3>1, <3>2, <3>3, <3>4
  <2> QED
    BY <2>2 DEF BalanceIsActivity, OwedIn, PaidIn, StandaloneIn
<1>7. Credits'
  BY <1>1, <1>4 DEF Credits, Agreed
<1>8. PromisesHold
  <2> SUFFICES ASSUME NEW cust \in Customers, promise[cust] # NoPromise, promise'[cust] = NoPromise
               PROVE  Settled(cust, balance'[cust], payments', deliveries')
    BY DEF PromisesHold
  <2>1. pending[c].clears /\ cust = k
    BY <1>2, <1>3, <1>5 DEF ClearIf, BooksTyped
  <2>2. balance'[k] = balance[k] - row.amount
    BY <1>2, <1>3, <1>5
  <2> QED
    BY <1>1, <1>2, <2>1, <2>2
<1>9. Agreed' /\ Orderly
  BY <1>2, <1>6, <1>7, <1>8, TruckStill
<1>10. Seen'
  BY Ended DEF CommitPayment, Writes
<1> QED
  BY <1>9, <1>10

LEMMA EditAgrees ==
    ASSUME Writes, Agreed, NEW c \in Clerks, Sees(pending[c]), Sole(c), CommitEdit(c),
           StillStore, UNCHANGED custody
    PROVE  Agreed' /\ Seen' /\ Orderly
<1> DEFINE i == pending[c].payment
           amount == pending[c].amount
           day == pending[c].day
           k == payments[i].customer
           x == [payments EXCEPT ![i].amount = amount]
           y == [x EXCEPT ![i].day = day]
           z == [y EXCEPT ![i].credit = amount]
           w == [payments EXCEPT ![i].live = FALSE]
           ps == [payments EXCEPT ![i].amount = amount, ![i].day = day]
<1>1. /\ i \in DOMAIN payments /\ amount \in Int /\ day \in Int
      /\ payments[i].live /\ payments[i].ref = NoRef
      /\ pending[c].clears => Settled(k, balance[k] + payments[i].credit - amount, ps, deliveries)
  BY DEF CommitEdit, In, Writes, Pend, TxGood, Sees, EditSees
<1>2. ps = y
  BY Zenon
<1>3. /\ payments' = z /\ deliveries' = deliveries
      /\ balance' = [balance EXCEPT ![k] = @ + payments[i].credit - amount]
      /\ ClearIf(pending[c].clears, k)
  BY Zenon DEF CommitEdit
<1>4. payments \in Seq(PaymentRow) /\ BooksTyped /\ balance \in [Customers -> Int]
  BY DEF Writes, Typed, BooksTyped
<1>5. \A j \in DOMAIN payments : payments[j] \in PaymentRow
  BY <1>4, SeqDomain
<1>6. payments[i].credit = payments[i].amount /\ k \in Customers /\ payments[i].amount \in Int
  BY <1>1, <1>5 DEF Agreed, PaymentRow
<1> HIDE DEF i, amount, day, ps
<1>7. /\ DOMAIN y = DOMAIN payments /\ DOMAIN z = DOMAIN payments /\ z = [j \in DOMAIN payments |-> z[j]]
      /\ \A j \in DOMAIN payments : j # i => z[j] = payments[j] /\ y[j] = payments[j]
      /\ z[i] \in PaymentRow /\ z[i].ref = NoRef /\ z[i].live
      /\ z[i].amount = amount /\ z[i].credit = amount /\ z[i].customer = k
      /\ y[i].customer = z[i].customer /\ y[i].live = z[i].live /\ y[i].day = z[i].day
      /\ y[i].ref = z[i].ref /\ y[i].amount = z[i].amount
  <2>1. /\ x = [j \in DOMAIN payments |-> x[j]] /\ \A j \in DOMAIN payments : j # i => x[j] = payments[j]
        /\ x[i] = [payments[i] EXCEPT !.amount = amount]
    BY <1>1
  <2>2. /\ x[i] \in PaymentRow /\ x[i].ref = NoRef /\ x[i].live /\ x[i].amount = amount
        /\ x[i].customer = k
    BY <1>1, <1>5, <2>1 DEF PaymentRow
  <2> HIDE DEF x
  <2>3. /\ y = [j \in DOMAIN payments |-> y[j]] /\ \A j \in DOMAIN payments : j # i => y[j] = payments[j]
        /\ y[i] = [x[i] EXCEPT !.day = day]
    BY <1>1, <2>1
  <2>4. /\ y[i] \in PaymentRow /\ y[i].ref = NoRef /\ y[i].live /\ y[i].amount = amount
        /\ y[i].customer = k
    BY <1>1, <2>2, <2>3 DEF PaymentRow
  <2> HIDE DEF y
  <2>5. /\ z = [j \in DOMAIN payments |-> z[j]] /\ \A j \in DOMAIN payments : j # i => z[j] = payments[j]
        /\ z[i] = [y[i] EXCEPT !.credit = amount]
    BY <1>1, <2>3
  <2>6. /\ z[i] \in PaymentRow /\ z[i].ref = NoRef /\ z[i].live /\ z[i].amount = amount
        /\ z[i].credit = amount /\ z[i].customer = k /\ z[i].day = y[i].day
    BY <1>1, <2>4, <2>5 DEF PaymentRow
  <2> QED
    BY <2>3, <2>4, <2>5, <2>6
<1>8. z \in Seq(PaymentRow)
  <2> HIDE DEF z
  <2>1. \A j \in DOMAIN payments : z[j] \in PaymentRow
    BY <1>5, <1>7
  <2> QED
    BY <1>4, <1>7, <2>1, Rewritten
<1>9. /\ w \in Seq(PaymentRow) /\ DOMAIN w = DOMAIN payments /\ ~w[i].live
      /\ \A j \in DOMAIN payments : j # i => w[j] = payments[j]
  <2>1. /\ w = [j \in DOMAIN payments |-> w[j]] /\ \A j \in DOMAIN payments : j # i => w[j] = payments[j]
        /\ w[i] = [payments[i] EXCEPT !.live = FALSE]
    BY <1>1
  <2>2. w[i] \in PaymentRow /\ ~w[i].live
    BY <1>1, <1>5, <2>1 DEF PaymentRow
  <2> HIDE DEF w
  <2>3. \A j \in DOMAIN payments : w[j] \in PaymentRow
    BY <1>5, <2>1, <2>2
  <2> QED
    BY <1>4, <2>1, <2>2, <2>3, Rewritten
<1> HIDE DEF y, z, w
<1>10. BalanceIsActivity'
  <2>1. MorePaid(w, payments, i) /\ MorePaid(w, payments', i)
    BY <1>1, <1>3, <1>4, <1>7, <1>8, <1>9 DEF MorePaid
  <2>2. ASSUME NEW cust \in Customers
        PROVE  balance'[cust] = OwedIn(deliveries', cust) - PaidIn(payments', cust)
    <3>1. /\ PaidIn(payments', cust) = PaidIn(w, cust) + (IF k = cust THEN amount ELSE 0)
          /\ PaidIn(payments, cust) = PaidIn(w, cust) + (IF k = cust THEN payments[i].amount ELSE 0)
          /\ PaidIn(w, cust) \in Int
      BY <1>3, <1>7, <2>1, MorePaidSum
    <3>2. balance[cust] = OwedIn(deliveries, cust) - PaidIn(payments, cust)
      BY BalanceIs DEF Agreed
    <3>3. OwedIn(deliveries, cust) \in Int /\ OwedIn(deliveries', cust) = OwedIn(deliveries, cust)
      BY <1>3, <1>4, OwedInt
    <3>4. balance'[cust] = IF k = cust THEN balance[cust] + payments[i].amount - amount ELSE balance[cust]
      BY <1>3, <1>4, <1>6
    <3> QED
      BY <1>1, <1>6, <3>1, <3>2, <3>3, <3>4
  <2> QED
    BY <2>2 DEF BalanceIsActivity, OwedIn, PaidIn, StandaloneIn
<1>11. Credits'
  BY <1>3, <1>7 DEF Credits, Agreed
<1>12. PromisesHold
  <2> SUFFICES ASSUME NEW cust \in Customers, promise[cust] # NoPromise, promise'[cust] = NoPromise
               PROVE  Settled(cust, balance'[cust], payments', deliveries')
    BY DEF PromisesHold
  <2>1. pending[c].clears /\ cust = k
    BY <1>3, <1>4, <1>6 DEF ClearIf, BooksTyped
  <2>2. balance'[k] = balance[k] + payments[i].credit - amount
    BY <1>3, <1>4, <1>6
  <2>3. Settled(cust, balance'[cust], y, deliveries)
    BY <1>1, <1>2, <2>1, <2>2
  <2>4. /\ DOMAIN y = DOMAIN z
        /\ \A j \in DOMAIN y : /\ z[j].customer = y[j].customer /\ z[j].live = y[j].live
                               /\ z[j].day = y[j].day /\ z[j].ref = y[j].ref
                               /\ z[j].amount = y[j].amount
    BY <1>7
  <2>5. Settled(cust, balance'[cust], z, deliveries)
    BY <2>3, <2>4, SettledSame
  <2> QED
    BY <1>3, <2>5
<1>13. Agreed' /\ Orderly
  BY <1>3, <1>10, <1>11, <1>12, TruckStill
<1>14. Seen'
  BY Ended DEF CommitEdit, Writes
<1> QED
  BY <1>13, <1>14

LEMMA RemoveAgrees ==
    ASSUME Writes, Agreed, NEW c \in Clerks, Sees(pending[c]), Sole(c), CommitRemove(c),
           StillStore, UNCHANGED custody
    PROVE  Agreed' /\ Seen' /\ Orderly
<1> DEFINE i == pending[c].payment
           credit == pending[c].credit
           k == payments[i].customer
<1>1. /\ i \in DOMAIN payments /\ payments[i].live /\ credit = payments[i].credit
  BY DEF CommitRemove, In, Writes, Pend, TxGood, Sees, RemoveSees
<1>2. /\ payments' = [payments EXCEPT ![i].live = FALSE]
      /\ balance' = [balance EXCEPT ![k] = @ + credit] /\ UNCHANGED <<deliveries, promise>>
  BY DEF CommitRemove
<1>3. payments \in Seq(PaymentRow) /\ BooksTyped /\ balance \in [Customers -> Int]
  BY DEF Writes, Typed, BooksTyped
<1>4. \A j \in DOMAIN payments : payments[j] \in PaymentRow
  BY <1>3, SeqDomain
<1> HIDE DEF i, credit
<1>5. /\ payments' \in Seq(PaymentRow) /\ DOMAIN payments' = DOMAIN payments /\ ~payments'[i].live
      /\ \A j \in DOMAIN payments : j # i => payments'[j] = payments[j]
      /\ payments'[i].ref = payments[i].ref /\ payments'[i].credit = payments[i].credit
      /\ payments'[i].amount = payments[i].amount
  <2>1. /\ payments' = [j \in DOMAIN payments |-> payments'[j]] /\ DOMAIN payments' = DOMAIN payments
        /\ \A j \in DOMAIN payments : j # i => payments'[j] = payments[j]
        /\ payments'[i] = [payments[i] EXCEPT !.live = FALSE]
    BY <1>1, <1>2
  <2>2. /\ payments'[i] \in PaymentRow /\ ~payments'[i].live
        /\ payments'[i].ref = payments[i].ref /\ payments'[i].credit = payments[i].credit
        /\ payments'[i].amount = payments[i].amount
    BY <1>1, <1>4, <2>1, ZenonT(60) DEF PaymentRow
  <2>3. \A j \in DOMAIN payments : payments'[j] \in PaymentRow
    BY <1>4, <2>1, <2>2
  <2> QED
    BY <1>3, <2>1, <2>2, <2>3, Rewritten
<1>6. /\ k \in Customers /\ payments[i].amount \in Int
      /\ credit = IF payments[i].ref = NoRef THEN payments[i].amount ELSE 0
  BY <1>1, <1>4 DEF Agreed, PaymentRow
<1>7. BalanceIsActivity'
  <2>1. ASSUME NEW cust \in Customers
        PROVE  balance'[cust] = OwedIn(deliveries', cust) - PaidIn(payments', cust)
    <3>1. /\ PaidIn(payments, cust) = PaidIn(payments', cust) + (IF k = cust THEN credit ELSE 0)
          /\ PaidIn(payments, cust) \in Int /\ PaidIn(payments', cust) \in Int
      <4>1. CASE payments[i].ref = NoRef
        <5>1. MorePaid(payments', payments, i)
          BY <1>1, <1>3, <1>5, <4>1 DEF MorePaid
        <5> QED
          BY <1>6, <4>1, <5>1, MorePaidSum
      <4>2. CASE payments[i].ref # NoRef
        <5>1. SamePaid(payments, payments')
          BY <1>1, <1>5, <4>2 DEF SamePaid
        <5>2. PaidIn(payments, cust) = PaidIn(payments', cust)
          BY <5>1, SamePaidSum
        <5> QED
          BY <1>3, <1>6, <4>2, <5>2, PaidInt
      <4> QED
        BY <4>1, <4>2
    <3>2. balance[cust] = OwedIn(deliveries, cust) - PaidIn(payments, cust)
      BY BalanceIs DEF Agreed
    <3>3. OwedIn(deliveries, cust) \in Int /\ OwedIn(deliveries', cust) = OwedIn(deliveries, cust)
      BY <1>2, <1>3, OwedInt
    <3>4. balance'[cust] = IF k = cust THEN balance[cust] + credit ELSE balance[cust]
      BY <1>2, <1>3, <1>6
    <3> QED
      BY <1>6, <3>1, <3>2, <3>3, <3>4
  <2> QED
    BY <2>1 DEF BalanceIsActivity, OwedIn, PaidIn, StandaloneIn
<1>8. Credits'
  BY <1>5 DEF Credits, Agreed
<1>9. PromisesHold
  BY <1>2 DEF PromisesHold
<1>10. Agreed' /\ Orderly
  BY <1>2, <1>7, <1>8, <1>9, TruckStill
<1>11. Seen'
  BY Ended DEF CommitRemove, Writes
<1> QED
  BY <1>10, <1>11

LEMMA RestAgrees ==
    ASSUME Writes, Agreed, NEW c \in Clerks, Sees(pending[c]), Sole(c), CommitHeal(c) \/ Abort(c),
           StillStore, UNCHANGED custody
    PROVE  Agreed' /\ Seen' /\ Orderly
<1>1. UNCHANGED <<deliveries, balance, payments>> /\ Close(c)
  BY DEF CommitHeal, Abort, account
<1>2. BalanceIsActivity'
  BY <1>1 DEF Agreed, BalanceIsActivity
<1>3. Credits'
  BY <1>1 DEF Agreed, Credits
<1>4. PromisesHold
  <2> SUFFICES ASSUME NEW cust \in Customers, promise[cust] # NoPromise, promise'[cust] = NoPromise
               PROVE  Settled(cust, balance[cust], payments, deliveries)
    BY <1>1 DEF PromisesHold
  <2>1. CommitHeal(c)
    BY DEF Abort, account
  <2>2. /\ Settled(pending[c].customer, balance[pending[c].customer], payments, deliveries)
        /\ ClearIf(TRUE, pending[c].customer)
    BY <2>1 DEF CommitHeal, In, Sees, HealSees
  <2>3. cust = pending[c].customer
    BY <2>2 DEF ClearIf, Writes, Typed, BooksTyped
  <2> QED
    BY <2>2, <2>3
<1>5. Agreed' /\ Orderly
  BY <1>1, <1>2, <1>3, <1>4, TruckStill
<1>6. Seen'
  BY <1>1, Ended DEF Writes
<1> QED
  BY <1>5, <1>6

-----------------------------------------------------------------------------
(* Commits at the run, the warehouse and the batches. *)
LEMMA DeliveredNat ==
    ASSUME BooksTyped, NEW r, NEW p \in Products
    PROVE  Delivered(r, p) \in Nat /\ (Standing(r) = {} => Delivered(r, p) = 0)
<1> DEFINE S == Standing(r)
           f == [d \in S |-> deliveries[d].items[p]]
<1>1. IsFiniteSet(S) /\ \A d \in S : deliveries[d] \in DeliveryRow
  BY StandingRows
<1>2. \A d \in S : deliveries[d].items[p] \in Nat
  BY <1>1 DEF DeliveryRow, Quantities
<1>3. DOMAIN f = S /\ \A d \in S : f[d] \in Nat
  BY <1>2
<1>4. Delivered(r, p) = SumFunction(f)
  BY DEF Delivered
<1> HIDE DEF f, S
<1>5. SumFunction(f) \in Nat /\ (S = {} => SumFunction(f) = 0)
  BY <1>1, <1>3, TotalNat, TotalEmpty
<1> QED
  BY <1>4, <1>5 DEF S

LEMMA LargerOfTwo == ASSUME NEW a \in Int, NEW b \in Int PROVE Max({a, b}) \in {a, b}
<1>1. \E x \in {a, b} : \A y \in {a, b} : x >= y
  OBVIOUS
<1> QED
  BY <1>1 DEF Max

LEMMA NothingBack == ASSUME NEW p PROVE GivenBack({}, p) = 0
<1> DEFINE f == [m \in {x \in {} : x.product = p} |-> m.qty]
<1>1. DOMAIN f = {}
  OBVIOUS
<1> HIDE DEF f
<1>2. SumFunction(f) = 0
  BY <1>1, TotalEmpty
<1> QED
  BY <1>2 DEF GivenBack, f

(* The OUT rows of a run that has just posted its only load. *)
OfOthers(S, r) == S \in SUBSET outs /\ \A m \in S : m.run # r

LEMMA OnlyLoad ==
    ASSUME StoreTyped, NEW r \in Runs, NEW load, IsLoad(load), NEW S, OfOthers(S, r),
           NEW p \in Products
    PROVE  /\ GivenBack({m \in S \cup OutRows(r, load) : m.run = r}, p) = Fill(load)[p]
           /\ \A q : q # r => {m \in S \cup OutRows(r, load) : m.run = q} = {m \in S : m.run = q}
<1> USE DEF OfOthers
<1> DEFINE mine == {m \in S \cup OutRows(r, load) : m.run = r}
           new == {} \cup OutRows(r, load)
<1>1. \A m \in OutRows(r, load) : m.run = r
  BY OutRowsNew
<1>2. mine = new
  BY <1>1
<1>3. GivenBack(new, p) = GivenBack({}, p) + Fill(load)[p]
  BY OutsAdded
<1>4. Fill(load)[p] \in Nat
  BY FillIs DEF IsLoad
<1>5. GivenBack(mine, p) = Fill(load)[p]
  <2> HIDE DEF mine, new
  <2> QED
    BY <1>2, <1>3, <1>4, NothingBack
<1>6. \A q : q # r => {m \in S \cup OutRows(r, load) : m.run = q} = {m \in S : m.run = q}
  BY <1>1
<1> QED
  BY <1>5, <1>6

LEMMA BooksAgree ==
    ASSUME Agreed, StillBooks
    PROVE  /\ CustodyIsDeliveries' /\ BalanceIsActivity' /\ Credits' /\ PromisesHold
           /\ \A r : /\ Standing(r)' = Standing(r)
                     /\ Sales(r)' = Sales(r) /\ Cash(r)' = Cash(r)
                     /\ \A p : Delivered(r, p)' = Delivered(r, p)
<1> USE DEF StillBooks, account
<1>1. CustodyIsDeliveries' /\ BalanceIsActivity'
  BY DEF Agreed, CustodyIsDeliveries, BalanceIsActivity
<1>2. Credits' /\ PromisesHold
  BY DEF Agreed, Credits, PromisesHold
<1>3. \A r : /\ Standing(r)' = Standing(r)
             /\ Sales(r)' = Sales(r) /\ Cash(r)' = Cash(r)
             /\ \A p : Delivered(r, p)' = Delivered(r, p)
  BY DEF Sales, Cash, Delivered, Standing
<1> QED
  BY <1>1, <1>2, <1>3

LEMMA BatchAgrees ==
    ASSUME Agreed, UNCHANGED <<scene, FilledRest>>, BatchesSuffice'
    PROVE  Agreed' /\ Orderly
<1> USE DEF FilledRest, truck
<1>1. StillBooks
  BY DEF StillBooks
<1>2. TotalsAreDeliveries' /\ TruckNotOversold'
  BY <1>1, BooksAgree DEF Agreed, TotalsAreDeliveries, TruckNotOversold
<1>3. LoadsAgree'
  <2>1. \A r \in Runs, p \in Products :
            /\ Delivered(r, p)' = Delivered(r, p)
            /\ GivenBack({m \in outs' : m.run = r}, p) = GivenBack({m \in outs : m.run = r}, p)
    BY <1>1, BooksAgree
  <2>2. opening' = opening /\ returned' = returned /\ scene' = scene
    OBVIOUS
  <2> QED
    BY <2>1, <2>2 DEF Agreed, LoadsAgree, GivenBack
<1>4. /\ \A m \in outs' : run'[m.run].status # "none"
      /\ \A r \in Runs : run'[r].status # "CLOSED" => returned'[r] = None
  BY DEF Agreed
<1>5. Final
  BY <1>1, BooksAgree DEF Final
<1> QED
  BY <1>1, <1>2, <1>3, <1>4, <1>5, BooksAgree DEF Agreed, Credits, Orderly

LEMMA BatchCommitAgrees ==
    ASSUME Writes, Agreed, NEW c \in Clerks, Sees(pending[c]), Sole(c), CommitBatch(c), UNCHANGED scene
    PROVE  Agreed' /\ Seen' /\ Orderly
<1> DEFINE b == pending[c].batch
           n == pending[c].cans
<1>1. b \in Batches /\ n \in Nat /\ filled' = [filled EXCEPT ![b] = n] /\ n >= loaded[b]
  BY DEF CommitBatch, In, Writes, Pend, TxGood, Sees, BatchSees
<1>2. UNCHANGED <<scene, FilledRest>> /\ Close(c)
  BY DEF CommitBatch
<1>3. BatchesSuffice'
  BY <1>1, <1>2 DEF FilledRest, Agreed, BatchesSuffice, Writes, Typed, StoreTyped
<1>4. Agreed' /\ Orderly
  BY <1>2, <1>3, BatchAgrees
<1>5. Seen'
  BY <1>2, Ended DEF Writes
<1> QED
  BY <1>4, <1>5

LEMMA BatchCreateAgrees ==
    ASSUME Writes, Agreed, Seen, NEW b \in Batches, NEW cans \in scene.fills, CreateBatch(b, cans),
           UNCHANGED scene
    PROVE  Agreed' /\ Seen' /\ Orderly
<1>1. cans \in Nat \ {0}
  BY SceneInputs DEF Writes, Typed
<1>2. /\ UNCHANGED <<scene, FilledRest>> /\ pending' = pending /\ filled[b] = 0
      /\ filled' = [filled EXCEPT ![b] = cans]
  BY DEF CreateBatch
<1>3. filled \in [Batches -> Nat] /\ loaded \in [Batches -> Nat] /\ loaded' = loaded
  BY <1>2 DEF Writes, Typed, StoreTyped, FilledRest
<1>4. \A a \in Batches : filled'[a] \in Nat /\ filled'[a] >= filled[a]
  BY <1>1, <1>2, <1>3
<1>5. BatchesSuffice'
  BY <1>3, <1>4 DEF Agreed, BatchesSuffice
<1>6. ASSUME NEW d \in Clerks PROVE Sees(pending[d])'
  <2>1. CalmTrucks
    BY <1>2 DEF CalmTrucks, FilledRest
  <2>2. \A x : Sees(x) /\ TxGood(x) => Sees(x)'
    <3> SUFFICES ASSUME NEW x, Sees(x), TxGood(x) PROVE Sees(x)'
      OBVIOUS
    <3>1. x.op = "create" => CreateSees(x)'
      <4> SUFFICES ASSUME x.op = "create", x.refill # NoRefill
                   PROVE  x.refill.qty <= filled'[x.refill.batch] - loaded'[x.refill.batch]
        BY DEF CreateSees
      <4>1. /\ x.refill.batch \in Batches /\ x.refill.qty \in Nat
            /\ x.refill.qty <= filled[x.refill.batch] - loaded[x.refill.batch]
        BY DEF TxGood, Sees, CreateSees
      <4> QED
        BY <1>3, <1>4, <4>1
    <3> QED
      BY <2>1, <3>1, CalmSees
  <2>3. Sees(pending[d]) /\ TxGood(pending[d]) /\ pending'[d] = pending[d]
    BY <1>2 DEF Seen, Writes, Pend
  <2>4. Sees(pending'[d]) /\ TxGood(pending'[d])
    BY <2>3
  <2> QED
    BY <2>2, <2>4
<1>7. Seen'
  BY <1>6 DEF Seen
<1> QED
  BY <1>2, <1>5, <1>7, BatchAgrees

LEMMA CreateAgrees ==
    ASSUME Writes, Agreed, NEW c \in Clerks, Sees(pending[c]), Sole(c), CommitCreate(c), UNCHANGED scene
    PROVE  Agreed' /\ Seen' /\ Orderly
<1> DEFINE tx == pending[c]
           r == tx.run
           load == tx.load
           refill == tx.refill
<1>1. /\ r \in Runs /\ IsLoad(load) /\ run[r].status = "none"
      /\ refill # NoRefill => /\ refill.batch \in Batches /\ refill.qty \in Nat
                              /\ refill.qty <= filled[refill.batch] - loaded[refill.batch]
  BY DEF CommitCreate, In, Writes, Pend, TxGood, Creates, Sees, CreateSees
<1>2. /\ run' = [run EXCEPT ![r].status = "OPEN"]
      /\ opening' = [opening EXCEPT ![r] = Fill(load)]
      /\ loaded' = IF refill = NoRefill THEN loaded
                   ELSE [loaded EXCEPT ![refill.batch] = @ + refill.qty]
      /\ IF scene.inventory THEN outs' = outs \cup OutRows(r, load) ELSE outs' = outs
      /\ UNCHANGED <<closing, returned, filled>> /\ StillBooks /\ Close(c)
  BY DEF CommitCreate, StillBooks
<1> HIDE DEF load, refill, r
<1>3. /\ run \in [Runs -> RunRow] /\ opening \in [Runs -> Quantities]
      /\ loaded \in [Batches -> Nat] /\ filled \in [Batches -> Nat] /\ StoreTyped /\ BooksTyped
  BY DEF Writes, Typed, TruckTyped, StoreTyped
<1>4. /\ \A q \in Runs : q # r => run'[q] = run[q] /\ opening'[q] = opening[q]
      /\ run'[r].status = "OPEN" /\ run'[r].sales = run[r].sales /\ run'[r].cash = run[r].cash
      /\ opening'[r] = Fill(load)
  <2>1. /\ run'[r] = [run[r] EXCEPT !.status = "OPEN"] /\ opening'[r] = Fill(load)
        /\ \A q \in Runs : q # r => run'[q] = run[q] /\ opening'[q] = opening[q]
    BY <1>1, <1>2, <1>3
  <2>2. run[r] \in RunRow
    BY <1>1, <1>3
  <2>3. /\ run'[r].status = "OPEN" /\ run'[r].sales = run[r].sales /\ run'[r].cash = run[r].cash
    BY <2>1, <2>2 DEF RunRow
  <2> QED
    BY <2>1, <2>3
<1>5. Standing(r) = {}
  BY <1>1 DEF Standing, Writes, Links
<1>6. /\ CustodyIsDeliveries' /\ BalanceIsActivity' /\ Credits' /\ PromisesHold
      /\ \A q : /\ Standing(q)' = Standing(q)
                /\ Sales(q)' = Sales(q) /\ Cash(q)' = Cash(q)
                /\ \A p : Delivered(q, p)' = Delivered(q, p)
  BY <1>2, BooksAgree
<1>7. TotalsAreDeliveries'
  <2> SUFFICES ASSUME NEW q \in Runs PROVE run'[q].sales = Sales(q)' /\ run'[q].cash = Cash(q)'
    BY DEF TotalsAreDeliveries
  <2> QED
    BY <1>4, <1>6 DEF Agreed, TotalsAreDeliveries
<1>8. ASSUME NEW q \in Runs, NEW p \in Products PROVE Delivered(q, p)' <= opening'[q][p]
  <2>1. CASE q = r
    <3>1. Delivered(q, p)' = 0
      BY <1>3, <1>5, <1>6, <2>1, DeliveredNat
    <3>2. opening'[q][p] \in Nat
      BY <1>1, <1>4, <2>1, FillIs DEF Quantities
    <3> QED
      BY <3>1, <3>2
  <2>2. CASE q # r
    BY <1>4, <1>6, <2>2 DEF Agreed, TruckNotOversold
  <2> QED
    BY <2>1, <2>2
<1>9. TruckNotOversold'
  BY <1>8 DEF TruckNotOversold
<1>10. /\ \A m \in outs : m.run # r /\ run[m.run].status # "none" /\ m.run \in Runs
       /\ returned[r] = None
  BY <1>1, <1>3 DEF Agreed, StoreTyped, OutRow
<1>11. LoadsAgree'
  <2> SUFFICES ASSUME scene'.inventory, \A f \in scene'.loads : DOMAIN f = Products,
                      NEW q \in Runs, NEW p \in Products
               PROVE  /\ opening'[q][p] = GivenBack({m \in outs' : m.run = q}, p)
                      /\ returned'[q][p] > 0 =>
                             returned'[q][p] + Delivered(q, p)' <= GivenBack({m \in outs' : m.run = q}, p)
    BY DEF LoadsAgree, GivenBack
  <2>1. scene' = scene /\ outs' = outs \cup OutRows(r, load) /\ returned' = returned
    BY <1>2
  <2>o. /\ GivenBack({m \in outs \cup OutRows(r, load) : m.run = r}, p) = Fill(load)[p]
        /\ \A w : w # r => {m \in outs \cup OutRows(r, load) : m.run = w} = {m \in outs : m.run = w}
    <3>1. OfOthers(outs, r)
      BY <1>10 DEF OfOthers
    <3> QED
      BY <1>1, <1>3, <3>1, OnlyLoad, SMTT(30)
  <2>2. CASE q = r
    <3>1. GivenBack({m \in outs' : m.run = q}, p) = Fill(load)[p]
      BY <2>1, <2>2, <2>o, Zenon
    <3>2. returned'[q][p] = 0
      BY <1>10, <2>1, <2>2 DEF None
    <3> QED
      BY <1>4, <2>2, <3>1, <3>2
  <2>3. CASE q # r
    <3>1. {m \in outs' : m.run = q} = {m \in outs : m.run = q}
      BY <2>1, <2>3, <2>o, Zenon
    <3>2. GivenBack({m \in outs' : m.run = q}, p) = GivenBack({m \in outs : m.run = q}, p)
      BY <3>1, Zenon
    <3> QED
      BY <1>4, <1>6, <2>1, <2>3, <3>2 DEF Agreed, LoadsAgree
  <2> QED
    BY <2>2, <2>3
<1>12. BatchesSuffice'
  <2>1. CASE refill = NoRefill
    BY <1>2, <2>1 DEF Agreed, BatchesSuffice
  <2>2. CASE refill # NoRefill
    <3>1. loaded' = [loaded EXCEPT ![refill.batch] = loaded[refill.batch] + refill.qty]
      BY <1>2, <2>2
    <3>2. \A b \in Batches : loaded'[b] = IF b = refill.batch THEN loaded[b] + refill.qty ELSE loaded[b]
      BY <1>3, <3>1
    <3> QED
      BY <1>1, <1>2, <1>3, <2>2, <3>2 DEF Agreed, BatchesSuffice
  <2> QED
    BY <2>1, <2>2
<1>13. \A m \in outs' : run'[m.run].status # "none"
  <2>1. \A m \in OutRows(r, load) : m.run = r
    BY <1>1, <1>3, OutRowsNew
  <2> QED
    BY <1>2, <1>4, <1>10, <2>1
<1>14. \A q \in Runs : run'[q].status # "CLOSED" => returned'[q] = None
  BY <1>2, <1>4, <1>10 DEF Agreed
<1>15. Final
  BY <1>1, <1>2, <1>4, <1>6 DEF Final
<1>16. Seen'
  BY <1>2, Ended DEF Writes
<1> QED
  BY <1>6, <1>7, <1>9, <1>11, <1>12, <1>13, <1>14, <1>15, <1>16 DEF Agreed, Credits, Orderly

LEMMA UpdateAgrees ==
    ASSUME Writes, Agreed, NEW c \in Clerks, Sees(pending[c]), Sole(c), CommitUpdate(c), UNCHANGED scene
    PROVE  Agreed' /\ Seen' /\ Orderly
<1> DEFINE tx == pending[c]
           r == tx.run
           load == tx.load
           undo == tx.undo
<1>1. /\ r \in Runs /\ IsLoad(load) /\ run[r].status = "OPEN" /\ load \in scene.loads
      /\ \A p \in DOMAIN load : load[p] >= Delivered(r, p)
      /\ undo = {m \in outs : m.run = r}
  BY DEF CommitUpdate, In, Writes, Pend, TxGood, Sees, UpdateSees
<1>2. /\ opening' = [opening EXCEPT ![r] = Over(load, @)]
      /\ IF scene.inventory THEN outs' = (outs \ undo) \cup OutRows(r, load) ELSE outs' = outs
      /\ UNCHANGED <<run, closing, returned, filled, loaded>> /\ StillBooks /\ Close(c)
  BY DEF CommitUpdate, StillBooks
<1> HIDE DEF load, undo, r
<1>3. /\ run \in [Runs -> RunRow] /\ opening \in [Runs -> Quantities] /\ StoreTyped /\ BooksTyped
  BY DEF Writes, Typed, TruckTyped, StoreTyped
<1>4. /\ \A q \in Runs : q # r => opening'[q] = opening[q]
      /\ \A p \in Products : opening'[r][p] = IF p \in DOMAIN load THEN load[p] ELSE opening[r][p]
  BY <1>1, <1>2, <1>3, OverIs
<1>6. /\ CustodyIsDeliveries' /\ BalanceIsActivity' /\ Credits' /\ PromisesHold
      /\ \A q : /\ Standing(q)' = Standing(q)
                /\ Sales(q)' = Sales(q) /\ Cash(q)' = Cash(q)
                /\ \A p : Delivered(q, p)' = Delivered(q, p)
  BY <1>2, BooksAgree
<1>7. TotalsAreDeliveries'
  BY <1>2, <1>6 DEF Agreed, TotalsAreDeliveries
<1>8. ASSUME NEW q \in Runs, NEW p \in Products PROVE Delivered(q, p)' <= opening'[q][p]
  <2>1. Delivered(q, p) <= opening[q][p] /\ Delivered(q, p)' = Delivered(q, p)
    BY <1>6 DEF Agreed, TruckNotOversold
  <2>2. CASE q = r /\ p \in DOMAIN load
    <3>1. load[p] >= Delivered(q, p) /\ load[p] \in Nat /\ Delivered(q, p) \in Nat
      BY <1>1, <1>3, <2>2, DeliveredNat DEF IsLoad
    <3> QED
      BY <1>4, <2>1, <2>2, <3>1
  <2>3. CASE ~(q = r /\ p \in DOMAIN load)
    BY <1>4, <2>1, <2>3
  <2> QED
    BY <2>2, <2>3
<1>9. TruckNotOversold'
  BY <1>8 DEF TruckNotOversold
<1>10. returned[r] = None
  BY <1>1 DEF Agreed
<1>11. LoadsAgree'
  <2> SUFFICES ASSUME scene'.inventory, \A f \in scene'.loads : DOMAIN f = Products,
                      NEW q \in Runs, NEW p \in Products
               PROVE  /\ opening'[q][p] = GivenBack({m \in outs' : m.run = q}, p)
                      /\ returned'[q][p] > 0 =>
                             returned'[q][p] + Delivered(q, p)' <= GivenBack({m \in outs' : m.run = q}, p)
    BY DEF LoadsAgree, GivenBack
  <2> DEFINE S == outs \ undo
  <2>1. scene' = scene /\ outs' = S \cup OutRows(r, load) /\ returned' = returned
    BY <1>2
  <2>2. OfOthers(S, r)
    BY <1>1 DEF OfOthers
  <2>3. p \in DOMAIN load
    BY <1>1, <2>1
  <2>s. \A w : w # r => {m \in S : m.run = w} = {m \in outs : m.run = w}
    BY <1>1
  <2> HIDE DEF S
  <2>o. /\ GivenBack({m \in S \cup OutRows(r, load) : m.run = r}, p) = Fill(load)[p]
        /\ \A w : w # r => {m \in S \cup OutRows(r, load) : m.run = w} = {m \in S : m.run = w}
    <3>1. r \in Runs /\ IsLoad(load) /\ StoreTyped
      BY <1>1, <1>3
    <3> QED
      BY <2>2, <3>1, OnlyLoad
  <2>4. CASE q = r
    <3>1. GivenBack({m \in outs' : m.run = q}, p) = Fill(load)[p]
      BY <2>1, <2>4, <2>o, Zenon
    <3>2. returned'[q][p] = 0
      BY <1>10, <2>1, <2>4 DEF None
    <3>3. Fill(load)[p] = load[p]
      BY <1>1, <2>3, FillIs
    <3> QED
      BY <1>4, <2>3, <2>4, <3>1, <3>2, <3>3
  <2>5. CASE q # r
    <3>1. {m \in outs' : m.run = q} = {m \in S : m.run = q}
      BY <2>1, <2>5, <2>o, Zenon
    <3>2. {m \in outs' : m.run = q} = {m \in outs : m.run = q}
      BY <2>5, <3>1, <2>s, Zenon
    <3>3. GivenBack({m \in outs' : m.run = q}, p) = GivenBack({m \in outs : m.run = q}, p)
      BY <3>2, Zenon
    <3> QED
      BY <1>4, <1>6, <2>1, <2>5, <3>3 DEF Agreed, LoadsAgree
  <2> QED
    BY <2>4, <2>5
<1>12. BatchesSuffice'
  BY <1>2 DEF Agreed, BatchesSuffice
<1>13. \A m \in outs' : run'[m.run].status # "none"
  <2>1. \A m \in OutRows(r, load) : m.run = r
    BY <1>1, <1>3, OutRowsNew
  <2> QED
    BY <1>1, <1>2, <2>1 DEF Agreed
<1>14. \A q \in Runs : run'[q].status # "CLOSED" => returned'[q] = None
  BY <1>2 DEF Agreed
<1>15. Final
  BY <1>2, <1>6 DEF Final
<1>16. Seen'
  BY <1>2, Ended DEF Writes
<1> QED
  BY <1>6, <1>7, <1>9, <1>11, <1>12, <1>13, <1>14, <1>15, <1>16 DEF Agreed, Credits, Orderly

LEMMA CloseAgrees ==
    ASSUME Writes, Agreed, NEW c \in Clerks, Sees(pending[c]), Sole(c), CommitClose(c), UNCHANGED scene
    PROVE  Agreed' /\ Seen' /\ Orderly
<1> DEFINE tx == pending[c]
           r == tx.run
           ret == tx.ret
           total == [status |-> "CLOSED", sales |-> tx.sales, cash |-> tx.cash]
<1>1. /\ r \in Runs /\ IsLoad(ret) /\ run[r].status = "OPEN"
      /\ \A p \in DOMAIN ret : ret[p] <= Leftover(r, p)
      /\ total.status = "CLOSED" /\ total.sales = Sales(r) /\ total.cash = Cash(r)
  BY DEF CommitClose, In, Writes, Pend, TxGood, Sees, CloseSees
<1>2. /\ closing' = [closing EXCEPT ![r] = Over(tx.count, @)]
      /\ returned' = [returned EXCEPT ![r] = [p \in Products |-> @[p] + Fill(ret)[p]]]
      /\ run' = [run EXCEPT ![r] = total]
      /\ UNCHANGED <<opening, outs, filled, loaded>> /\ StillBooks /\ Close(c)
  BY DEF CommitClose, StillBooks
<1> HIDE DEF r, ret, total
<1>3. /\ run \in [Runs -> RunRow] /\ returned \in [Runs -> Quantities]
      /\ closing = [q \in Runs |-> closing[q]] /\ BooksTyped /\ opening \in [Runs -> Quantities]
  BY DEF Writes, Typed, TruckTyped, StoreTyped
<1>4. /\ \A q \in Runs : q # r => /\ run'[q] = run[q] /\ returned'[q] = returned[q]
                                  /\ closing'[q] = closing[q]
      /\ run'[r] = total
  BY <1>1, <1>2, <1>3
<1>5. \A p \in Products : returned'[r][p] = Fill(ret)[p]
  <2>1. returned[r] = None
    BY <1>1 DEF Agreed
  <2>2. \A p \in Products : Fill(ret)[p] \in Nat
    BY <1>1, FillIs DEF Quantities
  <2>3. returned'[r] = [p \in Products |-> returned[r][p] + Fill(ret)[p]]
    BY <1>1, <1>2, <1>3
  <2> QED
    BY <2>1, <2>2, <2>3 DEF None
<1>6. /\ CustodyIsDeliveries' /\ BalanceIsActivity' /\ Credits' /\ PromisesHold
      /\ \A q : /\ Standing(q)' = Standing(q)
                /\ Sales(q)' = Sales(q) /\ Cash(q)' = Cash(q)
                /\ \A p : Delivered(q, p)' = Delivered(q, p)
  BY <1>2, BooksAgree
<1>7. TotalsAreDeliveries'
  <2> SUFFICES ASSUME NEW q \in Runs PROVE run'[q].sales = Sales(q)' /\ run'[q].cash = Cash(q)'
    BY DEF TotalsAreDeliveries
  <2> QED
    BY <1>1, <1>4, <1>6 DEF Agreed, TotalsAreDeliveries
<1>8. TruckNotOversold' /\ BatchesSuffice'
  BY <1>2, <1>6 DEF Agreed, TruckNotOversold, BatchesSuffice
<1>9. LoadsAgree'
  <2> SUFFICES ASSUME scene'.inventory, \A f \in scene'.loads : DOMAIN f = Products,
                      NEW q \in Runs, NEW p \in Products
               PROVE  /\ opening'[q][p] = GivenBack({m \in outs' : m.run = q}, p)
                      /\ returned'[q][p] > 0 =>
                             returned'[q][p] + Delivered(q, p)' <= GivenBack({m \in outs' : m.run = q}, p)
    BY DEF LoadsAgree, GivenBack
  <2> DEFINE out == GivenBack({m \in outs : m.run = q}, p)
  <2>1. /\ scene' = scene /\ outs' = outs /\ opening' = opening
        /\ Delivered(q, p)' = Delivered(q, p)
    BY <1>2, <1>6 DEF StillBooks
  <2>2. opening[q][p] = out /\ (returned[q][p] > 0 => returned[q][p] + Delivered(q, p) <= out)
    BY <2>1 DEF Agreed, LoadsAgree
  <2> HIDE DEF out
  <2>3. returned'[q][p] > 0 => returned'[q][p] + Delivered(q, p) <= out
    <3>1. CASE q # r
      BY <1>4, <2>2, <3>1
    <3>2. CASE q = r
      <4> SUFFICES ASSUME returned'[q][p] > 0 PROVE returned'[q][p] + Delivered(q, p) <= out
        OBVIOUS
      <4>1. p \in DOMAIN ret /\ returned'[r][p] = ret[p] /\ ret[p] \in Nat /\ ret[p] > 0
        BY <1>1, <1>5, <3>2, FillIs DEF IsLoad
      <4>2. Delivered(r, p) \in Nat /\ opening[r][p] \in Nat
        BY <1>1, <1>3, DeliveredNat DEF Quantities
      <4>3. Leftover(r, p) \in {0, opening[r][p] - Delivered(r, p)}
        BY <4>2, LargerOfTwo DEF Leftover
      <4>4. ret[p] <= Leftover(r, p)
        BY <1>1, <4>1
      <4> QED
        BY <2>2, <3>2, <4>1, <4>2, <4>3, <4>4
    <3> QED
      BY <3>1, <3>2
  <2>4. GivenBack({m \in outs' : m.run = q}, p) = out
    BY <2>1, Zenon DEF out
  <2> QED
    BY <2>1, <2>2, <2>3, <2>4
<1>10. \A m \in outs' : run'[m.run].status # "none"
  BY <1>1, <1>2, <1>4 DEF Agreed, Writes, Typed, StoreTyped, OutRow
<1>11. \A q \in Runs : run'[q].status # "CLOSED" => returned'[q] = None
  BY <1>1, <1>4 DEF Agreed
<1>12. Final
  BY <1>1, <1>4, <1>6 DEF Final
<1>13. Seen'
  BY <1>2, Ended DEF Writes
<1> QED
  BY <1>6, <1>7, <1>8, <1>9, <1>10, <1>11, <1>12, <1>13 DEF Agreed, Credits, Orderly

-----------------------------------------------------------------------------
(* Commits of deliveries and their cancellation.  ds has n more than es,   *)
(* whichever of the two comes first.                                       *)
LEMMA SumsOf ==
    /\ \A r : /\ Sales(r) = SalesIn(deliveries, r) /\ Cash(r) = CashIn(deliveries, r)
              /\ Standing(r) = StandingIn(deliveries, r)
              /\ \A p : Delivered(r, p) = DeliveredIn(deliveries, r, p)
    /\ \A r : /\ Sales(r)' = SalesIn(deliveries', r) /\ Cash(r)' = CashIn(deliveries', r)
              /\ Standing(r)' = StandingIn(deliveries', r)
              /\ \A p : Delivered(r, p)' = DeliveredIn(deliveries', r, p)
BY DEF Sales, Cash, Standing, Delivered, SalesIn, CashIn, StandingIn, DeliveredIn

NoEmptiesLost(ds) == \A m \in DOMAIN ds : ds[m].status = "CANCELLED" =>
    \A p \in Tracked : ds[m].empties[p] = 0

LEMMA CustodyIs ==
    /\ CustodyIsDeliveries <=>
           \A k \in Customers : NoEmptiesLost(deliveries) => custody[k] = HeldIn(deliveries, k)
    /\ CustodyIsDeliveries' <=>
           \A k \in Customers : NoEmptiesLost(deliveries') => custody'[k] = HeldIn(deliveries', k)
BY DEF CustodyIsDeliveries, NoEmptiesLost, HeldIn, Containers

LEMMA DeliverAgrees ==
    ASSUME Writes, Agreed, NEW c \in Clerks, Sees(pending[c]), Sole(c), CommitDeliver(c), UNCHANGED scene
    PROVE  Agreed' /\ Seen' /\ Orderly
<1> DEFINE d == pending[c].row
           n == Len(deliveries) + 1
           clears == pending[c].clears
           k == d.customer
           paid == [customer |-> k, amount |-> d.cash, day |-> d.day, ref |-> n, credit |-> 0,
                    live |-> TRUE]
<1>1. /\ d \in DeliveryRow /\ d.status = "DELIVERED" /\ run[d.run].status = "OPEN"
      /\ \A p \in Products : d.items[p] > 0 => d.items[p] <= opening[d.run][p] - Delivered(d.run, p)
      /\ clears => Settled(k, balance[k] + d.sale - d.cash, WithCash(d, n), Append(deliveries, d))
  BY DEF CommitDeliver, In, Writes, Pend, TxGood, Sees, DeliverSees
<1>2. /\ deliveries' = Append(deliveries, d) /\ payments' = WithCash(d, n)
      /\ balance' = [balance EXCEPT ![k] = @ + d.sale - d.cash]
      /\ custody' = [custody EXCEPT ![k] = @ + Containers(d)]
      /\ promise' = [promise EXCEPT ![k] =
                        IF d.promised # NoPromise
                        THEN [due |-> d.promised.due, amount |-> d.promised.amount, delivery |-> n]
                        ELSE IF clears THEN NoPromise ELSE @]
      /\ UNCHANGED <<opening, closing, returned, outs, filled, loaded>> /\ Close(c)
  BY DEF CommitDeliver, Charge, WithCash, store
<1>3. /\ deliveries \in Seq(DeliveryRow) /\ payments \in Seq(PaymentRow) /\ run \in [Runs -> RunRow]
      /\ balance \in [Customers -> Int] /\ custody \in [Customers -> Int] /\ BooksTyped
      /\ promise \in [Customers -> PromiseRow \cup {NoPromise}] /\ opening \in [Runs -> Quantities]
  BY DEF Writes, Typed, BooksTyped, TruckTyped
<1>4. /\ run'[d.run] = [status |-> run[d.run].status, sales |-> run[d.run].sales + d.sale,
                        cash |-> run[d.run].cash + d.cash]
      /\ \A q \in Runs : q # d.run => run'[q] = run[q]
  <2> DEFINE x == [run EXCEPT ![d.run].sales = @ + d.sale]
             y == [x EXCEPT ![d.run].cash = @ + d.cash]
             s == run[d.run].sales + d.sale
             h == x[d.run].cash + d.cash
  <2>1. run' = y
    BY Zenon DEF CommitDeliver
  <2>2. d.run \in Runs /\ d.sale \in Int /\ d.cash \in Int
    BY <1>1 DEF DeliveryRow
  <2> HIDE DEF d
  <2>3. s \in Int /\ (x[d.run].cash = run[d.run].cash => h \in Int)
    BY <1>3, <2>2 DEF RunRow
  <2>4. Moved(d.run, s, h, x, y)
    BY <2>3 DEF Moved
  <2> HIDE DEF x, y, s
  <2>5. /\ \A q \in Runs : q # d.run => y[q] = run[q]
        /\ y[d.run] = [status |-> run[d.run].status, sales |-> s, cash |-> h]
        /\ x[d.run].cash = run[d.run].cash
    BY <1>3, <2>2, <2>3, <2>4, RunMoved
  <2> QED
    BY <2>1, <2>5 DEF s
<1> HIDE DEF d, clears
<1>5. /\ d.run \in Runs /\ k \in Customers /\ d.sale \in Int /\ d.cash \in Nat
      /\ d.items \in Quantities /\ d.promised \in Promises \cup {NoPromise}
      /\ Containers(d) \in Int
  BY <1>1, ContainersInt DEF DeliveryRow
<1>6. /\ deliveries' \in Seq(DeliveryRow) /\ DOMAIN deliveries' = DOMAIN deliveries \cup {n}
      /\ n \notin DOMAIN deliveries /\ deliveries'[n] = d /\ n \in Nat \ {0}
      /\ \A m \in DOMAIN deliveries : deliveries'[m] = deliveries[m]
  BY <1>1, <1>2, <1>3, Appended
<1>7. More(deliveries, deliveries', n)
  BY <1>1, <1>3, <1>6 DEF More
<1>8. /\ SamePaid(payments, payments')
      /\ Credits'
  <2>1. CASE d.cash = 0
    BY <1>2, <2>1 DEF WithCash, SamePaid, Agreed, Credits
  <2>2. CASE d.cash # 0
    <3>1. payments' = Append(payments, paid)
      BY <1>2, <2>2 DEF WithCash
    <3>2. paid \in PaymentRow /\ paid.ref = n /\ paid.credit = 0
      BY <1>1, <1>5, <1>6 DEF PaymentRow, DeliveryRow
    <3> HIDE DEF paid, n
    <3>3. /\ DOMAIN payments' = DOMAIN payments \cup {Len(payments) + 1}
          /\ payments'[Len(payments) + 1] = paid
          /\ \A j \in DOMAIN payments : payments'[j] = payments[j]
      BY <1>3, <3>1, <3>2, Appended
    <3>4. SamePaid(payments, payments')
      BY <1>6, <3>2, <3>3 DEF SamePaid, NoRef
    <3>5. Credits'
      BY <1>6, <3>2, <3>3 DEF Agreed, Credits, NoRef
    <3> QED
      BY <3>4, <3>5
  <2> QED
    BY <2>1, <2>2
<1> HIDE DEF n, paid
<1>9. ASSUME NEW q \in Runs
      PROVE  /\ Sales(q)' = Sales(q) + (IF d.run = q THEN d.sale ELSE 0)
             /\ Cash(q)' = Cash(q) + (IF d.run = q THEN d.cash ELSE 0)
             /\ \A p \in Products : /\ Delivered(q, p)' = Delivered(q, p) + (IF d.run = q THEN d.items[p] ELSE 0)
                                    /\ Delivered(q, p) \in Nat
             /\ Standing(q)' = IF d.run = q THEN Standing(q) \cup {n} ELSE Standing(q)
  <2>1. /\ SalesIn(deliveries', q) = SalesIn(deliveries, q) + (IF d.run = q THEN d.sale ELSE 0)
        /\ CashIn(deliveries', q) = CashIn(deliveries, q) + (IF d.run = q THEN d.cash ELSE 0)
        /\ \A p \in Products : DeliveredIn(deliveries', q, p)
                  = DeliveredIn(deliveries, q, p) + (IF d.run = q THEN d.items[p] ELSE 0)
    <3> DEFINE b == deliveries'
    <3>1. More(deliveries, b, n)
      BY <1>7
    <3> HIDE DEF b
    <3>2. /\ SalesIn(b, q) = SalesIn(deliveries, q) + (IF b[n].run = q THEN b[n].sale ELSE 0)
          /\ CashIn(b, q) = CashIn(deliveries, q) + (IF b[n].run = q THEN b[n].cash ELSE 0)
          /\ \A p \in Products : DeliveredIn(b, q, p)
                  = DeliveredIn(deliveries, q, p) + (IF b[n].run = q THEN b[n].items[p] ELSE 0)
      BY <3>1, MoreOfRun
    <3>3. b[n] = d
      BY <1>6 DEF b
    <3> QED
      BY <3>2, <3>3 DEF b
  <2>2. StandingIn(deliveries', q) = IF d.run = q THEN StandingIn(deliveries, q) \cup {n}
                                     ELSE StandingIn(deliveries, q)
    BY <1>6, <1>7, MoreSets
  <2>3. \A p \in Products : Delivered(q, p) \in Nat
    BY <1>3, DeliveredNat
  <2> QED
    BY <2>1, <2>2, <2>3, SumsOf
<1>10. TotalsAreDeliveries'
  <2> SUFFICES ASSUME NEW q \in Runs PROVE run'[q].sales = Sales(q)' /\ run'[q].cash = Cash(q)'
    BY DEF TotalsAreDeliveries
  <2>1. run[q].sales = Sales(q) /\ run[q].cash = Cash(q) /\ run[q].sales \in Int /\ run[q].cash \in Int
    BY <1>3 DEF Agreed, TotalsAreDeliveries, RunRow
  <2> QED
    BY <1>4, <1>9, <2>1
<1>11. TruckNotOversold'
  <2> SUFFICES ASSUME NEW q \in Runs, NEW p \in Products PROVE Delivered(q, p)' <= opening'[q][p]
    BY DEF TruckNotOversold
  <2>1. /\ Delivered(q, p) <= opening[q][p] /\ Delivered(q, p) \in Nat /\ opening[q][p] \in Nat
        /\ d.items[p] \in Nat
    BY <1>3, <1>5, <1>9 DEF Agreed, TruckNotOversold, Quantities
  <2> QED
    BY <1>1, <1>2, <1>9, <2>1
<1>12. CustodyIsDeliveries'
  <2> SUFFICES ASSUME NEW cust \in Customers, NoEmptiesLost(deliveries')
               PROVE  custody'[cust] = HeldIn(deliveries', cust)
    BY CustodyIs
  <2>1. NoEmptiesLost(deliveries)
    BY <1>6 DEF NoEmptiesLost
  <2>2. custody[cust] = HeldIn(deliveries, cust)
    BY <2>1, CustodyIs DEF Agreed
  <2>3. HeldIn(deliveries', cust) = HeldIn(deliveries, cust) + (IF k = cust THEN Containers(d) ELSE 0)
    BY <1>6, <1>7, MoreOfCustomer
  <2>4. custody'[cust] = IF k = cust THEN custody[cust] + Containers(d) ELSE custody[cust]
    BY <1>2, <1>3, <1>5
  <2>5. custody[cust] \in Int
    BY <1>3
  <2> QED
    BY <2>2, <2>3, <2>4, <2>5
<1>13. LoadsAgree'
  <2> SUFFICES ASSUME scene'.inventory, \A f \in scene'.loads : DOMAIN f = Products,
                      NEW q \in Runs, NEW p \in Products
               PROVE  /\ opening'[q][p] = GivenBack({m \in outs' : m.run = q}, p)
                      /\ returned'[q][p] > 0 =>
                             returned'[q][p] + Delivered(q, p)' <= GivenBack({m \in outs' : m.run = q}, p)
    BY DEF LoadsAgree, GivenBack
  <2>1. scene' = scene /\ outs' = outs /\ opening' = opening /\ returned' = returned
    BY <1>2
  <2>2. /\ opening[q][p] = GivenBack({m \in outs : m.run = q}, p)
        /\ returned[q][p] > 0 => returned[q][p] + Delivered(q, p) <= GivenBack({m \in outs : m.run = q}, p)
    BY <2>1 DEF Agreed, LoadsAgree
  <2>3. GivenBack({m \in outs' : m.run = q}, p) = GivenBack({m \in outs : m.run = q}, p)
    BY <2>1, Zenon
  <2>4. CASE q = d.run
    <3>1. returned[q][p] = 0
      BY <1>1, <1>5, <2>4 DEF Agreed, None
    <3> QED
      BY <2>1, <2>2, <2>3, <3>1
  <2>5. CASE q # d.run
    <3>1. Delivered(q, p)' = Delivered(q, p)
      BY <1>9, <2>5
    <3> QED
      BY <2>1, <2>2, <2>3, <3>1
  <2> QED
    BY <2>4, <2>5
<1>14. BatchesSuffice'
  BY <1>2 DEF Agreed, BatchesSuffice
<1>15. BalanceIsActivity'
  <2>1. ASSUME NEW cust \in Customers
        PROVE  balance'[cust] = OwedIn(deliveries', cust) - PaidIn(payments', cust)
    <3>1. PaidIn(payments', cust) = PaidIn(payments, cust) /\ PaidIn(payments, cust) \in Int
      BY <1>3, <1>8, SamePaidSum, PaidInt
    <3>2. balance[cust] = OwedIn(deliveries, cust) - PaidIn(payments, cust)
      BY BalanceIs DEF Agreed
    <3>3. /\ OwedIn(deliveries', cust) = OwedIn(deliveries, cust) + (IF k = cust THEN d.sale - d.cash ELSE 0)
          /\ OwedIn(deliveries, cust) \in Int
      BY <1>6, <1>7, MoreOfCustomer
    <3>4. balance'[cust] = IF k = cust THEN balance[cust] + d.sale - d.cash ELSE balance[cust]
      BY <1>2, <1>3, <1>5
    <3> QED
      BY <1>5, <3>1, <3>2, <3>3, <3>4
  <2> QED
    BY <2>1 DEF BalanceIsActivity, OwedIn, PaidIn, StandaloneIn
<1>16. \A m \in outs' : run'[m.run].status # "none"
  <2>1. \A m \in outs : m.run \in Runs /\ run[m.run].status # "none"
    BY DEF Agreed, Writes, Typed, StoreTyped, OutRow
  <2>2. \A q \in Runs : run'[q].status = run[q].status
    BY <1>4
  <2> QED
    BY <1>2, <2>1, <2>2
<1>17. \A q \in Runs : run'[q].status # "CLOSED" => returned'[q] = None
  BY <1>2, <1>4 DEF Agreed
<1>18. Final
  BY <1>1, <1>2, <1>4, <1>9 DEF Final
<1>19. PromisesHold
  <2> SUFFICES ASSUME NEW cust \in Customers, promise[cust] # NoPromise, promise'[cust] = NoPromise
               PROVE  Settled(cust, balance'[cust], payments', deliveries')
    BY DEF PromisesHold
  <2> DEFINE new == [due |-> d.promised.due, amount |-> d.promised.amount, delivery |-> n]
  <2>1. d.promised # NoPromise => new # NoPromise
    <3>1. d.promised # NoPromise => new \in [due : Int, amount : Nat, delivery : Nat]
      BY <1>5, <1>6 DEF Promises
    <3> QED
      BY <3>1, InputsAssumption
  <2> HIDE DEF new
  <2>2. cust = k /\ clears
    BY <1>2, <1>3, <1>5, <2>1 DEF new
  <2>3. balance'[k] = balance[k] + d.sale - d.cash
    BY <1>2, <1>3, <1>5
  <2> QED
    BY <1>1, <1>2, <2>2, <2>3
<1>20. Seen'
  BY <1>2, Ended DEF Writes
<1> QED
  BY <1>8, <1>10, <1>11, <1>12, <1>13, <1>14, <1>15, <1>16, <1>17, <1>18, <1>19, <1>20
  DEF Agreed, Credits, Orderly

LEMMA CancelAgrees ==
    ASSUME Writes, Agreed, NEW c \in Clerks, Sees(pending[c]), Sole(c), CommitCancel(c), UNCHANGED scene
    PROVE  Agreed' /\ Seen' /\ Orderly
<1> DEFINE n == pending[c].delivery
           d == deliveries[n]
           clears == pending[c].clears
           k == d.customer
<1>1. /\ n \in DOMAIN deliveries /\ d.status = "DELIVERED" /\ run[d.run].status = "OPEN"
      /\ clears => promise[k].delivery = n
  BY DEF CommitCancel, In, Writes, Pend, TxGood, Sees, CancelSees
<1>2. /\ deliveries' = [deliveries EXCEPT ![n].status = "CANCELLED"]
      /\ custody' = [custody EXCEPT ![k] = @ - Reversed(d)]
      /\ balance' = [balance EXCEPT ![k] = @ - d.sale + d.cash]
      /\ payments' = [i \in DOMAIN payments |->
                         IF payments[i].ref = n THEN [payments[i] EXCEPT !.live = FALSE]
                         ELSE payments[i]]
      /\ promise' = IF clears THEN [promise EXCEPT ![k] = NoPromise] ELSE promise
      /\ UNCHANGED <<opening, closing, returned, outs, filled, loaded>> /\ Close(c)
  BY DEF CommitCancel, Uncharge, ClearIf, store
<1>3. /\ deliveries \in Seq(DeliveryRow) /\ payments \in Seq(PaymentRow) /\ run \in [Runs -> RunRow]
      /\ balance \in [Customers -> Int] /\ custody \in [Customers -> Int] /\ BooksTyped
      /\ promise \in [Customers -> PromiseRow \cup {NoPromise}] /\ opening \in [Runs -> Quantities]
      /\ \A m \in DOMAIN deliveries : deliveries[m] \in DeliveryRow
  BY SeqDomain DEF Writes, Typed, BooksTyped, TruckTyped
<1>4. /\ d \in DeliveryRow /\ n # NoRef
  BY <1>1, <1>3, SeqDomain DEF NoRef
<1>5. /\ run'[d.run] = [status |-> run[d.run].status, sales |-> run[d.run].sales - d.sale,
                        cash |-> run[d.run].cash - d.cash]
      /\ \A q \in Runs : q # d.run => run'[q] = run[q]
  <2> DEFINE x == [run EXCEPT ![d.run].sales = @ - d.sale]
             y == [x EXCEPT ![d.run].cash = @ - d.cash]
             s == run[d.run].sales - d.sale
             h == x[d.run].cash - d.cash
  <2>1. run' = y
    BY Zenon DEF CommitCancel
  <2> HIDE DEF d
  <2>2. d.run \in Runs /\ d.sale \in Int /\ d.cash \in Int
    BY <1>4 DEF DeliveryRow
  <2>3. s \in Int /\ (x[d.run].cash = run[d.run].cash => h \in Int)
    BY <1>3, <2>2 DEF RunRow
  <2>4. Moved(d.run, s, h, x, y)
    BY <2>3 DEF Moved
  <2> HIDE DEF x, y, s
  <2>5. /\ \A q \in Runs : q # d.run => y[q] = run[q]
        /\ y[d.run] = [status |-> run[d.run].status, sales |-> s, cash |-> h]
        /\ x[d.run].cash = run[d.run].cash
    BY <1>3, <2>2, <2>3, <2>4, RunMoved
  <2> QED
    BY <2>1, <2>5 DEF s
<1>6. /\ deliveries' \in Seq(DeliveryRow) /\ DOMAIN deliveries' = DOMAIN deliveries
      /\ \A m \in DOMAIN deliveries : m # n => deliveries'[m] = deliveries[m]
      /\ deliveries'[n].status = "CANCELLED" /\ deliveries'[n].empties = d.empties
  <2>1. /\ deliveries' = [m \in DOMAIN deliveries |-> deliveries'[m]]
        /\ DOMAIN deliveries' = DOMAIN deliveries
        /\ \A m \in DOMAIN deliveries : m # n => deliveries'[m] = deliveries[m]
        /\ deliveries'[n] = [d EXCEPT !.status = "CANCELLED"]
    BY <1>1, <1>2
  <2> HIDE DEF d
  <2>2. /\ deliveries'[n] \in DeliveryRow /\ deliveries'[n].status = "CANCELLED"
        /\ deliveries'[n].empties = d.empties
    BY <1>4, <2>1 DEF DeliveryRow
  <2>3. \A m \in DOMAIN deliveries : deliveries'[m] \in DeliveryRow
    BY <1>3, <2>1, <2>2
  <2>4. deliveries' \in Seq(DeliveryRow)
    BY <1>3, <2>1, <2>3, Rewritten
  <2> QED
    BY <2>1, <2>2, <2>4
<1>7. More(deliveries', deliveries, n)
  BY <1>1, <1>3, <1>6 DEF More
<1>8. SamePaid(payments, payments') /\ Credits'
  <2> HIDE DEF n
  <2>1. \A i \in DOMAIN payments : payments[i] \in PaymentRow
    BY <1>3, SeqDomain
  <2>2. /\ DOMAIN payments' = DOMAIN payments
        /\ \A i \in DOMAIN payments :
               payments'[i] = IF payments[i].ref = n THEN [payments[i] EXCEPT !.live = FALSE] ELSE payments[i]
    BY <1>2
  <2>3. ASSUME NEW i \in DOMAIN payments
        PROVE  /\ payments'[i].ref = payments[i].ref /\ payments'[i].credit = payments[i].credit
               /\ payments'[i].amount = payments[i].amount
               /\ payments[i].ref # n => payments'[i] = payments[i]
    BY <2>1, <2>2 DEF PaymentRow
  <2>4. SamePaid(payments, payments')
    BY <1>4, <2>2, <2>3 DEF SamePaid
  <2>5. Credits'
    BY <2>2, <2>3 DEF Agreed, Credits
  <2> QED
    BY <2>4, <2>5
<1>9. ASSUME NEW q \in Runs
      PROVE  /\ Sales(q) = Sales(q)' + (IF d.run = q THEN d.sale ELSE 0) /\ Sales(q)' \in Int
             /\ Cash(q) = Cash(q)' + (IF d.run = q THEN d.cash ELSE 0) /\ Cash(q)' \in Int
             /\ \A p \in Products : /\ Delivered(q, p) = Delivered(q, p)' + (IF d.run = q THEN d.items[p] ELSE 0)
                                    /\ Delivered(q, p)' \in Int
             /\ d.run # q => Standing(q)' = Standing(q)
  <2> DEFINE a == deliveries'
             b == deliveries
  <2>1. More(a, b, n)
    BY <1>7
  <2> HIDE DEF a, b, n
  <2>2. /\ SalesIn(b, q) = SalesIn(a, q) + (IF b[n].run = q THEN b[n].sale ELSE 0)
        /\ CashIn(b, q) = CashIn(a, q) + (IF b[n].run = q THEN b[n].cash ELSE 0)
        /\ \A p \in Products : /\ DeliveredIn(b, q, p)
                = DeliveredIn(a, q, p) + (IF b[n].run = q THEN b[n].items[p] ELSE 0)
                               /\ DeliveredIn(a, q, p) \in Int
        /\ SalesIn(a, q) \in Int /\ CashIn(a, q) \in Int
    BY <2>1, MoreOfRun
  <2>3. b[n].run # q => StandingIn(b, q) = StandingIn(a, q)
    BY <2>1, MoreSets
  <2>4. b[n] = d
    BY DEF b
  <2> HIDE DEF d
  <2> QED
    BY <2>2, <2>3, <2>4, SumsOf DEF a, b
<1> HIDE DEF d, n, clears
<1>10. /\ d.run \in Runs /\ k \in Customers /\ d.sale \in Int /\ d.cash \in Nat
       /\ d.items \in Quantities /\ Reversed(d) \in Int /\ Containers(d) \in Int
  BY <1>4, ContainersInt DEF DeliveryRow
<1>11. TotalsAreDeliveries'
  <2> SUFFICES ASSUME NEW q \in Runs PROVE run'[q].sales = Sales(q)' /\ run'[q].cash = Cash(q)'
    BY DEF TotalsAreDeliveries
  <2>1. run[q].sales = Sales(q) /\ run[q].cash = Cash(q) /\ run[q].sales \in Int /\ run[q].cash \in Int
    BY <1>3 DEF Agreed, TotalsAreDeliveries, RunRow
  <2> QED
    BY <1>5, <1>9, <1>10, <2>1
<1>12. \A q \in Runs, p \in Products : Delivered(q, p)' <= Delivered(q, p) /\ Delivered(q, p)' \in Int
  BY <1>9, <1>10 DEF Quantities
<1>13. TruckNotOversold'
  <2> SUFFICES ASSUME NEW q \in Runs, NEW p \in Products PROVE Delivered(q, p)' <= opening'[q][p]
    BY DEF TruckNotOversold
  <2>1. Delivered(q, p) <= opening[q][p] /\ opening[q][p] \in Nat
    BY <1>3 DEF Agreed, TruckNotOversold, Quantities
  <2>2. Delivered(q, p) \in Int
    BY <1>9, <1>10 DEF Quantities
  <2> QED
    BY <1>2, <1>12, <2>1, <2>2
<1>14. CustodyIsDeliveries'
  <2> SUFFICES ASSUME NEW cust \in Customers, NoEmptiesLost(deliveries')
               PROVE  custody'[cust] = HeldIn(deliveries', cust)
    BY CustodyIs
  <2>1. \A p \in Tracked : d.empties[p] = 0
    BY <1>1, <1>6 DEF NoEmptiesLost
  <2>2. NoEmptiesLost(deliveries)
    BY <1>1, <1>6 DEF NoEmptiesLost, d
  <2>3. custody[cust] = HeldIn(deliveries, cust)
    BY <2>2, CustodyIs DEF Agreed
  <2>4. /\ HeldIn(deliveries, cust) = HeldIn(deliveries', cust) + (IF k = cust THEN Containers(d) ELSE 0)
        /\ HeldIn(deliveries', cust) \in Int
    <3> DEFINE a == deliveries'
    <3>1. More(a, deliveries, n)
      BY <1>7
    <3> HIDE DEF a
    <3>2. /\ HeldIn(deliveries, cust) = HeldIn(a, cust)
                 + (IF deliveries[n].customer = cust THEN Containers(deliveries[n]) ELSE 0)
          /\ HeldIn(a, cust) \in Int
      BY <3>1, MoreOfCustomer
    <3> QED
      BY <3>2 DEF a, d
  <2>5. Reversed(d) = Containers(d)
    <3>1. \A p \in Tracked : d.items[p] + d.empties[p] = d.items[p] - d.empties[p]
      <4>1. \A p \in Tracked : d.items[p] \in Nat
        BY <1>10, InputsAssumption DEF Quantities
      <4> QED
        BY <2>1, <4>1
    <3>2. [p \in Tracked |-> d.items[p] + d.empties[p]] = [p \in Tracked |-> d.items[p] - d.empties[p]]
      BY <3>1
    <3> QED
      BY <3>2 DEF Reversed, Containers
  <2>6. custody'[cust] = IF k = cust THEN custody[cust] - Reversed(d) ELSE custody[cust]
    BY <1>2, <1>3, <1>10
  <2>7. custody[cust] \in Int
    BY <1>3
  <2> QED
    BY <1>10, <2>3, <2>4, <2>5, <2>6, <2>7
<1>15. LoadsAgree'
  <2> SUFFICES ASSUME scene'.inventory, \A f \in scene'.loads : DOMAIN f = Products,
                      NEW q \in Runs, NEW p \in Products
               PROVE  /\ opening'[q][p] = GivenBack({m \in outs' : m.run = q}, p)
                      /\ returned'[q][p] > 0 =>
                             returned'[q][p] + Delivered(q, p)' <= GivenBack({m \in outs' : m.run = q}, p)
    BY DEF LoadsAgree, GivenBack
  <2>1. scene' = scene /\ outs' = outs /\ opening' = opening /\ returned' = returned
    BY <1>2
  <2>2. /\ opening[q][p] = GivenBack({m \in outs : m.run = q}, p)
        /\ returned[q][p] > 0 => returned[q][p] + Delivered(q, p) <= GivenBack({m \in outs : m.run = q}, p)
    BY <2>1 DEF Agreed, LoadsAgree
  <2>3. GivenBack({m \in outs' : m.run = q}, p) = GivenBack({m \in outs : m.run = q}, p)
    BY <2>1, Zenon
  <2>4. opening[q][p] \in Nat /\ returned[q][p] \in Nat
    BY DEF Writes, Typed, TruckTyped, Quantities
  <2>5. Delivered(q, p) \in Int /\ Delivered(q, p)' \in Int /\ Delivered(q, p)' <= Delivered(q, p)
    BY <1>9, <1>10, <1>12 DEF Quantities
  <2> QED
    BY <2>1, <2>2, <2>3, <2>4, <2>5
<1>16. BatchesSuffice'
  BY <1>2 DEF Agreed, BatchesSuffice
<1>17. BalanceIsActivity'
  <2>1. ASSUME NEW cust \in Customers
        PROVE  balance'[cust] = OwedIn(deliveries', cust) - PaidIn(payments', cust)
    <3>1. PaidIn(payments', cust) = PaidIn(payments, cust) /\ PaidIn(payments, cust) \in Int
      BY <1>3, <1>8, SamePaidSum, PaidInt
    <3>2. balance[cust] = OwedIn(deliveries, cust) - PaidIn(payments, cust)
      BY BalanceIs DEF Agreed
    <3>3. /\ OwedIn(deliveries, cust) = OwedIn(deliveries', cust) + (IF k = cust THEN d.sale - d.cash ELSE 0)
          /\ OwedIn(deliveries', cust) \in Int
      <4> DEFINE a == deliveries'
      <4>1. More(a, deliveries, n)
        BY <1>7
      <4> HIDE DEF a
      <4>2. /\ OwedIn(deliveries, cust) = OwedIn(a, cust)
                 + (IF deliveries[n].customer = cust THEN deliveries[n].sale - deliveries[n].cash ELSE 0)
            /\ OwedIn(a, cust) \in Int
        BY <4>1, MoreOfCustomer
      <4> QED
        BY <4>2 DEF a, d
    <3>4. balance'[cust] = IF k = cust THEN balance[cust] - d.sale + d.cash ELSE balance[cust]
      BY <1>2, <1>3, <1>10
    <3> QED
      BY <1>10, <3>1, <3>2, <3>3, <3>4
  <2> QED
    BY <2>1 DEF BalanceIsActivity, OwedIn, PaidIn, StandaloneIn
<1>18. \A m \in outs' : run'[m.run].status # "none"
  <2>1. \A m \in outs : m.run \in Runs /\ run[m.run].status # "none"
    BY DEF Agreed, Writes, Typed, StoreTyped, OutRow
  <2>2. \A q \in Runs : run'[q].status = run[q].status
    BY <1>5
  <2> QED
    BY <1>2, <2>1, <2>2
<1>19. \A q \in Runs : run'[q].status # "CLOSED" => returned'[q] = None
  BY <1>2, <1>5 DEF Agreed
<1>20. Final
  BY <1>1, <1>2, <1>5, <1>9 DEF Final
<1>21. PromisesHold
  <2> SUFFICES ASSUME NEW cust \in Customers, promise[cust] # NoPromise, promise'[cust] = NoPromise
               PROVE  deliveries'[promise[cust].delivery].status = "CANCELLED"
    BY DEF PromisesHold
  <2>1. cust = k /\ clears
    BY <1>2, <1>3, <1>10
  <2> QED
    BY <1>1, <1>6, <2>1
<1>22. Seen'
  BY <1>2, Ended DEF Writes
<1> QED
  BY <1>8, <1>11, <1>13, <1>14, <1>15, <1>16, <1>17, <1>18, <1>19, <1>20, <1>21, <1>22
  DEF Agreed, Credits, Orderly

-----------------------------------------------------------------------------
(* A scene with one clerk. *)
LEMMA EmptySums ==
    ASSUME NEW f, DOMAIN f = {} PROVE SumFunction(f) = 0
BY TotalEmpty

LEMMA InitAgreed == Init => Agreed /\ Seen /\ Idle
<1> SUFFICES ASSUME Init PROVE Agreed /\ Seen /\ Idle
  OBVIOUS
<1> USE DEF Init
<1>1. /\ \A r : Standing(r) = {} /\ \A k : DeliveredTo(deliveries, k) = {}
      /\ \A k : StandaloneIn(payments, k) = {}
  BY DEF Standing, DeliveredTo, StandaloneIn, PaidBy
<1>2. \A r : /\ Sales(r) = 0 /\ Cash(r) = 0 /\ \A p : Delivered(r, p) = 0
  <2> TAKE r
  <2> DEFINE f == [d \in Standing(r) |-> deliveries[d].sale]
             g == [d \in Standing(r) |-> deliveries[d].cash]
  <2>1. DOMAIN f = {} /\ DOMAIN g = {}
    BY <1>1
  <2> HIDE DEF f, g
  <2>2. SumFunction(f) = 0 /\ SumFunction(g) = 0
    BY <2>1, EmptySums
  <2>3. ASSUME NEW p PROVE Delivered(r, p) = 0
    <3> DEFINE h == [d \in Standing(r) |-> deliveries[d].items[p]]
    <3>1. DOMAIN h = {}
      BY <1>1
    <3> HIDE DEF h
    <3>2. SumFunction(h) = 0
      BY <3>1, EmptySums
    <3> QED
      BY <3>2 DEF Delivered, h
  <2> QED
    BY <2>2, <2>3 DEF Sales, Cash, f, g
<1>3. \A k : HeldIn(deliveries, k) = 0 /\ OwedIn(deliveries, k) = 0 /\ PaidIn(payments, k) = 0
  <2> TAKE k
  <2> DEFINE f == [d \in DeliveredTo(deliveries, k) |-> Containers(deliveries[d])]
             g == [d \in DeliveredTo(deliveries, k) |-> deliveries[d].sale - deliveries[d].cash]
             h == [i \in StandaloneIn(payments, k) |-> payments[i].amount]
  <2>1. DOMAIN f = {} /\ DOMAIN g = {} /\ DOMAIN h = {}
    BY <1>1
  <2> HIDE DEF f, g, h
  <2>2. SumFunction(f) = 0 /\ SumFunction(g) = 0 /\ SumFunction(h) = 0
    BY <2>1, EmptySums
  <2> QED
    BY <2>2 DEF HeldIn, OwedIn, PaidIn, f, g, h
<1>4. TotalsAreDeliveries
  BY <1>2 DEF TotalsAreDeliveries
<1>5. TruckNotOversold
  BY <1>2 DEF TruckNotOversold, None
<1>6. CustodyIsDeliveries
  BY <1>3, CustodyIs
<1>7. LoadsAgree
  <2> SUFFICES ASSUME NEW r \in Runs, NEW p \in Products
               PROVE  /\ opening[r][p] = GivenBack({m \in outs : m.run = r}, p)
                      /\ ~(returned[r][p] > 0)
    BY DEF LoadsAgree, GivenBack
  <2>1. {m \in outs : m.run = r} = {}
    OBVIOUS
  <2>2. GivenBack({m \in outs : m.run = r}, p) = 0
    BY <2>1, NothingBack
  <2> QED
    BY <2>2 DEF None
<1>8. BatchesSuffice
  BY SceneInputs DEF BatchesSuffice
<1>9. BalanceIsActivity
  BY <1>3, BalanceIs
<1>10. Agreed
  BY <1>4, <1>5, <1>6, <1>7, <1>8, <1>9 DEF Agreed
<1>11. Seen /\ Idle
  BY DEF Seen, Sees, NoTx, Idle
<1> QED
  BY <1>10, <1>11

(* Nobody but the clerk who acts. *)
LEMMA OneActs ==
    ASSUME Pend, NEW c \in Clerks,
           \/ RunStep(c)
           \/ (AccountStep(c) \/ Abort(c)) /\ UNCHANGED <<truck, store, custody>>
    PROVE  \A d \in Clerks : d # c => pending'[d] = pending[d]
<1>1. \A tx : Open(c, tx) => \A d \in Clerks : d # c => pending'[d] = pending[d]
  BY DEF Open, Pend
<1>2. Close(c) => \A d \in Clerks : d # c => pending'[d] = pending[d]
  BY DEF Close, Pend
<1>3. CASE RunStep(c)
  <2>1. CASE \/ CommitCreate(c) \/ CommitUpdate(c) \/ CommitClose(c) \/ CommitBatch(c)
             \/ CommitDeliver(c) \/ CommitCancel(c)
    BY <1>2, <2>1 DEF CommitCreate, CommitUpdate, CommitClose, CommitBatch, CommitDeliver, CommitCancel
  <2>2. ASSUME NEW r, NEW load, NEW refill, BeginCreate(c, r, load, refill) \/ BeginUpdate(c, r, load)
        PROVE  \A d \in Clerks : d # c => pending'[d] = pending[d]
    BY <1>1, <2>2 DEF BeginCreate, BeginUpdate
  <2>3. ASSUME NEW r, NEW count, NEW ret, BeginClose(c, r, count, ret)
        PROVE  \A d \in Clerks : d # c => pending'[d] = pending[d]
    BY <1>1, <2>3 DEF BeginClose
  <2>4. ASSUME NEW r, NEW s, BeginDeliver(c, r, s)
        PROVE  \A d \in Clerks : d # c => pending'[d] = pending[d]
    BY <1>1, <2>4 DEF BeginDeliver
  <2>5. ASSUME NEW n, BeginCancel(c, n) PROVE \A d \in Clerks : d # c => pending'[d] = pending[d]
    BY <1>1, <2>5 DEF BeginCancel
  <2>6. ASSUME NEW b, NEW cans,
               BeginRemoveBatch(c, b) \/ CreateBatch(b, cans) \/ BeginEditBatch(c, b, cans)
        PROVE  \A d \in Clerks : d # c => pending'[d] = pending[d]
    BY <1>1, <2>6 DEF BeginRemoveBatch, CreateBatch, BeginEditBatch
  <2> QED
    BY <1>3, <2>1, <2>2, <2>3, <2>4, <2>5, <2>6 DEF RunStep
<1>4. CASE AccountStep(c) \/ Abort(c)
  BY <1>1, <1>2, <1>4 DEF AccountStep, Abort, BeginPayment, BeginRemove, BeginEdit, BeginHeal,
     CommitPayment, CommitEdit, CommitRemove, CommitHeal
<1> QED
  BY <1>3, <1>4

LEMMA IdleStep == ASSUME Writes, Idle, [Next]_vars PROVE Idle' /\ scene' = scene
<1>1. CASE UNCHANGED vars
  BY <1>1 DEF vars, Idle
<1>2. CASE Next
  <2>1. PICK c \in scene.clerks :
            \/ RunStep(c)
            \/ (AccountStep(c) \/ Abort(c)) /\ UNCHANGED <<truck, store, custody>>
    BY <1>2 DEF Next
  <2>2. c \in Clerks /\ scene' = scene
    BY <1>2, SceneInputs DEF Next, Writes, Typed
  <2>3. \A d \in Clerks : d # c => pending'[d] = pending[d]
    BY <2>1, <2>2, OneActs DEF Writes
  <2> QED
    BY <2>1, <2>2, <2>3 DEF Idle
<1> QED
  BY <1>1, <1>2

LEMMA SerialSole == ASSUME Writes, Idle, Serial, NEW c \in scene.clerks PROVE Sole(c)
<1>1. IsFiniteSet(scene.clerks) /\ Cardinality(scene.clerks) = 1
  BY SceneInputs DEF Writes, Typed, Serial
<1>2. \A d \in scene.clerks : d = c
  BY <1>1, FS_Singleton
<1> QED
  BY <1>2 DEF Idle, Sole

LEMMA AloneStep ==
    ASSUME Writes, Idle, Serial, Agreed, Seen, [Next]_vars
    PROVE  Agreed' /\ Seen' /\ Orderly
<1>1. CASE UNCHANGED vars
  <2>1. Calm /\ pending' = pending /\ CalmTrucks
    BY <1>1 DEF vars, Calm, CalmTrucks, store
  <2>2. Agreed' /\ Orderly
    BY <2>1, CalmAgrees
  <2>3. ASSUME NEW c \in Clerks PROVE Sees(pending[c])'
    <3>1. \A x : Sees(x) => Sees(x)'
      <4> SUFFICES ASSUME NEW x, Sees(x) PROVE Sees(x)'
        OBVIOUS
      <4>1. x.op = "create" => CreateSees(x)'
        BY <2>1 DEF Calm, store, Sees, CreateSees
      <4> QED
        BY <2>1, <4>1, CalmSees
    <3> QED
      BY <2>1, <3>1 DEF Seen
  <2> QED
    BY <2>2, <2>3 DEF Seen
<1>2. CASE Next
  <2>1. PICK c \in scene.clerks :
            \/ RunStep(c)
            \/ (AccountStep(c) \/ Abort(c)) /\ UNCHANGED <<truck, store, custody>>
    BY <1>2 DEF Next
  <2>2. /\ c \in Clerks /\ scene' = scene /\ Sole(c) /\ Sees(pending[c])
    BY <1>2, SceneInputs, SerialSole DEF Next, Writes, Typed, Seen
  <2>3. CASE RunStep(c)
    <3>1. ASSUME NEW r \in Runs,
                 \/ \E load \in scene.loads, refill \in scene.refills \cup {NoRefill} :
                        BeginCreate(c, r, load, refill)
                 \/ \E load \in scene.loads : BeginUpdate(c, r, load)
                 \/ \E count \in scene.closings, ret \in scene.returns : BeginClose(c, r, count, ret)
          PROVE  Agreed' /\ Seen' /\ Orderly
      BY <2>2, <3>1, TruckBegins
    <3>2. CASE \/ \E r \in Runs, s \in scene.stops : BeginDeliver(c, r, s)
               \/ \E n \in DOMAIN deliveries : BeginCancel(c, n)
               \/ \E b \in Batches : BeginRemoveBatch(c, b)
               \/ \E b \in Batches, cans \in scene.fills : BeginEditBatch(c, b, cans)
      BY <2>2, <3>2, StopBegins
    <3>3. ASSUME NEW b \in Batches, NEW cans \in scene.fills, CreateBatch(b, cans)
          PROVE  Agreed' /\ Seen' /\ Orderly
      BY <2>2, <3>3, BatchCreateAgrees
    <3>4. CASE CommitCreate(c) \/ CommitUpdate(c) \/ CommitClose(c)
      BY <2>2, <3>4, CreateAgrees, UpdateAgrees, CloseAgrees
    <3>5. CASE CommitBatch(c) \/ CommitDeliver(c) \/ CommitCancel(c)
      BY <2>2, <3>5, BatchCommitAgrees, DeliverAgrees, CancelAgrees
    <3> QED
      BY <2>3, <3>1, <3>2, <3>3, <3>4, <3>5 DEF RunStep
  <2>4. CASE (AccountStep(c) \/ Abort(c)) /\ UNCHANGED <<truck, store, custody>>
    <3>1. StillStore /\ UNCHANGED custody
      BY <2>2, <2>4 DEF StillStore
    <3>2. CASE Abort(c) \/ CommitHeal(c)
      BY <2>2, <3>1, <3>2, RestAgrees
    <3>3. CASE CommitPayment(c) \/ CommitEdit(c) \/ CommitRemove(c)
      BY <2>2, <3>1, <3>3, PaymentAgrees, EditAgrees, RemoveAgrees
    <3>4. CASE \/ \E q \in scene.payments : BeginPayment(c, q)
               \/ \E i \in DOMAIN payments : BeginRemove(c, i) \/ \E e \in scene.edits : BeginEdit(c, i, e)
               \/ \E cust \in Customers : BeginHeal(c, cust)
      BY <2>2, <2>4, <3>4, AccountBegins
    <3> QED
      BY <2>4, <3>2, <3>3, <3>4 DEF AccountStep
  <2> QED
    BY <2>1, <2>3, <2>4
<1> QED
  BY <1>1, <1>2

OrderlyIfSerial == Serial => Orderly

LEMMA AloneKept == ASSUME Writes, Alone, [Next]_vars PROVE Alone' /\ OrderlyIfSerial
<1>1. Idle' /\ scene' = scene
  BY IdleStep DEF Alone
<1>2. Serial' <=> Serial
  BY <1>1 DEF Serial
<1>3. Serial => Agreed' /\ Seen' /\ Orderly
  BY AloneStep DEF Alone
<1> QED
  BY <1>1, <1>2, <1>3 DEF Alone, OrderlyIfSerial

LEMMA AlwaysAlone == Spec => [](Writes /\ Alone)
<1>1. Init => Alone
  BY InitAgreed DEF Alone
<1>2. Writes /\ Alone /\ [Next]_vars => Alone'
  BY AloneKept
<1> QED
  BY <1>1, <1>2, AlwaysWrites, PTL DEF Spec

(* One request at a time, whatever the sequence of loads, deliveries,      *)
(* cancellations, payments, edits, closes and refills: the totals of a run *)
(* are those of its deliveries, the truck is never oversold, containers    *)
(* and balances are what the deliveries and payments that stand amount to, *)
(* the truck has what the warehouse gave it, and no batch is drawn below   *)
(* zero.                                                                   *)
THEOREM RunsAlwaysAgree == Spec => []RunsAgree
<1>1. Alone => RunsAgree
  BY DEF Alone, Agreed, RunsAgree
<1> QED
  BY <1>1, AlwaysAlone, PTL

(* One request at a time, the count, the totals and the deliveries of a    *)
(* closed run stay.                                                        *)
THEOREM ClosedRunsAreFinal == Spec => ClosedIsFinal
<1>1. Writes /\ Alone /\ [Next]_vars => [Serial => Final]_vars
  BY AloneKept DEF OrderlyIfSerial, Orderly
<1> QED
  BY <1>1, AlwaysAlone, PTL DEF Spec, ClosedIsFinal, Final

(* One request at a time, a promise to pay goes only because it is         *)
(* settled, replaced, or its own delivery is cancelled.                    *)
THEOREM PromisesAreKept == Spec => PromiseKept
<1> DEFINE Holds == \A cust \in Customers :
               Serial /\ promise[cust] # NoPromise /\ promise'[cust] = NoPromise =>
                   \/ deliveries'[promise[cust].delivery].status = "CANCELLED"
                   \/ Settled(cust, balance'[cust], payments', deliveries')
<1>1. Writes /\ Alone /\ [Next]_vars => [Holds]_<<account, deliveries>>
  BY AloneKept DEF OrderlyIfSerial, Orderly, PromisesHold
<1> QED
  BY <1>1, AlwaysAlone, PTL DEF Spec, PromiseKept
=============================================================================
