-------------------------- MODULE BackOffice_proofs --------------------------
(***************************************************************************)
(* Proofs about BackOffice for any number of requests, locations, bills,   *)
(* orders, customers, riders and items, and any scenes of inputs of their  *)
(* types: what every proof about it needs (tables, requests), the          *)
(* factory and the catalog; FieldCash_proofs goes on with the customers    *)
(* and the cash.  And proofs about runIdempotent, which guards the         *)
(* requests of the office that must not be repeated.                       *)
(*                                                                         *)
(* Requests: no two of them handle a row that is not crossed (Exclusive).  *)
(* So what one of them has read outside its transaction still holds when   *)
(* it writes, unless the row is crossed: the inductive invariants of every *)
(* part say that of the requests in progress, beside what they say of the  *)
(* tables.                                                                 *)
(***************************************************************************)
EXTENDS BackOffice, Idempotency, Sums_proofs

-----------------------------------------------------------------------------
(* The sequence of the elements of a finite set: each once. *)
LEMMA SetToSeqIs ==
    ASSUME NEW S, IsFiniteSet(S), NEW s, s = SetToSeq(S)
    PROVE  /\ s \in Seq(S) /\ DOMAIN s = 1..Len(s) /\ Len(s) \in Nat /\ IsInjective(s)
           /\ \A x \in S : \E n \in DOMAIN s : s[n] = x
<1> DEFINE n == Cardinality(S)
<1>1. n \in Nat /\ ExistsBijection(1..n, S)
  BY FS_CardinalityType
<1>2. PICK f : f \in [1..n -> S] /\ IsInjective(f)
  <2>1. PICK f : f \in Bijection(1..n, S)
    BY <1>1 DEF ExistsBijection
  <2>2. f \in [1..n -> S] /\ \A a, b \in 1..n : f[a] = f[b] => a = b
    BY <2>1 DEF Bijection, Injection, IsInjective
  <2> QED
    BY <2>2 DEF IsInjective
<1>3. s \in [1..n -> S] /\ IsInjective(s)
  BY <1>2 DEF SetToSeq
<1>4. s \in Surjection(1..n, S)
  <2>1. IsFiniteSet(1..n) /\ Cardinality(1..n) = n
    BY <1>1, FS_Interval
  <2>2. s \in Injection(1..n, S)
    BY <1>3 DEF Injection, IsInjective
  <2> HIDE DEF n
  <2> QED
    BY <1>1, <2>1, <2>2, FS_Injection DEF n
<1>5. \A x \in S : \E m \in 1..n : s[m] = x
  BY <1>4 DEF Surjection
<1>6. s \in Seq(S) /\ DOMAIN s = 1..n /\ Len(s) = n
  BY <1>1, <1>3
<1> QED
  BY <1>1, <1>3, <1>5, <1>6

-----------------------------------------------------------------------------
(* Requests.  A row that two requests handle at once is a crossed one, and *)
(* the steps of one part leave the requests of the other parts alone.      *)
FactoryOps == {"location", "newBom", "bom", "job"}
FileOps == {"customer", "fleet"}
CashOps == {"newHandover", "handover", "expense", "visit"}
CatalogOps == {"create", "update", "cost"}

(* No frame of these operations is started or changed. *)
Outside(ops) ==
    /\ desk' = [k \in Desks |-> desk'[k]] /\ crossed \subseteq crossed' /\ scene' = scene
    /\ \A k \in Desks : desk'[k] = desk[k] \/ desk'[k].op \notin ops

Exclusive == /\ desk = [k \in Desks |-> desk[k]] /\ scene \in Scenes
             /\ \A k, m \in Desks : k # m => desk[k].on \cap desk[m].on \subseteq crossed

Known == \A k \in Desks : \A i : Item(i) \in desk[k].on => i \in DOMAIN items

LEMMA StartsDesk ==
    ASSUME Exclusive, NEW k \in Desks, NEW frame, Starts(k, frame)
    PROVE  /\ Exclusive' /\ desk'[k] = frame /\ desk[k] = Idle
           /\ \A m \in Desks : m # k => desk'[m] = desk[m]
           /\ \A ops : frame.op \notin ops => Outside(ops)
<1>1. /\ desk' = [m \in Desks |-> IF m = k THEN frame ELSE desk[m]]
      /\ crossed' = crossed \cup UNION {frame.on \cap desk[m].on : m \in Desks}
      /\ scene' = scene /\ desk[k] = Idle
  BY DEF Exclusive, Starts
<1>2. \A m \in Desks : desk'[m] = IF m = k THEN frame ELSE desk[m]
  BY <1>1
<1>3. ASSUME NEW m \in Desks PROVE frame.on \cap desk[m].on \subseteq crossed'
  BY <1>1
<1>4. crossed \subseteq crossed' /\ desk' = [m \in Desks |-> desk'[m]]
  BY <1>1
<1>5. Exclusive'
  BY <1>1, <1>2, <1>3, <1>4 DEF Exclusive
<1> QED
  BY <1>1, <1>2, <1>4, <1>5 DEF Outside

(* What a request does that ends, breaks off, goes on with the same rows   *)
(* or with a new one.                                                      *)
LEMMA FrameDesk ==
    ASSUME Exclusive, NEW k \in Desks, NEW frame, desk' = [desk EXCEPT ![k] = frame],
           frame.on \subseteq desk[k].on \/ \A m \in Desks : m # k => frame.on \cap desk[m].on = {},
           scene' = scene, crossed \subseteq crossed'
    PROVE  /\ Exclusive' /\ desk'[k] = frame
           /\ \A m \in Desks : m # k => desk'[m] = desk[m]
           /\ \A ops : frame.op \notin ops => Outside(ops)
<1>1. desk' = [m \in Desks |-> IF m = k THEN frame ELSE desk[m]]
  BY DEF Exclusive
<1>2. \A m \in Desks : desk'[m] = IF m = k THEN frame ELSE desk[m]
  BY <1>1
<1>3. desk' = [m \in Desks |-> desk'[m]]
  BY <1>1
<1>4. Exclusive'
  BY <1>2, <1>3 DEF Exclusive
<1> QED
  BY <1>2, <1>3, <1>4 DEF Outside

LEMMA EndsDesk ==
    ASSUME Exclusive, NEW k \in Desks, \/ Ends(k) \/ BreaksOff(k) \/ \E rows : EndsTouching(k, rows)
    PROVE  /\ Exclusive' /\ desk'[k] = Idle /\ desk' = [desk EXCEPT ![k] = Idle]
           /\ \A m \in Desks : m # k => desk'[m] = desk[m]
           /\ \A ops : "none" \notin ops => Outside(ops)
<1>1. desk' = [desk EXCEPT ![k] = Idle] /\ scene' = scene /\ crossed \subseteq crossed'
  BY DEF Ends, BreaksOff, EndsTouching
<1>2. Idle.on \subseteq desk[k].on /\ Idle.op = "none"
  BY DEF Idle
<1>3. /\ Exclusive' /\ desk'[k] = Idle
      /\ \A m \in Desks : m # k => desk'[m] = desk[m]
      /\ \A ops : Idle.op \notin ops => Outside(ops)
  BY <1>1, <1>2, FrameDesk
<1> QED
  BY <1>1, <1>2, <1>3

LEMMA TouchesDesk ==
    ASSUME Exclusive, \/ \E rows : Touches(rows) \/ UNCHANGED requestVars
    PROVE  Exclusive' /\ desk' = desk /\ crossed \subseteq crossed' /\ \A ops : Outside(ops)
BY DEF Exclusive, Touches, requestVars, Outside

LEMMA TouchedCross ==
    ASSUME NEW rows, Touches(rows), NEW m \in Desks
    PROVE  rows \cap desk[m].on \subseteq crossed'
BY DEF Touches
(* A step of one part: of the requests in progress it starts, changes and  *)
(* ends only those of its own operations.                                  *)
Own(ops) ==
    /\ Exclusive' /\ crossed \subseteq crossed' /\ scene' = scene
    /\ \A k \in Desks : desk'[k] = desk[k] \/ desk'[k].op \in ops \cup {"none"}

NoItems(rows) == \A i : Item(i) \notin rows
NewRows == \A k \in Desks : desk'[k].on \subseteq desk[k].on \/ NoItems(desk'[k].on)

LEMMA StartsOwn ==
    ASSUME Exclusive, NEW k \in Desks, NEW frame, Starts(k, frame), NEW ops, frame.op \in ops
    PROVE  Own(ops) /\ (NoItems(frame.on) => NewRows)
<1>1. /\ Exclusive' /\ desk'[k] = frame
      /\ \A m \in Desks : m # k => desk'[m] = desk[m]
  BY StartsDesk
<1>2. crossed \subseteq crossed' /\ scene' = scene
  BY DEF Starts
<1> QED
  BY <1>1, <1>2 DEF Own, NewRows

LEMMA EndsOwn ==
    ASSUME Exclusive, NEW k \in Desks, \/ Ends(k) \/ BreaksOff(k) \/ \E rows : EndsTouching(k, rows)
    PROVE  NewRows /\ \A ops : Own(ops)
<1>1. /\ Exclusive' /\ desk'[k] = Idle
      /\ \A m \in Desks : m # k => desk'[m] = desk[m]
  BY EndsDesk
<1>2. crossed \subseteq crossed' /\ scene' = scene
  BY DEF Ends, BreaksOff, EndsTouching
<1>3. Idle.op = "none" /\ NoItems(Idle.on)
  BY DEF Idle, NoItems
<1> QED
  BY <1>1, <1>2, <1>3 DEF Own, NewRows

LEMMA TouchesOwn ==
    ASSUME Exclusive, \/ \E rows : Touches(rows) \/ UNCHANGED requestVars
    PROVE  NewRows /\ \A ops : Own(ops)
<1>1. Exclusive' /\ desk' = desk
  BY TouchesDesk
<1>2. crossed \subseteq crossed' /\ scene' = scene
  BY DEF Touches, requestVars
<1> QED
  BY <1>1, <1>2 DEF Own, NewRows

LEMMA FactoryOwn ==
    ASSUME Exclusive, FactoryStep
    PROVE  Own(FactoryOps) /\ NewRows
<1> USE DEF Item, NoItems
<1>1. ASSUME NEW name \in PlaceNames, CreateLocation(name) PROVE Own(FactoryOps) /\ NewRows
  BY <1>1, TouchesOwn DEF CreateLocation
<1>2. ASSUME NEW k \in Desks, NEW l, NEW put, BeginUpdateLocation(k, l, put)
      PROVE  Own(FactoryOps) /\ NewRows
  <2> DEFINE frame == [op |-> "location", on |-> {<<"place", l>>}, place |-> l, put |-> put]
  <2>1. Starts(k, frame) /\ frame.op \in FactoryOps /\ NoItems(frame.on)
    BY <1>2 DEF BeginUpdateLocation, FactoryOps
  <2> HIDE DEF frame
  <2> QED
    BY <2>1, StartsOwn
<1>3. ASSUME NEW l, NEW qty, NEW item, PostOpening(l, item, qty) \/ PostAdjustment(l, item, qty)
      PROVE  Own(FactoryOps) /\ NewRows
  BY <1>3, TouchesOwn DEF PostOpening, PostAdjustment, Post
<1>4. ASSUME NEW from, NEW to, NEW p, NEW qty, PostTransfer(from, to, p, qty)
      PROVE  Own(FactoryOps) /\ NewRows
  BY <1>4, TouchesOwn DEF PostTransfer
<1>5. ASSUME NEW k \in Desks, NEW p, NEW per, NEW active, BeginCreateBom(k, p, per, active)
      PROVE  Own(FactoryOps) /\ NewRows
  <2> DEFINE frame == [op |-> "newBom", on |-> {<<"boms", p>>}, product |-> p, per |-> per, active |-> active,
                       version |-> Max({0} \cup {boms[b].version : b \in BomsOf(p)}) + 1]
  <2>1. Starts(k, frame) /\ frame.op \in FactoryOps /\ NoItems(frame.on)
    BY <1>5 DEF BeginCreateBom, FactoryOps
  <2> HIDE DEF frame
  <2> QED
    BY <2>1, StartsOwn
<1>6. ASSUME NEW k \in Desks, NEW b, NEW put, BeginUpdateBom(k, b, put)
      PROVE  Own(FactoryOps) /\ NewRows
  <2> DEFINE frame == [op |-> "bom", on |-> {<<"boms", boms[b].product>>}, bom |-> b, put |-> put,
                       retires |-> "active" \in DOMAIN put /\ put.active /\ ~boms[b].active]
  <2>1. Starts(k, frame) /\ frame.op \in FactoryOps /\ NoItems(frame.on)
    BY <1>6 DEF BeginUpdateBom, FactoryOps
  <2> HIDE DEF frame
  <2> QED
    BY <2>1, StartsOwn
<1>7. ASSUME NEW b, NEW l, NEW qty, CreateJob(b, l, qty) PROVE Own(FactoryOps) /\ NewRows
  BY <1>7, TouchesOwn DEF CreateJob
<1>8. ASSUME NEW k \in Desks, NEW j, NEW put, NEW posts, NEW lines, Writes(k, j, put, posts, lines)
      PROVE  Own(FactoryOps) /\ NewRows
  <2> DEFINE frame == [op |-> "job", on |-> {Job(j)}, job |-> j, put |-> put, posts |-> posts, lines |-> lines]
  <2>1. Starts(k, frame) /\ frame.op \in FactoryOps /\ NoItems(frame.on)
    BY <1>8 DEF Writes, FactoryOps, Job
  <2> HIDE DEF frame
  <2> QED
    BY <2>1, StartsOwn
<1>9. ASSUME NEW k \in Desks, NEW j, NEW b, NEW l, NEW qty, BeginUpdateJob(k, j, b, l, qty)
      PROVE  Own(FactoryOps) /\ NewRows
  BY <1>8, <1>9 DEF BeginUpdateJob
<1>10. ASSUME NEW k \in Desks, NEW j, BeginPlan(k, j) \/ BeginStart(k, j) \/ BeginCancel(k, j)
      PROVE  Own(FactoryOps) /\ NewRows
  BY <1>8, <1>10 DEF BeginPlan, BeginStart, BeginCancel
<1>11. ASSUME NEW k \in Desks, NEW j, NEW qty, BeginComplete(k, j, qty) PROVE Own(FactoryOps) /\ NewRows
  BY <1>8, <1>11 DEF BeginComplete
<1>12. ASSUME NEW k \in Desks,
              CommitUpdateLocation(k) \/ CommitCreateBom(k) \/ CommitUpdateBom(k) \/ CommitJob(k)
      PROVE  Own(FactoryOps) /\ NewRows
  BY <1>12, EndsOwn DEF CommitUpdateLocation, CommitCreateBom, CommitUpdateBom, CommitJob
<1> QED
  BY <1>1, <1>2, <1>3, <1>4, <1>5, <1>6, <1>7, <1>9, <1>10, <1>11, <1>12 DEF FactoryStep

LEMMA FileOwn ==
    ASSUME Exclusive, FileStep
    PROVE  Own(FileOps) /\ NewRows
<1> USE DEF Item, NoItems
<1>1. ASSUME NEW c, NEW opening, NEW holds, NEW status, CreateCustomer(c, opening, holds, status)
      PROVE  Own(FileOps) /\ NewRows
  BY <1>1, TouchesOwn DEF CreateCustomer
<1>2. ASSUME NEW k \in Desks, NEW c, NEW put, BeginUpdateCustomer(k, c, put)
      PROVE  Own(FileOps) /\ NewRows
  <2> DEFINE frame == [op |-> "customer", on |-> {Customer(c)}, who |-> c, put |-> put, seen |-> FirstOpening(c)]
  <2>1. Starts(k, frame) /\ frame.op \in FileOps /\ NoItems(frame.on)
    BY <1>2 DEF BeginUpdateCustomer, FileOps, Customer
  <2> HIDE DEF frame
  <2> QED
    BY <2>1, StartsOwn
<1>3. ASSUME NEW k \in Desks, NEW c, BeginDeactivate(k, c)
      PROVE  Own(FileOps) /\ NewRows
  <2> DEFINE frame == [op |-> "customer", on |-> {Customer(c)}, who |-> c,
                       put |-> [status |-> "INACTIVE"], seen |-> NoEntry]
  <2>1. Starts(k, frame) /\ frame.op \in FileOps /\ NoItems(frame.on)
    BY <1>3 DEF BeginDeactivate, FileOps, Customer
  <2> HIDE DEF frame
  <2> QED
    BY <2>1, StartsOwn
<1>4. ASSUME NEW k \in Desks, NEW qty, BeginSetOpening(k, qty)
      PROVE  Own(FileOps) /\ NewRows
  <2> DEFINE frame == [op |-> "fleet", on |-> {<<"fleet", "opening">>}, qty |-> qty]
  <2>1. Starts(k, frame) /\ frame.op \in FileOps /\ NoItems(frame.on)
    BY <1>4 DEF BeginSetOpening, FileOps
  <2> HIDE DEF frame
  <2> QED
    BY <2>1, StartsOwn
<1>5. ASSUME NEW c, NEW delta, AdjustContainers(c, delta) PROVE Own(FileOps) /\ NewRows
  BY <1>5, TouchesOwn DEF AdjustContainers
<1>6. ASSUME NEW c, NEW s, HandOver(c, s) PROVE Own(FileOps) /\ NewRows
  BY <1>6, TouchesOwn DEF HandOver
<1>7. ASSUME NEW t, NEW c, NEW s, Deliver(t, c, s) PROVE Own(FileOps) /\ NewRows
  BY <1>7, TouchesOwn DEF Deliver
<1>8. ASSUME NEW type, NEW delta, AdjustOwned(type, delta) PROVE Own(FileOps) /\ NewRows
  BY <1>8, TouchesOwn DEF AdjustOwned
<1>9. ASSUME NEW k \in Desks, CommitUpdateCustomer(k) \/ CommitSetOpening(k)
      PROVE  Own(FileOps) /\ NewRows
  BY <1>9, EndsOwn DEF CommitUpdateCustomer, CommitSetOpening
<1>10. ASSUME NEW r, NEW filled, NEW empty, OpenTrip(r, filled, empty) PROVE Own(FileOps) /\ NewRows
  BY <1>10, TouchesOwn DEF OpenTrip
<1>11. ASSUME NEW t, NEW filled, NEW empty, ReloadTrip(t, filled, empty) PROVE Own(FileOps) /\ NewRows
  BY <1>11, TouchesOwn DEF ReloadTrip
<1>12. ASSUME NEW d, CancelDrop(d) PROVE Own(FileOps) /\ NewRows
  BY <1>12, TouchesOwn DEF CancelDrop
<1>13. ASSUME NEW t, NEW counted, CloseTrip(t, counted) PROVE Own(FileOps) /\ NewRows
  BY <1>13, TouchesOwn DEF CloseTrip
<1> QED
  BY <1>1, <1>2, <1>3, <1>4, <1>5, <1>6, <1>7, <1>8, <1>9, <1>10, <1>11, <1>12, <1>13 DEF FileStep

LEMMA CashOwn ==
    ASSUME Exclusive, CashStep
    PROVE  Own(CashOps) /\ NewRows
<1> USE DEF Item, NoItems, Rider, Customer, Handover, Expense
<1>1. ASSUME NEW k \in Desks, NEW r, NEW amount, NEW day, BeginCreateHandover(k, r, amount, day)
      PROVE  Own(CashOps) /\ NewRows
  <2> DEFINE frame == [op |-> "newHandover", on |-> {Rider(r)},
                       row |-> [rider |-> r, amount |-> amount, day |-> day, live |-> TRUE]]
  <2>1. Starts(k, frame) /\ frame.op \in CashOps /\ NoItems(frame.on)
    BY <1>1 DEF BeginCreateHandover, CashOps
  <2> HIDE DEF frame
  <2> QED
    BY <2>1, StartsOwn
<1>2. ASSUME NEW k \in Desks, NEW c, NEW r, NEW outcome, NEW amount, NEW day,
             BeginVisit(k, c, r, outcome, amount, day)
      PROVE  Own(CashOps) /\ NewRows
  <2> DEFINE frame == [op |-> "visit", on |-> {Customer(c)}, at |-> "pay",
                       row |-> [who |-> c, collector |-> r, outcome |-> outcome,
                                amount |-> amount, receipt |-> 0, day |-> day]]
  <2>1. Starts(k, frame) /\ frame.op \in CashOps /\ NoItems(frame.on)
    BY <1>2 DEF BeginVisit, CashOps
  <2> HIDE DEF frame
  <2> QED
    BY <2>1, StartsOwn
<1>3. ASSUME NEW k \in Desks, NEW h, NEW put, BeginUpdateHandover(k, h, put)
      PROVE  Own(CashOps) /\ NewRows
  <2> DEFINE old == handovers[h]
             new == Patched(old, put)
             frame == [op |-> "handover", on |-> {Handover(h), Rider(old.rider), Rider(new.rider)},
                       id |-> h, put |-> put, rider |-> new.rider]
  <2>1. Starts(k, frame) /\ frame.op \in CashOps /\ NoItems(frame.on)
    BY <1>3 DEF BeginUpdateHandover, CashOps
  <2> HIDE DEF frame
  <2> QED
    BY <2>1, StartsOwn
<1>4. ASSUME NEW k \in Desks, NEW x, NEW put, BeginUpdateExpense(k, x, put)
      PROVE  Own(CashOps) /\ NewRows
  <2> DEFINE frame == [op |-> "expense", id |-> x, put |-> put,
                       on |-> {Expense(x), Rider(expenses[x].staff), Rider(Patched(expenses[x], put).staff)}]
  <2>1. Starts(k, frame) /\ frame.op \in CashOps /\ NoItems(frame.on)
    BY <1>4 DEF BeginUpdateExpense, CashOps
  <2> HIDE DEF frame
  <2> QED
    BY <2>1, StartsOwn
<1>5. ASSUME NEW staff, NEW byRider, NEW amount, NEW day, CreateExpense(staff, byRider, amount, day)
      PROVE  Own(CashOps) /\ NewRows
  BY <1>5, TouchesOwn DEF CreateExpense
<1>6. ASSUME NEW k \in Desks, CommitCreateHandover(k) \/ CommitUpdateHandover(k) \/ VisitRecords(k)
      PROVE  Own(CashOps) /\ NewRows
  BY <1>6, EndsOwn DEF CommitCreateHandover, CommitUpdateHandover, VisitRecords
<1>7. ASSUME NEW k \in Desks, CommitUpdateExpense(k)
      PROVE  Own(CashOps) /\ NewRows
  <2>1. EndsTouching(k, {Rider(expenses[desk[k].id].staff)})
    BY <1>7 DEF CommitUpdateExpense
  <2> QED
    BY <2>1, EndsOwn
<1>8. ASSUME NEW k \in Desks, VisitPays(k) \/ VisitPromises(k)
      PROVE  Own(CashOps) /\ NewRows
  <2>1. PICK frame : /\ desk' = [desk EXCEPT ![k] = frame] /\ frame.op = "visit" /\ frame.on = desk[k].on
                     /\ desk[k].op = "visit"
    <3>1. CASE VisitPromises(k)
      <4> DEFINE frame == [desk[k] EXCEPT !.at = "record"]
      <4>1. desk' = [desk EXCEPT ![k] = frame] /\ desk[k].op = "visit"
        BY <3>1 DEF VisitPromises, Holds
      <4>2. frame.op = desk[k].op /\ frame.on = desk[k].on
        OBVIOUS
      <4> QED
        BY <4>1, <4>2
    <3>2. CASE VisitPays(k)
      <4> DEFINE paid == IF desk[k].row.amount > 0 THEN Len(receipts) + 1 ELSE 0
                 frame == [desk[k] EXCEPT !.at = "promise", !.row.receipt = paid]
      <4>1. desk' = [desk EXCEPT ![k] = frame] /\ desk[k].op = "visit"
        BY <3>2 DEF VisitPays, Holds
      <4>2. frame.op = desk[k].op /\ frame.on = desk[k].on
        OBVIOUS
      <4> QED
        BY <4>1, <4>2
    <3> QED
      BY <1>8, <3>1, <3>2
  <2>2. scene' = scene /\ crossed' = crossed
    BY <1>8 DEF VisitPays, VisitPromises
  <2>3. /\ Exclusive' /\ desk'[k] = frame
        /\ \A m \in Desks : m # k => desk'[m] = desk[m]
    BY <2>1, <2>2, FrameDesk
  <2> QED
    BY <2>1, <2>2, <2>3 DEF Own, NewRows, CashOps
<1>9. ASSUME NEW h, RemoveHandover(h) PROVE Own(CashOps) /\ NewRows
  BY <1>9, TouchesOwn DEF RemoveHandover
<1>10. ASSUME NEW x, RemoveExpense(x) PROVE Own(CashOps) /\ NewRows
  BY <1>10, TouchesOwn DEF RemoveExpense
<1>11. ASSUME NEW p, RemovePayment(p) PROVE Own(CashOps) /\ NewRows
  BY <1>11, TouchesOwn DEF RemovePayment
<1> QED
  BY <1>1, <1>2, <1>3, <1>4, <1>5, <1>6, <1>7, <1>8, <1>9, <1>10, <1>11 DEF CashStep

-----------------------------------------------------------------------------
(* The catalog's tables and requests are what they should be.              *)
Names == ItemNames \cup {Mangled[i] : i \in DOMAIN Mangled}
ItemRow == [kind : Kinds, name : Names, active : BOOLEAN, gone : BOOLEAN, default : Nat]
CostRow == [item : Nat, cost : Nat, from : Nat, at : Nat]

CreateFrame(f) ==
    /\ Does("catalog") /\ f.kind \in Kinds /\ f.name \in ItemNames /\ f.cost \in Nat
    /\ f.kind \in {"product", "raw"} \/ f.cost = 0
    /\ f.on = {Named(f.kind, f.name)}
CostFrame(f) == f.id \in DOMAIN items /\ f.cost \in Nat /\ f.on = {Item(f.id)}
UpdateFrame(f) ==
    /\ Does("catalog") /\ f.id \in DOMAIN items /\ f.cost \in Nat /\ f.put \in scene.edits
    /\ Item(f.id) \in f.on /\ \A i : Item(i) \in f.on => i = f.id

CatalogFrame(f) ==
    /\ f.op = "create" => CreateFrame(f)
    /\ f.op = "cost" => CostFrame(f)
    /\ f.op = "update" => UpdateFrame(f)

CatalogTyped ==
    /\ items \in Seq(ItemRow) /\ DOMAIN items \subseteq DOMAIN Mangled
    /\ costs \in Seq(CostRow) /\ today \in Nat
    /\ \A k \in Desks : CatalogFrame(desk[k])

(* The inputs of a scene of the catalog. *)
LEMMA CatalogInputs ==
    ASSUME scene \in Scenes
    PROVE  /\ scene.kinds \subseteq Kinds /\ scene.names \subseteq ItemNames /\ scene.prices \subseteq Nat
           /\ \A put \in scene.edits : Gives(put, Columns(scene))
           /\ Does("catalog") => scene.rows \in Nat /\ 1..scene.rows \subseteq DOMAIN Mangled
           /\ \A i \in DOMAIN Mangled : Mangled[i] \in Names /\ Mangled[i] \notin ItemNames
           /\ \A i, j \in DOMAIN Mangled : i # j => Mangled[i] # Mangled[j]
<1>1. Inputs(scene) /\ MangledAssumption
  BY OfficeAssumption
<1>2. /\ scene.kinds \subseteq Kinds /\ scene.names \subseteq ItemNames /\ scene.prices \subseteq Nat
      /\ \A put \in scene.edits : Gives(put, Columns(scene))
  BY <1>1 DEF Inputs
<1>3. ASSUME Does("catalog") PROVE scene.rows \in Nat /\ 1..scene.rows \subseteq DOMAIN Mangled
  <2>1. scene.rows \in Nat /\ scene.rows <= Len(Mangled)
    BY <1>1, <1>3 DEF Inputs, Does
  <2>2. Mangled \in Seq(STRING) /\ Len(Mangled) \in Nat /\ DOMAIN Mangled = 1..Len(Mangled)
    BY <1>1 DEF MangledAssumption
  <2> QED
    BY <2>1, <2>2
<1>4. /\ \A i \in DOMAIN Mangled : Mangled[i] \in Names /\ Mangled[i] \notin ItemNames
      /\ \A i, j \in DOMAIN Mangled : i # j => Mangled[i] # Mangled[j]
  BY <1>1 DEF MangledAssumption, Names
<1> QED
  BY <1>2, <1>3, <1>4

(* An update changes the name, the activity and the default of an item. *)
LEMMA PatchedItem ==
    ASSUME NEW row \in ItemRow, NEW put, Does("catalog"), Gives(put, Columns(scene))
    PROVE  /\ Patched(row, put) \in ItemRow
           /\ Patched(row, put).kind = row.kind /\ Patched(row, put).gone = row.gone
           /\ Patched(row, put).name = IF "name" \in DOMAIN put THEN put.name ELSE row.name
           /\ Patched(row, put).default = IF "default" \in DOMAIN put THEN put.default ELSE row.default
           /\ "name" \in DOMAIN put => put.name \in ItemNames
           /\ "default" \in DOMAIN put => put.default \in Nat
<1>1. \A x \in DOMAIN put :
          /\ x \in {"name", "active", "rider", "amount", "day", "byRider", "staff", "default"}
          /\ x = "name" => put[x] \in ItemNames
          /\ x = "active" => put[x] \in BOOLEAN
          /\ x = "default" => put[x] \in Nat
  BY DEF Gives, Columns, Does
<1>2. DOMAIN row = {"kind", "name", "active", "gone", "default"}
  BY DEF ItemRow
<1>3. /\ row.kind \in Kinds /\ row.name \in Names /\ row.active \in BOOLEAN
      /\ row.gone \in BOOLEAN /\ row.default \in Nat
  BY DEF ItemRow
<1> DEFINE new == Patched(row, put)
<1>4. /\ new.kind = row.kind /\ new.gone = row.gone
      /\ new.name = IF "name" \in DOMAIN put THEN put.name ELSE row.name
      /\ new.default = IF "default" \in DOMAIN put THEN put.default ELSE row.default
      /\ new.active = IF "active" \in DOMAIN put THEN put.active ELSE row.active
  BY <1>1, <1>2 DEF Patched
<1>5. new = [column \in {"kind", "name", "active", "gone", "default"} |-> new[column]]
  BY <1>2 DEF Patched
<1>6. ItemNames \subseteq Names
  BY DEF Names
<1>7. /\ new.kind \in Kinds /\ new.name \in Names /\ new.active \in BOOLEAN
      /\ new.gone \in BOOLEAN /\ new.default \in Nat
  BY <1>1, <1>3, <1>4, <1>6
<1>8. new \in ItemRow
  <2> HIDE DEF new
  <2> QED
    BY <1>5, <1>7 DEF ItemRow
<1> QED
  BY <1>1, <1>4, <1>8

(* The cost of the latest row is the cost of some row, or 0. *)
LEMMA LatestIs ==
    ASSUME NEW table \in Seq(CostRow), NEW i, NEW asOf \in Nat
    PROVE  /\ LatestCost(table, i, asOf) \in Nat
           /\ (\E h \in DOMAIN table : table[h].item = i /\ table[h].from <= asOf)
              => \E h \in DOMAIN table :
                    /\ table[h].item = i /\ table[h].from <= asOf
                    /\ LatestCost(table, i, asOf) = table[h].cost
                    /\ \A g \in DOMAIN table : table[g].item = i /\ table[g].from <= asOf =>
                          table[g].from < table[h].from \/ (table[g].from = table[h].from /\ g <= h)
<1> DEFINE rows == {h \in DOMAIN table : table[h].item = i /\ table[h].from <= asOf}
           days == {table[h].from : h \in rows}
           last == Max(days)
           best == {h \in rows : table[h].from = last}
<1>1. /\ DOMAIN table \in SUBSET Nat /\ IsFiniteSet(DOMAIN table)
      /\ \A h \in DOMAIN table : table[h] \in CostRow
  BY SeqDomain
<1>2. \A h \in DOMAIN table : table[h].from \in Nat /\ table[h].cost \in Nat
  BY <1>1 DEF CostRow
<1>3. CASE rows = {}
  BY <1>3 DEF LatestCost
<1>4. CASE rows # {}
  <2>1. days \in SUBSET Int /\ days # {} /\ days \subseteq 0..asOf
    BY <1>2, <1>4
  <2>2. IsFiniteSet(days)
    <3>1. IsFiniteSet(0..asOf)
      BY FS_Interval
    <3> HIDE DEF days
    <3> QED
      BY <2>1, <3>1, FS_Subset
  <2>3. last \in days /\ \A d \in days : d <= last
    <3> HIDE DEF days
    <3> QED
      BY <2>1, <2>2, MaxIs
  <2>4. best \in SUBSET Int /\ best # {} /\ IsFiniteSet(best)
    <3> HIDE DEF last
    <3>1. best # {}
      BY <2>3
    <3>2. best \in SUBSET (DOMAIN table)
      OBVIOUS
    <3> QED
      BY <1>1, <3>1, <3>2, FS_Subset
  <2>5. PICK h \in best : h = Max(best) /\ \A g \in best : g <= h
    <3> HIDE DEF best
    <3> QED
      BY <2>4, MaxIs
  <2>6. LatestCost(table, i, asOf) = table[h].cost
    BY <1>4, <2>5 DEF LatestCost
  <2>7. \A g \in rows : table[g].from < table[h].from \/ (table[g].from = table[h].from /\ g <= h)
    <3> SUFFICES ASSUME NEW g \in rows
                 PROVE  table[g].from < table[h].from \/ (table[g].from = table[h].from /\ g <= h)
      OBVIOUS
    <3>1. table[h].from = last /\ last \in Nat
      BY <1>2, <2>5
    <3>2. table[g].from <= last /\ table[g].from \in Nat
      BY <1>2, <2>3
    <3>3. table[g].from = last => g \in best
      OBVIOUS
    <3> HIDE DEF best, last
    <3> QED
      BY <2>5, <3>1, <3>2, <3>3
  <2> QED
    BY <1>2, <2>5, <2>6, <2>7
<1> QED
  BY <1>3, <1>4

(* The rows that requests and operations handle are known, no two requests *)
(* share an uncrossed one, and the catalog's tables are what they should be.*)
Orderly == Exclusive /\ Known /\ CatalogTyped

LEMMA FrameLasts ==
    ASSUME scene' = scene, DOMAIN items \subseteq DOMAIN items', NEW m \in Desks,
           desk'[m] = desk[m] \/ desk'[m].op \notin CatalogOps, CatalogFrame(desk[m])
    PROVE  CatalogFrame(desk[m])'
<1>1. CASE desk'[m].op \notin CatalogOps
  BY <1>1 DEF CatalogFrame, CatalogOps
<1>2. CASE desk'[m] = desk[m]
  <2>1. CreateFrame(desk[m]) => CreateFrame(desk[m])'
    BY <1>2 DEF CreateFrame, Does, Named
  <2>2. CostFrame(desk[m]) => CostFrame(desk[m])'
    BY <1>2 DEF CostFrame, Item
  <2>3. UpdateFrame(desk[m]) => UpdateFrame(desk[m])'
    BY <1>2 DEF UpdateFrame, Does, Item
  <2> QED
    BY <1>2, <2>1, <2>2, <2>3 DEF CatalogFrame
<1> QED
  BY <1>1, <1>2

LEMMA KnownLasts ==
    ASSUME Known, NewRows, DOMAIN items \subseteq DOMAIN items'
    PROVE  Known'
BY DEF Known, NewRows, NoItems

(* What the other parts do leaves the catalog in order. *)
LEMMA OthersOrderly ==
    ASSUME Orderly, NEW ops, Own(ops), NewRows, ops \cap CatalogOps = {}, UNCHANGED catalogVars
    PROVE  Orderly'
<1>1. items' = items /\ costs' = costs /\ today' = today /\ scene' = scene /\ Exclusive'
  BY DEF catalogVars, Own
<1>2. Known'
  BY <1>1, KnownLasts DEF Orderly
<1>3. \A m \in Desks : CatalogFrame(desk[m])'
  <2>1. ASSUME NEW m \in Desks PROVE CatalogFrame(desk[m])'
    <3>1. desk'[m] = desk[m] \/ desk'[m].op \notin CatalogOps
      BY DEF Own, CatalogOps
    <3>2. CatalogFrame(desk[m])
      BY DEF Orderly, CatalogTyped
    <3> QED
      BY <1>1, <3>1, <3>2, FrameLasts
  <2> QED
    BY <2>1
<1> QED
  BY <1>1, <1>2, <1>3 DEF Orderly, CatalogTyped

(* A request or a write of the catalog: the tables keep their types and    *)
(* the request its frame.                                                  *)
LEMMA CatalogWrites ==
    ASSUME Orderly, NEW ops, Own(ops), items' \in Seq(ItemRow), DOMAIN items \subseteq DOMAIN items',
           DOMAIN items' \subseteq DOMAIN Mangled, costs' \in Seq(CostRow), today' \in Nat,
           \A m \in Desks : \/ desk'[m] = desk[m] \/ desk'[m] = Idle
                            \/ CatalogFrame(desk[m])' /\ \A i : Item(i) \in desk'[m].on => i \in DOMAIN items'
    PROVE  Orderly'
<1>1. scene' = scene /\ Exclusive'
  BY DEF Own
<1>2. \A m \in Desks : desk'[m] = Idle => desk'[m].op \notin CatalogOps /\ desk'[m].on = {}
  BY DEF Idle, CatalogOps
<1>3. ASSUME NEW m \in Desks PROVE CatalogFrame(desk[m])'
  <2>1. CatalogFrame(desk[m])
    BY DEF Orderly, CatalogTyped
  <2> QED
    BY <1>1, <1>2, <2>1, FrameLasts
<1>4. Known'
  BY <1>2 DEF Known, Orderly
<1> QED
  BY <1>1, <1>3, <1>4 DEF Orderly, CatalogTyped

(* What the rows of the catalog become. *)
LEMMA NewRow ==
    ASSUME Orderly, NEW kind \in Kinds, NEW name \in ItemNames, NEW default \in Nat,
           Does("catalog"), Len(items) < scene.rows
    PROVE  LET new == Append(items, NewItem(kind, name, default)) IN
               /\ new \in Seq(ItemRow) /\ DOMAIN new \subseteq DOMAIN Mangled
               /\ Len(items) \in Nat /\ Len(items) + 1 \notin DOMAIN items
               /\ DOMAIN new = DOMAIN items \cup {Len(items) + 1}
               /\ new[Len(items) + 1] = NewItem(kind, name, default)
               /\ \A n \in DOMAIN items : new[n] = items[n]
<1> DEFINE row == NewItem(kind, name, default)
           new == Append(items, row)
<1>1. row \in ItemRow
  BY DEF NewItem, ItemRow, Names
<1>2. items \in Seq(ItemRow) /\ scene \in Scenes
  BY DEF Orderly, CatalogTyped, Exclusive
<1>3. /\ new \in Seq(ItemRow) /\ DOMAIN items = 1..Len(items)
      /\ Len(items) \in Nat /\ Len(items) + 1 \notin DOMAIN items
      /\ DOMAIN new = DOMAIN items \cup {Len(items) + 1}
      /\ new[Len(items) + 1] = row /\ \A n \in DOMAIN items : new[n] = items[n]
  <2> HIDE DEF row
  <2> QED
    BY <1>1, <1>2, Appended
<1>4. DOMAIN new \subseteq DOMAIN Mangled
  <2>1. scene.rows \in Nat /\ 1..scene.rows \subseteq DOMAIN Mangled
    BY <1>2, CatalogInputs
  <2>2. DOMAIN new \subseteq 1..scene.rows
    <3> HIDE DEF new
    <3> QED
      BY <1>3, <2>1
  <2> QED
    BY <2>1, <2>2
<1> QED
  BY <1>3, <1>4

LEMMA NewCost ==
    ASSUME Orderly, NEW i \in DOMAIN items, NEW cost \in Nat, NEW from \in Nat
    PROVE  LET new == Append(costs, Cost(i, cost, from)) IN
               /\ new \in Seq(CostRow)
               /\ Len(costs) \in Nat /\ Len(costs) + 1 \notin DOMAIN costs
               /\ DOMAIN new = DOMAIN costs \cup {Len(costs) + 1} /\ DOMAIN costs = 1..Len(costs)
               /\ new[Len(costs) + 1] = Cost(i, cost, from)
               /\ \A n \in DOMAIN costs : new[n] = costs[n]
<1>1. i \in Nat
  BY SeqDomain DEF Orderly, CatalogTyped
<1>2. Cost(i, cost, from) \in CostRow /\ costs \in Seq(CostRow)
  BY <1>1 DEF Cost, CostRow, Orderly, CatalogTyped
<1> QED
  BY <1>2, Appended

LEMMA CatalogOrderly ==
    ASSUME Orderly, CatalogStep
    PROVE  Orderly' /\ Own(CatalogOps)
<1>0. /\ items \in Seq(ItemRow) /\ DOMAIN items \subseteq DOMAIN Mangled /\ costs \in Seq(CostRow)
      /\ today \in Nat /\ scene \in Scenes /\ Exclusive
      /\ \A k \in Desks : CatalogFrame(desk[k])
      /\ \A i \in DOMAIN items : items[i] \in ItemRow
  BY SeqDomain DEF Orderly, CatalogTyped, Exclusive
<1>00. /\ scene.kinds \subseteq Kinds /\ scene.names \subseteq ItemNames /\ scene.prices \subseteq Nat
       /\ \A put \in scene.edits : Gives(put, Columns(scene))
  BY <1>0, CatalogInputs
<1>1. ASSUME NEW k \in Desks, NEW kind \in scene.kinds, NEW name \in scene.names,
             NEW cost \in scene.prices \cup {0}, BeginCreate(k, kind, name, cost)
      PROVE  Orderly' /\ Own(CatalogOps)
  <2> DEFINE frame == [op |-> "create", on |-> {Named(kind, name)}, kind |-> kind, name |-> name, cost |-> cost]
  <2>1. /\ Starts(k, frame) /\ items' = items /\ costs' = costs /\ today' = today /\ Does("catalog")
        /\ kind \in {"product", "raw"} \/ cost = 0
    BY <1>1 DEF BeginCreate, catalogVars
  <2>2. kind \in Kinds /\ name \in ItemNames /\ cost \in Nat
    BY <1>00
  <2>3. frame.op \in CatalogOps /\ Does("catalog")'
    BY <2>1 DEF CatalogOps, Does, Starts
  <2>4. /\ desk'[k] = frame /\ \A m \in Desks : m # k => desk'[m] = desk[m]
        /\ Own(CatalogOps)
    <3> HIDE DEF frame
    <3> QED
      BY <1>0, <2>1, <2>3, StartsDesk, StartsOwn
  <2>5. CatalogFrame(desk[k])'
    BY <2>1, <2>2, <2>3, <2>4 DEF CatalogFrame, CreateFrame, Named
  <2>6. \A i : Item(i) \notin frame.on
    <3>1. kind # "item"
      BY <2>2, OfficeAssumption
    <3> QED
      BY <3>1 DEF Item, Named
  <2> HIDE DEF frame
  <2> QED
    BY <1>0, <2>1, <2>4, <2>5, <2>6, CatalogWrites
<1>2. ASSUME NEW k \in Desks, NEW i \in DOMAIN items, NEW put \in scene.edits, BeginUpdate(k, i, put)
      PROVE  Orderly' /\ Own(CatalogOps)
  <2> DEFINE new == Patched(items[i], put)
             frame == [op |-> "update", id |-> i, put |-> put,
                       cost |-> IF new.default = items[i].default THEN 0 ELSE new.default,
                       on |-> {Item(i), Named(new.kind, new.name)}]
  <2>1. Starts(k, frame) /\ items' = items /\ costs' = costs /\ today' = today /\ Does("catalog")
    BY <1>2 DEF BeginUpdate, catalogVars
  <2>2. new \in ItemRow /\ new.default \in Nat /\ new.kind \in Kinds
    <3>1. new \in ItemRow
      BY <1>0, <1>00, <2>1, PatchedItem
    <3> QED
      BY <3>1 DEF ItemRow
  <2>3. frame.op \in CatalogOps /\ Does("catalog")' /\ scene' = scene
    BY <2>1 DEF CatalogOps, Does, Starts
  <2>4. /\ desk'[k] = frame /\ \A m \in Desks : m # k => desk'[m] = desk[m]
        /\ Own(CatalogOps)
    <3> HIDE DEF frame
    <3> QED
      BY <1>0, <2>1, <2>3, StartsDesk, StartsOwn
  <2>5. Item(i) \in frame.on /\ \A n : Item(n) \in frame.on => n = i
    <3>1. new.kind # "item"
      BY <2>2, OfficeAssumption
    <3> HIDE DEF new
    <3> QED
      BY <3>1 DEF Item, Named
  <2>6. frame.op = "update" /\ frame.id = i /\ frame.put = put /\ frame.cost \in Nat
    BY <2>2
  <2>7. CatalogFrame(desk[k])'
    <3> HIDE DEF frame, new
    <3> QED
      BY <2>1, <2>3, <2>4, <2>5, <2>6 DEF CatalogFrame, UpdateFrame, Item
  <2> HIDE DEF frame
  <2> QED
    BY <1>0, <2>1, <2>4, <2>5, <2>7, CatalogWrites
<1>3. ASSUME NEW k \in Desks, CommitCreate(k)
      PROVE  Orderly' /\ Own(CatalogOps)
  <2> DEFINE f == desk[k]
             n == Len(items) + 1
             frame == [op |-> "cost", on |-> {Item(n)}, id |-> n, cost |-> f.cost]
  <2>1. /\ CreateFrame(f) /\ f.op = "create" /\ Len(items) < scene.rows
        /\ costs' = costs /\ today' = today
    BY <1>0, <1>3 DEF CommitCreate, Holds, CatalogFrame
  <2>2. f.kind \in Kinds /\ f.name \in ItemNames /\ f.cost \in Nat /\ Does("catalog")
    BY <2>1 DEF CreateFrame
  <2> DEFINE default == IF f.kind = "raw" THEN f.cost ELSE 0
             new == Append(items, NewItem(f.kind, f.name, default))
  <2>3. default \in Nat
    BY <2>2
  <2>4. /\ new \in Seq(ItemRow) /\ DOMAIN new \subseteq DOMAIN Mangled
        /\ n \notin DOMAIN items /\ DOMAIN new = DOMAIN items \cup {n}
    <3> HIDE DEF default
    <3> QED
      BY <2>1, <2>2, <2>3, NewRow
  <2>5. CASE Ends(k) /\ items' \in {items, new}
    <3>1. Own(CatalogOps) /\ desk'[k] = Idle /\ \A m \in Desks : m # k => desk'[m] = desk[m]
      BY <1>0, <2>5, EndsOwn, EndsDesk
    <3>2. items' \in Seq(ItemRow) /\ DOMAIN items \subseteq DOMAIN items' /\ DOMAIN items' \subseteq DOMAIN Mangled
      <4> HIDE DEF new
      <4> QED
        BY <1>0, <2>4, <2>5
    <3> QED
      BY <1>0, <2>1, <3>1, <3>2, CatalogWrites
  <2>6. CASE /\ items' = new /\ desk' = [desk EXCEPT ![k] = frame]
             /\ scene' = scene /\ crossed' = crossed
    <3>1. \A m \in Desks : frame.on \cap desk[m].on = {}
      BY <2>4 DEF Orderly, Known
    <3>2. /\ Exclusive' /\ desk'[k] = frame
          /\ \A m \in Desks : m # k => desk'[m] = desk[m]
      <4> HIDE DEF frame
      <4> QED
        BY <1>0, <2>6, <3>1, FrameDesk
    <3>3. Own(CatalogOps)
      BY <2>6, <3>2 DEF Own, CatalogOps
    <3>4. n \in DOMAIN items' /\ items' \in Seq(ItemRow) /\ DOMAIN items \subseteq DOMAIN items'
          /\ DOMAIN items' \subseteq DOMAIN Mangled
      <4> HIDE DEF new
      <4> QED
        BY <2>4, <2>6
    <3>5. CatalogFrame(desk[k])'
      <4> HIDE DEF new
      <4> QED
        BY <2>2, <3>2, <3>4 DEF CatalogFrame, CostFrame, Item
    <3>6. \A i : Item(i) \in desk'[k].on => i \in DOMAIN items'
      BY <3>2, <3>4 DEF Item
    <3> HIDE DEF new, frame
    <3> QED
      BY <1>0, <2>1, <3>2, <3>3, <3>4, <3>5, <3>6, CatalogWrites
  <2>7. \/ Ends(k) /\ items' \in {items, new}
        \/ items' = new /\ desk' = [desk EXCEPT ![k] = frame] /\ scene' = scene /\ crossed' = crossed
    BY <1>3 DEF CommitCreate
  <2> QED
    BY <2>5, <2>6, <2>7
<1>4. ASSUME NEW k \in Desks, FirstCost(k)
      PROVE  Orderly' /\ Own(CatalogOps)
  <2>1. /\ CostFrame(desk[k]) /\ Ends(k) /\ items' = items /\ today' = today
        /\ costs' = Append(costs, Cost(desk[k].id, desk[k].cost, today))
    BY <1>0, <1>4 DEF FirstCost, Holds, CatalogFrame
  <2>2. costs' \in Seq(CostRow)
    BY <1>0, <2>1, NewCost DEF CostFrame
  <2>3. Own(CatalogOps) /\ desk'[k] = Idle /\ \A m \in Desks : m # k => desk'[m] = desk[m]
    BY <1>0, <2>1, EndsOwn, EndsDesk
  <2> QED
    BY <1>0, <2>1, <2>2, <2>3, CatalogWrites
<1>5. ASSUME NEW k \in Desks, CommitUpdate(k)
      PROVE  Orderly' /\ Own(CatalogOps)
  <2> DEFINE f == desk[k]
             new == Patched(items[f.id], f.put)
  <2>1. UpdateFrame(f) /\ Ends(k) /\ today' = today
    BY <1>0, <1>5 DEF CommitUpdate, Holds, CatalogFrame
  <2>2. f.id \in DOMAIN items /\ f.cost \in Nat /\ Does("catalog") /\ f.put \in scene.edits
    BY <2>1 DEF UpdateFrame
  <2>3. new \in ItemRow
    BY <1>0, <1>00, <2>2, PatchedItem
  <2>4. /\ items' \in {items, [items EXCEPT ![f.id] = new]}
        /\ costs' \in {costs, Append(costs, Cost(f.id, f.cost, today))}
    BY <1>5 DEF CommitUpdate
  <2>5. items' \in Seq(ItemRow) /\ DOMAIN items' = DOMAIN items
    <3> HIDE DEF new, f
    <3> QED
      BY <1>0, <2>2, <2>3, <2>4, PutRow
  <2>6. costs' \in Seq(CostRow)
    <3>1. Append(costs, Cost(f.id, f.cost, today)) \in Seq(CostRow)
      BY <1>0, <2>2, NewCost
    <3> QED
      BY <1>0, <2>4, <3>1
  <2>7. Own(CatalogOps) /\ desk'[k] = Idle /\ \A m \in Desks : m # k => desk'[m] = desk[m]
    BY <1>0, <2>1, EndsOwn, EndsDesk
  <2> QED
    BY <1>0, <2>1, <2>5, <2>6, <2>7, CatalogWrites
<1>6. ASSUME NEW name \in scene.names, AreaByName(name)
      PROVE  Orderly' /\ Own(CatalogOps)
  <2> DEFINE found == LiveNamed("area", name)
             new == Append(items, NewItem("area", name, 0))
  <2>1. /\ Touches({Named("area", name)}) /\ Does("catalog") /\ costs' = costs /\ today' = today
        /\ "area" \in Kinds /\ name \in ItemNames
    BY <1>00, <1>6 DEF AreaByName
  <2>2. CASE found # {} /\ items' = [items EXCEPT ![Min(found)].active = TRUE]
    <3>1. found \in SUBSET (DOMAIN items)
      BY DEF LiveNamed, OfKind
    <3>2. found \in SUBSET Int /\ IsFiniteSet(found)
      <4>1. DOMAIN items = 1..Len(items) /\ Len(items) \in Nat /\ IsFiniteSet(DOMAIN items)
        BY <1>0, SeqDomain
      <4> HIDE DEF found
      <4> QED
        BY <3>1, <4>1, FS_Subset
    <3>3. Min(found) \in DOMAIN items
      <4> HIDE DEF found
      <4> QED
        BY <2>2, <3>1, <3>2, MinIs
    <3>4. [items[Min(found)] EXCEPT !.active = TRUE] \in ItemRow
      BY <1>0, <3>3 DEF ItemRow
    <3>5. items' = [items EXCEPT ![Min(found)] = [items[Min(found)] EXCEPT !.active = TRUE]]
      BY <2>2
    <3>6. items' \in Seq(ItemRow) /\ DOMAIN items' = DOMAIN items
      <4> HIDE DEF found
      <4> QED
        BY <1>0, <3>3, <3>4, <3>5, PutRow
    <3>7. Own(CatalogOps) /\ desk' = desk
      BY <1>0, <2>1, TouchesOwn, TouchesDesk
    <3> QED
      BY <1>0, <2>1, <3>6, <3>7, CatalogWrites
  <2>3. CASE Len(items) < scene.rows /\ items' = new
    <3>1. new \in Seq(ItemRow) /\ DOMAIN new \subseteq DOMAIN Mangled /\ DOMAIN items \subseteq DOMAIN new
      BY <2>1, <2>3, NewRow
    <3>2. Own(CatalogOps) /\ desk' = desk
      BY <1>0, <2>1, TouchesOwn, TouchesDesk
    <3> HIDE DEF new
    <3> QED
      BY <1>0, <2>1, <2>3, <3>1, <3>2, CatalogWrites
  <2> QED
    BY <1>6, <2>2, <2>3 DEF AreaByName
<1>7. ASSUME NEW i \in DOMAIN items, SoftDelete(i)
      PROVE  Orderly' /\ Own(CatalogOps)
  <2> DEFINE row == [items[i] EXCEPT !.name = Mangled[i], !.active = FALSE, !.gone = TRUE]
  <2>1. /\ Touches({Item(i), Named(items[i].kind, items[i].name)}) /\ costs' = costs /\ today' = today
        /\ items' = [items EXCEPT ![i].name = Mangled[i], ![i].active = FALSE, ![i].gone = TRUE]
    BY <1>7 DEF SoftDelete
  <2>2. items' = [items EXCEPT ![i] = row]
    BY <2>1, Zenon
  <2>3. row \in ItemRow
    <3>1. Mangled[i] \in Names
      BY <1>0, CatalogInputs
    <3> QED
      BY <1>0, <3>1 DEF ItemRow
  <2>4. items' \in Seq(ItemRow) /\ DOMAIN items' = DOMAIN items
    <3> HIDE DEF row
    <3> QED
      BY <1>0, <2>2, <2>3, PutRow
  <2>5. Own(CatalogOps) /\ desk' = desk
    BY <1>0, <2>1, TouchesOwn, TouchesDesk
  <2> QED
    BY <1>0, <2>1, <2>4, <2>5, CatalogWrites
<1>8. ASSUME NEW i \in DOMAIN items, NEW cost \in scene.prices, NEW from \in 1..Horizon, AddCost(i, cost, from)
      PROVE  Orderly' /\ Own(CatalogOps)
  <2>1. /\ costs' = Append(costs, Cost(i, cost, from)) /\ today' = today /\ Touches({Item(i)})
        /\ items' = IF items[i].kind = "raw"
                    THEN [items EXCEPT ![i].default = LatestCost(costs', i, Horizon)] ELSE items
    BY <1>8 DEF AddCost
  <2>2. costs' \in Seq(CostRow)
    BY <1>00, <2>1, NewCost
  <2>3. items' \in Seq(ItemRow) /\ DOMAIN items' = DOMAIN items
    <3>1. CASE items[i].kind = "raw"
      <4> DEFINE default == LatestCost(costs', i, Horizon)
                 row == [items[i] EXCEPT !.default = default]
      <4>1. default \in Nat
        BY <2>2, LatestIs, OfficeAssumption
      <4>2. row \in ItemRow
        <5> HIDE DEF default
        <5> QED
          BY <1>0, <4>1 DEF ItemRow
      <4>3. items' = [items EXCEPT ![i] = row]
        BY <2>1, <3>1
      <4> HIDE DEF row
      <4> QED
        BY <1>0, <4>2, <4>3, PutRow
    <3>2. CASE items[i].kind # "raw"
      BY <1>0, <2>1, <3>2
    <3> QED
      BY <3>1, <3>2
  <2>4. Own(CatalogOps) /\ desk' = desk
    BY <1>0, <2>1, TouchesOwn, TouchesDesk
  <2> QED
    BY <1>0, <2>1, <2>2, <2>3, <2>4, CatalogWrites
<1>9. ASSUME NextDay
      PROVE  Orderly' /\ Own(CatalogOps)
  <2>1. items' = items /\ costs' = costs /\ today' \in Nat
    BY <1>0, <1>9 DEF NextDay
  <2>2. Own(CatalogOps) /\ desk' = desk
    BY <1>0, <1>9, TouchesOwn, TouchesDesk DEF NextDay
  <2> QED
    BY <1>0, <2>1, <2>2, CatalogWrites
<1> QED
  BY <1>1, <1>2, <1>3, <1>4, <1>5, <1>6, <1>7, <1>8, <1>9 DEF CatalogStep

(* Whose step it is: what every proof below starts from. *)
LEMMA StepOrderly ==
    ASSUME Orderly, Next
    PROVE  /\ Orderly' /\ crossed \subseteq crossed' /\ scene' = scene
           /\ \/ FactoryStep /\ Own(FactoryOps) /\ UNCHANGED <<fileVars, cashVars, catalogVars>>
              \/ FileStep /\ Own(FileOps) /\ UNCHANGED <<factoryVars, cashVars, catalogVars>>
              \/ CashStep /\ Own(CashOps) /\ UNCHANGED <<factoryVars, catalogVars>>
              \/ CatalogStep /\ Own(CatalogOps) /\ UNCHANGED <<factoryVars, fileVars, cashVars>>
              \/ /\ \E k \in Desks : Abort(k) /\ desk'[k] = Idle /\ \A m \in Desks : m # k => desk'[m] = desk[m]
                 /\ Own({}) /\ UNCHANGED <<factoryVars, fileVars, cashVars, catalogVars>>
<1>0. Exclusive
  BY DEF Orderly
<1>1. CASE FactoryStep /\ UNCHANGED <<fileVars, cashVars, catalogVars>>
  <2>1. Own(FactoryOps) /\ NewRows /\ FactoryOps \cap CatalogOps = {}
    BY <1>0, <1>1, FactoryOwn DEF FactoryOps, CatalogOps
  <2>2. Orderly'
    BY <1>1, <2>1, OthersOrderly
  <2> QED
    BY <1>1, <2>1, <2>2 DEF Own
<1>2. CASE FileStep /\ UNCHANGED <<factoryVars, cashVars, catalogVars>>
  <2>1. Own(FileOps) /\ NewRows /\ FileOps \cap CatalogOps = {}
    BY <1>0, <1>2, FileOwn DEF FileOps, CatalogOps
  <2>2. Orderly'
    BY <1>2, <2>1, OthersOrderly
  <2> QED
    BY <1>2, <2>1, <2>2 DEF Own
<1>3. CASE CashStep /\ UNCHANGED <<factoryVars, catalogVars>>
  <2>1. Own(CashOps) /\ NewRows /\ CashOps \cap CatalogOps = {}
    BY <1>0, <1>3, CashOwn DEF CashOps, CatalogOps
  <2>2. Orderly'
    BY <1>3, <2>1, OthersOrderly
  <2> QED
    BY <1>3, <2>1, <2>2 DEF Own
<1>4. CASE CatalogStep /\ UNCHANGED <<factoryVars, fileVars, cashVars>>
  BY <1>4, CatalogOrderly DEF Own
<1>5. ASSUME NEW k \in Desks, Abort(k)
      PROVE  /\ Orderly' /\ crossed \subseteq crossed' /\ scene' = scene
             /\ desk'[k] = Idle /\ \A m \in Desks : m # k => desk'[m] = desk[m]
             /\ Own({}) /\ UNCHANGED <<factoryVars, fileVars, cashVars, catalogVars>>
  <2>1. NewRows /\ (\A ops : Own(ops)) /\ desk'[k] = Idle /\ \A m \in Desks : m # k => desk'[m] = desk[m]
    BY <1>0, <1>5, EndsOwn, EndsDesk DEF Abort
  <2>2. Orderly'
    <3>1. Own({}) /\ {} \cap CatalogOps = {} /\ UNCHANGED catalogVars
      BY <1>5, <2>1 DEF Abort
    <3> QED
      BY <2>1, <3>1, OthersOrderly
  <2> QED
    BY <1>5, <2>1, <2>2 DEF Own, Abort
<1> QED
  BY <1>1, <1>2, <1>3, <1>4, <1>5 DEF Next

-----------------------------------------------------------------------------
(* The steps of one part end or change only requests of its own.           *)
Took(ops) == \A k \in Desks : desk'[k] = desk[k] \/ desk[k].op \in ops \cup {"none"}

LEMMA StartsTook ==
    ASSUME Exclusive, NEW k \in Desks, NEW frame, Starts(k, frame)
    PROVE  \A ops : Took(ops)
<1>1. desk[k] = Idle /\ \A m \in Desks : m # k => desk'[m] = desk[m]
  BY StartsDesk
<1> QED
  BY <1>1 DEF Took, Idle

LEMMA EndsTook ==
    ASSUME Exclusive, NEW k \in Desks, Ends(k) \/ BreaksOff(k) \/ \E rows : EndsTouching(k, rows),
           NEW ops, desk[k].op \in ops
    PROVE  Took(ops)
<1>1. \A m \in Desks : m # k => desk'[m] = desk[m]
  BY EndsDesk
<1> QED
  BY <1>1 DEF Took

LEMMA TouchesTook ==
    ASSUME (\E rows : Touches(rows)) \/ UNCHANGED requestVars
    PROVE  \A ops : Took(ops)
BY DEF Took, Touches, requestVars

LEMMA FactoryTook ==
    ASSUME Exclusive, FactoryStep
    PROVE  Took(FactoryOps)
<1>1. ASSUME NEW name, CreateLocation(name) PROVE Took(FactoryOps)
  BY <1>1, TouchesTook DEF CreateLocation
<1>2. ASSUME NEW k \in Desks, NEW l, NEW put, BeginUpdateLocation(k, l, put) PROVE Took(FactoryOps)
  BY <1>2, StartsTook DEF BeginUpdateLocation
<1>3. ASSUME NEW l, NEW qty, NEW item, PostOpening(l, item, qty) \/ PostAdjustment(l, item, qty)
      PROVE  Took(FactoryOps)
  BY <1>3, TouchesTook DEF PostOpening, PostAdjustment, Post
<1>4. ASSUME NEW from, NEW to, NEW p, NEW qty, PostTransfer(from, to, p, qty) PROVE Took(FactoryOps)
  BY <1>4, TouchesTook DEF PostTransfer
<1>5. ASSUME NEW k \in Desks, NEW p, NEW per, NEW active, BeginCreateBom(k, p, per, active) PROVE Took(FactoryOps)
  BY <1>5, StartsTook DEF BeginCreateBom
<1>6. ASSUME NEW k \in Desks, NEW b, NEW put, BeginUpdateBom(k, b, put) PROVE Took(FactoryOps)
  BY <1>6, StartsTook DEF BeginUpdateBom
<1>7. ASSUME NEW b, NEW l, NEW qty, CreateJob(b, l, qty) PROVE Took(FactoryOps)
  BY <1>7, TouchesTook DEF CreateJob
<1>8. ASSUME NEW k \in Desks, NEW j, NEW put, NEW posts, NEW lines, Writes(k, j, put, posts, lines)
      PROVE  Took(FactoryOps)
  BY <1>8, StartsTook DEF Writes
<1>9. ASSUME NEW k \in Desks, NEW j, NEW b, NEW l, NEW qty, BeginUpdateJob(k, j, b, l, qty) PROVE Took(FactoryOps)
  BY <1>8, <1>9 DEF BeginUpdateJob
<1>10. ASSUME NEW k \in Desks, NEW j, BeginPlan(k, j) \/ BeginStart(k, j) \/ BeginCancel(k, j) PROVE Took(FactoryOps)
  BY <1>8, <1>10 DEF BeginPlan, BeginStart, BeginCancel
<1>11. ASSUME NEW k \in Desks, NEW j, NEW qty, BeginComplete(k, j, qty) PROVE Took(FactoryOps)
  BY <1>8, <1>11 DEF BeginComplete
<1>12. ASSUME NEW k \in Desks,
              CommitUpdateLocation(k) \/ CommitCreateBom(k) \/ CommitUpdateBom(k) \/ CommitJob(k)
      PROVE  Took(FactoryOps)
  BY <1>12, EndsTook DEF CommitUpdateLocation, CommitCreateBom, CommitUpdateBom, CommitJob, Holds, FactoryOps
<1> QED
  BY <1>1, <1>2, <1>3, <1>4, <1>5, <1>6, <1>7, <1>9, <1>10, <1>11, <1>12 DEF FactoryStep

LEMMA FileTook ==
    ASSUME Exclusive, FileStep
    PROVE  Took(FileOps)
<1>1. ASSUME NEW c, NEW opening, NEW holds, NEW status, CreateCustomer(c, opening, holds, status) PROVE Took(FileOps)
  BY <1>1, TouchesTook DEF CreateCustomer
<1>2. ASSUME NEW k \in Desks, NEW c, NEW put, BeginUpdateCustomer(k, c, put) \/ BeginDeactivate(k, c) PROVE Took(FileOps)
  BY <1>2, StartsTook DEF BeginUpdateCustomer, BeginDeactivate
<1>3. ASSUME NEW k \in Desks, NEW qty, BeginSetOpening(k, qty) PROVE Took(FileOps)
  BY <1>3, StartsTook DEF BeginSetOpening
<1>4. ASSUME NEW c, NEW s, (\E delta : AdjustContainers(c, delta)) \/ HandOver(c, s) \/ (\E t : Deliver(t, c, s))
      PROVE  Took(FileOps)
  BY <1>4, TouchesTook DEF AdjustContainers, HandOver, Deliver
<1>5. ASSUME NEW type, NEW delta, AdjustOwned(type, delta) PROVE Took(FileOps)
  BY <1>5, TouchesTook DEF AdjustOwned
<1>6. ASSUME NEW k \in Desks, CommitUpdateCustomer(k) \/ CommitSetOpening(k) PROVE Took(FileOps)
  BY <1>6, EndsTook DEF CommitUpdateCustomer, CommitSetOpening, Holds, FileOps
<1>7. ASSUME NEW r, NEW filled, NEW empty, OpenTrip(r, filled, empty) \/ ReloadTrip(r, filled, empty) PROVE Took(FileOps)
  BY <1>7, TouchesTook DEF OpenTrip, ReloadTrip
<1>8. ASSUME NEW d, CancelDrop(d) \/ \E counted : CloseTrip(d, counted) PROVE Took(FileOps)
  BY <1>8, TouchesTook DEF CancelDrop, CloseTrip
<1> QED
  BY <1>1, <1>2, <1>3, <1>4, <1>5, <1>6, <1>7, <1>8 DEF FileStep

LEMMA CashTook ==
    ASSUME Exclusive, CashStep
    PROVE  Took(CashOps)
<1>1. ASSUME NEW k \in Desks, NEW r, NEW amount, NEW day, BeginCreateHandover(k, r, amount, day) PROVE Took(CashOps)
  BY <1>1, StartsTook DEF BeginCreateHandover
<1>2. ASSUME NEW k \in Desks, NEW c, NEW r, NEW outcome, NEW amount, NEW day,
             BeginVisit(k, c, r, outcome, amount, day)
      PROVE  Took(CashOps)
  BY <1>2, StartsTook DEF BeginVisit
<1>3. ASSUME NEW k \in Desks, NEW h, NEW put, BeginUpdateHandover(k, h, put) PROVE Took(CashOps)
  BY <1>3, StartsTook DEF BeginUpdateHandover
<1>4. ASSUME NEW k \in Desks, NEW x, NEW put, BeginUpdateExpense(k, x, put) PROVE Took(CashOps)
  BY <1>4, StartsTook DEF BeginUpdateExpense
<1>5. ASSUME NEW staff, NEW byRider, NEW amount, NEW day, CreateExpense(staff, byRider, amount, day)
      PROVE  Took(CashOps)
  BY <1>5, TouchesTook DEF CreateExpense
<1>6. ASSUME NEW k \in Desks, CommitCreateHandover(k) \/ CommitUpdateHandover(k) \/ VisitRecords(k)
      PROVE  Took(CashOps)
  BY <1>6, EndsTook DEF CommitCreateHandover, CommitUpdateHandover, VisitRecords, Holds, CashOps
<1>7. ASSUME NEW k \in Desks, CommitUpdateExpense(k) PROVE Took(CashOps)
  <2>1. EndsTouching(k, {Rider(expenses[desk[k].id].staff)}) /\ desk[k].op \in CashOps
    BY <1>7 DEF CommitUpdateExpense, Holds, CashOps
  <2> QED
    BY <2>1, EndsTook
<1>8. ASSUME NEW k \in Desks, VisitPays(k) \/ VisitPromises(k) PROVE Took(CashOps)
  <2>1. desk[k].op \in CashOps /\ \A m \in Desks : m # k => desk'[m] = desk[m]
    <3>1. CASE VisitPromises(k)
      BY <3>1 DEF VisitPromises, Holds, CashOps, Exclusive
    <3>2. CASE VisitPays(k)
      <4> DEFINE paid == IF desk[k].row.amount > 0 THEN Len(receipts) + 1 ELSE 0
                 frame == [desk[k] EXCEPT !.at = "promise", !.row.receipt = paid]
      <4>1. desk' = [desk EXCEPT ![k] = frame] /\ desk[k].op = "visit"
        BY <3>2 DEF VisitPays, Holds
      <4> HIDE DEF frame
      <4> QED
        BY <4>1 DEF CashOps, Exclusive
    <3> QED
      BY <1>8, <3>1, <3>2
  <2> QED
    BY <2>1 DEF Took
<1>9. ASSUME NEW h, RemoveHandover(h) \/ RemoveExpense(h) \/ RemovePayment(h) PROVE Took(CashOps)
  BY <1>9, TouchesTook DEF RemoveHandover, RemoveExpense, RemovePayment
<1> QED
  BY <1>1, <1>2, <1>3, <1>4, <1>5, <1>6, <1>7, <1>8, <1>9 DEF CashStep

LEMMA CatalogTook ==
    ASSUME Exclusive, CatalogStep
    PROVE  Took(CatalogOps)
<1>1. ASSUME NEW k \in Desks, NEW kind, NEW name, NEW cost, BeginCreate(k, kind, name, cost) PROVE Took(CatalogOps)
  BY <1>1, StartsTook DEF BeginCreate
<1>2. ASSUME NEW k \in Desks, NEW i, NEW put, BeginUpdate(k, i, put) PROVE Took(CatalogOps)
  BY <1>2, StartsTook DEF BeginUpdate
<1>3. ASSUME NEW k \in Desks, CommitCreate(k) PROVE Took(CatalogOps)
  <2>1. desk[k].op \in CatalogOps /\ \A m \in Desks : m # k => desk'[m] = desk[m]
    BY <1>3 DEF CommitCreate, Holds, CatalogOps, Ends, Exclusive
  <2> QED
    BY <2>1 DEF Took
<1>4. ASSUME NEW k \in Desks, FirstCost(k) \/ CommitUpdate(k) PROVE Took(CatalogOps)
  BY <1>4, EndsTook DEF FirstCost, CommitUpdate, Holds, CatalogOps
<1>5. ASSUME NEW i, AreaByName(i) \/ SoftDelete(i) \/ \E cost, from : AddCost(i, cost, from) PROVE Took(CatalogOps)
  BY <1>5, TouchesTook DEF AreaByName, SoftDelete, AddCost
<1>6. ASSUME NextDay PROVE Took(CatalogOps)
  BY <1>6, TouchesTook DEF NextDay
<1> QED
  BY <1>1, <1>2, <1>3, <1>4, <1>5, <1>6 DEF CatalogStep

(* A request goes on or ends beside all others; a table gets a row.        *)
Alone(k) == \A m \in Desks : m # k => desk'[m] = desk[m]
Grown(S, old, row, new) ==
    /\ old \in Seq(S) /\ row \in S /\ new = Append(old, row)
    /\ DOMAIN new = DOMAIN old \cup {Len(old) + 1} /\ Len(old) + 1 \notin DOMAIN old /\ Len(old) + 1 # 0
    /\ new[Len(old) + 1] = row /\ \A i \in DOMAIN old : new[i] = old[i]

LEMMA RowGrown ==
    ASSUME NEW S, NEW old, NEW row, NEW new, old \in Seq(S), row \in S, new = Append(old, row)
    PROVE  Grown(S, old, row, new)
<1>1. /\ Len(old) \in Nat
      /\ DOMAIN new = DOMAIN old \cup {Len(old) + 1} /\ Len(old) + 1 \notin DOMAIN old
      /\ new[Len(old) + 1] = row /\ \A i \in DOMAIN old : new[i] = old[i]
  BY Appended
<1>2. Len(old) + 1 # 0
  BY <1>1
<1> QED
  BY <1>1, <1>2 DEF Grown

LEMMA StartsOrderly == Init => Orderly
<1> SUFFICES ASSUME Init PROVE Orderly
  OBVIOUS
<1>1. desk = [k \in Desks |-> Idle] /\ scene \in Scenes /\ items = <<>> /\ costs = <<>> /\ today = 1
  BY DEF Init
<1>2. Exclusive /\ Known
  BY <1>1 DEF Exclusive, Known, Idle
<1>3. CatalogTyped
  BY <1>1 DEF CatalogTyped, CatalogFrame, Idle
<1> QED
  BY <1>2, <1>3 DEF Orderly

LEMMA StutterOrderly == Orderly /\ UNCHANGED vars => Orderly'
BY DEF Orderly, Exclusive, Known, CatalogTyped, CatalogFrame, CreateFrame, CostFrame, UpdateFrame,
       Does, Item, Named, vars, requestVars, catalogVars

LEMMA OrderlyAlways == Spec => []Orderly
<1>1. Orderly /\ [Next]_vars => Orderly'
  BY StepOrderly, StutterOrderly
<1> QED
  BY <1>1, StartsOrderly, PTL DEF Spec

-----------------------------------------------------------------------------
(* The tables of the factory and its requests.                             *)
PlaceRow == [name : PlaceNames \cup ItemNames, active : BOOLEAN, default : BOOLEAN \cup Nat]
JobRow == [product : Products, bom : Nat, place : Nat, planned : Nat, actual : Nat,
           status : {"DRAFT", "PLANNED", "IN_PROGRESS", "COMPLETED", "CANCELLED"}, lines : [Raws -> Nat]]
MoveRow == [place : Nat, item : Products \cup Raws, qty : Int,
            type : {"OPENING", "ADJUSTMENT", "TRANSFER_OUT", "TRANSFER_IN",
                    "PRODUCTION_CONSUME", "PRODUCTION_IN"}, job : Nat]

PlaceFrame(f) == f.place \in DOMAIN places /\ f.put \in scene.edits
NewBomFrame(f) ==
    /\ f.product \in Products /\ f.per \in [Raws -> Nat] /\ f.active \in BOOLEAN /\ f.version \in Nat
    /\ f.on = {<<"boms", f.product>>}
BomPuts == {[per |-> per] : per \in [Raws -> Nat]} \cup {[active |-> a] : a \in BOOLEAN}
BomFrame(f) ==
    /\ f.bom \in DOMAIN boms /\ f.put \in BomPuts /\ f.retires \in BOOLEAN
    /\ f.on = {<<"boms", boms[f.bom].product>>}
JobPuts ==
    [product : Products, bom : DOMAIN boms, place : DOMAIN places, planned : Nat]
    \cup [status : {"PLANNED"}, bom : DOMAIN boms]
    \cup [status : {"IN_PROGRESS", "CANCELLED"}]
    \cup [status : {"COMPLETED"}, actual : Nat]
JobFrame(f) ==
    /\ f.job \in DOMAIN jobs /\ f.on = {Job(f.job)} /\ f.put \in JobPuts
    /\ f.posts \in Seq(MoveRow) /\ \A i \in DOMAIN f.posts : f.posts[i].place \in DOMAIN places
    /\ f.lines \in [Raws -> Nat]

FactoryFrame(f) ==
    /\ f.op = "location" => PlaceFrame(f)
    /\ f.op = "newBom" => NewBomFrame(f)
    /\ f.op = "bom" => BomFrame(f)
    /\ f.op = "job" => JobFrame(f)

FactoryTyped ==
    /\ places \in Seq(PlaceRow) /\ boms \in Seq(Bom) /\ jobs \in Seq(JobRow) /\ moves \in Seq(MoveRow)
    /\ \A j \in DOMAIN jobs : jobs[j].bom \in DOMAIN boms /\ jobs[j].place \in DOMAIN places
    /\ \A i \in DOMAIN moves : moves[i].place \in DOMAIN places
    /\ \A k \in Desks : FactoryFrame(desk[k])

LEMMA FactoryInputs ==
    ASSUME scene \in Scenes
    PROVE  /\ scene.goods \subseteq Products \cup Raws /\ scene.qtys \subseteq Int
           /\ scene.recipes \subseteq [Raws -> Nat] /\ scene.makes \subseteq Nat \ {0}
           /\ \A put \in scene.edits : Gives(put, Columns(scene))
           /\ Main \in PlaceNames /\ IsFiniteSet(Products) /\ IsFiniteSet(Raws) /\ Products \cap Raws = {}
BY OfficeAssumption DEF Inputs

LEMMA PatchedPlace ==
    ASSUME NEW row \in PlaceRow, NEW put, Gives(put, Columns(scene))
    PROVE  Patched(row, put) \in PlaceRow
<1>1. \A x \in DOMAIN put :
          /\ x = "name" => put[x] \in PlaceNames \cup ItemNames
          /\ x = "active" => put[x] \in BOOLEAN
          /\ x = "default" => put[x] \in Nat
  BY DEF Gives, Columns
<1>2. DOMAIN row = {"name", "active", "default"}
  BY DEF PlaceRow
<1>3. row.name \in PlaceNames \cup ItemNames /\ row.active \in BOOLEAN /\ row.default \in BOOLEAN \cup Nat
  BY DEF PlaceRow
<1> DEFINE new == Patched(row, put)
<1>4. new = [column \in {"name", "active", "default"} |-> new[column]]
  BY <1>2 DEF Patched
<1>5. /\ new.name = IF "name" \in DOMAIN put THEN put.name ELSE row.name
      /\ new.active = IF "active" \in DOMAIN put THEN put.active ELSE row.active
      /\ new.default = IF "default" \in DOMAIN put THEN put.default ELSE row.default
  BY <1>2 DEF Patched
<1>6. new.name \in PlaceNames \cup ItemNames /\ new.active \in BOOLEAN /\ new.default \in BOOLEAN \cup Nat
  BY <1>1, <1>3, <1>5
<1>7. new \in PlaceRow
  <2> HIDE DEF new
  <2> QED
    BY <1>4, <1>6 DEF PlaceRow
<1> QED
  BY <1>7

LEMMA PatchedBom ==
    ASSUME NEW row \in Bom, NEW put \in BomPuts
    PROVE  /\ Patched(row, put) \in Bom /\ Patched(row, put).product = row.product
           /\ Patched(row, put).version = row.version
           /\ Patched(row, put).active = IF "active" \in DOMAIN put THEN put.active ELSE row.active
<1>1. \A x \in DOMAIN put :
          /\ x = "per" => put[x] \in [Raws -> Nat]
          /\ x = "active" => put[x] \in BOOLEAN
          /\ x \in {"per", "active"}
  BY DEF BomPuts
<1>2. DOMAIN row = {"product", "version", "active", "per"}
  BY DEF Bom
<1>3. row.product \in Products /\ row.version \in Nat /\ row.active \in BOOLEAN /\ row.per \in [Raws -> Nat]
  BY DEF Bom
<1> DEFINE new == Patched(row, put)
<1>4. new = [column \in {"product", "version", "active", "per"} |-> new[column]]
  BY <1>2 DEF Patched
<1>5. /\ new.product = row.product /\ new.version = row.version
      /\ new.active = IF "active" \in DOMAIN put THEN put.active ELSE row.active
      /\ new.per = IF "per" \in DOMAIN put THEN put.per ELSE row.per
  BY <1>1, <1>2 DEF Patched
<1>6. /\ new.product \in Products /\ new.version \in Nat /\ new.active \in BOOLEAN
      /\ new.per \in [Raws -> Nat]
  BY <1>1, <1>3, <1>5
<1>7. new \in Bom
  <2> HIDE DEF new
  <2> QED
    BY <1>4, <1>6 DEF Bom
<1> QED
  BY <1>5, <1>7

LEMMA PatchedJob ==
    ASSUME FactoryTyped, NEW row \in JobRow, NEW put \in JobPuts, NEW lines \in [Raws -> Nat]
    PROVE  LET new == [Patched(row, put) EXCEPT !.lines = lines] IN
           /\ new \in JobRow /\ new.lines = lines
           /\ new.product = IF "product" \in DOMAIN put THEN put.product ELSE row.product
           /\ new.bom = IF "bom" \in DOMAIN put THEN put.bom ELSE row.bom
           /\ new.place = IF "place" \in DOMAIN put THEN put.place ELSE row.place
           /\ new.status = IF "status" \in DOMAIN put THEN put.status ELSE row.status
           /\ new.actual = IF "actual" \in DOMAIN put THEN put.actual ELSE row.actual
<1>0. DOMAIN boms \subseteq Nat /\ DOMAIN places \subseteq Nat
  BY SeqDomain DEF FactoryTyped
<1>1. \A x \in DOMAIN put :
          /\ x = "product" => put[x] \in Products
          /\ x = "bom" => put[x] \in Nat
          /\ x = "place" => put[x] \in Nat
          /\ x = "planned" => put[x] \in Nat
          /\ x = "actual" => put[x] \in Nat
          /\ x = "status" => put[x] \in {"PLANNED", "IN_PROGRESS", "CANCELLED", "COMPLETED"}
          /\ x # "lines"
  BY <1>0 DEF JobPuts
<1>2. DOMAIN row = {"product", "bom", "place", "planned", "actual", "status", "lines"}
  BY DEF JobRow
<1>3. /\ row.product \in Products /\ row.bom \in Nat /\ row.place \in Nat /\ row.planned \in Nat
      /\ row.actual \in Nat
      /\ row.status \in {"DRAFT", "PLANNED", "IN_PROGRESS", "COMPLETED", "CANCELLED"}
  BY DEF JobRow
<1> DEFINE mid == Patched(row, put)
           new == [mid EXCEPT !.lines = lines]
<1>4. DOMAIN mid = {"product", "bom", "place", "planned", "actual", "status", "lines"}
  BY <1>2 DEF Patched
<1>5. /\ mid.product = IF "product" \in DOMAIN put THEN put.product ELSE row.product
      /\ mid.bom = IF "bom" \in DOMAIN put THEN put.bom ELSE row.bom
      /\ mid.place = IF "place" \in DOMAIN put THEN put.place ELSE row.place
      /\ mid.planned = IF "planned" \in DOMAIN put THEN put.planned ELSE row.planned
      /\ mid.status = IF "status" \in DOMAIN put THEN put.status ELSE row.status
      /\ mid.actual = IF "actual" \in DOMAIN put THEN put.actual ELSE row.actual
  BY <1>2 DEF Patched
<1>6. /\ new = [column \in {"product", "bom", "place", "planned", "actual", "status", "lines"} |-> new[column]]
      /\ new.product = mid.product /\ new.bom = mid.bom /\ new.place = mid.place /\ new.planned = mid.planned
      /\ new.status = mid.status /\ new.actual = mid.actual /\ new.lines = lines
  <2> HIDE DEF mid
  <2> QED
    BY <1>4
<1>7. /\ mid.product \in Products /\ mid.bom \in Nat /\ mid.place \in Nat /\ mid.planned \in Nat
      /\ mid.actual \in Nat
      /\ mid.status \in {"DRAFT", "PLANNED", "IN_PROGRESS", "COMPLETED", "CANCELLED"}
  <2> HIDE DEF mid
  <2> QED
    BY <1>1, <1>3, <1>5
<1>8. new \in JobRow
  <2> HIDE DEF new, mid
  <2> QED
    BY <1>6, <1>7 DEF JobRow
<1> HIDE DEF mid
<1> QED
  BY <1>5, <1>6, <1>8 DEF mid

(* Locations, bills and orders are never deleted, and a bill stays one of  *)
(* its product.                                                            *)
FactoryGrows ==
    /\ scene' = scene
    /\ DOMAIN places \subseteq DOMAIN places' /\ DOMAIN jobs \subseteq DOMAIN jobs'
    /\ DOMAIN boms \subseteq DOMAIN boms' /\ \A b \in DOMAIN boms : boms'[b].product = boms[b].product

LEMMA JobPutsGrow == ASSUME FactoryGrows PROVE JobPuts \subseteq JobPuts'
BY DEF FactoryGrows, JobPuts

LEMMA FactoryFrameLasts ==
    ASSUME FactoryGrows, NEW m \in Desks, FactoryFrame(desk[m]),
           desk'[m] = desk[m] \/ desk'[m].op \notin FactoryOps
    PROVE  FactoryFrame(desk[m])'
<1>1. CASE desk'[m].op \notin FactoryOps
  BY <1>1 DEF FactoryFrame, FactoryOps
<1>2. CASE desk'[m] = desk[m]
  <2>1. PlaceFrame(desk[m]) => PlaceFrame(desk[m])'
    BY <1>2 DEF PlaceFrame, FactoryGrows
  <2>2. NewBomFrame(desk[m]) => NewBomFrame(desk[m])'
    BY <1>2 DEF NewBomFrame
  <2>3. BomFrame(desk[m]) => BomFrame(desk[m])'
    BY <1>2 DEF BomFrame, BomPuts, FactoryGrows
  <2>4. JobFrame(desk[m]) => JobFrame(desk[m])'
    <3>1. MoveRow' = MoveRow
      BY DEF MoveRow
    <3> QED
      BY <1>2, <3>1, JobPutsGrow DEF JobFrame, FactoryGrows, Job
  <2> QED
    BY <1>2, <2>1, <2>2, <2>3, <2>4 DEF FactoryFrame
<1> QED
  BY <1>1, <1>2

LEMMA FactoryWrites ==
    ASSUME FactoryTyped, FactoryGrows,
           places' \in Seq(PlaceRow), boms' \in Seq(Bom), jobs' \in Seq(JobRow), moves' \in Seq(MoveRow),
           \A j \in DOMAIN jobs' : jobs'[j].bom \in DOMAIN boms' /\ jobs'[j].place \in DOMAIN places',
           \A i \in DOMAIN moves' : moves'[i].place \in DOMAIN places',
           \A m \in Desks : desk'[m] = desk[m] \/ desk'[m].op \notin FactoryOps \/ FactoryFrame(desk[m])'
    PROVE  FactoryTyped'
<1>1. \A m \in Desks : FactoryFrame(desk[m])'
  BY FactoryFrameLasts DEF FactoryTyped
<1> QED
  BY <1>1 DEF FactoryTyped, PlaceRow, Bom, JobRow, MoveRow

LEMMA Ensured ==
    ASSUME FactoryTyped, scene \in Scenes, EnsureDefault
    PROVE  /\ places' \in Seq(PlaceRow) /\ DOMAIN places \subseteq DOMAIN places'
           /\ Targets \subseteq DOMAIN places'
           /\ \A l \in DOMAIN places : places'[l] = places[l]
           /\ \A l \in DOMAIN places' \ DOMAIN places : places'[l].active
<1>1. NewPlace(Main, TRUE) \in PlaceRow
  BY FactoryInputs DEF NewPlace, PlaceRow
<1>2. CASE \E l \in DOMAIN places : Active(l)
  BY <1>2 DEF EnsureDefault, Targets, FactoryTyped
<1>3. CASE ~\E l \in DOMAIN places : Active(l)
  <2> DEFINE new == Append(places, NewPlace(Main, TRUE))
  <2>1. places' = new /\ Targets = {Len(places) + 1}
    BY <1>3 DEF EnsureDefault, Targets
  <2>2. /\ new \in Seq(PlaceRow) /\ DOMAIN new = DOMAIN places \cup {Len(places) + 1}
        /\ new[Len(places) + 1] = NewPlace(Main, TRUE) /\ \A l \in DOMAIN places : new[l] = places[l]
    <3> DEFINE row == NewPlace(Main, TRUE)
    <3>1. places \in Seq(PlaceRow) /\ row \in PlaceRow
      BY <1>1 DEF FactoryTyped
    <3> HIDE DEF row
    <3>2. /\ Append(places, row) \in Seq(PlaceRow)
          /\ DOMAIN Append(places, row) = DOMAIN places \cup {Len(places) + 1}
          /\ Append(places, row)[Len(places) + 1] = row
          /\ \A l \in DOMAIN places : Append(places, row)[l] = places[l]
      BY <3>1, Appended
    <3> QED
      BY <3>2 DEF row
  <2>3. NewPlace(Main, TRUE).active
    BY DEF NewPlace
  <2> HIDE DEF new
  <2> QED
    BY <2>1, <2>2, <2>3
<1> QED
  BY <1>2, <1>3

(* The postings of an order that is completed: each of its raw materials   *)
(* once, and its product.                                                  *)
LEMMA JobPostsAre ==
    ASSUME FactoryTyped, scene \in Scenes, NEW j \in DOMAIN jobs, NEW qty \in Nat
    PROVE  LET posts == JobPosts(j, qty) IN
           /\ Consumes(j, qty) \in [Raws -> Nat]
           /\ posts \in Seq(MoveRow)
           /\ \A i \in DOMAIN posts : posts[i].place = jobs[j].place /\ posts[i].job = j
           /\ \A i, m \in DOMAIN posts : posts[i].item = posts[m].item => i = m
           /\ \A i \in DOMAIN posts :
                 \/ /\ posts[i].item \in Raws /\ Consumes(j, qty)[posts[i].item] > 0
                    /\ posts[i] = Move(jobs[j].place, posts[i].item, -Consumes(j, qty)[posts[i].item],
                                       "PRODUCTION_CONSUME", j)
                 \/ posts[i] = Move(jobs[j].place, jobs[j].product, qty, "PRODUCTION_IN", j)
           /\ \A r \in Raws : Consumes(j, qty)[r] > 0 => \E i \in DOMAIN posts : posts[i].item = r
           /\ \E i \in DOMAIN posts : posts[i] = Move(jobs[j].place, jobs[j].product, qty, "PRODUCTION_IN", j)
<1> DEFINE l == jobs[j].place
           uses == Consumes(j, qty)
           used == {r \in Raws : uses[r] > 0}
           out == {Move(l, r, -uses[r], "PRODUCTION_CONSUME", j) : r \in used}
           s == SetToSeq(out)
           made == Move(l, jobs[j].product, qty, "PRODUCTION_IN", j)
           posts == s \o <<made>>
<1>1. /\ jobs[j] \in JobRow /\ jobs[j].bom \in DOMAIN boms /\ boms[jobs[j].bom] \in Bom /\ j \in Nat
  BY SeqDomain DEF FactoryTyped
<1>2. /\ l \in Nat /\ jobs[j].product \in Products /\ boms[jobs[j].bom].per \in [Raws -> Nat]
  BY <1>1 DEF JobRow, Bom
<1>3. uses \in [Raws -> Nat] /\ \A r \in Raws : uses[r] \in Nat
  <2>1. \A r \in Raws : boms[jobs[j].bom].per[r] * qty \in Nat
    BY <1>2
  <2> QED
    BY <2>1 DEF Consumes
<1>4. /\ \A r \in Raws : Move(l, r, -uses[r], "PRODUCTION_CONSUME", j) \in MoveRow
      /\ made \in MoveRow
  <2> HIDE DEF uses
  <2> QED
    BY <1>1, <1>2, <1>3 DEF Move, MoveRow
<1>5. IsFiniteSet(out) /\ out \subseteq MoveRow
  <2>1. IsFiniteSet(used)
    BY FactoryInputs, FS_Subset
  <2> DEFINE move == [r \in used |-> Move(l, r, -uses[r], "PRODUCTION_CONSUME", j)]
  <2>2. move \in [used -> out] /\ \A x \in out : \E r \in used : move[r] = x
    OBVIOUS
  <2>3. move \in Surjection(used, out)
    <3> HIDE DEF move, out
    <3> QED
      BY <2>2 DEF Surjection
  <2>4. IsFiniteSet(out)
    <3> HIDE DEF move, out, used
    <3> QED
      BY <2>1, <2>3, FS_Surjection
  <2>5. out \subseteq MoveRow
    <3> HIDE DEF uses
    <3> QED
      BY <1>4
  <2> QED
    BY <2>4, <2>5
<1>6. /\ s \in Seq(out) /\ DOMAIN s = 1..Len(s) /\ Len(s) \in Nat
      /\ \A i, m \in DOMAIN s : s[i] = s[m] => i = m
      /\ \A x \in out : \E i \in DOMAIN s : s[i] = x
  <2> HIDE DEF out
  <2> QED
    BY <1>5, SetToSeqIs DEF IsInjective
<1>7. s \in Seq(MoveRow) /\ \A i \in DOMAIN s : s[i] \in out
  <2> HIDE DEF out
  <2> QED
    BY <1>5, <1>6
<1>8. \A i \in DOMAIN s : \E r \in used : s[i] = Move(l, r, -uses[r], "PRODUCTION_CONSUME", j)
  <2> HIDE DEF s
  <2> QED
    BY <1>7
<1>9. /\ posts \in Seq(MoveRow) /\ DOMAIN posts = 1..(Len(s) + 1)
      /\ \A i \in DOMAIN s : posts[i] = s[i]
      /\ posts[Len(s) + 1] = made
  <2> HIDE DEF s, made
  <2>1. <<made>> \in Seq(MoveRow) /\ Len(<<made>>) = 1 /\ <<made>>[1] = made
    BY <1>4
  <2> QED
    BY <1>7, <2>1, AddRows
<1>10. DOMAIN posts = DOMAIN s \cup {Len(s) + 1}
  <2> HIDE DEF s, posts
  <2> QED
    BY <1>6, <1>9
<1>11. /\ made.item = jobs[j].product /\ made.place = l /\ made.job = j
       /\ \A r \in used : LET m == Move(l, r, -uses[r], "PRODUCTION_CONSUME", j) IN
                              m.item = r /\ m.place = l /\ m.job = j
  BY DEF Move
<1>21. made.item = jobs[j].product /\ made.place = l /\ made.job = j
  BY DEF Move
<1>12. /\ \A i \in DOMAIN s : /\ s[i].item \in used /\ s[i].place = l /\ s[i].job = j
                              /\ s[i] = Move(l, s[i].item, -uses[s[i].item], "PRODUCTION_CONSUME", j)
       /\ \A r \in used : \E i \in DOMAIN s : s[i].item = r
  <2>1. ASSUME NEW i \in DOMAIN s
        PROVE  /\ s[i].item \in used /\ s[i].place = l /\ s[i].job = j
               /\ s[i] = Move(l, s[i].item, -uses[s[i].item], "PRODUCTION_CONSUME", j)
    <3>1. PICK r \in used : s[i] = Move(l, r, -uses[r], "PRODUCTION_CONSUME", j)
      BY <1>8
    <3> HIDE DEF s, used, l, uses
    <3>2. s[i].item = r /\ s[i].place = l /\ s[i].job = j
      BY <1>11, <3>1
    <3> QED
      BY <3>1, <3>2
  <2>2. ASSUME NEW r \in used PROVE \E i \in DOMAIN s : s[i].item = r
    <3>1. Move(l, r, -uses[r], "PRODUCTION_CONSUME", j) \in out
      OBVIOUS
    <3> HIDE DEF s, used, l, uses, out
    <3> QED
      BY <1>6, <1>11, <3>1
  <2> QED
    BY <2>1, <2>2
<1>13. \A i, m \in DOMAIN s : s[i].item = s[m].item => i = m
  <2> HIDE DEF s, used, l, uses, out
  <2> QED
    BY <1>6, <1>12
<1>14. jobs[j].product \notin Raws
  BY <1>2, FactoryInputs
<1>15. \A i \in DOMAIN posts : posts[i].place = l /\ posts[i].job = j
  <2> SUFFICES ASSUME NEW i \in DOMAIN posts PROVE posts[i].place = l /\ posts[i].job = j
    OBVIOUS
  <2> HIDE DEF s, used, l, uses, out, posts, made
  <2>1. CASE i \in DOMAIN s
    BY <1>9, <1>12, <2>1
  <2>2. CASE i = Len(s) + 1
    BY <1>9, <1>21, <2>2
  <2> QED
    BY <1>10, <2>1, <2>2
<1>16. \A i, m \in DOMAIN posts : posts[i].item = posts[m].item => i = m
  <2>1. used \subseteq Raws
    OBVIOUS
  <2> HIDE DEF s, used, l, uses, out, posts, made
  <2>2. \A i \in DOMAIN s : posts[i].item \in Raws /\ posts[i].item = s[i].item
    BY <1>9, <1>12, <2>1
  <2>3. posts[Len(s) + 1].item \notin Raws
    BY <1>9, <1>14, <1>21
  <2> QED
    BY <1>10, <1>13, <2>2, <2>3
<1>17. \A i \in DOMAIN posts :
          \/ /\ posts[i].item \in Raws /\ uses[posts[i].item] > 0
             /\ posts[i] = Move(l, posts[i].item, -uses[posts[i].item], "PRODUCTION_CONSUME", j)
          \/ posts[i] = made
  <2>1. \A r \in used : r \in Raws /\ uses[r] > 0
    OBVIOUS
  <2> HIDE DEF s, used, l, uses, out, posts, made
  <2> QED
    BY <1>9, <1>10, <1>12, <2>1
<1>18. \A r \in Raws : uses[r] > 0 => \E i \in DOMAIN posts : posts[i].item = r
  <2>1. \A r \in Raws : uses[r] > 0 => r \in used
    OBVIOUS
  <2> HIDE DEF s, used, l, uses, out, posts, made
  <2> QED
    BY <1>9, <1>10, <1>12, <2>1
<1>19. \E i \in DOMAIN posts : posts[i] = made
  <2> HIDE DEF s, used, l, uses, out, posts, made
  <2> QED
    BY <1>9, <1>10
<1>20. JobPosts(j, qty) = posts
  BY DEF JobPosts
<1> HIDE DEF posts, uses
<1> QED
  BY <1>3, <1>9, <1>15, <1>16, <1>17, <1>18, <1>19, <1>20 DEF uses

(* Bills are retired as they are, and the next version is above all others. *)
LEMMA RetiredBoms ==
    ASSUME boms \in Seq(Bom), NEW p, NEW except
    PROVE  LET new == Retired(p, except) IN
           /\ new \in Seq(Bom) /\ DOMAIN new = DOMAIN boms
           /\ \A b \in DOMAIN boms :
                 /\ new[b].product = boms[b].product /\ new[b].version = boms[b].version
                 /\ new[b].active <=> boms[b].active /\ ~(boms[b].product = p /\ b \notin except)
<1> DEFINE new == Retired(p, except)
<1>1. \A b \in DOMAIN boms : boms[b] \in Bom
  OBVIOUS
<1>2. DOMAIN new = DOMAIN boms /\ new = [b \in DOMAIN boms |-> new[b]]
  BY DEF Retired
<1>3. \A b \in DOMAIN boms :
          new[b] = IF boms[b].product = p /\ b \notin except THEN [boms[b] EXCEPT !.active = FALSE] ELSE boms[b]
  BY DEF Retired, BomsOf
<1>4. ASSUME NEW b \in DOMAIN boms
      PROVE  /\ new[b] \in Bom /\ new[b].product = boms[b].product /\ new[b].version = boms[b].version
             /\ new[b].active <=> boms[b].active /\ ~(boms[b].product = p /\ b \notin except)
  <2> HIDE DEF new
  <2> QED
    BY <1>1, <1>3 DEF Bom
<1>5. new \in Seq(Bom)
  <2> HIDE DEF new
  <2> QED
    BY <1>2, <1>4, Rewritten
<1> HIDE DEF new
<1> QED
  BY <1>2, <1>4, <1>5 DEF new

LEMMA NextVersion ==
    ASSUME boms \in Seq(Bom), NEW p
    PROVE  LET version == Max({0} \cup {boms[b].version : b \in BomsOf(p)}) + 1 IN
           version \in Nat /\ \A b \in BomsOf(p) : boms[b].version < version
<1> DEFINE versions == {boms[b].version : b \in BomsOf(p)}
           all == {0} \cup versions
<1>1. /\ IsFiniteSet(DOMAIN boms) /\ BomsOf(p) \in SUBSET (DOMAIN boms)
      /\ \A b \in DOMAIN boms : boms[b].version \in Nat
  <2>1. \A b \in DOMAIN boms : boms[b] \in Bom
    OBVIOUS
  <2> QED
    BY <2>1, SeqDomain DEF BomsOf, Bom
<1>2. IsFiniteSet(versions)
  <2> DEFINE v == [b \in BomsOf(p) |-> boms[b].version]
  <2>1. v \in [BomsOf(p) -> versions] /\ \A x \in versions : \E b \in BomsOf(p) : v[b] = x
    OBVIOUS
  <2>2. v \in Surjection(BomsOf(p), versions)
    <3> HIDE DEF v, versions
    <3> QED
      BY <2>1 DEF Surjection
  <2>3. IsFiniteSet(BomsOf(p))
    BY <1>1, FS_Subset
  <2> HIDE DEF v, versions
  <2> QED
    BY <2>2, <2>3, FS_Surjection
<1>3. all \in SUBSET Int /\ all # {} /\ IsFiniteSet(all) /\ all \subseteq Nat
  <2>1. versions \subseteq Nat
    BY <1>1
  <2>2. IsFiniteSet({0} \cup versions)
    <3> HIDE DEF versions
    <3> QED
      BY <1>2, FS_Singleton, FS_Union
  <2> HIDE DEF versions
  <2> QED
    BY <2>1, <2>2
<1>4. Max(all) \in all /\ \A x \in all : x <= Max(all)
  <2> HIDE DEF all
  <2> QED
    BY <1>3, MaxIs
<1>5. \A b \in BomsOf(p) : boms[b].version \in all /\ boms[b].version \in Nat
  BY <1>1
<1> DEFINE m == Max(all)
<1> HIDE DEF all
<1>6. m \in Nat /\ \A b \in BomsOf(p) : boms[b].version <= m /\ boms[b].version \in Nat
  BY <1>3, <1>4, <1>5
<1>7. m + 1 \in Nat /\ \A b \in BomsOf(p) : boms[b].version < m + 1
  <2> HIDE DEF m
  <2> QED
    BY <1>6
<1> QED
  BY <1>7 DEF all

LEMMA StartsFactoryTyped == Init => FactoryTyped
<1> SUFFICES ASSUME Init PROVE FactoryTyped
  OBVIOUS
<1>1. /\ scene \in Scenes /\ desk = [k \in Desks |-> Idle] /\ places = scene.places /\ boms = scene.bills
      /\ jobs = <<>> /\ moves = scene.opening
  BY DEF Init
<1>2. Starting(scene)
  BY <1>1, OfficeAssumption
<1>3. places \in Seq(Place) /\ boms \in Seq(Bom)
      /\ moves \in Seq([place : DOMAIN places, item : Products \cup Raws, qty : Nat, type : {"OPENING"}, job : {NoJob}])
  BY <1>1, <1>2 DEF Starting
<1>4. Place \subseteq PlaceRow
  BY DEF Place, PlaceRow
<1>5. places \in Seq(PlaceRow) /\ DOMAIN places \subseteq Nat
  BY <1>3, <1>4, SeqDomain
<1>6. \A i \in DOMAIN moves : moves[i] \in MoveRow /\ moves[i].place \in DOMAIN places
  <2>1. ASSUME NEW i \in DOMAIN moves PROVE moves[i] \in MoveRow /\ moves[i].place \in DOMAIN places
    <3> DEFINE Opened == [place : DOMAIN places, item : Products \cup Raws, qty : Nat, type : {"OPENING"}, job : {NoJob}]
    <3>1. moves[i] \in Opened
      <4>1. moves \in Seq(Opened)
        BY <1>3
      <4> HIDE DEF Opened
      <4> QED
        BY <4>1
    <3> QED
      BY <1>5, <3>1 DEF MoveRow, NoJob
  <2> QED
    BY <2>1
<1>7. moves \in Seq(MoveRow)
  <2>1. Len(moves) \in Nat /\ DOMAIN moves = 1..Len(moves) /\ moves = [i \in 1..Len(moves) |-> moves[i]]
    BY <1>3
  <2>2. moves \in [1..Len(moves) -> MoveRow]
    BY <1>6, <2>1
  <2> QED
    BY <2>1, <2>2
<1>8. jobs \in Seq(JobRow) /\ DOMAIN jobs = {}
  BY <1>1
<1>9. \A k \in Desks : FactoryFrame(desk[k])
  BY <1>1 DEF FactoryFrame, Idle
<1> QED
  BY <1>3, <1>5, <1>6, <1>7, <1>8, <1>9 DEF FactoryTyped

(* What an order that is written becomes. *)
LEMMA JobWrites ==
    ASSUME FactoryTyped, Orderly, NEW k \in Desks, NEW j \in DOMAIN jobs, NEW put, NEW posts, NEW lines,
           Writes(k, j, put, posts, lines), FactoryGrows,
           put \in JobPuts', places' \in Seq(PlaceRow), posts \in Seq(MoveRow),
           \A i \in DOMAIN posts : posts[i].place \in DOMAIN places, lines \in [Raws -> Nat]
    PROVE  FactoryTyped'
<1> DEFINE frame == [op |-> "job", on |-> {Job(j)}, job |-> j, put |-> put, posts |-> posts, lines |-> lines]
<1>1. Starts(k, frame) /\ boms' = boms /\ jobs' = jobs /\ stock' = stock /\ moves' = moves
  BY DEF Writes
<1>2. desk'[k] = frame /\ \A m \in Desks : m # k => desk'[m] = desk[m]
  <2> HIDE DEF frame
  <2> QED
    BY <1>1, StartsDesk DEF Orderly
<1>3. FactoryFrame(desk[k])'
  <2>1. JobFrame(desk[k])'
    <3>1. MoveRow' = MoveRow /\ DOMAIN places \subseteq DOMAIN places'
      BY DEF MoveRow, FactoryGrows
    <3> QED
      BY <1>1, <1>2, <3>1 DEF JobFrame, Job
  <2> QED
    BY <1>2, <2>1 DEF FactoryFrame
<1>4. /\ \A i \in DOMAIN jobs : jobs[i].bom \in DOMAIN boms /\ jobs[i].place \in DOMAIN places'
      /\ \A i \in DOMAIN moves : moves[i].place \in DOMAIN places'
      /\ boms \in Seq(Bom) /\ jobs \in Seq(JobRow) /\ moves \in Seq(MoveRow)
  BY DEF FactoryTyped, FactoryGrows
<1> HIDE DEF frame
<1> QED
  BY <1>1, <1>2, <1>3, <1>4, FactoryWrites

LEMMA FactoryTypedStep ==
    ASSUME Orderly, FactoryTyped, FactoryStep, Own(FactoryOps)
    PROVE  FactoryTyped' /\ FactoryGrows
<1>0. /\ places \in Seq(PlaceRow) /\ boms \in Seq(Bom) /\ jobs \in Seq(JobRow) /\ moves \in Seq(MoveRow)
      /\ \A j \in DOMAIN jobs : jobs[j].bom \in DOMAIN boms /\ jobs[j].place \in DOMAIN places
      /\ \A i \in DOMAIN moves : moves[i].place \in DOMAIN places
      /\ \A k \in Desks : FactoryFrame(desk[k])
      /\ scene \in Scenes /\ scene' = scene /\ Exclusive
  BY DEF FactoryTyped, Orderly, Exclusive, Own
<1>00. /\ \A l \in DOMAIN places : places[l] \in PlaceRow
       /\ \A b \in DOMAIN boms : boms[b] \in Bom
       /\ \A j \in DOMAIN jobs : jobs[j] \in JobRow
       /\ DOMAIN places \subseteq Nat /\ DOMAIN boms \subseteq Nat /\ DOMAIN jobs \subseteq Nat
  BY <1>0, SeqDomain
<1>1. ASSUME NEW name \in PlaceNames, CreateLocation(name) PROVE FactoryTyped' /\ FactoryGrows
  <2> DEFINE row == NewPlace(name, FALSE)
             main == NewPlace(Main, TRUE)
  <2>1. row \in PlaceRow /\ main \in PlaceRow
    BY <1>0, FactoryInputs DEF NewPlace, PlaceRow
  <2>2. /\ places' \in {Append(places, row), places \o <<main, row>>}
        /\ boms' = boms /\ jobs' = jobs /\ moves' = moves /\ desk' = desk
    BY <1>1 DEF CreateLocation, requestVars
  <2>3. places' \in Seq(PlaceRow) /\ DOMAIN places \subseteq DOMAIN places'
    <3> HIDE DEF row, main
    <3>1. Append(places, row) \in Seq(PlaceRow) /\ DOMAIN places \subseteq DOMAIN Append(places, row)
      BY <1>0, <2>1, Appended
    <3>2. <<main, row>> \in Seq(PlaceRow)
      BY <2>1
    <3>3. /\ places \o <<main, row>> \in Seq(PlaceRow) /\ Len(places) \in Nat /\ Len(<<main, row>>) \in Nat
          /\ DOMAIN places = 1..Len(places)
          /\ DOMAIN (places \o <<main, row>>) = 1..(Len(places) + Len(<<main, row>>))
      BY <1>0, <3>2, AddRows
    <3>4. DOMAIN places \subseteq DOMAIN (places \o <<main, row>>)
      BY <3>3
    <3> QED
      BY <2>2, <3>1, <3>3, <3>4
  <2>4. FactoryGrows
    BY <1>0, <2>2, <2>3 DEF FactoryGrows
  <2> QED
    BY <1>0, <2>2, <2>3, <2>4, FactoryWrites
<1>2. ASSUME NEW k \in Desks, NEW l \in DOMAIN places, NEW put \in scene.edits, BeginUpdateLocation(k, l, put)
      PROVE  FactoryTyped' /\ FactoryGrows
  <2> DEFINE frame == [op |-> "location", on |-> {<<"place", l>>}, place |-> l, put |-> put]
  <2>1. Starts(k, frame) /\ UNCHANGED factoryVars
    BY <1>2 DEF BeginUpdateLocation
  <2>2. desk'[k] = frame /\ \A m \in Desks : m # k => desk'[m] = desk[m]
    <3> HIDE DEF frame
    <3> QED
      BY <1>0, <2>1, StartsDesk
  <2>3. FactoryFrame(desk[k])' /\ FactoryGrows
    <3>1. FactoryGrows
      BY <1>0, <2>1 DEF FactoryGrows, factoryVars
    <3>2. PlaceFrame(desk[k])'
      BY <1>0, <2>1, <2>2 DEF PlaceFrame, factoryVars
    <3> QED
      BY <2>2, <3>1, <3>2 DEF FactoryFrame
  <2> QED
    BY <1>0, <2>1, <2>2, <2>3, FactoryWrites DEF factoryVars
<1>3. ASSUME NEW k \in Desks, CommitUpdateLocation(k) PROVE FactoryTyped' /\ FactoryGrows
  <2> DEFINE f == desk[k]
             new == Patched(places[f.place], f.put)
  <2>1. PlaceFrame(f)
    BY <1>0, <1>3 DEF CommitUpdateLocation, Holds, FactoryFrame
  <2>2. f.place \in DOMAIN places /\ new \in PlaceRow
    <3>1. f.place \in DOMAIN places /\ Gives(f.put, Columns(scene))
      BY <1>0, <2>1, FactoryInputs DEF PlaceFrame
    <3> QED
      BY <1>00, <3>1, PatchedPlace
  <2>3. /\ places' \in {places, [places EXCEPT ![f.place] = new]} /\ Ends(k)
        /\ boms' = boms /\ jobs' = jobs /\ moves' = moves
    BY <1>3 DEF CommitUpdateLocation
  <2>4. places' \in Seq(PlaceRow) /\ DOMAIN places' = DOMAIN places
    <3> HIDE DEF new, f
    <3> QED
      BY <1>0, <2>2, <2>3, PutRow
  <2>5. FactoryGrows
    BY <1>0, <2>3, <2>4 DEF FactoryGrows
  <2>6. desk'[k] = Idle /\ \A m \in Desks : m # k => desk'[m] = desk[m]
    BY <1>0, <2>3, EndsDesk
  <2>7. Idle.op \notin FactoryOps
    BY DEF Idle, FactoryOps
  <2> QED
    BY <1>0, <2>3, <2>4, <2>5, <2>6, <2>7, FactoryWrites
<1>4. ASSUME NEW l \in Targets, NEW qty \in scene.qtys, NEW item \in scene.goods, NEW type \in {"OPENING", "ADJUSTMENT"},
             Post(l, item, qty, type)
      PROVE  FactoryTyped' /\ FactoryGrows
  <2> DEFINE move == Move(l, item, qty, type, NoJob)
  <2>1. EnsureDefault /\ UNCHANGED requestVars /\ boms' = boms /\ jobs' = jobs /\ moves' \in {moves, moves \o <<move>>}
    BY <1>4 DEF Post, PostAll
  <2>2. places' \in Seq(PlaceRow) /\ DOMAIN places \subseteq DOMAIN places' /\ l \in DOMAIN places'
    BY <1>0, <2>1, Ensured
  <2>3. l \in Nat /\ move \in MoveRow /\ move.place = l
    <3>1. l \in Nat
      BY <2>2, SeqDomain
    <3>2. qty \in Int /\ item \in Products \cup Raws
      BY <1>0, FactoryInputs
    <3> QED
      BY <3>1, <3>2 DEF Move, MoveRow, NoJob
  <2>4. moves' \in Seq(MoveRow) /\ \A i \in DOMAIN moves' : moves'[i].place \in DOMAIN places'
    <3> HIDE DEF move
    <3>1. CASE moves' = moves
      BY <1>0, <2>2, <3>1
    <3>2. CASE moves' = moves \o <<move>>
      <4>1. moves' = Append(moves, move)
        BY <1>0, <2>3, <3>2
      <4>2. /\ Append(moves, move) \in Seq(MoveRow) /\ DOMAIN Append(moves, move) = DOMAIN moves \cup {Len(moves) + 1}
            /\ Append(moves, move)[Len(moves) + 1] = move
            /\ \A i \in DOMAIN moves : Append(moves, move)[i] = moves[i]
        BY <1>0, <2>3, Appended
      <4> QED
        BY <1>0, <2>2, <2>3, <4>1, <4>2
    <3> QED
      BY <2>1, <3>1, <3>2
  <2>5. FactoryGrows /\ desk' = desk
    BY <1>0, <2>1, <2>2 DEF FactoryGrows, requestVars
  <2> QED
    BY <1>0, <2>1, <2>2, <2>4, <2>5, FactoryWrites
<1>5. ASSUME NEW from \in DOMAIN places, NEW to \in DOMAIN places, NEW p \in Products \cap scene.goods,
             NEW qty \in scene.qtys, PostTransfer(from, to, p, qty)
      PROVE  FactoryTyped' /\ FactoryGrows
  <2> DEFINE out == Move(from, p, -qty, "TRANSFER_OUT", NoJob)
             in == Move(to, p, qty, "TRANSFER_IN", NoJob)
  <2>1. /\ UNCHANGED requestVars /\ places' = places /\ boms' = boms /\ jobs' = jobs
        /\ moves' = moves \o <<out, in>>
    BY <1>5 DEF PostTransfer, PostAll
  <2>2. out \in MoveRow /\ in \in MoveRow /\ out.place = from /\ in.place = to
    <3>1. qty \in Int /\ from \in Nat /\ to \in Nat
      BY <1>0, <1>00, FactoryInputs
    <3> QED
      BY <3>1 DEF Move, MoveRow, NoJob
  <2>3. moves' \in Seq(MoveRow) /\ \A i \in DOMAIN moves' : moves'[i].place \in DOMAIN places'
    <3> HIDE DEF out, in
    <3>1. /\ <<out, in>> \in Seq(MoveRow) /\ DOMAIN <<out, in>> = {1, 2} /\ Len(<<out, in>>) = 2
          /\ <<out, in>>[1] = out /\ <<out, in>>[2] = in
      BY <2>2
    <3>2. /\ moves' \in Seq(MoveRow) /\ Len(moves) \in Nat /\ DOMAIN moves = 1..Len(moves)
          /\ DOMAIN moves' = 1..(Len(moves) + 2)
          /\ \A n \in DOMAIN moves : moves'[n] = moves[n]
          /\ \A n \in {1, 2} : moves'[Len(moves) + n] = <<out, in>>[n]
      BY <1>0, <2>1, <3>1, AddRows
    <3>3. \A i \in DOMAIN moves' : i \in DOMAIN moves \/ i = Len(moves) + 1 \/ i = Len(moves) + 2
      BY <3>2
    <3> QED
      BY <1>0, <2>1, <2>2, <3>1, <3>2, <3>3
  <2>4. FactoryGrows /\ desk' = desk
    BY <1>0, <2>1 DEF FactoryGrows, requestVars
  <2> QED
    BY <1>0, <2>1, <2>3, <2>4, FactoryWrites
<1>6. ASSUME NEW k \in Desks, NEW per \in scene.recipes, NEW p \in Products \cap scene.goods, NEW active \in BOOLEAN,
             BeginCreateBom(k, p, per, active)
      PROVE  FactoryTyped' /\ FactoryGrows
  <2> DEFINE version == Max({0} \cup {boms[b].version : b \in BomsOf(p)}) + 1
             frame == [op |-> "newBom", on |-> {<<"boms", p>>}, product |-> p, per |-> per, active |-> active,
                       version |-> version]
  <2>1. Starts(k, frame) /\ UNCHANGED factoryVars
    BY <1>6 DEF BeginCreateBom
  <2>2. version \in Nat
    BY <1>0, NextVersion
  <2>3. desk'[k] = frame /\ \A m \in Desks : m # k => desk'[m] = desk[m]
    <3> HIDE DEF frame
    <3> QED
      BY <1>0, <2>1, StartsDesk
  <2>4. FactoryGrows
    BY <1>0, <2>1 DEF FactoryGrows, factoryVars
  <2>5. FactoryFrame(desk[k])'
    <3>1. per \in [Raws -> Nat] /\ p \in Products
      BY <1>0, FactoryInputs
    <3> HIDE DEF version
    <3>2. NewBomFrame(desk[k])'
      BY <2>2, <2>3, <3>1 DEF NewBomFrame
    <3> QED
      BY <2>3, <3>2 DEF FactoryFrame
  <2> HIDE DEF frame
  <2> QED
    BY <1>0, <2>1, <2>3, <2>4, <2>5, FactoryWrites DEF factoryVars
<1>7. ASSUME NEW k \in Desks, NEW per \in scene.recipes, NEW b \in DOMAIN boms,
             NEW put \in {[per |-> per]} \cup {[active |-> a] : a \in BOOLEAN}, BeginUpdateBom(k, b, put)
      PROVE  FactoryTyped' /\ FactoryGrows
  <2> DEFINE retires == "active" \in DOMAIN put /\ put.active /\ ~boms[b].active
             frame == [op |-> "bom", on |-> {<<"boms", boms[b].product>>}, bom |-> b, put |-> put, retires |-> retires]
  <2>1. Starts(k, frame) /\ UNCHANGED factoryVars
    BY <1>7 DEF BeginUpdateBom
  <2>2. desk'[k] = frame /\ \A m \in Desks : m # k => desk'[m] = desk[m]
    <3> HIDE DEF frame
    <3> QED
      BY <1>0, <2>1, StartsDesk
  <2>3. FactoryGrows
    BY <1>0, <2>1 DEF FactoryGrows, factoryVars
  <2>4. put \in BomPuts
    BY <1>0, FactoryInputs DEF BomPuts
  <2>5. retires \in BOOLEAN
    OBVIOUS
  <2>6. FactoryFrame(desk[k])'
    <3> HIDE DEF retires
    <3>1. BomPuts' = BomPuts /\ boms' = boms
      BY <2>1 DEF BomPuts, factoryVars
    <3>2. BomFrame(desk[k])'
      BY <2>2, <2>4, <2>5, <3>1 DEF BomFrame
    <3> QED
      BY <2>2, <3>2 DEF FactoryFrame
  <2> HIDE DEF frame
  <2> QED
    BY <1>0, <2>1, <2>2, <2>3, <2>6, FactoryWrites DEF factoryVars
<1>8. ASSUME NEW k \in Desks, CommitCreateBom(k) PROVE FactoryTyped' /\ FactoryGrows
  <2> DEFINE f == desk[k]
             row == [product |-> f.product, version |-> f.version, active |-> f.active, per |-> f.per]
             old == IF f.active THEN Retired(f.product, {}) ELSE boms
  <2>1. NewBomFrame(f)
    BY <1>0, <1>8 DEF CommitCreateBom, Holds, FactoryFrame
  <2>2. row \in Bom
    BY <2>1 DEF NewBomFrame, Bom
  <2>3. /\ boms' = Append(old, row) /\ Ends(k)
        /\ places' = places /\ jobs' = jobs /\ moves' = moves
    BY <1>8 DEF CommitCreateBom
  <2>4. old \in Seq(Bom) /\ DOMAIN old = DOMAIN boms /\ \A b \in DOMAIN boms : old[b].product = boms[b].product
    <3> DEFINE new == Retired(f.product, {})
    <3>1. new \in Seq(Bom) /\ DOMAIN new = DOMAIN boms /\ \A b \in DOMAIN boms : new[b].product = boms[b].product
      BY <1>0, RetiredBoms
    <3> HIDE DEF new
    <3> QED
      BY <1>0, <3>1 DEF new
  <2>5. boms' \in Seq(Bom) /\ DOMAIN boms \subseteq DOMAIN boms' /\ \A b \in DOMAIN boms : boms'[b].product = boms[b].product
    <3> HIDE DEF row, old
    <3>1. /\ Append(old, row) \in Seq(Bom) /\ DOMAIN old \subseteq DOMAIN Append(old, row)
          /\ \A b \in DOMAIN old : Append(old, row)[b] = old[b]
      BY <2>2, <2>4, Appended
    <3> QED
      BY <2>3, <2>4, <3>1
  <2>6. FactoryGrows
    BY <1>0, <2>3, <2>5 DEF FactoryGrows
  <2>7. desk'[k] = Idle /\ \A m \in Desks : m # k => desk'[m] = desk[m]
    BY <1>0, <2>3, EndsDesk
  <2>8. Idle.op \notin FactoryOps
    BY DEF Idle, FactoryOps
  <2>9. \A j \in DOMAIN jobs' : jobs'[j].bom \in DOMAIN boms' /\ jobs'[j].place \in DOMAIN places'
    BY <1>0, <2>3, <2>5
  <2> HIDE DEF row, old
  <2> QED
    BY <1>0, <2>3, <2>5, <2>6, <2>7, <2>8, <2>9, FactoryWrites
<1>9. ASSUME NEW k \in Desks, CommitUpdateBom(k) PROVE FactoryTyped' /\ FactoryGrows
  <2> DEFINE f == desk[k]
             others == IF f.retires THEN Retired(boms[f.bom].product, {f.bom}) ELSE boms
             new == Patched(others[f.bom], f.put)
  <2>1. BomFrame(f)
    BY <1>0, <1>9 DEF CommitUpdateBom, Holds, FactoryFrame
  <2>2. others \in Seq(Bom) /\ DOMAIN others = DOMAIN boms /\ \A b \in DOMAIN boms : others[b].product = boms[b].product
    <3> DEFINE without == Retired(boms[f.bom].product, {f.bom})
    <3>1. /\ without \in Seq(Bom) /\ DOMAIN without = DOMAIN boms
          /\ \A b \in DOMAIN boms : without[b].product = boms[b].product
      BY <1>0, RetiredBoms
    <3> HIDE DEF without
    <3> QED
      BY <1>0, <3>1 DEF without
  <2>3. f.bom \in DOMAIN others /\ others[f.bom] \in Bom /\ f.put \in BomPuts
    <3> HIDE DEF others
    <3> QED
      BY <2>1, <2>2, SeqDomain DEF BomFrame
  <2>4. new \in Bom /\ new.product = others[f.bom].product
    <3> HIDE DEF others
    <3> QED
      BY <2>3, PatchedBom
  <2>5. /\ boms' = [others EXCEPT ![f.bom] = new] /\ Ends(k)
        /\ places' = places /\ jobs' = jobs /\ moves' = moves
    BY <1>9 DEF CommitUpdateBom
  <2>6. boms' \in Seq(Bom) /\ DOMAIN boms' = DOMAIN boms /\ \A b \in DOMAIN boms : boms'[b].product = boms[b].product
    <3> HIDE DEF others, new, f
    <3>1. /\ boms' \in Seq(Bom) /\ DOMAIN boms' = DOMAIN others
          /\ \A b \in DOMAIN others : boms'[b] = IF b = f.bom THEN new ELSE others[b]
      BY <2>2, <2>3, <2>4, <2>5, PutRow
    <3> QED
      BY <2>2, <2>4, <3>1
  <2>7. FactoryGrows
    BY <1>0, <2>5, <2>6 DEF FactoryGrows
  <2>8. desk'[k] = Idle /\ \A m \in Desks : m # k => desk'[m] = desk[m]
    BY <1>0, <2>5, EndsDesk
  <2>9. Idle.op \notin FactoryOps
    BY DEF Idle, FactoryOps
  <2>10. \A j \in DOMAIN jobs' : jobs'[j].bom \in DOMAIN boms' /\ jobs'[j].place \in DOMAIN places'
    BY <1>0, <2>5, <2>6
  <2> HIDE DEF others, new, f
  <2> QED
    BY <1>0, <2>5, <2>6, <2>7, <2>8, <2>9, <2>10, FactoryWrites
<1>10. ASSUME NEW b \in DOMAIN boms, NEW l \in Targets, NEW qty \in scene.makes, CreateJob(b, l, qty)
       PROVE  FactoryTyped' /\ FactoryGrows
  <2> DEFINE row == [product |-> boms[b].product, bom |-> b, place |-> l, planned |-> qty,
                     actual |-> 0, status |-> "DRAFT", lines |-> [r \in Raws |-> 0]]
  <2>1. EnsureDefault /\ UNCHANGED requestVars /\ boms' = boms /\ moves' = moves /\ jobs' = Append(jobs, row)
    BY <1>10 DEF CreateJob
  <2>2. places' \in Seq(PlaceRow) /\ DOMAIN places \subseteq DOMAIN places' /\ l \in DOMAIN places'
    BY <1>0, <2>1, Ensured
  <2>3. row \in JobRow
    <3>1. l \in Nat /\ b \in Nat /\ boms[b].product \in Products /\ qty \in Nat
      BY <1>0, <1>00, <2>2, SeqDomain, FactoryInputs DEF Bom
    <3> QED
      BY <3>1 DEF JobRow
  <2>4. row.bom = b /\ row.place = l
    OBVIOUS
  <2>5. /\ jobs' \in Seq(JobRow) /\ DOMAIN jobs' = DOMAIN jobs \cup {Len(jobs) + 1}
        /\ jobs'[Len(jobs) + 1] = row /\ \A j \in DOMAIN jobs : jobs'[j] = jobs[j]
    <3> HIDE DEF row
    <3> QED
      BY <1>0, <2>1, <2>3, Appended
  <2>6. \A j \in DOMAIN jobs' : jobs'[j].bom \in DOMAIN boms' /\ jobs'[j].place \in DOMAIN places'
    <3> HIDE DEF row
    <3> QED
      BY <1>0, <2>1, <2>2, <2>4, <2>5
  <2>7. FactoryGrows /\ desk' = desk
    BY <1>0, <2>1, <2>2, <2>5 DEF FactoryGrows, requestVars
  <2>8. \A i \in DOMAIN moves' : moves'[i].place \in DOMAIN places'
    BY <1>0, <2>1, <2>2
  <2> HIDE DEF row
  <2> QED
    BY <1>0, <2>1, <2>2, <2>5, <2>6, <2>7, <2>8, FactoryWrites
<1>11. <<>> \in Seq(MoveRow) /\ DOMAIN <<>> = {} /\ NoLines \in [Raws -> Nat]
  BY DEF NoLines
<1>12. ASSUME NEW k \in Desks, NEW j \in DOMAIN jobs, NEW b \in DOMAIN boms, NEW qty \in scene.makes,
              NEW l \in {jobs[j].place} \cup Targets, BeginUpdateJob(k, j, b, l, qty)
       PROVE  FactoryTyped' /\ FactoryGrows
  <2> DEFINE put == [product |-> boms[b].product, bom |-> b, place |-> l, planned |-> qty]
  <2>1. /\ Writes(k, j, put, <<>>, NoLines)
        /\ IF l = jobs[j].place THEN UNCHANGED places ELSE EnsureDefault
    BY <1>12 DEF BeginUpdateJob
  <2>2. places' \in Seq(PlaceRow) /\ DOMAIN places \subseteq DOMAIN places' /\ l \in DOMAIN places'
    <3>1. CASE l = jobs[j].place
      BY <1>0, <2>1, <3>1
    <3>2. CASE l # jobs[j].place
      BY <1>0, <2>1, <3>2, Ensured
    <3> QED
      BY <3>1, <3>2
  <2>3. FactoryGrows /\ boms' = boms
    BY <1>0, <2>1, <2>2 DEF FactoryGrows, Writes
  <2>4. put \in JobPuts'
    <3>1. boms[b].product \in Products /\ qty \in Nat
      BY <1>0, <1>00, FactoryInputs DEF Bom
    <3> QED
      BY <2>2, <2>3, <3>1 DEF JobPuts
  <2> HIDE DEF put
  <2> QED
    BY <1>11, <2>1, <2>2, <2>3, <2>4, JobWrites
<1>13. ASSUME NEW k \in Desks, NEW j \in DOMAIN jobs, NEW put \in JobPuts, NEW posts \in Seq(MoveRow), NEW lines \in [Raws -> Nat],
              \A i \in DOMAIN posts : posts[i].place \in DOMAIN places,
              Writes(k, j, put, posts, lines), UNCHANGED places
       PROVE  FactoryTyped' /\ FactoryGrows
  <2>1. FactoryGrows
    BY <1>0, <1>13 DEF FactoryGrows, Writes
  <2>2. put \in JobPuts'
    BY <2>1, JobPutsGrow
  <2> QED
    BY <1>0, <1>13, <2>1, <2>2, JobWrites
<1>14. ASSUME NEW k \in Desks, NEW j \in DOMAIN jobs, BeginPlan(k, j) PROVE FactoryTyped' /\ FactoryGrows
  <2>1. PICK b \in ActiveBomFor(jobs[j].product, jobs[j].bom) :
            Writes(k, j, [status |-> "PLANNED", bom |-> b], <<>>, NoLines)
    BY <1>14 DEF BeginPlan
  <2>2. b \in DOMAIN boms
    BY <1>0, <2>1 DEF ActiveBomFor, ActiveBoms, BomsOf
  <2>3. [status |-> "PLANNED", bom |-> b] \in JobPuts
    BY <2>2 DEF JobPuts
  <2> QED
    BY <1>11, <1>13, <1>14, <2>1, <2>3 DEF BeginPlan
<1>15. ASSUME NEW k \in Desks, NEW j \in DOMAIN jobs, BeginStart(k, j) \/ BeginCancel(k, j)
       PROVE  FactoryTyped' /\ FactoryGrows
  <2>1. [status |-> "IN_PROGRESS"] \in JobPuts /\ [status |-> "CANCELLED"] \in JobPuts
    BY DEF JobPuts
  <2> QED
    BY <1>11, <1>13, <1>15, <2>1 DEF BeginStart, BeginCancel
<1>16. ASSUME NEW k \in Desks, NEW j \in DOMAIN jobs, NEW qty \in scene.makes, BeginComplete(k, j, qty)
       PROVE  FactoryTyped' /\ FactoryGrows
  <2>0. qty \in Nat
    BY <1>0, FactoryInputs
  <2>1. /\ Writes(k, j, [status |-> "COMPLETED", actual |-> qty], JobPosts(j, qty), Consumes(j, qty))
        /\ UNCHANGED places
    BY <1>16 DEF BeginComplete
  <2>2. [status |-> "COMPLETED", actual |-> qty] \in JobPuts
    BY <2>0 DEF JobPuts
  <2>3. JobPosts(j, qty) \in Seq(MoveRow)
    BY <1>0, <2>0, JobPostsAre
  <2>4. Consumes(j, qty) \in [Raws -> Nat]
    BY <1>0, <2>0, JobPostsAre
  <2>5. \A i \in DOMAIN JobPosts(j, qty) : JobPosts(j, qty)[i].place = jobs[j].place
    BY <1>0, <2>0, JobPostsAre
  <2>6. \A i \in DOMAIN JobPosts(j, qty) : JobPosts(j, qty)[i].place \in DOMAIN places
    BY <2>5 DEF FactoryTyped
  <2> QED
    BY <1>13, <2>1, <2>2, <2>3, <2>4, <2>6
<1>17. ASSUME NEW k \in Desks, CommitJob(k) PROVE FactoryTyped' /\ FactoryGrows
  <2> DEFINE f == desk[k]
             lines == [r \in Raws |-> jobs[f.job].lines[r] + f.lines[r]]
             new == [Patched(jobs[f.job], f.put) EXCEPT !.lines = lines]
  <2>1. JobFrame(f) /\ Ends(k) /\ places' = places /\ boms' = boms
    BY <1>0, <1>17 DEF CommitJob, Holds, FactoryFrame
  <2>2. /\ \/ jobs' = jobs /\ moves' = moves
           \/ jobs' = [jobs EXCEPT ![f.job] = new] /\ moves' = moves \o f.posts
    BY <1>17 DEF CommitJob, PostAll
  <2>3. f.job \in DOMAIN jobs /\ jobs[f.job] \in JobRow /\ f.put \in JobPuts /\ lines \in [Raws -> Nat]
    <3>1. f.job \in DOMAIN jobs /\ f.lines \in [Raws -> Nat] /\ f.put \in JobPuts
      BY <2>1 DEF JobFrame
    <3>2. jobs[f.job].lines \in [Raws -> Nat] /\ jobs[f.job] \in JobRow
      BY <1>00, <3>1 DEF JobRow
    <3> QED
      BY <3>1, <3>2
  <2>4. /\ new \in JobRow
        /\ new.bom = IF "bom" \in DOMAIN f.put THEN f.put.bom ELSE jobs[f.job].bom
        /\ new.place = IF "place" \in DOMAIN f.put THEN f.put.place ELSE jobs[f.job].place
    <3> HIDE DEF lines, f
    <3> QED
      BY <2>3, PatchedJob
  <2>5. new.bom \in DOMAIN boms /\ new.place \in DOMAIN places
    <3>1. /\ "bom" \in DOMAIN f.put => f.put.bom \in DOMAIN boms
          /\ "place" \in DOMAIN f.put => f.put.place \in DOMAIN places
      BY <2>3 DEF JobPuts
    <3> HIDE DEF new, f
    <3> QED
      BY <1>0, <2>3, <2>4, <3>1
  <2>6. /\ jobs' \in Seq(JobRow) /\ DOMAIN jobs' = DOMAIN jobs
        /\ \A j \in DOMAIN jobs' : jobs'[j].bom \in DOMAIN boms /\ jobs'[j].place \in DOMAIN places
    <3> HIDE DEF new, f
    <3>1. CASE jobs' = jobs
      BY <1>0, <3>1
    <3>2. CASE jobs' = [jobs EXCEPT ![f.job] = new]
      <4>1. /\ jobs' \in Seq(JobRow) /\ DOMAIN jobs' = DOMAIN jobs
            /\ \A j \in DOMAIN jobs : jobs'[j] = IF j = f.job THEN new ELSE jobs[j]
        BY <1>0, <2>3, <2>4, <3>2, PutRow
      <4> QED
        BY <1>0, <2>5, <4>1
    <3> QED
      BY <2>2, <3>1, <3>2
  <2>7. moves' \in Seq(MoveRow) /\ \A i \in DOMAIN moves' : moves'[i].place \in DOMAIN places
    <3>1. CASE moves' = moves
      BY <1>0, <3>1
    <3>2. CASE moves' = moves \o f.posts
      <4>1. f.posts \in Seq(MoveRow) /\ \A i \in DOMAIN f.posts : f.posts[i].place \in DOMAIN places
        BY <2>1 DEF JobFrame
      <4> HIDE DEF f
      <4>2. /\ moves' \in Seq(MoveRow) /\ Len(moves) \in Nat /\ Len(f.posts) \in Nat
            /\ DOMAIN moves = 1..Len(moves) /\ DOMAIN f.posts = 1..Len(f.posts)
            /\ DOMAIN moves' = 1..(Len(moves) + Len(f.posts))
            /\ \A n \in DOMAIN moves : moves'[n] = moves[n]
            /\ \A n \in DOMAIN f.posts : moves'[Len(moves) + n] = f.posts[n]
        BY <1>0, <3>2, <4>1, AddRows
      <4>3. \A i \in DOMAIN moves' : i \in DOMAIN moves \/ \E n \in DOMAIN f.posts : i = Len(moves) + n
        <5>1. \A i \in DOMAIN moves' : i \in DOMAIN moves \/ i - Len(moves) \in DOMAIN f.posts
          BY <4>2
        <5>2. \A i \in DOMAIN moves' : i \in Int /\ i = Len(moves) + (i - Len(moves))
          BY <4>2
        <5> QED
          BY <5>1, <5>2
      <4> QED
        BY <1>0, <4>1, <4>2, <4>3
    <3> QED
      BY <2>2, <3>1, <3>2
  <2>8. FactoryGrows
    BY <1>0, <2>1, <2>6 DEF FactoryGrows
  <2>9. desk'[k] = Idle /\ \A m \in Desks : m # k => desk'[m] = desk[m]
    BY <1>0, <2>1, EndsDesk
  <2>10. Idle.op \notin FactoryOps
    BY DEF Idle, FactoryOps
  <2> HIDE DEF f, new, lines
  <2> QED
    BY <1>0, <2>1, <2>6, <2>7, <2>8, <2>9, <2>10, FactoryWrites
<1> QED
  BY <1>1, <1>2, <1>3, <1>4, <1>5, <1>6, <1>7, <1>8, <1>9, <1>10, <1>12, <1>14, <1>15, <1>16, <1>17
     DEF FactoryStep, PostOpening, PostAdjustment

LEMMA FactoryTypedAlways == Spec => []FactoryTyped
<1>1. ASSUME Orderly, FactoryTyped, [Next]_vars PROVE FactoryTyped'
  <2>1. ASSUME FactoryStep, Own(FactoryOps) PROVE FactoryTyped'
    BY <1>1, <2>1, FactoryTypedStep
  <2>2. ASSUME UNCHANGED factoryVars, scene' = scene, NEW ops, Own(ops), ops \cap FactoryOps = {} PROVE FactoryTyped'
    <3>1. FactoryGrows
      BY <2>2 DEF FactoryGrows, factoryVars
    <3>2. \A m \in Desks : desk'[m] = desk[m] \/ desk'[m].op \notin FactoryOps
      BY <2>2 DEF Own, FactoryOps
    <3> QED
      BY <1>1, <2>2, <3>1, <3>2, FactoryWrites DEF FactoryTyped, factoryVars
  <2>3. ASSUME UNCHANGED vars PROVE FactoryTyped'
    <3>1. FactoryGrows /\ UNCHANGED factoryVars /\ desk' = desk
      BY <2>3 DEF FactoryGrows, factoryVars, vars, requestVars
    <3> QED
      BY <1>1, <3>1, FactoryWrites DEF FactoryTyped, factoryVars
  <2>4. FileOps \cap FactoryOps = {} /\ CashOps \cap FactoryOps = {} /\ CatalogOps \cap FactoryOps = {} /\ {} \cap FactoryOps = {}
    BY DEF FileOps, CashOps, CatalogOps, FactoryOps
  <2>5. CASE Next
    <3>1. scene' = scene
      BY <1>1, <2>5, StepOrderly
    <3>2. \/ FactoryStep /\ Own(FactoryOps)
          \/ \E ops \in {FileOps, CashOps, CatalogOps, {}} : Own(ops) /\ UNCHANGED factoryVars
      BY <1>1, <2>5, StepOrderly
    <3> QED
      BY <2>1, <2>2, <2>4, <3>1, <3>2
  <2> QED
    BY <1>1, <2>3, <2>5
<1>2. Init => FactoryTyped
  BY StartsFactoryTyped
<1> QED
  BY <1>1, <1>2, OrderlyAlways, PTL DEF Spec

-----------------------------------------------------------------------------
(* Bills of material.  Between the reading and the writing of a request on *)
(* the bills of a product nothing changes them, or the product is crossed. *)
BomsRow(p) == <<"boms", p>>
Distinct(a, b) == boms[a].version # boms[b].version /\ ~(boms[a].active /\ boms[b].active)

RecipeFrame(f) ==
    /\ f.op = "newBom" /\ Apart(BomsRow(f.product)) =>
           \A b \in DOMAIN boms : boms[b].product = f.product => boms[b].version < f.version
    /\ f.op = "bom" /\ Apart(BomsRow(boms[f.bom].product)) =>
           ("active" \in DOMAIN f.put /\ f.put.active /\ ~f.retires => boms[f.bom].active)
    /\ f.op = "job" /\ "product" \in DOMAIN f.put => boms[f.put.bom].product = f.put.product
    /\ f.op = "job" /\ Apart(Job(f.job)) =>
           ("bom" \in DOMAIN f.put /\ "product" \notin DOMAIN f.put => boms[f.put.bom].product = jobs[f.job].product)

Recipes ==
    /\ \A a, b \in DOMAIN boms :
           a # b /\ boms[a].product = boms[b].product /\ Apart(BomsRow(boms[a].product)) => Distinct(a, b)
    /\ \A j \in DOMAIN jobs : Apart(Job(j)) => boms[jobs[j].bom].product = jobs[j].product
    /\ \A k \in Desks : RecipeFrame(desk[k])

LEMMA StartsRecipes == Init => Recipes
<1> SUFFICES ASSUME Init PROVE Recipes
  OBVIOUS
<1>1. scene \in Scenes /\ desk = [k \in Desks |-> Idle] /\ boms = scene.bills /\ jobs = <<>>
  BY DEF Init
<1>2. OneBillEach(boms)
  BY <1>1, OfficeAssumption DEF Starting
<1>3. \A a, b \in DOMAIN boms : a # b /\ boms[a].product = boms[b].product => Distinct(a, b)
  BY <1>2 DEF OneBillEach, Distinct
<1>4. \A k \in Desks : RecipeFrame(desk[k])
  BY <1>1 DEF RecipeFrame, Idle
<1>5. DOMAIN jobs = {}
  BY <1>1
<1> QED
  BY <1>3, <1>4, <1>5 DEF Recipes

LEMMA RecipeFrameLasts ==
    ASSUME FactoryTyped, boms' = boms, jobs' = jobs, crossed \subseteq crossed',
           NEW m \in Desks, RecipeFrame(desk[m]), desk'[m] = desk[m]
    PROVE  RecipeFrame(desk[m])'
BY DEF RecipeFrame, Apart, Job, BomsRow

LEMMA RecipesLast ==
    ASSUME Recipes, FactoryTyped, boms' = boms, jobs' = jobs, crossed \subseteq crossed',
           \A m \in Desks : \/ desk'[m] = desk[m] \/ desk'[m].op \notin {"newBom", "bom", "job"}
                            \/ RecipeFrame(desk[m])'
    PROVE  Recipes'
<1>1. ASSUME NEW m \in Desks PROVE RecipeFrame(desk[m])'
  <2>1. CASE desk'[m].op \notin {"newBom", "bom", "job"}
    BY <2>1 DEF RecipeFrame
  <2>2. CASE desk'[m] = desk[m]
    BY <2>2, RecipeFrameLasts DEF Recipes
  <2> QED
    BY <2>1, <2>2
<1> QED
  BY <1>1 DEF Recipes, Distinct, Apart, Job, BomsRow

(* A write of the bills of one product: those of the others stay as they   *)
(* are, and no request on an uncrossed row is under way beside it.         *)
LEMMA BomWrites ==
    ASSUME Recipes, FactoryTyped, FactoryTyped', FactoryGrows, Exclusive, NEW k \in Desks, NEW p,
           desk[k].op \in {"newBom", "bom"}, BomsRow(p) \in desk[k].on, jobs' = jobs, crossed' = crossed,
           desk'[k] = Idle, \A m \in Desks : m # k => desk'[m] = desk[m],
           \A b \in DOMAIN boms' : boms'[b].product # p => b \in DOMAIN boms /\ boms'[b] = boms[b],
           Apart(BomsRow(p)) =>
               \A a, b \in DOMAIN boms' :
                   a # b /\ boms'[a].product = p /\ boms'[b].product = p => Distinct(a, b)'
    PROVE  Recipes'
<1>1. \A a, b \in DOMAIN boms' :
          a # b /\ boms'[a].product = boms'[b].product /\ Apart(BomsRow(boms'[a].product)) => Distinct(a, b)'
  <2> SUFFICES ASSUME NEW a \in DOMAIN boms', NEW b \in DOMAIN boms', a # b,
                      boms'[a].product = boms'[b].product, Apart(BomsRow(boms'[a].product))
               PROVE  Distinct(a, b)'
    OBVIOUS
  <2>1. CASE boms'[a].product = p
    BY <2>1
  <2>2. CASE boms'[a].product # p
    BY <2>2 DEF Recipes, Distinct
  <2> QED
    BY <2>1, <2>2
<1>2. ASSUME NEW j \in DOMAIN jobs, Apart(Job(j)) PROVE boms'[jobs[j].bom].product = jobs[j].product
  BY <1>2 DEF Recipes, FactoryTyped, FactoryGrows
<1>3. ASSUME NEW m \in Desks PROVE RecipeFrame(desk[m])'
  <2>1. CASE m = k
    <3>1. desk'[m].op = "none"
      BY <2>1 DEF Idle
    <3> QED
      BY <3>1 DEF RecipeFrame
  <2>2. CASE m # k
    <3>1. desk'[m] = desk[m] /\ FactoryFrame(desk[m]) /\ RecipeFrame(desk[m])
      BY <2>2 DEF FactoryTyped, Recipes
    <3>2. BomsRow(p) \in desk[m].on => ~Apart(BomsRow(p))
      BY <2>2 DEF Exclusive, Apart
    <3>3. ASSUME desk[m].op = "newBom", Apart(BomsRow(desk[m].product)), NEW b \in DOMAIN boms',
                 boms'[b].product = desk[m].product
          PROVE  boms'[b].version < desk[m].version
      <4>1. desk[m].on = {BomsRow(desk[m].product)}
        BY <3>1, <3>3 DEF FactoryFrame, NewBomFrame, BomsRow
      <4>2. desk[m].product # p
        BY <3>2, <3>3, <4>1
      <4>3. b \in DOMAIN boms /\ boms'[b] = boms[b]
        BY <3>3, <4>2
      <4> QED
        BY <3>1, <3>3, <4>3 DEF RecipeFrame
    <3>4. ASSUME desk[m].op = "bom", Apart(BomsRow(boms'[desk[m].bom].product)),
                 "active" \in DOMAIN desk[m].put, desk[m].put.active, ~desk[m].retires
          PROVE  boms'[desk[m].bom].active
      <4> DEFINE b == desk[m].bom
      <4>1. b \in DOMAIN boms /\ boms'[b].product = boms[b].product /\ desk[m].on = {BomsRow(boms[b].product)}
            /\ b \in DOMAIN boms'
        BY <3>1, <3>4 DEF FactoryFrame, BomFrame, BomsRow, FactoryGrows
      <4>2. boms[b].product # p
        BY <3>2, <3>4, <4>1
      <4>3. boms'[b] = boms[b]
        BY <4>1, <4>2
      <4>4. boms[b].active
        BY <3>1, <3>4, <4>3 DEF RecipeFrame
      <4> QED
        BY <4>3, <4>4
    <3>5. ASSUME desk[m].op = "job", "bom" \in DOMAIN desk[m].put
          PROVE  boms'[desk[m].put.bom].product = boms[desk[m].put.bom].product
      <4>1. desk[m].put \in JobPuts
        BY <3>1, <3>5 DEF FactoryFrame, JobFrame
      <4>2. desk[m].put.bom \in DOMAIN boms
        BY <3>5, <4>1 DEF JobPuts
      <4> QED
        BY <4>2 DEF FactoryGrows
    <3>6. desk[m].op = "job" /\ "product" \in DOMAIN desk[m].put => "bom" \in DOMAIN desk[m].put
      <4>1. ASSUME desk[m].op = "job", "product" \in DOMAIN desk[m].put PROVE "bom" \in DOMAIN desk[m].put
        <5>1. desk[m].put \in JobPuts
          BY <3>1, <4>1 DEF FactoryFrame, JobFrame
        <5> QED
          BY <4>1, <5>1 DEF JobPuts
      <4> QED
        BY <4>1
    <3>7. /\ desk[m].op = "newBom" /\ Apart(BomsRow(desk[m].product)) =>
                 \A b \in DOMAIN boms' : boms'[b].product = desk[m].product => boms'[b].version < desk[m].version
          /\ desk[m].op = "bom" /\ Apart(BomsRow(boms'[desk[m].bom].product)) =>
                 ("active" \in DOMAIN desk[m].put /\ desk[m].put.active /\ ~desk[m].retires
                  => boms'[desk[m].bom].active)
          /\ desk[m].op = "job" /\ "product" \in DOMAIN desk[m].put =>
                 boms'[desk[m].put.bom].product = desk[m].put.product
          /\ desk[m].op = "job" /\ Apart(Job(desk[m].job)) =>
                 ("bom" \in DOMAIN desk[m].put /\ "product" \notin DOMAIN desk[m].put
                  => boms'[desk[m].put.bom].product = jobs[desk[m].job].product)
      BY <3>1, <3>3, <3>4, <3>5, <3>6 DEF RecipeFrame
    <3> QED
      BY <3>1, <3>7 DEF RecipeFrame, Apart, Job, BomsRow
  <2> QED
    BY <2>1, <2>2
<1> QED
  BY <1>1, <1>2, <1>3 DEF Recipes, Distinct, Apart, Job, BomsRow

LEMMA RecipesStep ==
    ASSUME Orderly, Orderly', FactoryTyped, FactoryTyped', Recipes, FactoryStep, Own(FactoryOps)
    PROVE  Recipes'
<1>0. /\ boms \in Seq(Bom) /\ jobs \in Seq(JobRow) /\ \A j \in DOMAIN jobs : jobs[j].bom \in DOMAIN boms
      /\ \A k \in Desks : FactoryFrame(desk[k])
      /\ scene \in Scenes /\ Exclusive /\ crossed \subseteq crossed' /\ FactoryGrows
      /\ \A b \in DOMAIN boms : boms[b] \in Bom
      /\ \A j \in DOMAIN jobs : jobs[j] \in JobRow
  BY SeqDomain, FactoryTypedStep DEF FactoryTyped, Orderly, Exclusive, Own
<1>1. ASSUME UNCHANGED <<boms, jobs, desk>> PROVE Recipes'
  BY <1>0, <1>1, RecipesLast
<1>2. ASSUME UNCHANGED <<boms, jobs>>, NEW k \in Desks, NEW frame, Starts(k, frame),
             desk'[k] = frame /\ (frame.op \in {"newBom", "bom", "job"} => RecipeFrame(desk[k])')
      PROVE  Recipes'
  <2>1. \A m \in Desks : m # k => desk'[m] = desk[m]
    BY <1>0, <1>2, StartsDesk
  <2> QED
    BY <1>0, <1>2, <2>1, RecipesLast
<1>3. ASSUME UNCHANGED <<boms, jobs>>, NEW k \in Desks, Ends(k) PROVE Recipes'
  <2>1. desk'[k] = Idle /\ \A m \in Desks : m # k => desk'[m] = desk[m]
    BY <1>0, <1>3, EndsDesk
  <2>2. Idle.op \notin {"newBom", "bom", "job"}
    BY DEF Idle
  <2> QED
    BY <1>0, <1>3, <2>1, <2>2, RecipesLast
<1>4. ASSUME NEW k \in Desks, NEW per \in scene.recipes, NEW p \in Products \cap scene.goods, NEW active \in BOOLEAN,
             BeginCreateBom(k, p, per, active)
      PROVE  Recipes'
  <2> DEFINE version == Max({0} \cup {boms[b].version : b \in BomsOf(p)}) + 1
             frame == [op |-> "newBom", on |-> {<<"boms", p>>}, product |-> p, per |-> per, active |-> active,
                       version |-> version]
  <2>1. Starts(k, frame) /\ boms' = boms /\ jobs' = jobs
    BY <1>4 DEF BeginCreateBom, factoryVars
  <2>2. \A b \in BomsOf(p) : boms[b].version < version
    BY <1>0, NextVersion
  <2>3. desk'[k] = frame
    <3> HIDE DEF frame
    <3> QED
      BY <1>0, <2>1, StartsDesk
  <2>4. frame.op = "newBom" /\ frame.product = p /\ frame.version = version
    <3> HIDE DEF version
    <3> QED
      OBVIOUS
  <2>5. RecipeFrame(desk[k])'
    <3> HIDE DEF frame, version
    <3> QED
      BY <2>1, <2>2, <2>3, <2>4 DEF RecipeFrame, BomsOf
  <2> HIDE DEF frame
  <2> QED
    BY <1>2, <2>1, <2>3, <2>5
<1>5. ASSUME NEW k \in Desks, NEW per \in scene.recipes, NEW b \in DOMAIN boms,
             NEW put \in {[per |-> per]} \cup {[active |-> a] : a \in BOOLEAN}, BeginUpdateBom(k, b, put)
      PROVE  Recipes'
  <2> DEFINE retires == "active" \in DOMAIN put /\ put.active /\ ~boms[b].active
             frame == [op |-> "bom", on |-> {<<"boms", boms[b].product>>}, bom |-> b, put |-> put, retires |-> retires]
  <2>1. Starts(k, frame) /\ boms' = boms /\ jobs' = jobs
    BY <1>5 DEF BeginUpdateBom, factoryVars
  <2>2. desk'[k] = frame
    <3> HIDE DEF frame
    <3> QED
      BY <1>0, <2>1, StartsDesk
  <2>3. frame.op = "bom" /\ frame.bom = b /\ frame.put = put /\ frame.retires = retires
    <3> HIDE DEF retires
    <3> QED
      OBVIOUS
  <2>4. "active" \in DOMAIN put /\ put.active /\ ~retires => boms[b].active
    OBVIOUS
  <2>5. RecipeFrame(desk[k])'
    <3> HIDE DEF frame, retires
    <3> QED
      BY <2>1, <2>2, <2>3, <2>4 DEF RecipeFrame
  <2> HIDE DEF frame
  <2> QED
    BY <1>2, <2>1, <2>2, <2>5
<1>6. ASSUME NEW k \in Desks, CommitCreateBom(k) PROVE Recipes'
  <2> DEFINE f == desk[k]
             p == f.product
             row == [product |-> p, version |-> f.version, active |-> f.active, per |-> f.per]
             old == IF f.active THEN Retired(p, {}) ELSE boms
  <2>1. NewBomFrame(f) /\ f.op = "newBom" /\ RecipeFrame(f)
    BY <1>0, <1>6 DEF CommitCreateBom, Holds, FactoryFrame, Recipes
  <2>2. row \in Bom /\ row.product = p /\ row.version = f.version /\ row.active = f.active /\ f.version \in Nat
    BY <2>1 DEF NewBomFrame, Bom
  <2>3. boms' = Append(old, row) /\ Ends(k) /\ jobs' = jobs
    BY <1>6 DEF CommitCreateBom
  <2>4. /\ old \in Seq(Bom) /\ DOMAIN old = DOMAIN boms
        /\ \A b \in DOMAIN boms :
              /\ old[b].product = boms[b].product /\ old[b].version = boms[b].version
              /\ old[b].active => boms[b].active /\ (f.active => boms[b].product # p)
              /\ boms[b].product # p => old[b] = boms[b]
    <3> DEFINE without == Retired(p, {})
    <3>1. /\ without \in Seq(Bom) /\ DOMAIN without = DOMAIN boms
          /\ \A b \in DOMAIN boms :
                /\ without[b].product = boms[b].product /\ without[b].version = boms[b].version
                /\ without[b].active => boms[b].active /\ boms[b].product # p
      BY <1>0, RetiredBoms
    <3>2. \A b \in DOMAIN boms : boms[b].product # p => without[b] = boms[b]
      BY DEF Retired, BomsOf
    <3> HIDE DEF without
    <3> QED
      BY <1>0, <3>1, <3>2 DEF without
  <2>5. /\ DOMAIN boms' = DOMAIN boms \cup {Len(old) + 1} /\ boms'[Len(old) + 1] = row
        /\ \A b \in DOMAIN boms : boms'[b] = old[b]
    <3> HIDE DEF old, row
    <3> QED
      BY <2>2, <2>3, <2>4, Appended
  <2>6. desk'[k] = Idle /\ (\A m \in Desks : m # k => desk'[m] = desk[m]) /\ crossed' = crossed
    BY <1>0, <2>3, EndsDesk DEF Ends
  <2>7. BomsRow(p) \in f.on
    BY <2>1 DEF NewBomFrame, BomsRow
  <2>8. \A b \in DOMAIN boms' : boms'[b].product # p => b \in DOMAIN boms /\ boms'[b] = boms[b]
    <3> HIDE DEF old, row, p
    <3> QED
      BY <2>2, <2>4, <2>5
  <2>9. ASSUME Apart(BomsRow(p)), NEW a \in DOMAIN boms', NEW b \in DOMAIN boms',
               a # b, boms'[a].product = p, boms'[b].product = p
        PROVE  Distinct(a, b)'
    <3>1. \A c \in DOMAIN boms : boms[c].product = p => boms[c].version < f.version /\ boms[c].version \in Nat
      BY <1>0, <2>1, <2>9 DEF RecipeFrame, Bom
    <3>2. \A c, d \in DOMAIN boms : c # d /\ boms[c].product = p /\ boms[d].product = p => Distinct(c, d)
      BY <2>9 DEF Recipes
    <3> HIDE DEF old, row, p, f
    <3>3. \A c \in DOMAIN boms : boms'[c].product = p =>
              /\ boms[c].product = p /\ boms'[c].version = boms[c].version
              /\ boms'[c].active => boms[c].active /\ ~f.active
      BY <2>4, <2>5
    <3>4. CASE a \in DOMAIN boms /\ b \in DOMAIN boms
      BY <2>9, <3>2, <3>3, <3>4 DEF Distinct
    <3>5. CASE a = Len(old) + 1 /\ b \in DOMAIN boms
      BY <2>2, <2>5, <2>9, <3>1, <3>3, <3>5 DEF Distinct
    <3>6. CASE b = Len(old) + 1 /\ a \in DOMAIN boms
      BY <2>2, <2>5, <2>9, <3>1, <3>3, <3>6 DEF Distinct
    <3> QED
      BY <2>5, <2>9, <3>4, <3>5, <3>6
  <2> HIDE DEF old, row, p
  <2> QED
    BY <1>0, <2>1, <2>3, <2>6, <2>7, <2>8, <2>9, BomWrites
<1>7. ASSUME NEW k \in Desks, CommitUpdateBom(k) PROVE Recipes'
  <2> DEFINE f == desk[k]
             p == boms[f.bom].product
             others == IF f.retires THEN Retired(p, {f.bom}) ELSE boms
             new == Patched(others[f.bom], f.put)
  <2>1. BomFrame(f) /\ f.op = "bom" /\ RecipeFrame(f)
    BY <1>0, <1>7 DEF CommitUpdateBom, Holds, FactoryFrame, Recipes
  <2>2. /\ others \in Seq(Bom) /\ DOMAIN others = DOMAIN boms
        /\ \A b \in DOMAIN boms :
              /\ others[b].product = boms[b].product /\ others[b].version = boms[b].version
              /\ others[b].active => boms[b].active /\ (f.retires => boms[b].product # p \/ b = f.bom)
              /\ boms[b].product # p => others[b] = boms[b]
    <3> DEFINE without == Retired(p, {f.bom})
    <3>1. /\ without \in Seq(Bom) /\ DOMAIN without = DOMAIN boms
          /\ \A b \in DOMAIN boms :
                /\ without[b].product = boms[b].product /\ without[b].version = boms[b].version
                /\ without[b].active => boms[b].active /\ (boms[b].product # p \/ b = f.bom)
      BY <1>0, RetiredBoms
    <3>2. \A b \in DOMAIN boms : boms[b].product # p => without[b] = boms[b]
      BY DEF Retired, BomsOf
    <3> HIDE DEF without
    <3> QED
      BY <1>0, <3>1, <3>2 DEF without
  <2>3. f.bom \in DOMAIN boms /\ others[f.bom] \in Bom /\ f.put \in BomPuts
    <3> HIDE DEF others
    <3> QED
      BY <2>1, <2>2, SeqDomain DEF BomFrame
  <2>4. /\ new \in Bom /\ new.product = others[f.bom].product /\ new.version = others[f.bom].version
        /\ new.active = IF "active" \in DOMAIN f.put THEN f.put.active ELSE others[f.bom].active
    <3> HIDE DEF others
    <3> QED
      BY <2>3, PatchedBom
  <2>5. boms' = [others EXCEPT ![f.bom] = new] /\ Ends(k) /\ jobs' = jobs
    BY <1>7 DEF CommitUpdateBom
  <2>6. DOMAIN boms' = DOMAIN boms /\ \A b \in DOMAIN boms : boms'[b] = IF b = f.bom THEN new ELSE others[b]
    <3> HIDE DEF others, new, f
    <3> QED
      BY <2>2, <2>3, <2>4, <2>5, PutRow
  <2>7. desk'[k] = Idle /\ (\A m \in Desks : m # k => desk'[m] = desk[m]) /\ crossed' = crossed
    BY <1>0, <2>5, EndsDesk DEF Ends
  <2>8. BomsRow(p) \in f.on
    BY <2>1 DEF BomFrame, BomsRow
  <2>9. \A b \in DOMAIN boms' : boms'[b].product # p => b \in DOMAIN boms /\ boms'[b] = boms[b]
    <3>1. boms[f.bom].product = p
      OBVIOUS
    <3> HIDE DEF others, new, p, f
    <3> QED
      BY <2>2, <2>3, <2>4, <2>6, <3>1
  <2>10. ASSUME Apart(BomsRow(p)), NEW a \in DOMAIN boms', NEW b \in DOMAIN boms',
                a # b, boms'[a].product = p, boms'[b].product = p
         PROVE  Distinct(a, b)'
    <3>1. "active" \in DOMAIN f.put /\ f.put.active /\ ~f.retires => boms[f.bom].active
      BY <2>1, <2>10 DEF RecipeFrame
    <3>2. \A c, d \in DOMAIN boms : c # d /\ boms[c].product = p /\ boms[d].product = p => Distinct(c, d)
      BY <2>10 DEF Recipes
    <3>3. boms[f.bom].product = p
      OBVIOUS
    <3> HIDE DEF others, new, p, f
    <3>4. /\ boms'[f.bom].version = boms[f.bom].version
          /\ boms'[f.bom].active /\ ~f.retires => boms[f.bom].active
      BY <2>2, <2>3, <2>4, <2>6, <3>1
    <3>5. \A c \in DOMAIN boms : c # f.bom /\ boms'[c].product = p =>
              /\ boms[c].product = p /\ boms'[c].version = boms[c].version
              /\ boms'[c].active => boms[c].active /\ ~f.retires
      BY <2>2, <2>6
    <3>6. CASE a # f.bom /\ b # f.bom
      BY <2>6, <2>10, <3>2, <3>5, <3>6 DEF Distinct
    <3>7. CASE a = f.bom
      <4>1. Distinct(f.bom, b) /\ b # f.bom
        BY <2>3, <2>6, <2>10, <3>2, <3>3, <3>5, <3>7
      <4> QED
        BY <2>6, <2>10, <3>4, <3>5, <3>7, <4>1 DEF Distinct
    <3>8. CASE b = f.bom
      <4>1. Distinct(a, f.bom) /\ a # f.bom
        BY <2>3, <2>6, <2>10, <3>2, <3>3, <3>5, <3>8
      <4> QED
        BY <2>6, <2>10, <3>4, <3>5, <3>8, <4>1 DEF Distinct
    <3> QED
      BY <3>6, <3>7, <3>8
  <2> HIDE DEF others, new, p
  <2> QED
    BY <1>0, <2>1, <2>5, <2>7, <2>8, <2>9, <2>10, BomWrites
<1>8. ASSUME UNCHANGED boms, NEW k \in Desks, NEW j \in DOMAIN jobs, NEW put, NEW posts, NEW lines,
             Writes(k, j, put, posts, lines),
             "product" \in DOMAIN put => boms[put.bom].product = put.product,
             Apart(Job(j)) /\ "bom" \in DOMAIN put /\ "product" \notin DOMAIN put => boms[put.bom].product = jobs[j].product
      PROVE  Recipes'
  <2> DEFINE frame == [op |-> "job", on |-> {Job(j)}, job |-> j, put |-> put, posts |-> posts, lines |-> lines]
  <2>1. Starts(k, frame) /\ jobs' = jobs /\ boms' = boms
    BY <1>8 DEF Writes
  <2>2. desk'[k] = frame
    <3> HIDE DEF frame
    <3> QED
      BY <1>0, <2>1, StartsDesk
  <2>3. frame.op = "job" /\ frame.job = j /\ frame.put = put
    OBVIOUS
  <2>4. RecipeFrame(desk[k])'
    <3> HIDE DEF frame
    <3> QED
      BY <1>0, <1>8, <2>1, <2>2, <2>3 DEF RecipeFrame, Apart, Job
  <2> HIDE DEF frame
  <2> QED
    BY <1>2, <2>1, <2>2, <2>4
<1>9. ASSUME NEW k \in Desks, NEW j \in DOMAIN jobs, NEW b \in DOMAIN boms, NEW l, NEW qty,
             BeginUpdateJob(k, j, b, l, qty)
      PROVE  Recipes'
  <2> DEFINE put == [product |-> boms[b].product, bom |-> b, place |-> l, planned |-> qty]
  <2>1. Writes(k, j, put, <<>>, NoLines) /\ boms' = boms
    BY <1>9 DEF BeginUpdateJob, Writes
  <2>2. "product" \in DOMAIN put /\ boms[put.bom].product = put.product
    OBVIOUS
  <2> HIDE DEF put
  <2> QED
    BY <1>8, <2>1, <2>2
<1>10. ASSUME NEW k \in Desks, NEW j \in DOMAIN jobs, BeginPlan(k, j) PROVE Recipes'
  <2>1. PICK b \in ActiveBomFor(jobs[j].product, jobs[j].bom) :
            Writes(k, j, [status |-> "PLANNED", bom |-> b], <<>>, NoLines)
    BY <1>10 DEF BeginPlan
  <2>2. Apart(Job(j)) => boms[b].product = jobs[j].product
    BY <2>1 DEF ActiveBomFor, ActiveBoms, BomsOf, Recipes
  <2> DEFINE put == [status |-> "PLANNED", bom |-> b]
  <2>3. "product" \notin DOMAIN put /\ put.bom = b /\ boms' = boms
    BY <2>1 DEF Writes
  <2> HIDE DEF put
  <2> QED
    BY <1>8, <2>1, <2>2, <2>3 DEF put
<1>11. ASSUME NEW k \in Desks, NEW j \in DOMAIN jobs, NEW put, NEW posts, NEW lines, Writes(k, j, put, posts, lines),
              "product" \notin DOMAIN put, "bom" \notin DOMAIN put
       PROVE  Recipes'
  BY <1>8, <1>11 DEF Writes
<1>12. ASSUME NEW k \in Desks, NEW j \in DOMAIN jobs, NEW qty,
              BeginStart(k, j) \/ BeginCancel(k, j) \/ BeginComplete(k, j, qty)
       PROVE  Recipes'
  <2>1. ASSUME NEW s PROVE "product" \notin DOMAIN [status |-> s] /\ "bom" \notin DOMAIN [status |-> s]
    OBVIOUS
  <2>2. "product" \notin DOMAIN [status |-> "COMPLETED", actual |-> qty]
        /\ "bom" \notin DOMAIN [status |-> "COMPLETED", actual |-> qty]
    OBVIOUS
  <2> QED
    BY <1>11, <1>12, <2>1, <2>2 DEF BeginStart, BeginCancel, BeginComplete
<1>13. ASSUME NEW b \in DOMAIN boms, NEW l, NEW qty, CreateJob(b, l, qty) PROVE Recipes'
  <2> DEFINE row == [product |-> boms[b].product, bom |-> b, place |-> l, planned |-> qty,
                     actual |-> 0, status |-> "DRAFT", lines |-> [r \in Raws |-> 0]]
  <2>1. UNCHANGED requestVars /\ boms' = boms /\ jobs' = Append(jobs, row)
    BY <1>13 DEF CreateJob
  <2>2. row.bom = b /\ row.product = boms[b].product
    OBVIOUS
  <2>3. Len(jobs') = Len(jobs) + 1 /\ jobs' \in Seq(JobRow) /\ Len(jobs) \in Nat
    <3> HIDE DEF row
    <3>1. jobs' \in Seq(JobRow)
      BY DEF FactoryTyped, JobRow
    <3> QED
      BY <1>0, <2>1, <3>1
  <2>4. /\ DOMAIN jobs' = DOMAIN jobs \cup {Len(jobs) + 1}
        /\ jobs'[Len(jobs) + 1] = row /\ \A j \in DOMAIN jobs : jobs'[j] = jobs[j]
    <3> HIDE DEF row
    <3> QED
      BY <1>0, <2>1, <2>3
  <2>5. \A j \in DOMAIN jobs' : Apart(Job(j)) => boms[jobs'[j].bom].product = jobs'[j].product
    <3> HIDE DEF row
    <3> QED
      BY <2>2, <2>4 DEF Recipes
  <2>6. \A m \in Desks : RecipeFrame(desk[m])'
    <3>1. ASSUME NEW m \in Desks PROVE RecipeFrame(desk[m])'
      <4>1. RecipeFrame(desk[m]) /\ FactoryFrame(desk[m]) /\ desk'[m] = desk[m] /\ crossed' = crossed
        BY <1>0, <2>1 DEF Recipes, requestVars
      <4>2. desk[m].op = "job" => jobs'[desk[m].job] = jobs[desk[m].job]
        BY <2>4, <4>1 DEF FactoryFrame, JobFrame
      <4> HIDE DEF row
      <4> QED
        BY <2>1, <4>1, <4>2 DEF RecipeFrame, Apart, Job, BomsRow
    <3> QED
      BY <3>1
  <2> HIDE DEF row
  <2> QED
    BY <2>1, <2>5, <2>6 DEF Recipes, Distinct, Apart, BomsRow, Job, requestVars
<1>14. ASSUME NEW k \in Desks, CommitJob(k) PROVE Recipes'
  <2> DEFINE f == desk[k]
             lines == [r \in Raws |-> jobs[f.job].lines[r] + f.lines[r]]
             new == [Patched(jobs[f.job], f.put) EXCEPT !.lines = lines]
  <2>1. JobFrame(f) /\ Ends(k) /\ boms' = boms /\ f.op = "job" /\ RecipeFrame(f)
    BY <1>0, <1>14 DEF CommitJob, Holds, FactoryFrame, Recipes
  <2>2. jobs' = jobs \/ jobs' = [jobs EXCEPT ![f.job] = new]
    BY <1>14 DEF CommitJob
  <2>3. f.job \in DOMAIN jobs /\ jobs[f.job] \in JobRow /\ f.put \in JobPuts /\ lines \in [Raws -> Nat]
        /\ f.on = {Job(f.job)}
    <3>1. f.job \in DOMAIN jobs /\ f.lines \in [Raws -> Nat] /\ f.put \in JobPuts /\ f.on = {Job(f.job)}
      BY <2>1 DEF JobFrame
    <3>2. jobs[f.job].lines \in [Raws -> Nat] /\ jobs[f.job] \in JobRow
      BY <1>0, <3>1 DEF JobRow
    <3> QED
      BY <3>1, <3>2
  <2>4. /\ new \in JobRow
        /\ new.product = IF "product" \in DOMAIN f.put THEN f.put.product ELSE jobs[f.job].product
        /\ new.bom = IF "bom" \in DOMAIN f.put THEN f.put.bom ELSE jobs[f.job].bom
    <3> HIDE DEF lines, f
    <3> QED
      BY <2>3, PatchedJob
  <2>5. CASE jobs' = jobs
    BY <1>3, <2>1, <2>5
  <2>6. CASE jobs' = [jobs EXCEPT ![f.job] = new]
    <3>1. /\ DOMAIN jobs' = DOMAIN jobs
          /\ \A j \in DOMAIN jobs : jobs'[j] = IF j = f.job THEN new ELSE jobs[j]
      <4> HIDE DEF new, f
      <4> QED
        BY <1>0, <2>3, <2>4, <2>6, PutRow
    <3>2. Apart(Job(f.job)) => boms[new.bom].product = new.product
      <4>1. Apart(Job(f.job)) => boms[jobs[f.job].bom].product = jobs[f.job].product
        BY <2>3 DEF Recipes
      <4>2. "product" \in DOMAIN f.put => "bom" \in DOMAIN f.put
        BY <2>3 DEF JobPuts
      <4> HIDE DEF new, f
      <4> QED
        BY <2>1, <2>4, <4>1, <4>2 DEF RecipeFrame
    <3>3. desk'[k] = Idle /\ (\A m \in Desks : m # k => desk'[m] = desk[m]) /\ crossed' = crossed
      BY <1>0, <2>1, EndsDesk DEF Ends
    <3>4. ASSUME NEW m \in Desks PROVE RecipeFrame(desk[m])'
      <4>1. CASE m = k
        <5>1. desk'[m].op = "none"
          BY <3>3, <4>1 DEF Idle
        <5> QED
          BY <5>1 DEF RecipeFrame
      <4>2. CASE m # k
        <5>1. RecipeFrame(desk[m]) /\ FactoryFrame(desk[m]) /\ desk'[m] = desk[m]
          BY <1>0, <3>3, <4>2 DEF Recipes
        <5>2. desk[m].op = "job" /\ Apart(Job(desk[m].job)) => jobs'[desk[m].job] = jobs[desk[m].job]
          <6> SUFFICES ASSUME desk[m].op = "job", Apart(Job(desk[m].job))
                       PROVE  jobs'[desk[m].job] = jobs[desk[m].job]
            OBVIOUS
          <6>1. desk[m].on = {Job(desk[m].job)} /\ desk[m].job \in DOMAIN jobs
            BY <5>1 DEF FactoryFrame, JobFrame
          <6>2. desk[m].job # f.job
            BY <1>0, <2>3, <4>2, <6>1 DEF Exclusive, Apart
          <6> QED
            BY <3>1, <6>1, <6>2
        <5> HIDE DEF new, f
        <5> QED
          BY <2>1, <3>3, <5>1, <5>2 DEF RecipeFrame, Apart, Job, BomsRow
      <4> QED
        BY <4>1, <4>2
    <3>5. \A j \in DOMAIN jobs' : Apart(Job(j)) => boms[jobs'[j].bom].product = jobs'[j].product
      <4> HIDE DEF new, f
      <4> QED
        BY <3>1, <3>2 DEF Recipes
    <3> HIDE DEF new, f
    <3> QED
      BY <2>1, <3>3, <3>4, <3>5 DEF Recipes, Distinct, Apart, BomsRow, Job
  <2> QED
    BY <2>2, <2>5, <2>6
<1>15. ASSUME NEW name, CreateLocation(name) PROVE Recipes'
  BY <1>1, <1>15 DEF CreateLocation, requestVars
<1>16. ASSUME NEW k \in Desks, NEW l, NEW put, BeginUpdateLocation(k, l, put) PROVE Recipes'
  <2> DEFINE frame == [op |-> "location", on |-> {<<"place", l>>}, place |-> l, put |-> put]
  <2>1. Starts(k, frame) /\ boms' = boms /\ jobs' = jobs
    BY <1>16 DEF BeginUpdateLocation, factoryVars
  <2>2. frame.op = "location"
    OBVIOUS
  <2>3. desk'[k] = frame
    <3> HIDE DEF frame
    <3> QED
      BY <1>0, <2>1, StartsDesk
  <2> HIDE DEF frame
  <2> QED
    BY <1>2, <2>1, <2>2, <2>3
<1>17. ASSUME NEW k \in Desks, CommitUpdateLocation(k) PROVE Recipes'
  BY <1>3, <1>17 DEF CommitUpdateLocation
<1>18. ASSUME NEW l, NEW qty, NEW item, PostOpening(l, item, qty) \/ PostAdjustment(l, item, qty) PROVE Recipes'
  BY <1>1, <1>18 DEF PostOpening, PostAdjustment, Post, requestVars
<1>19. ASSUME NEW from, NEW to, NEW p, NEW qty, PostTransfer(from, to, p, qty) PROVE Recipes'
  BY <1>1, <1>19 DEF PostTransfer, requestVars
<1> QED
  BY <1>4, <1>5, <1>6, <1>7, <1>9, <1>10, <1>12, <1>13, <1>14, <1>15, <1>16, <1>17, <1>18, <1>19 DEF FactoryStep

LEMMA RecipesAlways == Spec => []Recipes
<1>1. ASSUME Orderly, Orderly', FactoryTyped, FactoryTyped', Recipes, [Next]_vars PROVE Recipes'
  <2>1. ASSUME FactoryStep, Own(FactoryOps) PROVE Recipes'
    BY <1>1, <2>1, RecipesStep
  <2>2. ASSUME UNCHANGED factoryVars, crossed \subseteq crossed',
               \A m \in Desks : desk'[m] = desk[m] \/ desk'[m].op \notin FactoryOps
        PROVE  Recipes'
    BY <1>1, <2>2, RecipesLast DEF factoryVars, FactoryOps
  <2>3. CASE UNCHANGED vars
    BY <2>2, <2>3 DEF vars, requestVars
  <2>4. CASE Next
    <3>1. ASSUME NEW ops \in {FileOps, CashOps, CatalogOps, {}}, Own(ops)
          PROVE  \A m \in Desks : desk'[m] = desk[m] \/ desk'[m].op \notin FactoryOps
      BY <3>1 DEF Own, FileOps, CashOps, CatalogOps, FactoryOps
    <3>2. /\ crossed \subseteq crossed'
          /\ \/ FactoryStep /\ Own(FactoryOps)
             \/ \E ops \in {FileOps, CashOps, CatalogOps, {}} : Own(ops) /\ UNCHANGED factoryVars
      BY <1>1, <2>4, StepOrderly
    <3> QED
      BY <2>1, <2>2, <3>1, <3>2
  <2> QED
    BY <1>1, <2>3, <2>4
<1>2. Init => Recipes
  BY StartsRecipes
<1> QED
  BY <1>1, <1>2, OrderlyAlways, FactoryTypedAlways, PTL DEF Spec

(* A set of at most one element. *)
LEMMA AtMostOne ==
    ASSUME NEW S, \A x, y \in S : x = y
    PROVE  Cardinality(S) <= 1 /\ Cardinality(S) \in Nat /\ IsFiniteSet(S)
<1>1. CASE S = {}
  BY <1>1, FS_EmptySet
<1>2. CASE S # {}
  <2>1. PICK x \in S : TRUE
    BY <1>2
  <2>2. S = {x}
    BY <2>1
  <2> QED
    BY <2>2, FS_Singleton
<1> QED
  BY <1>1, <1>2

(* The bills of material stand: of a product whose bills no two requests   *)
(* handled at once, one bill at most is active and no version is there     *)
(* twice, and an order makes the product of its bill (bom.service.ts,      *)
(* production.service.ts).                                                 *)
THEOREM BillsStand == Spec => []BomsStand
<1>1. ASSUME FactoryTyped, Recipes PROVE BomsStand
  <2>1. ASSUME NEW p \in Products, Apart(<<"boms", p>>)
        PROVE  /\ Cardinality(ActiveBoms(p)) <= 1
               /\ \A a, b \in BomsOf(p) : boms[a].version = boms[b].version => a = b
    <3>1. \A a, b \in BomsOf(p) : a # b => Distinct(a, b)
      BY <1>1, <2>1 DEF Recipes, BomsRow, BomsOf
    <3>2. \A a, b \in ActiveBoms(p) : a = b
      BY <3>1 DEF ActiveBoms, Distinct
    <3> QED
      BY <3>1, <3>2, AtMostOne DEF Distinct
  <2> QED
    BY <1>1, <2>1 DEF BomsStand, Recipes
<1> QED
  BY <1>1, FactoryTypedAlways, RecipesAlways, PTL

-----------------------------------------------------------------------------
(* The stock of a place is what was moved there.                           *)
Here(c) == [m \in MoveRow |-> IF Cell(m) = c THEN m.qty ELSE 0]
OfJob(j, item) == [m \in MoveRow |-> IF m.job = j /\ m.item = item THEN m.qty ELSE 0]

StockIs(table, rows) ==
    /\ \A c \in DOMAIN table : table[c] \in Nat /\ table[c] = Worth(rows, Here(c))
    /\ \A i \in DOMAIN rows : Cell(rows[i]) \in DOMAIN table
    /\ \A c \in DOMAIN table : \E i \in DOMAIN rows : Cell(rows[i]) = c
Stocked == StockIs(stock, moves)

Scattered(posts) == \A i, m \in DOMAIN posts : Cell(posts[i]) = Cell(posts[m]) => i = m

(* The stock after postings that it suffices for. *)
Covers(table, posts, new) ==
    /\ \A c : c \in DOMAIN new <=> c \in DOMAIN table \/ \E i \in DOMAIN posts : Cell(posts[i]) = c
    /\ \A i \in DOMAIN posts : LET c == Cell(posts[i]) IN
           new[c] = (IF c \in DOMAIN table THEN table[c] ELSE 0) + posts[i].qty /\ new[c] >= 0
    /\ \A c \in DOMAIN table : (\A i \in DOMAIN posts : Cell(posts[i]) # c) => new[c] = table[c]

LEMMA MoveWeights ==
    /\ \A c : Here(c) \in [MoveRow -> Int]
    /\ \A j, item : OfJob(j, item) \in [MoveRow -> Int]
<1>1. \A m \in MoveRow : m.qty \in Int
  BY DEF MoveRow
<1> QED
  BY <1>1 DEF Here, OfJob

LEMMA PostsStocked ==
    ASSUME NEW table, NEW rows \in Seq(MoveRow), NEW posts \in Seq(MoveRow), NEW new, NEW after,
           StockIs(table, rows), Scattered(posts), Covers(table, posts, new), after = rows \o posts
    PROVE  StockIs(new, after)
<1>1. /\ \A i \in DOMAIN posts : posts[i] \in MoveRow /\ posts[i].qty \in Int
      /\ \A i \in DOMAIN rows : rows[i] \in MoveRow
  <2>1. \A m \in MoveRow : m.qty \in Int
    BY DEF MoveRow
  <2> QED
    BY <2>1, SeqDomain
<1>2. ASSUME NEW c
      PROVE  /\ Worth(after, Here(c)) = Worth(rows, Here(c)) + Worth(posts, Here(c))
             /\ Worth(rows, Here(c)) \in Int /\ Worth(posts, Here(c)) \in Int
  <2>1. Joins(MoveRow, Here(c), rows, posts, after)
    BY MoveWeights DEF Joins
  <2> QED
    BY <2>1, WorthJoin
<1>3. \A c : \A m \in MoveRow : Here(c)[m] = IF Cell(m) = c THEN m.qty ELSE 0
  BY DEF Here
<1>4. ASSUME NEW c, c \notin DOMAIN table PROVE Worth(rows, Here(c)) = 0
  <2> DEFINE w == Here(c)
  <2>1. \A i \in DOMAIN rows : w[rows[i]] = 0
    BY <1>1, <1>3, <1>4 DEF StockIs
  <2> HIDE DEF w
  <2>2. Worth(rows, w) = 0
    BY <2>1, WorthZero
  <2> QED
    BY <2>2 DEF w
<1>5. ASSUME NEW i \in DOMAIN posts PROVE Worth(posts, Here(Cell(posts[i]))) = posts[i].qty
  <2> DEFINE w == Here(Cell(posts[i]))
  <2>1. /\ \A m \in DOMAIN posts : m # i => w[posts[m]] = 0
        /\ w[posts[i]] = posts[i].qty /\ w \in [MoveRow -> Int]
    BY <1>1, <1>3, MoveWeights DEF Scattered
  <2> HIDE DEF w
  <2>2. Worth(posts, w) = w[posts[i]]
    BY <2>1, WorthOne
  <2> QED
    BY <2>1, <2>2 DEF w
<1>6. ASSUME NEW c, \A i \in DOMAIN posts : Cell(posts[i]) # c PROVE Worth(posts, Here(c)) = 0
  <2> DEFINE w == Here(c)
  <2>1. \A i \in DOMAIN posts : w[posts[i]] = 0
    BY <1>1, <1>3, <1>6
  <2> HIDE DEF w
  <2>2. Worth(posts, w) = 0
    BY <2>1, WorthZero
  <2> QED
    BY <2>2 DEF w
<1>7. ASSUME NEW c \in DOMAIN new PROVE new[c] \in Nat /\ new[c] = Worth(after, Here(c))
  <2>0. /\ c \in DOMAIN table => table[c] \in Nat /\ table[c] = Worth(rows, Here(c))
        /\ c \notin DOMAIN table => Worth(rows, Here(c)) = 0
    BY <1>4 DEF StockIs
  <2>1. CASE \E i \in DOMAIN posts : Cell(posts[i]) = c
    <3>1. PICK i \in DOMAIN posts : Cell(posts[i]) = c
      BY <2>1
    <3>2. /\ new[c] = (IF c \in DOMAIN table THEN table[c] ELSE 0) + posts[i].qty /\ new[c] >= 0
          /\ Worth(posts, Here(c)) = posts[i].qty /\ posts[i].qty \in Int
      BY <1>1, <1>5, <3>1 DEF Covers
    <3> QED
      BY <1>2, <2>0, <3>2
  <2>2. CASE ~\E i \in DOMAIN posts : Cell(posts[i]) = c
    <3>1. c \in DOMAIN table /\ new[c] = table[c] /\ Worth(posts, Here(c)) = 0
      BY <1>6, <2>2 DEF Covers
    <3> QED
      BY <1>2, <2>0, <3>1
  <2> QED
    BY <2>1, <2>2
<1>8. ASSUME NEW i \in DOMAIN after PROVE Cell(after[i]) \in DOMAIN new
  <2>1. /\ Len(rows) \in Nat /\ Len(posts) \in Nat
        /\ DOMAIN rows = 1..Len(rows) /\ DOMAIN posts = 1..Len(posts)
        /\ DOMAIN after = 1..(Len(rows) + Len(posts))
        /\ \A n \in DOMAIN rows : after[n] = rows[n]
        /\ \A n \in DOMAIN posts : after[Len(rows) + n] = posts[n]
    BY AddRows
  <2>2. CASE i \in DOMAIN rows
    BY <2>1, <2>2 DEF StockIs, Covers
  <2>3. CASE i \notin DOMAIN rows
    <3>1. i - Len(rows) \in DOMAIN posts /\ i = Len(rows) + (i - Len(rows))
      BY <2>1, <2>3
    <3> QED
      BY <2>1, <3>1 DEF Covers
  <2> QED
    BY <2>2, <2>3
<1>9. ASSUME NEW c \in DOMAIN new PROVE \E i \in DOMAIN after : Cell(after[i]) = c
  <2>1. /\ Len(rows) \in Nat /\ Len(posts) \in Nat
        /\ DOMAIN rows = 1..Len(rows) /\ DOMAIN posts = 1..Len(posts)
        /\ DOMAIN after = 1..(Len(rows) + Len(posts))
        /\ \A n \in DOMAIN rows : after[n] = rows[n]
        /\ \A n \in DOMAIN posts : after[Len(rows) + n] = posts[n]
    BY AddRows
  <2>2. /\ \A n \in DOMAIN rows : n \in DOMAIN after
        /\ \A n \in DOMAIN posts : Len(rows) + n \in DOMAIN after
    BY <2>1
  <2>3. CASE c \in DOMAIN table
    BY <2>1, <2>2, <2>3 DEF StockIs
  <2>4. CASE c \notin DOMAIN table
    BY <2>1, <2>2, <2>4 DEF Covers
  <2> QED
    BY <2>3, <2>4
<1> QED
  BY <1>7, <1>8, <1>9 DEF StockIs

LEMMA PostAllCovers ==
    ASSUME Stocked, NEW posts \in Seq(MoveRow), Scattered(posts), Enough(posts), PostAll(posts)
    PROVE  Covers(stock, posts, stock')
<1> DEFINE at == {Cell(posts[i]) : i \in DOMAIN posts}
<1>1. /\ DOMAIN stock' = DOMAIN stock \cup at
      /\ \A c \in DOMAIN stock' : stock'[c] =
             IF \E i \in DOMAIN posts : Cell(posts[i]) = c
             THEN InStock(c[1], c[2]) + posts[CHOOSE i \in DOMAIN posts : Cell(posts[i]) = c].qty
             ELSE stock[c]
  BY DEF PostAll
<1>2. ASSUME NEW i \in DOMAIN posts
      PROVE  LET c == Cell(posts[i]) IN
             stock'[c] = (IF c \in DOMAIN stock THEN stock[c] ELSE 0) + posts[i].qty /\ stock'[c] >= 0
  <2> DEFINE c == Cell(posts[i])
  <2>1. c = <<posts[i].place, posts[i].item>> /\ c[1] = posts[i].place /\ c[2] = posts[i].item
    BY DEF Cell
  <2>2. InStock(c[1], c[2]) = IF c \in DOMAIN stock THEN stock[c] ELSE 0
    BY <2>1 DEF InStock
  <2>3. (CHOOSE n \in DOMAIN posts : Cell(posts[n]) = c) = i
    BY DEF Scattered
  <2>4. c \in DOMAIN stock'
    BY <1>1
  <2>5. InStock(c[1], c[2]) + posts[i].qty >= 0
    BY <2>1 DEF Enough
  <2>6. stock'[c] = InStock(c[1], c[2]) + posts[i].qty
    <3>1. \E n \in DOMAIN posts : Cell(posts[n]) = c
      OBVIOUS
    <3> HIDE DEF c
    <3> QED
      BY <1>1, <2>3, <2>4, <3>1
  <2> QED
    BY <2>2, <2>5, <2>6
<1> QED
  BY <1>1, <1>2 DEF Covers

LEMMA PostAllStocked ==
    ASSUME Stocked, moves \in Seq(MoveRow), NEW posts \in Seq(MoveRow), Scattered(posts), Enough(posts), PostAll(posts)
    PROVE  Stocked'
<1>1. Covers(stock, posts, stock') /\ moves' = moves \o posts
  BY PostAllCovers DEF PostAll
<1>2. StockIs(stock', moves')
  BY <1>1, PostsStocked DEF Stocked
<1> QED
  BY <1>2 DEF Stocked, StockIs, Here, MoveRow, Cell, Worth

-----------------------------------------------------------------------------
(* Orders.  What the movements of an order add up to is what its lines and *)
(* its status say.                                                         *)
Untied(m) == m.job = NoJob /\ m.type # "PRODUCTION_CONSUME" /\ m.type # "PRODUCTION_IN"
Tied(m, j) ==
    /\ m.job = j
    /\ m.item \in Products => m.type = "PRODUCTION_IN"
    /\ m.item \in Raws => m.type = "PRODUCTION_CONSUME"

Consumed(j, lines, rows) == \A r \in Raws : Worth(rows, OfJob(j, r)) = 0 - lines[r]
Finishes(put) == "status" \in DOMAIN put /\ put.status = "COMPLETED"
MadeOf(row, p) == IF row.status = "COMPLETED" /\ p = row.product THEN row.actual ELSE 0
MadeOnce(j, row, rows) ==
    /\ \A p \in Products : Worth(rows, OfJob(j, p)) = MadeOf(row, p)
    /\ row.status # "COMPLETED" => \A r \in Raws : row.lines[r] = 0

Makes(f, row, p) == IF Finishes(f.put) /\ p = row.product THEN f.put.actual ELSE 0
Working(f, table, busy) ==
    /\ Scattered(f.posts) /\ \A i \in DOMAIN f.posts : Tied(f.posts[i], f.job)
    /\ Consumed(f.job, f.lines, f.posts)
    /\ Job(f.job) \notin busy =>
           /\ table[f.job].status # "COMPLETED"
           /\ \A p \in Products : Worth(f.posts, OfJob(f.job, p)) = Makes(f, table[f.job], p)
           /\ ~Finishes(f.put) => \A r \in Raws : f.lines[r] = 0

AllTied(rows, table) == \A i \in DOMAIN rows : Untied(rows[i]) \/ \E j \in DOMAIN table : Tied(rows[i], j)
JobStands(j, row, rows, busy) ==
    Consumed(j, row.lines, rows) /\ (Job(j) \notin busy => MadeOnce(j, row, rows))

Worked ==
    /\ AllTied(moves, jobs) /\ \A j \in DOMAIN jobs : JobStands(j, jobs[j], moves, crossed)
    /\ \A k \in Desks : desk[k].op = "job" => Working(desk[k], jobs, crossed)

(* What a step does to orders, movements and stock. *)
AtRest == stock' = stock /\ moves' = moves /\ jobs' = jobs
Resting == AtRest /\ \A m \in Desks : desk'[m] = desk[m] \/ desk'[m].op # "job"
Taking(k) == AtRest /\ Working(desk'[k], jobs', crossed') /\ \A m \in Desks : m # k => desk'[m] = desk[m]
Stocking(posts) ==
    /\ posts \in Seq(MoveRow) /\ Scattered(posts) /\ \A i \in DOMAIN posts : Untied(posts[i])
    /\ Enough(posts) /\ PostAll(posts) /\ jobs' = jobs /\ desk' = desk
NewJob(row) ==
    /\ stock' = stock /\ moves' = moves /\ desk' = desk /\ jobs' = Append(jobs, row)
    /\ row.status = "DRAFT" /\ \A r \in Raws : row.lines[r] = 0
Finishing(k, row) == LET f == desk[k] IN
    /\ f.op = "job" /\ Enough(f.posts) /\ PostAll(f.posts) /\ crossed' = crossed
    /\ jobs' = [jobs EXCEPT ![f.job] = row] /\ row \in JobRow
    /\ \A r \in Raws : row.lines[r] = jobs[f.job].lines[r] + f.lines[r]
    /\ row.status = IF "status" \in DOMAIN f.put THEN f.put.status ELSE jobs[f.job].status
    /\ row.product = IF "product" \in DOMAIN f.put THEN f.put.product ELSE jobs[f.job].product
    /\ row.actual = IF "actual" \in DOMAIN f.put THEN f.put.actual ELSE jobs[f.job].actual
    /\ desk'[k] = Idle /\ \A m \in Desks : m # k => desk'[m] = desk[m]

FactoryCases ==
    \/ Resting \/ (\E k \in Desks : Taking(k)) \/ (\E posts : Stocking(posts))
    \/ (\E row : NewJob(row)) \/ (\E k \in Desks : \E row : Finishing(k, row))

(* A request that writes nothing but the order. *)
LEMMA PlainWorking ==
    ASSUME NEW f, NEW table, NEW busy, f.posts = <<>>, f.lines = NoLines, ~Finishes(f.put),
           Job(f.job) \notin busy => table[f.job].status # "COMPLETED"
    PROVE  Working(f, table, busy)
<1>1. DOMAIN f.posts = {} /\ \A r \in Raws : f.lines[r] = 0
  BY DEF NoLines
<1>2. \A w : Worth(f.posts, w) = 0
  BY WorthNothing
<1>3. Scattered(f.posts) /\ \A i \in DOMAIN f.posts : Tied(f.posts[i], f.job)
  BY <1>1 DEF Scattered
<1>4. Consumed(f.job, f.lines, f.posts)
  <2>1. 0 - 0 = 0
    OBVIOUS
  <2> QED
    BY <1>1, <1>2, <2>1 DEF Consumed
<1>5. \A p \in Products : Worth(f.posts, OfJob(f.job, p)) = Makes(f, table[f.job], p)
  BY <1>2 DEF Makes
<1> QED
  BY <1>1, <1>3, <1>4, <1>5 DEF Working

LEMMA WorkingLasts ==
    ASSUME NEW f, NEW table, NEW busy, NEW new, NEW busier, Working(f, table, busy), busy \subseteq busier,
           Job(f.job) \notin busier => new[f.job] = table[f.job]
    PROVE  Working(f, new, busier)
<1>1. Job(f.job) \notin busier => Job(f.job) \notin busy
  OBVIOUS
<1>2. Job(f.job) \notin busier =>
          /\ new[f.job].status # "COMPLETED"
          /\ \A p \in Products : Worth(f.posts, OfJob(f.job, p)) = Makes(f, new[f.job], p)
          /\ ~Finishes(f.put) => \A r \in Raws : f.lines[r] = 0
  BY <1>1 DEF Working
<1> QED
  BY <1>2 DEF Working

(* A request that completes an order posts what it consumes and makes.     *)
LEMMA CompleteWorking ==
    ASSUME FactoryTyped, scene \in Scenes, NEW j \in DOMAIN jobs, NEW qty \in Nat,
           Apart(Job(j)) => jobs[j].status # "COMPLETED", NEW f, f.job = j, f.posts = JobPosts(j, qty), f.lines = Consumes(j, qty),
           f.put = [status |-> "COMPLETED", actual |-> qty]
    PROVE  Working(f, jobs, crossed)
<1> DEFINE posts == JobPosts(j, qty)
           uses == Consumes(j, qty)
           l == jobs[j].place
           p0 == jobs[j].product
           made == Move(l, p0, qty, "PRODUCTION_IN", j)
           out(r) == Move(l, r, -uses[r], "PRODUCTION_CONSUME", j)
<1>1. posts \in Seq(MoveRow) /\ uses \in [Raws -> Nat]
  BY JobPostsAre
<1>2. \A i \in DOMAIN posts : posts[i].place = l /\ posts[i].job = j
  BY JobPostsAre
<1>3. \A i, m \in DOMAIN posts : posts[i].item = posts[m].item => i = m
  BY JobPostsAre
<1>4. \A i \in DOMAIN posts :
          (posts[i].item \in Raws /\ uses[posts[i].item] > 0 /\ posts[i] = out(posts[i].item)) \/ posts[i] = made
  BY JobPostsAre
<1>5. \A r \in Raws : uses[r] > 0 => \E i \in DOMAIN posts : posts[i].item = r
  BY JobPostsAre
<1>6. \E i \in DOMAIN posts : posts[i] = made
  BY JobPostsAre
<1>7. p0 \in Products /\ p0 \notin Raws /\ Products \cap Raws = {}
  <2>1. jobs[j] \in JobRow /\ Products \cap Raws = {}
    BY SeqDomain, FactoryInputs DEF FactoryTyped
  <2> QED
    BY <2>1 DEF JobRow
<1>8. /\ made.item = p0 /\ made.qty = qty /\ made.type = "PRODUCTION_IN" /\ made.job = j
      /\ \A r : /\ out(r).item = r /\ out(r).qty = -uses[r] /\ out(r).type = "PRODUCTION_CONSUME"
                /\ out(r).job = j
  BY DEF Move
<1>9. f.put.status = "COMPLETED" /\ f.put.actual = qty /\ Finishes(f.put)
  BY DEF Finishes
<1> HIDE DEF posts, uses, l, p0, made, out
<1>10. \A i \in DOMAIN posts : posts[i] \in MoveRow
  BY <1>1, SeqDomain
<1>11. Scattered(posts)
  <2>1. \A i, m \in DOMAIN posts : Cell(posts[i]) = Cell(posts[m]) => posts[i].item = posts[m].item
    BY DEF Cell
  <2> QED
    BY <1>3, <2>1 DEF Scattered
<1>12. \A i \in DOMAIN posts : Tied(posts[i], j)
  BY <1>2, <1>4, <1>7, <1>8 DEF Tied
<1>13. \A item, m : m \in MoveRow => OfJob(j, item)[m] = IF m.job = j /\ m.item = item THEN m.qty ELSE 0
  BY DEF OfJob
<1>14. ASSUME NEW i \in DOMAIN posts PROVE Worth(posts, OfJob(j, posts[i].item)) = posts[i].qty
  <2> DEFINE w == OfJob(j, posts[i].item)
  <2>1. /\ \A m \in DOMAIN posts : m # i => w[posts[m]] = 0
        /\ w[posts[i]] = posts[i].qty /\ w \in [MoveRow -> Int]
    BY <1>2, <1>3, <1>10, <1>13, MoveWeights
  <2> HIDE DEF w
  <2>2. Worth(posts, w) = w[posts[i]]
    BY <1>1, <2>1, WorthOne
  <2> QED
    BY <2>1, <2>2 DEF w
<1>15. ASSUME NEW item, \A i \in DOMAIN posts : posts[i].item # item PROVE Worth(posts, OfJob(j, item)) = 0
  <2> DEFINE w == OfJob(j, item)
  <2>1. \A i \in DOMAIN posts : w[posts[i]] = 0
    BY <1>10, <1>13, <1>15
  <2> HIDE DEF w
  <2>2. Worth(posts, w) = 0
    BY <1>1, <2>1, WorthZero
  <2> QED
    BY <2>2 DEF w
<1>16. Consumed(j, uses, posts)
  <2> SUFFICES ASSUME NEW r \in Raws PROVE Worth(posts, OfJob(j, r)) = 0 - uses[r]
    BY DEF Consumed
  <2>1. uses[r] \in Nat
    BY <1>1
  <2>2. CASE uses[r] > 0
    <3>1. PICK i \in DOMAIN posts : posts[i].item = r
      BY <1>5, <2>2
    <3>2. posts[i] = out(r)
      BY <1>4, <1>7, <1>8, <3>1
    <3>3. posts[i].qty = -uses[r]
      BY <1>8, <3>2
    <3>4. Worth(posts, OfJob(j, r)) = posts[i].qty
      BY <1>14, <3>1
    <3> QED
      BY <2>1, <3>3, <3>4
  <2>3. CASE ~(uses[r] > 0)
    <3>1. \A i \in DOMAIN posts : posts[i].item # r
      BY <1>4, <1>7, <1>8, <2>3
    <3>2. Worth(posts, OfJob(j, r)) = 0 /\ uses[r] = 0
      BY <1>15, <2>1, <2>3, <3>1
    <3> QED
      BY <3>2
  <2> QED
    BY <2>2, <2>3
<1>17. ASSUME NEW p \in Products PROVE Worth(posts, OfJob(j, p)) = IF p = p0 THEN qty ELSE 0
  <2>1. CASE p = p0
    <3>1. PICK i \in DOMAIN posts : posts[i] = made
      BY <1>6
    <3> QED
      BY <1>8, <1>14, <2>1, <3>1
  <2>2. CASE p # p0
    <3>1. \A i \in DOMAIN posts : posts[i].item # p
      BY <1>4, <1>7, <1>8, <2>2
    <3> QED
      BY <1>15, <2>2, <3>1
  <2> QED
    BY <2>1, <2>2
<1>18. \A p \in Products : Worth(posts, OfJob(j, p)) = Makes(f, jobs[j], p)
  BY <1>9, <1>17 DEF Makes, p0
<1>19. f.posts = posts /\ f.lines = uses /\ f.job = j
  BY DEF posts, uses
<1> QED
  BY <1>9, <1>11, <1>12, <1>16, <1>18, <1>19 DEF Working, Apart

LEMMA WritesTaking ==
    ASSUME Orderly, NEW k \in Desks, NEW j \in DOMAIN jobs, NEW put, NEW posts, NEW lines,
           Writes(k, j, put, posts, lines),
           \A f : f.job = j /\ f.put = put /\ f.posts = posts /\ f.lines = lines => Working(f, jobs, crossed)
    PROVE  Taking(k)
<1> DEFINE frame == [op |-> "job", on |-> {Job(j)}, job |-> j, put |-> put, posts |-> posts, lines |-> lines]
<1>1. Starts(k, frame) /\ AtRest
  BY DEF Writes, AtRest
<1>2. frame.job = j /\ frame.put = put /\ frame.posts = posts /\ frame.lines = lines
  OBVIOUS
<1> HIDE DEF frame
<1>3. desk'[k] = frame /\ \A m \in Desks : m # k => desk'[m] = desk[m]
  BY <1>1, StartsDesk DEF Orderly
<1>4. Working(frame, jobs, crossed) /\ crossed \subseteq crossed' /\ jobs' = jobs
  BY <1>1, <1>2 DEF Starts, AtRest
<1>5. Working(frame, jobs', crossed')
  BY <1>4, WorkingLasts
<1> QED
  BY <1>1, <1>3, <1>5 DEF Taking

(* Of a request that writes the order alone. *)
LEMMA PlainTaking ==
    ASSUME Orderly, NEW k \in Desks, NEW j \in DOMAIN jobs, NEW put,
           Writes(k, j, put, <<>>, NoLines), ~Finishes(put), jobs[j].status # "COMPLETED"
    PROVE  Taking(k)
<1>1. \A f : f.job = j /\ f.put = put /\ f.posts = <<>> /\ f.lines = NoLines => Working(f, jobs, crossed)
  BY PlainWorking
<1> QED
  BY <1>1, WritesTaking

LEMMA FactoryCasesHold ==
    ASSUME Orderly, FactoryTyped, FactoryStep PROVE FactoryCases
<1>0. /\ scene \in Scenes /\ Exclusive /\ \A k \in Desks : FactoryFrame(desk[k])
      /\ \A j \in DOMAIN jobs : jobs[j] \in JobRow
      /\ DOMAIN places \subseteq Nat
  BY SeqDomain DEF Orderly, Exclusive, FactoryTyped
<1>1. ASSUME AtRest, desk' = desk PROVE FactoryCases
  BY <1>1 DEF FactoryCases, Resting
<1>2. ASSUME AtRest, NEW k \in Desks, NEW frame, Starts(k, frame), frame.op # "job" PROVE FactoryCases
  <2>1. desk'[k] = frame /\ \A m \in Desks : m # k => desk'[m] = desk[m]
    BY <1>0, <1>2, StartsDesk
  <2> QED
    BY <1>2, <2>1 DEF FactoryCases, Resting
<1>3. ASSUME AtRest, NEW k \in Desks, Ends(k) PROVE FactoryCases
  <2>1. desk'[k] = Idle /\ (\A m \in Desks : m # k => desk'[m] = desk[m]) /\ Idle.op # "job"
    BY <1>0, <1>3, EndsDesk DEF Idle
  <2> QED
    BY <1>3, <2>1 DEF FactoryCases, Resting
<1>4. ASSUME NEW name, CreateLocation(name) PROVE FactoryCases
  BY <1>1, <1>4 DEF CreateLocation, requestVars, AtRest
<1>5. ASSUME NEW k \in Desks, NEW l, NEW put, BeginUpdateLocation(k, l, put) PROVE FactoryCases
  <2> DEFINE frame == [op |-> "location", on |-> {<<"place", l>>}, place |-> l, put |-> put]
  <2>1. Starts(k, frame) /\ AtRest /\ frame.op # "job"
    BY <1>5 DEF BeginUpdateLocation, factoryVars, AtRest
  <2> HIDE DEF frame
  <2> QED
    BY <1>2, <2>1
<1>6. ASSUME NEW k \in Desks, CommitUpdateLocation(k) \/ CommitCreateBom(k) \/ CommitUpdateBom(k) PROVE FactoryCases
  BY <1>3, <1>6 DEF CommitUpdateLocation, CommitCreateBom, CommitUpdateBom, AtRest
<1>7. ASSUME NEW l \in Targets, NEW qty \in scene.qtys, NEW item \in scene.goods, NEW type \in {"OPENING", "ADJUSTMENT"},
             Post(l, item, qty, type)
      PROVE  FactoryCases
  <2> DEFINE move == Move(l, item, qty, type, NoJob)
             posts == <<move>>
  <2>1. /\ EnsureDefault /\ jobs' = jobs /\ desk' = desk
        /\ IF Enough(posts) THEN PostAll(posts) ELSE stock' = stock /\ moves' = moves
    BY <1>7 DEF Post, requestVars
  <2>2. l \in Nat
    <3>1. l \in DOMAIN places' /\ places' \in Seq(PlaceRow)
      BY <1>0, <2>1, Ensured
    <3> QED
      BY <3>1, SeqDomain
  <2>3. move \in MoveRow /\ Untied(move)
    <3>1. qty \in Int /\ item \in Products \cup Raws
      BY <1>0, FactoryInputs
    <3> QED
      BY <2>2, <3>1 DEF Move, MoveRow, NoJob, Untied
  <2> HIDE DEF move
  <2>4. posts \in Seq(MoveRow) /\ DOMAIN posts = {1} /\ posts[1] = move
    BY <2>3
  <2>5. Scattered(posts) /\ \A i \in DOMAIN posts : Untied(posts[i])
    BY <2>3, <2>4 DEF Scattered
  <2> HIDE DEF posts
  <2> QED
    BY <1>1, <2>1, <2>4, <2>5 DEF AtRest, FactoryCases, Stocking
<1>8. ASSUME NEW from \in DOMAIN places, NEW to \in DOMAIN places, NEW p \in Products \cap scene.goods,
             NEW qty \in scene.qtys, PostTransfer(from, to, p, qty)
      PROVE  FactoryCases
  <2> DEFINE out == Move(from, p, -qty, "TRANSFER_OUT", NoJob)
             in == Move(to, p, qty, "TRANSFER_IN", NoJob)
             posts == <<out, in>>
  <2>1. Enough(posts) /\ PostAll(posts) /\ jobs' = jobs /\ desk' = desk /\ from # to
    BY <1>8 DEF PostTransfer, requestVars
  <2>2. out \in MoveRow /\ in \in MoveRow /\ Untied(out) /\ Untied(in) /\ Cell(out) # Cell(in)
    <3>1. qty \in Int /\ from \in Nat /\ to \in Nat
      BY <1>0, FactoryInputs
    <3> QED
      BY <2>1, <3>1 DEF Move, MoveRow, NoJob, Untied, Cell
  <2> HIDE DEF out, in
  <2>3. posts \in Seq(MoveRow) /\ DOMAIN posts = {1, 2} /\ posts[1] = out /\ posts[2] = in
    BY <2>2
  <2>4. Scattered(posts) /\ \A i \in DOMAIN posts : Untied(posts[i])
    BY <2>2, <2>3 DEF Scattered
  <2> HIDE DEF posts
  <2> QED
    BY <2>1, <2>3, <2>4 DEF FactoryCases, Stocking
<1>9. ASSUME NEW k \in Desks, NEW p, NEW per, NEW active, BeginCreateBom(k, p, per, active) PROVE FactoryCases
  <2> DEFINE version == Max({0} \cup {boms[b].version : b \in BomsOf(p)}) + 1
             frame == [op |-> "newBom", on |-> {<<"boms", p>>}, product |-> p, per |-> per, active |-> active,
                       version |-> version]
  <2>1. Starts(k, frame) /\ AtRest
    BY <1>9 DEF BeginCreateBom, factoryVars, AtRest
  <2> HIDE DEF version
  <2>2. frame.op # "job"
    OBVIOUS
  <2> HIDE DEF frame
  <2> QED
    BY <1>2, <2>1, <2>2
<1>10. ASSUME NEW k \in Desks, NEW b, NEW put, BeginUpdateBom(k, b, put) PROVE FactoryCases
  <2> DEFINE retires == "active" \in DOMAIN put /\ put.active /\ ~boms[b].active
             frame == [op |-> "bom", on |-> {<<"boms", boms[b].product>>}, bom |-> b, put |-> put, retires |-> retires]
  <2>1. Starts(k, frame) /\ AtRest
    BY <1>10 DEF BeginUpdateBom, factoryVars, AtRest
  <2> HIDE DEF retires
  <2>2. frame.op # "job"
    OBVIOUS
  <2> HIDE DEF frame
  <2> QED
    BY <1>2, <2>1, <2>2
<1>11. ASSUME NEW b, NEW l, NEW qty, CreateJob(b, l, qty) PROVE FactoryCases
  <2> DEFINE row == [product |-> boms[b].product, bom |-> b, place |-> l, planned |-> qty,
                     actual |-> 0, status |-> "DRAFT", lines |-> [r \in Raws |-> 0]]
  <2>1. stock' = stock /\ moves' = moves /\ desk' = desk /\ jobs' = Append(jobs, row)
    BY <1>11 DEF CreateJob, requestVars
  <2>2. row.status = "DRAFT" /\ \A r \in Raws : row.lines[r] = 0
    OBVIOUS
  <2> HIDE DEF row
  <2> QED
    BY <2>1, <2>2 DEF FactoryCases, NewJob
<1>12. ASSUME NEW k \in Desks, NEW j \in DOMAIN jobs, NEW b, NEW l, NEW qty, BeginUpdateJob(k, j, b, l, qty)
       PROVE  FactoryCases
  <2> DEFINE put == [product |-> boms[b].product, bom |-> b, place |-> l, planned |-> qty]
  <2>1. Writes(k, j, put, <<>>, NoLines) /\ jobs[j].status = "DRAFT"
    BY <1>12 DEF BeginUpdateJob
  <2>2. ~Finishes(put)
    BY DEF Finishes
  <2> HIDE DEF put
  <2> QED
    BY <2>1, <2>2, PlainTaking DEF FactoryCases
<1>13. ASSUME NEW k \in Desks, NEW j \in DOMAIN jobs, BeginPlan(k, j) PROVE FactoryCases
  <2>1. PICK b \in ActiveBomFor(jobs[j].product, jobs[j].bom) :
            Writes(k, j, [status |-> "PLANNED", bom |-> b], <<>>, NoLines)
    BY <1>13 DEF BeginPlan
  <2> DEFINE put == [status |-> "PLANNED", bom |-> b]
  <2>2. Writes(k, j, put, <<>>, NoLines) /\ jobs[j].status # "COMPLETED" /\ ~Finishes(put)
    BY <1>13, <2>1 DEF BeginPlan, Finishes
  <2> HIDE DEF put
  <2> QED
    BY <2>2, PlainTaking DEF FactoryCases
<1>14. ASSUME NEW k \in Desks, NEW j \in DOMAIN jobs, BeginStart(k, j) PROVE FactoryCases
  <2> DEFINE put == [status |-> "IN_PROGRESS"]
  <2>1. Writes(k, j, put, <<>>, NoLines) /\ jobs[j].status # "COMPLETED" /\ ~Finishes(put)
    BY <1>14 DEF BeginStart, Finishes
  <2> HIDE DEF put
  <2> QED
    BY <2>1, PlainTaking DEF FactoryCases
<1>15. ASSUME NEW k \in Desks, NEW j \in DOMAIN jobs, BeginCancel(k, j) PROVE FactoryCases
  <2> DEFINE put == [status |-> "CANCELLED"]
  <2>1. Writes(k, j, put, <<>>, NoLines) /\ jobs[j].status # "COMPLETED" /\ ~Finishes(put)
    BY <1>15 DEF BeginCancel, Finishes
  <2> HIDE DEF put
  <2> QED
    BY <2>1, PlainTaking DEF FactoryCases
<1>16. ASSUME NEW k \in Desks, NEW j \in DOMAIN jobs, NEW qty \in scene.makes, BeginComplete(k, j, qty) PROVE FactoryCases
  <2> DEFINE put == [status |-> "COMPLETED", actual |-> qty]
             posts == JobPosts(j, qty)
             uses == Consumes(j, qty)
  <2>1. Writes(k, j, put, posts, uses) /\ jobs[j].status # "COMPLETED"
    BY <1>16 DEF BeginComplete
  <2>2. qty \in Nat
    BY <1>0, FactoryInputs
  <2>3. \A f : f.job = j /\ f.put = put /\ f.posts = posts /\ f.lines = uses => Working(f, jobs, crossed)
    BY <1>0, <2>1, <2>2, CompleteWorking
  <2> HIDE DEF put, posts, uses
  <2> QED
    BY <2>1, <2>3, WritesTaking DEF FactoryCases
<1>17. ASSUME NEW k \in Desks, CommitJob(k) PROVE FactoryCases
  <2> DEFINE f == desk[k]
             lines == [r \in Raws |-> jobs[f.job].lines[r] + f.lines[r]]
             new == [Patched(jobs[f.job], f.put) EXCEPT !.lines = lines]
  <2>1. JobFrame(f) /\ Ends(k) /\ f.op = "job"
    BY <1>0, <1>17 DEF CommitJob, Holds, FactoryFrame
  <2>2. IF ~Enough(f.posts) THEN AtRest ELSE jobs' = [jobs EXCEPT ![f.job] = new] /\ PostAll(f.posts)
    BY <1>17 DEF CommitJob, AtRest
  <2>3. f.job \in DOMAIN jobs /\ jobs[f.job] \in JobRow /\ f.put \in JobPuts /\ lines \in [Raws -> Nat]
    <3>1. f.job \in DOMAIN jobs /\ f.lines \in [Raws -> Nat] /\ f.put \in JobPuts
      BY <2>1 DEF JobFrame
    <3>2. jobs[f.job].lines \in [Raws -> Nat] /\ jobs[f.job] \in JobRow
      BY <1>0, <3>1 DEF JobRow
    <3> QED
      BY <3>1, <3>2
  <2>4. /\ new \in JobRow /\ new.lines = lines
        /\ new.product = IF "product" \in DOMAIN f.put THEN f.put.product ELSE jobs[f.job].product
        /\ new.status = IF "status" \in DOMAIN f.put THEN f.put.status ELSE jobs[f.job].status
        /\ new.actual = IF "actual" \in DOMAIN f.put THEN f.put.actual ELSE jobs[f.job].actual
    <3> HIDE DEF lines, f
    <3> QED
      BY <2>3, PatchedJob
  <2>5. \A r \in Raws : lines[r] = jobs[f.job].lines[r] + f.lines[r]
    OBVIOUS
  <2>6. desk'[k] = Idle /\ (\A m \in Desks : m # k => desk'[m] = desk[m]) /\ crossed' = crossed
    BY <1>0, <2>1, EndsDesk DEF Ends
  <2> HIDE DEF new, lines
  <2>7. CASE Enough(f.posts)
    <3>1. Finishing(k, new)
      BY <2>1, <2>2, <2>4, <2>5, <2>6, <2>7 DEF Finishing
    <3> QED
      BY <3>1 DEF FactoryCases
  <2> QED
    BY <1>3, <2>1, <2>2, <2>7
<1> QED
  BY <1>4, <1>5, <1>6, <1>7, <1>8, <1>9, <1>10, <1>11, <1>12, <1>13, <1>14, <1>15, <1>16, <1>17
     DEF FactoryStep, PostOpening, PostAdjustment

(* Movements are added to the orders they name. *)
After(rows, posts, after) == rows \in Seq(MoveRow) /\ posts \in Seq(MoveRow) /\ after = rows \o posts

LEMMA SumsJoin ==
    ASSUME NEW rows, NEW posts, NEW after, After(rows, posts, after), NEW j, NEW item
    PROVE  /\ Worth(after, OfJob(j, item)) = Worth(rows, OfJob(j, item)) + Worth(posts, OfJob(j, item))
           /\ Worth(rows, OfJob(j, item)) \in Int /\ Worth(posts, OfJob(j, item)) \in Int
<1>1. Joins(MoveRow, OfJob(j, item), rows, posts, after)
  BY MoveWeights DEF Joins, After
<1> QED
  BY <1>1, WorthJoin

LEMMA OfOthers ==
    ASSUME NEW posts \in Seq(MoveRow), NEW j, \A i \in DOMAIN posts : posts[i].job # j, NEW item
    PROVE  Worth(posts, OfJob(j, item)) = 0
<1> DEFINE w == OfJob(j, item)
<1>1. \A i \in DOMAIN posts : w[posts[i]] = 0
  BY SeqDomain DEF OfJob
<1> HIDE DEF w
<1>2. Worth(posts, w) = 0
  BY <1>1, WorthZero
<1> QED
  BY <1>2 DEF w

LEMMA OthersStand ==
    ASSUME NEW rows, NEW posts, NEW after, After(rows, posts, after),
           NEW j, NEW row, NEW busy, JobStands(j, row, rows, busy), \A i \in DOMAIN posts : posts[i].job # j
    PROVE  JobStands(j, row, after, busy)
<1>1. \A item : Worth(after, OfJob(j, item)) = Worth(rows, OfJob(j, item))
  <2> SUFFICES ASSUME NEW item PROVE Worth(after, OfJob(j, item)) = Worth(rows, OfJob(j, item))
    OBVIOUS
  <2>1. /\ Worth(after, OfJob(j, item)) = Worth(rows, OfJob(j, item)) + Worth(posts, OfJob(j, item))
        /\ Worth(rows, OfJob(j, item)) \in Int
    BY SumsJoin
  <2>2. Worth(posts, OfJob(j, item)) = 0
    BY OfOthers DEF After
  <2> QED
    BY <2>1, <2>2
<1> QED
  BY <1>1 DEF JobStands, Consumed, MadeOnce

LEMMA TiedJoin ==
    ASSUME NEW rows \in Seq(MoveRow), NEW posts \in Seq(MoveRow), NEW after, after = rows \o posts,
           NEW table, NEW new, DOMAIN table \subseteq DOMAIN new, AllTied(rows, table),
           \A i \in DOMAIN posts : Untied(posts[i]) \/ \E j \in DOMAIN new : Tied(posts[i], j)
    PROVE  AllTied(after, new)
<1>1. /\ Len(rows) \in Nat /\ Len(posts) \in Nat
      /\ DOMAIN rows = 1..Len(rows) /\ DOMAIN posts = 1..Len(posts)
      /\ DOMAIN after = 1..(Len(rows) + Len(posts))
      /\ \A n \in DOMAIN rows : after[n] = rows[n]
      /\ \A n \in DOMAIN posts : after[Len(rows) + n] = posts[n]
  BY AddRows
<1> SUFFICES ASSUME NEW i \in DOMAIN after PROVE Untied(after[i]) \/ \E j \in DOMAIN new : Tied(after[i], j)
  BY DEF AllTied
<1>2. CASE i \in DOMAIN rows
  <2>1. Untied(rows[i]) \/ \E j \in DOMAIN table : Tied(rows[i], j)
    BY <1>2 DEF AllTied
  <2> QED
    BY <1>1, <1>2, <2>1
<1>3. CASE i \notin DOMAIN rows
  <2>1. i - Len(rows) \in DOMAIN posts /\ i = Len(rows) + (i - Len(rows))
    BY <1>1, <1>3
  <2> QED
    BY <1>1, <2>1
<1> QED
  BY <1>2, <1>3

(* The order whose request goes through. *)
Closes(f, table, row) ==
    /\ row \in JobRow /\ table[f.job] \in JobRow /\ f.lines \in [Raws -> Nat]
    /\ \A r \in Raws : row.lines[r] = table[f.job].lines[r] + f.lines[r]
    /\ row.status = IF "status" \in DOMAIN f.put THEN f.put.status ELSE table[f.job].status
    /\ Finishes(f.put) => row.product = table[f.job].product /\ row.actual = f.put.actual

LEMMA FinishedStands ==
    ASSUME NEW rows, NEW f, NEW after, After(rows, f.posts, after), NEW table, NEW busy, NEW row,
           Closes(f, table, row), Working(f, table, busy), JobStands(f.job, table[f.job], rows, busy)
    PROVE  JobStands(f.job, row, after, busy)
<1>0. /\ row \in JobRow /\ table[f.job] \in JobRow /\ f.lines \in [Raws -> Nat]
      /\ \A r \in Raws : row.lines[r] = table[f.job].lines[r] + f.lines[r]
      /\ row.status = IF "status" \in DOMAIN f.put THEN f.put.status ELSE table[f.job].status
      /\ Finishes(f.put) => row.product = table[f.job].product /\ row.actual = f.put.actual
  BY DEF Closes
<1> USE <1>0
<1> DEFINE old == table[f.job]
           j == f.job
<1>1. \A item : /\ Worth(after, OfJob(j, item)) = Worth(rows, OfJob(j, item)) + Worth(f.posts, OfJob(j, item))
                /\ Worth(rows, OfJob(j, item)) \in Int /\ Worth(f.posts, OfJob(j, item)) \in Int
  BY SumsJoin
<1>2. \A r \in Raws : old.lines[r] \in Nat /\ f.lines[r] \in Nat
  BY DEF JobRow
<1>3. Consumed(j, row.lines, after)
  <2> SUFFICES ASSUME NEW r \in Raws PROVE Worth(after, OfJob(j, r)) = 0 - row.lines[r]
    BY DEF Consumed
  <2>1. Worth(rows, OfJob(j, r)) = 0 - old.lines[r] /\ Worth(f.posts, OfJob(j, r)) = 0 - f.lines[r]
    BY DEF JobStands, Working, Consumed
  <2>2. row.lines[r] = old.lines[r] + f.lines[r]
    OBVIOUS
  <2>3. \A a, b \in Nat : (0 - a) + (0 - b) = 0 - (a + b)
    OBVIOUS
  <2> HIDE DEF old, j
  <2> QED
    BY <1>1, <1>2, <2>1, <2>2, <2>3
<1>4. ASSUME Job(j) \notin busy PROVE MadeOnce(j, row, after)
  <2>1. /\ old.status # "COMPLETED" /\ \A p \in Products : Worth(f.posts, OfJob(j, p)) = Makes(f, old, p)
        /\ ~Finishes(f.put) => \A r \in Raws : f.lines[r] = 0
    BY <1>4 DEF Working
  <2>2. (\A p \in Products : Worth(rows, OfJob(j, p)) = MadeOf(old, p)) /\ \A r \in Raws : old.lines[r] = 0
    BY <1>4, <2>1 DEF JobStands, MadeOnce
  <2>3. \A p \in Products : Worth(rows, OfJob(j, p)) = 0
    BY <2>1, <2>2 DEF MadeOf
  <2>4. row.status = "COMPLETED" <=> Finishes(f.put)
    BY <2>1 DEF Finishes
  <2>5. \A p \in Products : MadeOf(row, p) = Makes(f, old, p)
    BY <2>4 DEF MadeOf, Makes
  <2>6. \A p \in Products : Worth(after, OfJob(j, p)) = MadeOf(row, p)
    <3> SUFFICES ASSUME NEW p \in Products PROVE Worth(after, OfJob(j, p)) = MadeOf(row, p)
      OBVIOUS
    <3>1. Worth(after, OfJob(j, p)) = 0 + Worth(f.posts, OfJob(j, p)) /\ Worth(f.posts, OfJob(j, p)) \in Int
      BY <1>1, <2>3
    <3>2. Worth(f.posts, OfJob(j, p)) = MadeOf(row, p)
      BY <2>1, <2>5
    <3> QED
      BY <3>1, <3>2
  <2>7. row.status # "COMPLETED" => \A r \in Raws : row.lines[r] = 0
    <3> SUFFICES ASSUME row.status # "COMPLETED", NEW r \in Raws PROVE row.lines[r] = 0
      OBVIOUS
    <3>1. f.lines[r] = 0 /\ old.lines[r] = 0
      BY <2>1, <2>2, <2>4
    <3>2. row.lines[r] = old.lines[r] + f.lines[r]
      OBVIOUS
    <3> HIDE DEF old
    <3> QED
      BY <3>1, <3>2
  <2> QED
    BY <2>6, <2>7 DEF MadeOnce
<1> QED
  BY <1>3, <1>4 DEF JobStands

LEMMA StockedStep ==
    ASSUME FactoryTyped, Worked, Stocked, FactoryCases PROVE Stocked'
<1>0. moves \in Seq(MoveRow) /\ \A k \in Desks : FactoryFrame(desk[k])
  BY DEF FactoryTyped
<1>1. ASSUME stock' = stock, moves' = moves PROVE Stocked'
  BY <1>1 DEF Stocked, StockIs, Here, MoveRow, Cell, Worth
<1>2. ASSUME NEW posts, Stocking(posts) PROVE Stocked'
  BY <1>0, <1>2, PostAllStocked DEF Stocking
<1>3. ASSUME NEW k \in Desks, NEW row, Finishing(k, row) PROVE Stocked'
  <2>1. desk[k].posts \in Seq(MoveRow) /\ Scattered(desk[k].posts) /\ Enough(desk[k].posts) /\ PostAll(desk[k].posts)
    BY <1>0, <1>3 DEF Finishing, FactoryFrame, JobFrame, Worked, Working
  <2> QED
    BY <1>0, <2>1, PostAllStocked
<1> QED
  BY <1>1, <1>2, <1>3 DEF FactoryCases, Resting, Taking, NewJob, AtRest

LEMMA WorkedFrames ==
    ASSUME Worked, NEW m \in Desks, desk[m].op = "job", crossed \subseteq crossed',
           Job(desk[m].job) \notin crossed' => jobs'[desk[m].job] = jobs[desk[m].job]
    PROVE  Working(desk[m], jobs', crossed')
<1>1. Working(desk[m], jobs, crossed)
  BY DEF Worked
<1> QED
  BY <1>1, WorkingLasts

LEMMA WorkedStep ==
    ASSUME FactoryTyped, FactoryTyped', Exclusive, Worked, FactoryCases, crossed \subseteq crossed' PROVE Worked'
<1>0. /\ moves \in Seq(MoveRow) /\ jobs \in Seq(JobRow) /\ DOMAIN jobs \subseteq Nat \ {0}
      /\ \A k \in Desks : FactoryFrame(desk[k])
      /\ \A j \in DOMAIN jobs : jobs[j] \in JobRow
  <2>1. jobs \in Seq(JobRow)
    BY DEF FactoryTyped
  <2>2. DOMAIN jobs = 1..Len(jobs) /\ Len(jobs) \in Nat
    BY <2>1, SeqDomain
  <2> QED
    BY <2>1, <2>2, SeqDomain DEF FactoryTyped
<1>00. AllTied(moves, jobs) /\ \A j \in DOMAIN jobs : JobStands(j, jobs[j], moves, crossed)
  BY DEF Worked
<1>1. ASSUME NEW j, NEW row, NEW rows, JobStands(j, row, rows, crossed) PROVE JobStands(j, row, rows, crossed')
  BY <1>1 DEF JobStands
<1>2. ASSUME AllTied(moves', jobs'), \A j \in DOMAIN jobs' : JobStands(j, jobs'[j], moves', crossed'),
             \A m \in Desks : desk'[m].op = "job" => Working(desk'[m], jobs', crossed')
      PROVE  Worked'
  BY <1>2 DEF Worked
<1>3. ASSUME AtRest, \A m \in Desks : desk'[m] = desk[m] \/ desk'[m].op # "job" \/ Working(desk'[m], jobs', crossed')
      PROVE  Worked'
  <2>1. ASSUME NEW m \in Desks, desk'[m].op = "job" PROVE Working(desk'[m], jobs', crossed')
    BY <1>3, <2>1, WorkedFrames DEF AtRest
  <2> QED
    BY <1>00, <1>1, <1>2, <1>3, <2>1 DEF AtRest
<1>4. ASSUME NEW posts, Stocking(posts) PROVE Worked'
  <2>1. posts \in Seq(MoveRow) /\ moves' = moves \o posts /\ jobs' = jobs /\ desk' = desk
        /\ \A i \in DOMAIN posts : Untied(posts[i])
    BY <1>4 DEF Stocking, PostAll
  <2>2. AllTied(moves', jobs')
    BY <1>0, <1>00, <2>1, TiedJoin
  <2>3. ASSUME NEW j \in DOMAIN jobs PROVE JobStands(j, jobs[j], moves', crossed')
    <3>1. \A i \in DOMAIN posts : posts[i].job # j
      BY <1>0, <2>1 DEF Untied, NoJob
    <3>2. After(moves, posts, moves') /\ JobStands(j, jobs[j], moves, crossed)
      BY <1>0, <1>00, <2>1 DEF After
    <3>3. JobStands(j, jobs[j], moves', crossed)
      BY <2>1, <3>1, <3>2, OthersStand
    <3> QED
      BY <1>1, <3>3
  <2>4. \A m \in Desks : desk'[m].op = "job" => Working(desk'[m], jobs', crossed')
    BY <2>1, WorkedFrames
  <2> QED
    BY <1>2, <2>1, <2>2, <2>3, <2>4
<1>5. ASSUME NEW row, NewJob(row) PROVE Worked'
  <2> DEFINE n == Len(jobs) + 1
  <2>1. moves' = moves /\ desk' = desk /\ jobs' = Append(jobs, row) /\ jobs' \in Seq(JobRow) /\ Len(jobs) \in Nat
    BY <1>0, <1>5 DEF NewJob, FactoryTyped, JobRow
  <2>2. DOMAIN jobs' = DOMAIN jobs \cup {n} /\ n \notin DOMAIN jobs /\ n # 0
        /\ jobs'[n] = row /\ \A j \in DOMAIN jobs : jobs'[j] = jobs[j]
    BY <1>0, <2>1
  <2> HIDE DEF n
  <2>3. AllTied(moves, jobs')
    BY <1>00, <2>2 DEF AllTied
  <2>4. JobStands(n, row, moves, crossed')
    <3>1. \A i \in DOMAIN moves : moves[i].job # n
      BY <1>00, <2>2 DEF AllTied, Tied, Untied, NoJob
    <3>2. \A item : Worth(moves, OfJob(n, item)) = 0
      BY <1>0, <3>1, OfOthers
    <3>3. row.status = "DRAFT" /\ \A r \in Raws : row.lines[r] = 0
      BY <1>5 DEF NewJob
    <3>4. 0 - 0 = 0
      OBVIOUS
    <3>5. Consumed(n, row.lines, moves)
      BY <3>2, <3>3, <3>4 DEF Consumed
    <3>6. MadeOnce(n, row, moves)
      BY <3>2, <3>3 DEF MadeOnce, MadeOf
    <3> QED
      BY <3>5, <3>6 DEF JobStands
  <2>5. \A j \in DOMAIN jobs' : JobStands(j, jobs'[j], moves', crossed')
    BY <1>00, <1>1, <2>1, <2>2, <2>4
  <2>6. \A m \in Desks : desk'[m].op = "job" => Working(desk'[m], jobs', crossed')
    <3> SUFFICES ASSUME NEW m \in Desks, desk'[m].op = "job" PROVE Working(desk'[m], jobs', crossed')
      OBVIOUS
    <3>1. desk[m].job \in DOMAIN jobs
      BY <1>0, <2>1 DEF FactoryFrame, JobFrame
    <3> QED
      BY <2>1, <2>2, <3>1, WorkedFrames
  <2> QED
    BY <1>2, <2>1, <2>3, <2>5, <2>6
<1>6. ASSUME NEW k \in Desks, NEW row, Finishing(k, row) PROVE Worked'
  <2> DEFINE f == desk[k]
             j0 == f.job
  <2>1. /\ f.op = "job" /\ jobs' = [jobs EXCEPT ![j0] = row] /\ row \in JobRow
        /\ moves' = moves \o f.posts /\ crossed' = crossed
        /\ desk'[k] = Idle /\ \A m \in Desks : m # k => desk'[m] = desk[m]
    BY <1>6 DEF Finishing, PostAll
  <2>2. JobFrame(f) /\ Working(f, jobs, crossed)
    BY <1>0, <2>1 DEF FactoryFrame, Worked
  <2>3. /\ j0 \in DOMAIN jobs /\ f.posts \in Seq(MoveRow) /\ f.lines \in [Raws -> Nat] /\ f.put \in JobPuts
        /\ f.on = {Job(j0)}
    BY <2>2 DEF JobFrame
  <2>4. DOMAIN jobs' = DOMAIN jobs /\ \A j \in DOMAIN jobs : jobs'[j] = IF j = j0 THEN row ELSE jobs[j]
    <3> HIDE DEF j0
    <3> QED
      BY <1>0, <2>1, <2>3, PutRow
  <2>5. \A i \in DOMAIN f.posts : Tied(f.posts[i], j0)
    BY <2>2 DEF Working
  <2>6. After(moves, f.posts, moves')
    BY <1>0, <2>1, <2>3 DEF After
  <2>7. AllTied(moves', jobs')
    <3> DEFINE posts == f.posts
    <3>1. /\ moves \in Seq(MoveRow) /\ posts \in Seq(MoveRow) /\ moves' = moves \o posts
          /\ DOMAIN jobs \subseteq DOMAIN jobs' /\ AllTied(moves, jobs)
          /\ \A i \in DOMAIN posts : \E j \in DOMAIN jobs' : Tied(posts[i], j)
      BY <1>0, <1>00, <2>1, <2>3, <2>4, <2>5
    <3> HIDE DEF posts
    <3> QED
      BY ONLY <3>1, TiedJoin, ZenonT(60)
  <2>8. JobStands(j0, row, moves', crossed)
    <3>1. Finishes(f.put) => row.product = jobs[j0].product /\ row.actual = f.put.actual
      <4>1. Finishes(f.put) => "product" \notin DOMAIN f.put /\ "actual" \in DOMAIN f.put
        BY <2>3 DEF JobPuts, Finishes
      <4> QED
        BY <1>6, <4>1 DEF Finishing
    <3>2. /\ row.status = IF "status" \in DOMAIN f.put THEN f.put.status ELSE jobs[j0].status
          /\ \A r \in Raws : row.lines[r] = jobs[j0].lines[r] + f.lines[r]
      BY <1>6 DEF Finishing
    <3>3. JobStands(f.job, jobs[f.job], moves, crossed) /\ jobs[f.job] \in JobRow
      BY <1>0, <1>00, <2>3
    <3>4. Closes(f, jobs, row)
      BY <2>1, <2>3, <3>1, <3>2, <3>3 DEF Closes
    <3>5. JobStands(f.job, row, moves', crossed)
      <4> HIDE DEF f
      <4> QED
        BY <2>2, <2>6, <3>3, <3>4, FinishedStands
    <3> QED
      BY <3>5
  <2>9. ASSUME NEW j \in DOMAIN jobs, j # j0 PROVE JobStands(j, jobs[j], moves', crossed)
    <3>1. \A i \in DOMAIN f.posts : f.posts[i].job # j
      BY <2>5, <2>9 DEF Tied
    <3>2. JobStands(j, jobs[j], moves, crossed)
      BY <1>00
    <3> HIDE DEF f
    <3> QED
      BY <2>6, <3>1, <3>2, OthersStand
  <2>10. \A m \in Desks : desk'[m].op = "job" => Working(desk'[m], jobs', crossed')
    <3> SUFFICES ASSUME NEW m \in Desks, desk'[m].op = "job" PROVE Working(desk'[m], jobs', crossed')
      OBVIOUS
    <3>1. m # k /\ desk'[m] = desk[m]
      BY <2>1 DEF Idle
    <3>2. desk[m].on = {Job(desk[m].job)} /\ desk[m].job \in DOMAIN jobs
      BY <1>0, <3>1 DEF FactoryFrame, JobFrame
    <3>3. Job(desk[m].job) \notin crossed => desk[m].job # j0
      BY <2>3, <3>1, <3>2 DEF Exclusive
    <3> HIDE DEF j0, f
    <3>4. Job(desk[m].job) \notin crossed' => jobs'[desk[m].job] = jobs[desk[m].job]
      BY <2>1, <2>4, <3>2, <3>3
    <3> QED
      BY <3>1, <3>4, WorkedFrames
  <2> HIDE DEF j0, f
  <2>11. \A j \in DOMAIN jobs' : JobStands(j, jobs'[j], moves', crossed')
    BY <2>1, <2>4, <2>8, <2>9
  <2> QED
    BY <1>2, <2>7, <2>10, <2>11
<1>7. CASE Resting
  BY <1>3, <1>7 DEF Resting
<1>8. ASSUME NEW k \in Desks, Taking(k) PROVE Worked'
  BY <1>3, <1>8 DEF Taking
<1> QED
  BY <1>4, <1>5, <1>6, <1>7, <1>8 DEF FactoryCases

(* A sum over some of the movements, as the worth of them all. *)
LEMMA MoveSumIs ==
    ASSUME moves \in Seq(MoveRow), NEW T \in SUBSET (DOMAIN moves), NEW w \in [MoveRow -> Int],
           \A i \in DOMAIN moves : w[moves[i]] = IF i \in T THEN moves[i].qty ELSE 0
    PROVE  MoveSum(T) = Worth(moves, w)
<1> DEFINE g == [i \in T |-> moves[i].qty]
<1>1. DOMAIN g = T /\ (\A i \in T : g[i] = w[moves[i]]) /\ \A i \in DOMAIN moves : i \notin T => w[moves[i]] = 0
  OBVIOUS
<1> HIDE DEF g
<1>2. SumFunction(g) = Worth(moves, w)
  BY <1>1, WorthWithin
<1> QED
  BY <1>2 DEF g, MoveSum

LEMMA CellSum ==
    ASSUME moves \in Seq(MoveRow), NEW c PROVE MoveSum(MovesAt(c)) = Worth(moves, Here(c))
<1> DEFINE T == MovesAt(c)
           w == Here(c)
<1>1. T \in SUBSET (DOMAIN moves) /\ w \in [MoveRow -> Int]
      /\ \A i \in DOMAIN moves : w[moves[i]] = IF i \in T THEN moves[i].qty ELSE 0
  BY SeqDomain, MoveWeights DEF MovesAt, Here
<1> HIDE DEF T, w
<1>2. MoveSum(T) = Worth(moves, w)
  BY <1>1, MoveSumIs
<1> QED
  BY <1>2 DEF T, w

LEMMA PostedIs ==
    ASSUME moves \in Seq(MoveRow), NEW j, NEW item PROVE Posted(j, item) = Worth(moves, OfJob(j, item))
<1> DEFINE T == {i \in DOMAIN moves : moves[i].job = j /\ moves[i].item = item}
           w == OfJob(j, item)
<1>1. T \in SUBSET (DOMAIN moves) /\ w \in [MoveRow -> Int]
      /\ \A i \in DOMAIN moves : w[moves[i]] = IF i \in T THEN moves[i].qty ELSE 0
  BY SeqDomain, MoveWeights DEF OfJob
<1> HIDE DEF T, w
<1>2. MoveSum(T) = Worth(moves, w)
  BY <1>1, MoveSumIs
<1> QED
  BY <1>2 DEF T, w, Posted

LEMMA StartsStocked == Init => Stocked /\ Worked
<1> SUFFICES ASSUME Init PROVE Stocked /\ Worked
  OBVIOUS
<1>1. /\ scene \in Scenes /\ desk = [k \in Desks |-> Idle] /\ jobs = <<>> /\ moves = scene.opening
      /\ stock = [c \in {Cell(moves[i]) : i \in DOMAIN moves} |-> MoveSum(MovesAt(c))]
  BY DEF Init
<1>2. moves \in Seq(MoveRow) /\ \A i \in DOMAIN moves : moves[i] \in MoveRow /\ moves[i].qty \in Int
  <2>1. moves \in Seq(MoveRow)
    BY StartsFactoryTyped DEF FactoryTyped
  <2>2. \A m \in MoveRow : m.qty \in Int
    BY DEF MoveRow
  <2> QED
    BY <2>1, <2>2, SeqDomain
<1>3. \A i \in DOMAIN moves : moves[i].qty \in Nat /\ moves[i].job = NoJob /\ moves[i].type = "OPENING"
  <2> DEFINE Opened == [place : DOMAIN scene.places, item : Products \cup Raws, qty : Nat,
                        type : {"OPENING"}, job : {NoJob}]
  <2>1. moves \in Seq(Opened)
    BY <1>1, OfficeAssumption DEF Starting
  <2>2. \A m \in Opened : m.qty \in Nat /\ m.job = NoJob /\ m.type = "OPENING"
    OBVIOUS
  <2> HIDE DEF Opened
  <2> QED
    BY <2>1, <2>2, SeqDomain
<1>4. ASSUME NEW c \in DOMAIN stock PROVE stock[c] \in Nat /\ stock[c] = Worth(moves, Here(c))
  <2> DEFINE g == [i \in MovesAt(c) |-> moves[i].qty]
  <2>1. stock[c] = MoveSum(MovesAt(c))
    BY <1>1
  <2>2. DOMAIN g = MovesAt(c) /\ \A i \in MovesAt(c) : g[i] \in Nat
    BY <1>3 DEF MovesAt
  <2>3. IsFiniteSet(MovesAt(c))
    <3>1. MovesAt(c) \in SUBSET (DOMAIN moves) /\ IsFiniteSet(DOMAIN moves)
      BY <1>2, SeqDomain DEF MovesAt
    <3> QED
      BY <3>1, FS_Subset
  <2>4. SumFunction(g) \in Nat
    <3> HIDE DEF g
    <3> QED
      BY <2>2, <2>3, TotalNat
  <2> QED
    BY <1>2, <2>1, <2>4, CellSum DEF MoveSum
<1>5. \A i \in DOMAIN moves : Cell(moves[i]) \in DOMAIN stock
  BY <1>1
<1>6. Stocked
  BY <1>1, <1>4, <1>5 DEF Stocked, StockIs
<1>7. AllTied(moves, jobs) /\ DOMAIN jobs = {} /\ \A k \in Desks : desk[k].op # "job"
  BY <1>1, <1>3 DEF AllTied, Untied, Idle
<1> QED
  BY <1>6, <1>7 DEF Worked

LEMMA WorkedAlways == Spec => [](Stocked /\ Worked)
<1>1. ASSUME Orderly, FactoryTyped, FactoryTyped', Stocked, Worked, [Next]_vars PROVE Stocked' /\ Worked'
  <2>1. ASSUME FactoryCases, crossed \subseteq crossed' PROVE Stocked' /\ Worked'
    BY <1>1, <2>1, StockedStep, WorkedStep DEF Orderly
  <2>2. ASSUME UNCHANGED factoryVars, crossed \subseteq crossed',
               \A m \in Desks : desk'[m] = desk[m] \/ desk'[m].op \notin FactoryOps
        PROVE  Stocked' /\ Worked'
    <3>1. Resting
      BY <2>2 DEF Resting, AtRest, factoryVars, FactoryOps
    <3> QED
      BY <2>1, <2>2, <3>1 DEF FactoryCases
  <2>3. CASE UNCHANGED vars
    BY <2>2, <2>3 DEF vars, requestVars
  <2>4. CASE Next
    <3>1. ASSUME NEW ops \in {FileOps, CashOps, CatalogOps, {}}, Own(ops)
          PROVE  \A m \in Desks : desk'[m] = desk[m] \/ desk'[m].op \notin FactoryOps
      BY <3>1 DEF Own, FileOps, CashOps, CatalogOps, FactoryOps
    <3>2. /\ crossed \subseteq crossed'
          /\ \/ FactoryStep /\ Own(FactoryOps)
             \/ \E ops \in {FileOps, CashOps, CatalogOps, {}} : Own(ops) /\ UNCHANGED factoryVars
      BY <1>1, <2>4, StepOrderly
    <3>3. FactoryStep => FactoryCases
      BY <1>1, FactoryCasesHold
    <3> QED
      BY <2>1, <2>2, <3>1, <3>2, <3>3
  <2> QED
    BY <1>1, <2>3, <2>4
<1> QED
  BY <1>1, StartsStocked, OrderlyAlways, FactoryTypedAlways, PTL DEF Spec

(* What the movements say of an order that was never handled twice at once. *)
LEMMA PostedOnce ==
    ASSUME FactoryTyped, Worked, NEW j \in DOMAIN jobs, Apart(Job(j))
    PROVE  JobPostedOnce(j)
<1>1. jobs[j] \in JobRow /\ moves \in Seq(MoveRow)
  BY SeqDomain DEF FactoryTyped
<1>2. JobStands(j, jobs[j], moves, crossed) /\ Job(j) \notin crossed
  BY DEF Worked, Apart
<1>3. Consumed(j, jobs[j].lines, moves) /\ MadeOnce(j, jobs[j], moves)
  BY <1>2 DEF JobStands
<1>4. ASSUME NEW r \in Raws PROVE Posted(j, r) = -jobs[j].lines[r]
  <2>1. Posted(j, r) = 0 - jobs[j].lines[r]
    BY <1>1, <1>3, PostedIs DEF Consumed
  <2>2. jobs[j].lines[r] \in Nat
    BY <1>1 DEF JobRow
  <2> QED
    BY <2>1, <2>2
<1>5. ASSUME NEW p \in Products
      PROVE  Posted(j, p) = IF j \in Completed /\ p = jobs[j].product THEN jobs[j].actual ELSE 0
  <2>1. Posted(j, p) = MadeOf(jobs[j], p)
    BY <1>1, <1>3, PostedIs DEF MadeOnce
  <2> QED
    BY <2>1 DEF MadeOf, Completed
<1> QED
  BY <1>4, <1>5 DEF JobPostedOnce

LEMMA InStockIs ==
    ASSUME Stocked, NEW l, NEW item PROVE InStock(l, item) \in Nat
BY DEF Stocked, StockIs, InStock

(* The preview of shortages is the test of the postings. *)
LEMMA CoveredIs ==
    ASSUME FactoryTyped, scene \in Scenes, Stocked, NEW j \in DOMAIN jobs, NEW qty \in Nat
    PROVE  Enough(JobPosts(j, qty)) <=> \A r \in Raws : Consumes(j, qty)[r] <= InStock(jobs[j].place, r)
<1> DEFINE posts == JobPosts(j, qty)
           uses == Consumes(j, qty)
           l == jobs[j].place
           made == Move(l, jobs[j].product, qty, "PRODUCTION_IN", j)
           out(r) == Move(l, r, -uses[r], "PRODUCTION_CONSUME", j)
<1>0. jobs[j] \in JobRow
  BY SeqDomain DEF FactoryTyped
<1>1. uses \in [Raws -> Nat]
  BY JobPostsAre
<1>2. \A i \in DOMAIN posts : posts[i].place = l
  BY JobPostsAre
<1>4. \A i \in DOMAIN posts :
          (posts[i].item \in Raws /\ uses[posts[i].item] > 0 /\ posts[i] = out(posts[i].item)) \/ posts[i] = made
  BY JobPostsAre
<1>5. \A r \in Raws : uses[r] > 0 => \E i \in DOMAIN posts : posts[i].item = r
  BY JobPostsAre
<1>7. jobs[j].product \notin Raws
  <2>1. jobs[j].product \in Products /\ Products \cap Raws = {}
    BY <1>0, FactoryInputs DEF JobRow
  <2> QED
    BY <2>1
<1>8. /\ made.item = jobs[j].product /\ made.qty = qty
      /\ \A r : out(r).item = r /\ out(r).qty = -uses[r]
  BY DEF Move
<1>10. \A r : InStock(l, r) \in Nat
  BY InStockIs
<1>12. Enough(posts) <=> \A i \in DOMAIN posts : InStock(l, posts[i].item) + posts[i].qty >= 0
  BY <1>2 DEF Enough
<1>13. \A a, b \in Nat : (a + (-b) >= 0 <=> b <= a) /\ a + b >= 0
  OBVIOUS
<1> HIDE DEF posts, uses, made, out
<1>14. ASSUME \A r \in Raws : uses[r] <= InStock(l, r), NEW i \in DOMAIN posts
       PROVE  InStock(l, posts[i].item) + posts[i].qty >= 0
  <2>1. CASE posts[i] = made
    BY <1>8, <1>10, <1>13, <2>1
  <2>2. CASE posts[i].item \in Raws /\ posts[i] = out(posts[i].item)
    <3>1. posts[i].qty = -uses[posts[i].item] /\ uses[posts[i].item] \in Nat
      BY <1>1, <1>8, <2>2
    <3>2. uses[posts[i].item] <= InStock(l, posts[i].item)
      BY <1>14, <2>2
    <3> QED
      BY <1>10, <1>13, <3>1, <3>2
  <2> QED
    BY <1>4, <2>1, <2>2
<1>15. ASSUME \A i \in DOMAIN posts : InStock(l, posts[i].item) + posts[i].qty >= 0, NEW r \in Raws
       PROVE  uses[r] <= InStock(l, r)
  <2>0. uses[r] \in Nat
    BY <1>1
  <2>1. CASE uses[r] > 0
    <3>1. PICK i \in DOMAIN posts : posts[i].item = r
      BY <1>5, <2>1
    <3>2. posts[i] = out(r)
      BY <1>4, <1>7, <1>8, <3>1
    <3>3. posts[i].qty = -uses[r] /\ InStock(l, r) + posts[i].qty >= 0
      BY <1>8, <1>15, <3>1, <3>2
    <3> QED
      BY <1>10, <1>13, <2>0, <3>3
  <2>2. CASE ~(uses[r] > 0)
    BY <1>10, <2>0, <2>2
  <2> QED
    BY <2>1, <2>2
<1>16. Enough(posts) <=> \A r \in Raws : uses[r] <= InStock(l, r)
  BY <1>12, <1>14, <1>15
<1> QED
  BY <1>16 DEF posts, uses

LEMMA PreviewIs ==
    ASSUME FactoryTyped, scene \in Scenes, Stocked, NEW j \in DOMAIN jobs
    PROVE  CanMake(j) <=> Enough(JobPosts(j, jobs[j].planned))
<1> DEFINE qty == jobs[j].planned
<1>1. qty \in Nat
  <2>1. jobs[j] \in JobRow
    BY SeqDomain DEF FactoryTyped
  <2> QED
    BY <2>1 DEF JobRow
<1>2. \A r \in Raws : boms[jobs[j].bom].per[r] * qty = Consumes(j, qty)[r]
  BY DEF Consumes
<1>3. CanMake(j) <=> \A r \in Raws : Consumes(j, qty)[r] <= InStock(jobs[j].place, r)
  BY <1>2 DEF CanMake
<1> HIDE DEF qty
<1>4. Enough(JobPosts(j, qty)) <=> \A r \in Raws : Consumes(j, qty)[r] <= InStock(jobs[j].place, r)
  BY <1>1, CoveredIs
<1> QED
  BY <1>3, <1>4 DEF qty

(* One location alone can be posted to: it holds all there is. *)
LEMMA OneAlone ==
    ASSUME NEW S, IsFiniteSet(S), Cardinality(S) <= 1, NEW x \in S
    PROVE  S = {x}
<1>1. /\ IsFiniteSet(S \ {x}) /\ Cardinality(S \ {x}) = Cardinality(S) - 1 /\ Cardinality(S) \in Nat
      /\ Cardinality(S \ {x}) \in Nat
  BY FS_RemoveElement, FS_CardinalityType
<1>2. Cardinality(S \ {x}) = 0
  BY <1>1
<1>3. S \ {x} = {}
  BY <1>1, <1>2, FS_EmptySet
<1> QED
  BY <1>3

LEMMA NothingHidden ==
    ASSUME FactoryTyped, Stocked, \A c \in DOMAIN stock : Active(c[1]), NEW warehouse \in BOOLEAN
    PROVE  Listed(warehouse) = DOMAIN stock
<1> DEFINE active == {l \in DOMAIN places : Active(l)}
           default == {l \in active : places[l].default}
           choice == IF default # {} THEN default ELSE active
<1>1. active \in SUBSET (DOMAIN places) /\ IsFiniteSet(active) /\ DOMAIN places \in SUBSET Nat
  <2>1. IsFiniteSet(DOMAIN places) /\ DOMAIN places \in SUBSET Nat
    BY SeqDomain DEF FactoryTyped
  <2> QED
    BY <2>1, FS_Subset
<1>2. ASSUME NEW c \in DOMAIN stock PROVE c[1] \in active
  <2>1. PICK i \in DOMAIN moves : Cell(moves[i]) = c
    BY DEF Stocked, StockIs
  <2>2. c[1] = moves[i].place
    BY <2>1 DEF Cell
  <2>3. c[1] \in DOMAIN places
    BY <2>2 DEF FactoryTyped
  <2> QED
    BY <2>3
<1>3. CASE warehouse \/ ~(Cardinality(active) <= 1)
  BY <1>3 DEF Listed
<1>4. CASE ~warehouse /\ Cardinality(active) <= 1
  <2>1. Listed(warehouse) = StockOnHand(DefaultPlace)
    BY <1>4 DEF Listed
  <2>2. ASSUME NEW c \in DOMAIN stock PROVE c[1] = DefaultPlace
    <3>1. active = {c[1]}
      <4> HIDE DEF active
      <4> QED
        BY <1>1, <1>2, <1>4, OneAlone
    <3>2. choice = {c[1]}
      BY <3>1
    <3>3. c[1] \in Int
      BY <1>1, <1>2
    <3>4. Min({c[1]}) = c[1]
      <4> DEFINE one == {c[1]}
      <4>1. one \in SUBSET Int /\ IsFiniteSet(one) /\ one # {}
        BY <3>3, FS_Singleton
      <4>2. Min(one) \in one
        <5> HIDE DEF one
        <5> QED
          BY <4>1, MinIs
      <4> QED
        BY <4>2
    <3>5. DefaultPlace = Min(choice)
      BY DEF DefaultPlace
    <3> HIDE DEF choice
    <3> QED
      BY <3>2, <3>4, <3>5
  <2>3. StockOnHand(DefaultPlace) = DOMAIN stock
    BY <2>2 DEF StockOnHand
  <2> QED
    BY <2>1, <2>3
<1> QED
  BY <1>3, <1>4

(* The movements of production, order by order. *)
LEMMA MovedByJob ==
    ASSUME FactoryTyped, Worked, NEW type, NEW item,
           \/ item \in Products /\ item \notin Raws /\ type = "PRODUCTION_IN"
           \/ item \in Raws /\ item \notin Products /\ type = "PRODUCTION_CONSUME",
           NEW g, g = [j \in DOMAIN jobs |-> Posted(j, item)]
    PROVE  SumFunction(g) = Moved(type, item)
<1> DEFINE R == {i \in DOMAIN moves : moves[i].type = type /\ moves[i].item = item}
           K == DOMAIN jobs
           f == [i \in R |-> moves[i].qty]
           key == [i \in R |-> moves[i].job]
<1>1. \A i \in DOMAIN moves : moves[i] \in MoveRow /\ moves[i].qty \in Int
  <2>1. \A m \in MoveRow : m.qty \in Int
    BY DEF MoveRow
  <2> QED
    BY <2>1, SeqDomain DEF FactoryTyped
<1>2. IsFiniteSet(R) /\ IsFiniteSet(K) /\ \A j \in K : j # NoJob
  <2>1. IsFiniteSet(DOMAIN moves) /\ IsFiniteSet(DOMAIN jobs) /\ R \in SUBSET (DOMAIN moves)
    BY SeqDomain DEF FactoryTyped
  <2>2. \A j \in DOMAIN jobs : j # 0
    BY DEF FactoryTyped
  <2> QED
    BY <2>1, <2>2, FS_Subset DEF NoJob
<1>3. \A i \in DOMAIN moves : Untied(moves[i]) \/ \E j \in K : Tied(moves[i], j)
  BY DEF Worked, AllTied
<1>4. ASSUME NEW i \in R PROVE moves[i].job \in K
  BY <1>3 DEF Untied, Tied
<1>5. ASSUME NEW j \in K PROVE {i \in DOMAIN moves : moves[i].job = j /\ moves[i].item = item} = {i \in R : key[i] = j}
  <2>1. ASSUME NEW i \in DOMAIN moves, moves[i].job = j, moves[i].item = item PROVE moves[i].type = type
    BY <1>2, <1>3, <2>1 DEF Untied, Tied
  <2> QED
    BY <2>1
<1>6. ASSUME NEW j \in K PROVE g[j] = SumFunction([i \in {x \in R : key[x] = j} |-> f[i]])
  <2>1. g[j] = SumFunction([i \in {x \in R : key[x] = j} |-> moves[i].qty])
    <3>1. g[j] = MoveSum({i \in DOMAIN moves : moves[i].job = j /\ moves[i].item = item})
      BY DEF Posted
    <3> HIDE DEF R, key
    <3> QED
      BY <1>5, <3>1 DEF MoveSum
  <2>2. [i \in {x \in R : key[x] = j} |-> moves[i].qty] = [i \in {x \in R : key[x] = j} |-> f[i]]
    OBVIOUS
  <2> QED
    BY <2>1, <2>2
<1>7. /\ \A i \in R : f[i] \in Int /\ key[i] \in K
      /\ f = [i \in R |-> f[i]] /\ g = [j \in K |-> g[j]]
  BY <1>1, <1>4
<1>8. SumFunction(f) = Moved(type, item)
  BY DEF Moved, MoveSum
<1> HIDE DEF R, K, f, key
<1>9. Parted(R, K, f, key, g)
  BY <1>2, <1>6, <1>7 DEF Parted
<1>10. SumFunction(g) = SumFunction(f)
  BY <1>9, SumOfParts
<1> QED
  BY <1>8, <1>10

(* The report on yield. *)
LEMMA YieldIs ==
    ASSUME FactoryTyped, Worked, \A j \in DOMAIN jobs : JobPostedOnce(j), NEW p \in Products, p \notin Raws
    PROVE  ProductionYield(p) = Moved("PRODUCTION_IN", p)
<1> DEFINE g == [j \in DOMAIN jobs |-> Posted(j, p)]
           y == [j \in {j \in Completed : jobs[j].product = p} |-> jobs[j].actual]
<1>1. SumFunction(g) = Moved("PRODUCTION_IN", p)
  BY MovedByJob
<1>2. IsFiniteSet(DOMAIN g) /\ DOMAIN y \in SUBSET (DOMAIN g)
  BY SeqDomain DEF FactoryTyped, Completed
<1>3. ASSUME NEW j \in DOMAIN g PROVE g[j] \in Int /\ g[j] = IF j \in DOMAIN y THEN y[j] ELSE 0
  <2>1. g[j] = IF j \in Completed /\ p = jobs[j].product THEN jobs[j].actual ELSE 0
    BY DEF JobPostedOnce
  <2>2. jobs[j].actual \in Nat
    <3>1. jobs[j] \in JobRow
      BY SeqDomain DEF FactoryTyped
    <3> QED
      BY <3>1 DEF JobRow
  <2> QED
    BY <2>1, <2>2
<1>4. SumFunction(y) = ProductionYield(p)
  BY DEF ProductionYield
<1> HIDE DEF g, y
<1>5. SumFunction(y) = SumFunction(g)
  BY <1>2, <1>3, TotalWithin
<1> QED
  BY <1>1, <1>4, <1>5

(* The report on consumption. *)
LEMMA ConsumptionIs ==
    ASSUME FactoryTyped, Worked, \A j \in DOMAIN jobs : JobPostedOnce(j) /\ Apart(Job(j)),
           NEW r \in Raws, r \notin Products
    PROVE  RawConsumption(r) = -Moved("PRODUCTION_CONSUME", r)
<1> DEFINE g == [j \in DOMAIN jobs |-> Posted(j, r)]
           u == [j \in DOMAIN jobs |-> jobs[j].lines[r]]
           z == [j \in DOMAIN jobs |-> 0]
           y == [j \in Completed |-> jobs[j].lines[r]]
           S == DOMAIN jobs
<1>1. SumFunction(g) = Moved("PRODUCTION_CONSUME", r)
  BY MovedByJob
<1>2. IsFiniteSet(S) /\ DOMAIN y \in SUBSET S /\ DOMAIN g = S /\ DOMAIN u = S /\ DOMAIN z = S
      /\ \A j \in S : z[j] = 0
  BY SeqDomain DEF FactoryTyped, Completed
<1>3. ASSUME NEW j \in S
      PROVE  /\ u[j] \in Int /\ u[j] = IF j \in DOMAIN y THEN y[j] ELSE 0
             /\ g[j] \in Int /\ z[j] = u[j] + g[j]
  <2>1. jobs[j].lines[r] \in Nat
    <3>1. jobs[j] \in JobRow
      BY SeqDomain DEF FactoryTyped
    <3> QED
      BY <3>1 DEF JobRow
  <2>2. g[j] = -jobs[j].lines[r]
    BY DEF JobPostedOnce
  <2>3. j \notin Completed => jobs[j].lines[r] = 0
    <3>1. JobStands(j, jobs[j], moves, crossed) /\ Job(j) \notin crossed
      BY DEF Worked, Apart
    <3> QED
      BY <3>1 DEF JobStands, MadeOnce, Completed
  <2> QED
    BY <2>1, <2>2, <2>3
<1>4. SumFunction(y) = RawConsumption(r)
  BY DEF RawConsumption
<1> HIDE DEF g, u, z, y, S
<1>5. SumFunction(y) = SumFunction(u)
  BY <1>2, <1>3, TotalWithin
<1>6. SumFunction(z) = SumFunction(u) + SumFunction(g) /\ SumFunction(u) \in Int /\ SumFunction(g) \in Int
  <2>1. /\ IsFiniteSet(S) /\ DOMAIN u = S /\ DOMAIN g = S /\ DOMAIN z = S
        /\ \A j \in S : u[j] \in Int /\ g[j] \in Int /\ z[j] = u[j] + g[j]
    BY <1>2, <1>3
  <2> QED
    BY ONLY <2>1, TotalPlus
<1>7. SumFunction(z) = 0
  BY <1>2, TotalZero
<1> QED
  BY <1>1, <1>4, <1>5, <1>6, <1>7

(* Stock is what was moved, place by place; an order that was never        *)
(* handled twice at once has moved what its lines and its status say, and  *)
(* the reports on orders agree with the movements; the preview of          *)
(* shortages is the test that the postings make; and a list without a      *)
(* location hides nothing while every location that holds stock is active  *)
(* (production.service.ts, inventory.service.ts, reports.service.ts).      *)
THEOREM StockAddsUp == Spec => []FactoryAgrees
<1>1. ASSUME Orderly, FactoryTyped, Stocked, Worked PROVE FactoryAgrees
  <2>1. scene \in Scenes /\ Products \cap Raws = {}
    BY <1>1, OfficeAssumption DEF Orderly, Exclusive
  <2>2. ASSUME NEW c \in DOMAIN stock PROVE stock[c] >= 0 /\ stock[c] = MoveSum(MovesAt(c))
    <3>1. MoveSum(MovesAt(c)) = Worth(moves, Here(c))
      BY <1>1, CellSum DEF FactoryTyped
    <3> QED
      BY <1>1, <3>1 DEF Stocked, StockIs
  <2>3. \A j \in DOMAIN jobs : Apart(Job(j)) => JobPostedOnce(j)
    BY <1>1, PostedOnce
  <2>4. \A j \in DOMAIN jobs : CanMake(j) <=> Enough(JobPosts(j, jobs[j].planned))
    BY <1>1, <2>1, PreviewIs
  <2>5. ASSUME \A j \in DOMAIN jobs : Apart(Job(j))
        PROVE  /\ \A p \in Products : ProductionYield(p) = Moved("PRODUCTION_IN", p)
               /\ \A r \in Raws : RawConsumption(r) = -Moved("PRODUCTION_CONSUME", r)
    <3>1. \A j \in DOMAIN jobs : JobPostedOnce(j) /\ Apart(Job(j))
      BY <2>3, <2>5
    <3>2. ASSUME NEW p \in Products PROVE ProductionYield(p) = Moved("PRODUCTION_IN", p)
      BY <1>1, <2>1, <3>1, YieldIs
    <3>3. ASSUME NEW r \in Raws PROVE RawConsumption(r) = -Moved("PRODUCTION_CONSUME", r)
      BY <1>1, <2>1, <3>1, ConsumptionIs
    <3> QED
      BY <3>2, <3>3
  <2>6. ASSUME \A c \in DOMAIN stock : Active(c[1]), NEW warehouse \in BOOLEAN, NEW item \in Products \cup Raws
        PROVE  SumOnHand(item) = OnHandIn(Listed(warehouse), item)
    <3>1. Listed(warehouse) = DOMAIN stock
      BY <1>1, <2>6, NothingHidden
    <3> QED
      BY <3>1 DEF SumOnHand
  <2> QED
    BY <2>2, <2>3, <2>4, <2>5, <2>6 DEF FactoryAgrees
<1> QED
  BY <1>1, OrderlyAlways, FactoryTypedAlways, WorkedAlways, PTL

-----------------------------------------------------------------------------
(* The catalog: what each step does to it. *)
Touched(row) == \A k \in Desks : row \in desk[k].on => row \in crossed'
Alike(j) == items'[j].kind = items[j].kind /\ items'[j].name = items[j].name /\ items'[j].gone = items[j].gone

Lies ==
    /\ UNCHANGED <<items, costs>> /\ today <= today' /\ crossed \subseteq crossed'
    /\ today' = today \/ today' <= Horizon
    /\ \A k \in Desks : \/ desk'[k] = desk[k]
                        \/ /\ desk'[k].op \notin CatalogOps
                           /\ desk[k].op = "cost" => desk[k].on \subseteq crossed'
Looks(k) ==
    /\ UNCHANGED <<items, costs, today>> /\ crossed \subseteq crossed' /\ Alone(k) /\ desk[k] = Idle
    /\ desk'[k].op = "create" /\ Available(desk'[k].kind, desk'[k].name, {})
Rereads(k, i, put) ==
    /\ UNCHANGED <<items, costs, today>> /\ crossed \subseteq crossed' /\ Alone(k) /\ desk[k] = Idle
    /\ i \in DOMAIN items /\ ~items[i].gone /\ put \in scene.edits /\ Does("catalog")
    /\ "name" \in DOMAIN put => Available(items[i].kind, put.name, {i})
    /\ desk'[k].op = "update" /\ desk'[k].id = i /\ desk'[k].put = put
    /\ Named(items[i].kind, Patched(items[i], put).name) \in desk'[k].on
    /\ desk'[k].cost = IF Patched(items[i], put).default = items[i].default THEN 0 ELSE Patched(items[i], put).default
Creates(k) ==
    /\ UNCHANGED <<costs, today, crossed>> /\ Alone(k) /\ desk[k].op = "create"
    /\ Writable(desk[k].kind, desk[k].name, {})
    /\ Grown(ItemRow, items, NewItem(desk[k].kind, desk[k].name, IF desk[k].kind = "raw" THEN desk[k].cost ELSE 0), items')
    /\ IF desk[k].cost = 0 THEN desk'[k].op = "none"
       ELSE desk'[k].op = "cost" /\ desk'[k].id = Len(items) + 1 /\ desk'[k].cost = desk[k].cost
Prices(k) ==
    /\ UNCHANGED <<items, today, crossed>> /\ Alone(k) /\ desk[k].op = "cost" /\ desk'[k].op = "none"
    /\ Grown(CostRow, costs, Cost(desk[k].id, desk[k].cost, today), costs')
Updates(k, i, put) ==
    /\ UNCHANGED <<today, crossed>> /\ Alone(k) /\ desk[k].op = "update" /\ desk'[k].op = "none"
    /\ desk[k].id = i /\ desk[k].put = put /\ i \in DOMAIN items /\ put \in scene.edits /\ Does("catalog")
    /\ "name" \in DOMAIN put => Writable(items[i].kind, put.name, {i})
    /\ DOMAIN items' = DOMAIN items /\ items'[i] = Patched(items[i], put)
    /\ \A j \in DOMAIN items : j # i => items'[j] = items[j]
    /\ IF desk[k].cost = 0 THEN costs' = costs ELSE Grown(CostRow, costs, Cost(i, desk[k].cost, today), costs')
Finds ==
    /\ UNCHANGED <<costs, today, desk>> /\ crossed \subseteq crossed' /\ DOMAIN items' = DOMAIN items
    /\ \A j \in DOMAIN items : Alike(j) /\ items'[j].default = items[j].default
AddsArea(name) ==
    /\ UNCHANGED <<costs, today, desk>> /\ crossed \subseteq crossed' /\ Touched(Named("area", name))
    /\ Writable("area", name, {}) /\ name \in ItemNames
    /\ Grown(ItemRow, items, NewItem("area", name, 0), items')
Deletes(i) ==
    /\ UNCHANGED <<costs, today, desk>> /\ crossed \subseteq crossed' /\ Touched(Item(i))
    /\ i \in DOMAIN items /\ DOMAIN items' = DOMAIN items
    /\ items'[i].kind = items[i].kind /\ items'[i].name = Mangled[i] /\ items'[i].gone
    /\ items'[i].default = items[i].default
    /\ \A j \in DOMAIN items : j # i => items'[j] = items[j]
Enters(i, cost, from) ==
    /\ UNCHANGED <<today, desk>> /\ crossed \subseteq crossed' /\ Touched(Item(i))
    /\ i \in DOMAIN items /\ from \in 1..Horizon /\ Grown(CostRow, costs, Cost(i, cost, from), costs')
    /\ DOMAIN items' = DOMAIN items /\ \A j \in DOMAIN items : Alike(j)
    /\ \A j \in DOMAIN items : j # i => items'[j].default = items[j].default
    /\ items[i].kind = "raw" => items'[i].default = LatestCost(costs', i, Horizon)

LEMMA CostAdded ==
    ASSUME Orderly, NEW i \in DOMAIN items, NEW cost \in Nat, NEW from \in Nat, costs' = Append(costs, Cost(i, cost, from))
    PROVE  Grown(CostRow, costs, Cost(i, cost, from), costs')
<1>1. i \in Nat /\ costs \in Seq(CostRow) /\ today \in Nat
  BY SeqDomain DEF Orderly, CatalogTyped
<1>2. Cost(i, cost, from) \in CostRow
  BY <1>1 DEF Cost, CostRow
<1> QED
  BY <1>1, <1>2, RowGrown

LEMMA ItemAdded ==
    ASSUME Orderly, NEW kind \in Kinds, NEW name \in ItemNames, NEW default \in Nat,
           items' = Append(items, NewItem(kind, name, default))
    PROVE  Grown(ItemRow, items, NewItem(kind, name, default), items')
<1>1. NewItem(kind, name, default) \in ItemRow /\ items \in Seq(ItemRow)
  BY DEF NewItem, ItemRow, Names, Orderly, CatalogTyped
<1> QED
  BY <1>1, RowGrown

CatalogCase ==
    \/ Lies \/ Finds
    \/ \E k \in Desks : Looks(k) \/ Creates(k) \/ Prices(k) \/ \E i, put : Rereads(k, i, put) \/ Updates(k, i, put)
    \/ (\E name : AddsArea(name)) \/ (\E i : Deletes(i)) \/ (\E i, cost, from : Enters(i, cost, from))

LEMMA CatalogSteps ==
    ASSUME Orderly, CatalogStep
    PROVE  CatalogCase
<1>0. /\ items \in Seq(ItemRow) /\ costs \in Seq(CostRow) /\ today \in Nat /\ scene \in Scenes /\ Exclusive
      /\ \A k \in Desks : CatalogFrame(desk[k])
      /\ \A i \in DOMAIN items : items[i] \in ItemRow
  BY SeqDomain DEF Orderly, CatalogTyped, Exclusive
<1>00. /\ scene.kinds \subseteq Kinds /\ scene.names \subseteq ItemNames /\ scene.prices \subseteq Nat
       /\ \A put \in scene.edits : Gives(put, Columns(scene))
  BY <1>0, CatalogInputs
<1>01. ASSUME UNCHANGED catalogVars, NEW k \in Desks, NEW frame, Starts(k, frame)
       PROVE  /\ UNCHANGED <<items, costs, today>> /\ crossed \subseteq crossed' /\ Alone(k) /\ desk[k] = Idle
              /\ desk'[k] = frame
  <2>1. /\ desk'[k] = frame /\ desk[k] = Idle /\ (\A m \in Desks : m # k => desk'[m] = desk[m])
        /\ crossed \subseteq crossed'
    BY <1>0, <1>01, StartsDesk DEF Starts
  <2> QED
    BY <1>01, <2>1 DEF Alone, catalogVars
<1>02. ASSUME NEW k \in Desks, Ends(k)
       PROVE  Alone(k) /\ crossed' = crossed /\ desk'[k] = Idle
  <2>1. desk'[k] = Idle /\ (\A m \in Desks : m # k => desk'[m] = desk[m])
    BY <1>0, <1>02, EndsDesk
  <2> QED
    BY <1>02, <2>1 DEF Alone, Ends
<1>1. ASSUME NEW k \in Desks, NEW kind, NEW name, NEW cost, BeginCreate(k, kind, name, cost) PROVE CatalogCase
  <2> DEFINE frame == [op |-> "create", on |-> {Named(kind, name)}, kind |-> kind, name |-> name, cost |-> cost]
  <2>1. Starts(k, frame) /\ UNCHANGED catalogVars /\ Available(kind, name, {})
    BY <1>1 DEF BeginCreate
  <2>2. frame.op = "create" /\ frame.kind = kind /\ frame.name = name
    OBVIOUS
  <2> HIDE DEF frame
  <2>3. Looks(k)
    BY <1>01, <2>1, <2>2 DEF Looks
  <2> QED
    BY <2>3 DEF CatalogCase
<1>2. ASSUME NEW k \in Desks, NEW i \in DOMAIN items, NEW put \in scene.edits, BeginUpdate(k, i, put) PROVE CatalogCase
  <2> DEFINE new == Patched(items[i], put)
             cost == IF new.default = items[i].default THEN 0 ELSE new.default
             frame == [op |-> "update", id |-> i, put |-> put, cost |-> cost,
                       on |-> {Item(i), Named(new.kind, new.name)}]
  <2>1. /\ Starts(k, frame) /\ UNCHANGED catalogVars /\ ~items[i].gone /\ Does("catalog")
        /\ "name" \in DOMAIN put => Available(items[i].kind, put.name, {i})
    BY <1>2 DEF BeginUpdate
  <2>2. /\ frame.op = "update" /\ frame.id = i /\ frame.put = put /\ frame.cost = cost
        /\ Named(new.kind, new.name) \in frame.on
    OBVIOUS
  <2>3. new.kind = items[i].kind
    BY <1>0, <1>00, <2>1, PatchedItem
  <2> HIDE DEF frame
  <2>4. Rereads(k, i, put)
    BY <1>01, <2>1, <2>2, <2>3 DEF Rereads
  <2> QED
    BY <2>4 DEF CatalogCase
<1>3. ASSUME NEW k \in Desks, CommitCreate(k) PROVE CatalogCase
  <2> DEFINE f == desk[k]
             n == Len(items) + 1
             default == IF f.kind = "raw" THEN f.cost ELSE 0
             frame == [op |-> "cost", on |-> {Item(n)}, id |-> n, cost |-> f.cost]
  <2>1. /\ CreateFrame(f) /\ f.op = "create" /\ costs' = costs /\ today' = today
    BY <1>0, <1>3 DEF CommitCreate, Holds, CatalogFrame
  <2>2. f.kind \in Kinds /\ f.name \in ItemNames /\ default \in Nat
    BY <2>1 DEF CreateFrame
  <2>3. CASE items' = items /\ Ends(k)
    <3>1. Lies
      BY <1>0, <1>02, <2>1, <2>3 DEF Lies, Alone, Idle, CatalogOps
    <3> QED
      BY <3>1 DEF CatalogCase
  <2>4. CASE /\ Writable(f.kind, f.name, {}) /\ items' = Append(items, NewItem(f.kind, f.name, default))
             /\ \/ f.cost = 0 /\ Ends(k)
                \/ f.cost # 0 /\ desk' = [desk EXCEPT ![k] = frame] /\ UNCHANGED <<scene, crossed>>
    <3>1. Grown(ItemRow, items, NewItem(f.kind, f.name, default), items')
      BY <2>2, <2>4, ItemAdded
    <3>2. /\ crossed' = crossed /\ Alone(k)
          /\ IF f.cost = 0 THEN desk'[k].op = "none"
             ELSE desk'[k].op = "cost" /\ desk'[k].id = n /\ desk'[k].cost = f.cost
      <4>1. CASE f.cost = 0 /\ Ends(k)
        BY <1>02, <4>1 DEF Idle
      <4>2. CASE f.cost # 0 /\ desk' = [desk EXCEPT ![k] = frame] /\ UNCHANGED <<scene, crossed>>
        BY <1>0, <4>2 DEF Exclusive, Alone
      <4> QED
        BY <2>4, <4>1, <4>2
    <3>3. Creates(k)
      BY <2>1, <2>4, <3>1, <3>2 DEF Creates
    <3> QED
      BY <3>3 DEF CatalogCase
  <2>5. \/ items' = items /\ Ends(k)
        \/ /\ Writable(f.kind, f.name, {}) /\ items' = Append(items, NewItem(f.kind, f.name, default))
           /\ \/ f.cost = 0 /\ Ends(k)
              \/ f.cost # 0 /\ desk' = [desk EXCEPT ![k] = frame] /\ UNCHANGED <<scene, crossed>>
    BY <1>3 DEF CommitCreate
  <2> QED
    BY <2>3, <2>4, <2>5
<1>4. ASSUME NEW k \in Desks, FirstCost(k) PROVE CatalogCase
  <2>1. /\ CostFrame(desk[k]) /\ desk[k].op = "cost" /\ Ends(k) /\ items' = items /\ today' = today
        /\ costs' = Append(costs, Cost(desk[k].id, desk[k].cost, today))
    BY <1>0, <1>4 DEF FirstCost, Holds, CatalogFrame
  <2>2. Grown(CostRow, costs, Cost(desk[k].id, desk[k].cost, today), costs')
    BY <1>0, <2>1, CostAdded DEF CostFrame
  <2>3. Prices(k)
    BY <1>02, <2>1, <2>2 DEF Prices, Idle
  <2> QED
    BY <2>3 DEF CatalogCase
<1>5. ASSUME NEW k \in Desks, CommitUpdate(k) PROVE CatalogCase
  <2> DEFINE f == desk[k]
             i == f.id
             put == f.put
             new == Patched(items[i], put)
  <2>1. UpdateFrame(f) /\ f.op = "update" /\ Ends(k) /\ today' = today
    BY <1>0, <1>5 DEF CommitUpdate, Holds, CatalogFrame
  <2>2. i \in DOMAIN items /\ f.cost \in Nat /\ Does("catalog") /\ put \in scene.edits
    BY <2>1 DEF UpdateFrame
  <2>3. new \in ItemRow /\ new.kind = items[i].kind /\ ("name" \in DOMAIN put => new.name = put.name)
    BY <1>0, <1>00, <2>2, PatchedItem
  <2>4. \/ UNCHANGED <<items, costs>>
        \/ /\ "name" \in DOMAIN put => Writable(new.kind, new.name, {i})
           /\ items' = [items EXCEPT ![i] = new]
           /\ costs' = IF f.cost = 0 THEN costs ELSE Append(costs, Cost(i, f.cost, today))
    BY <1>5 DEF CommitUpdate
  <2>5. CASE UNCHANGED <<items, costs>>
    <3>1. Lies
      BY <1>0, <1>02, <2>1, <2>5 DEF Lies, Alone, Idle, CatalogOps
    <3> QED
      BY <3>1 DEF CatalogCase
  <2>6. CASE /\ "name" \in DOMAIN put => Writable(new.kind, new.name, {i})
             /\ items' = [items EXCEPT ![i] = new]
             /\ costs' = IF f.cost = 0 THEN costs ELSE Append(costs, Cost(i, f.cost, today))
    <3>1. /\ DOMAIN items' = DOMAIN items /\ items'[i] = new
          /\ \A j \in DOMAIN items : j # i => items'[j] = items[j]
      <4> HIDE DEF new, i
      <4> QED
        BY <1>0, <2>2, <2>3, <2>6, PutRow
    <3>2. IF f.cost = 0 THEN costs' = costs ELSE Grown(CostRow, costs, Cost(i, f.cost, today), costs')
      BY <1>0, <2>2, <2>6, CostAdded
    <3>3. "name" \in DOMAIN put => Writable(items[i].kind, put.name, {i})
      BY <2>3, <2>6
    <3>4. Updates(k, i, put)
      BY <1>02, <2>1, <2>2, <3>1, <3>2, <3>3 DEF Updates, Idle
    <3> QED
      BY <3>4 DEF CatalogCase
  <2> QED
    BY <2>4, <2>5, <2>6
<1>6. ASSUME NEW name \in scene.names, AreaByName(name) PROVE CatalogCase
  <2> DEFINE found == LiveNamed("area", name)
  <2>1. /\ Touches({Named("area", name)}) /\ costs' = costs /\ today' = today
        /\ "area" \in Kinds /\ name \in ItemNames
    BY <1>00, <1>6 DEF AreaByName
  <2>2. desk' = desk /\ crossed \subseteq crossed' /\ Touched(Named("area", name))
    BY <1>0, <2>1, TouchesDesk, TouchedCross DEF Touched
  <2>3. CASE found # {} /\ items' = [items EXCEPT ![Min(found)].active = TRUE]
    <3>1. DOMAIN items' = DOMAIN items
      BY <2>3
    <3>2. \A j \in DOMAIN items : items'[j] = items[j] \/ items'[j] = [items[j] EXCEPT !.active = TRUE]
      BY <2>3
    <3>3. \A j \in DOMAIN items : Alike(j) /\ items'[j].default = items[j].default
      BY <1>0, <3>2 DEF Alike, ItemRow
    <3>4. Finds
      BY <2>1, <2>2, <3>1, <3>3 DEF Finds
    <3> QED
      BY <3>4 DEF CatalogCase
  <2>4. CASE Writable("area", name, {}) /\ items' = Append(items, NewItem("area", name, 0))
    <3>1. Grown(ItemRow, items, NewItem("area", name, 0), items')
      BY <2>1, <2>4, ItemAdded
    <3>2. AddsArea(name)
      BY <2>1, <2>2, <2>4, <3>1 DEF AddsArea
    <3> QED
      BY <3>2 DEF CatalogCase
  <2> QED
    BY <1>6, <2>3, <2>4 DEF AreaByName
<1>7. ASSUME NEW i \in DOMAIN items, SoftDelete(i) PROVE CatalogCase
  <2> DEFINE row == [items[i] EXCEPT !.name = Mangled[i], !.active = FALSE, !.gone = TRUE]
  <2>1. /\ Touches({Item(i), Named(items[i].kind, items[i].name)}) /\ costs' = costs /\ today' = today
        /\ items' = [items EXCEPT ![i].name = Mangled[i], ![i].active = FALSE, ![i].gone = TRUE]
    BY <1>7 DEF SoftDelete
  <2>2. items' = [items EXCEPT ![i] = row]
    BY <2>1, Zenon
  <2>3. row.kind = items[i].kind /\ row.name = Mangled[i] /\ row.gone /\ row.default = items[i].default
    BY <1>0 DEF ItemRow
  <2>4. desk' = desk /\ crossed \subseteq crossed' /\ Touched(Item(i))
    BY <1>0, <2>1, TouchesDesk, TouchedCross DEF Touched
  <2> HIDE DEF row
  <2>5. DOMAIN items' = DOMAIN items /\ items'[i] = row /\ \A j \in DOMAIN items : j # i => items'[j] = items[j]
    BY <2>2
  <2>6. Deletes(i)
    BY <2>1, <2>3, <2>4, <2>5 DEF Deletes
  <2> QED
    BY <2>6 DEF CatalogCase
<1>8. ASSUME NEW i \in DOMAIN items, NEW cost \in scene.prices, NEW from \in 1..Horizon, AddCost(i, cost, from)
      PROVE  CatalogCase
  <2>1. /\ costs' = Append(costs, Cost(i, cost, from)) /\ today' = today /\ Touches({Item(i)})
        /\ items' = IF items[i].kind = "raw"
                    THEN [items EXCEPT ![i].default = LatestCost(costs', i, Horizon)] ELSE items
    BY <1>8 DEF AddCost
  <2>2. Grown(CostRow, costs, Cost(i, cost, from), costs')
    BY <1>00, <2>1, CostAdded, OfficeAssumption
  <2>3. desk' = desk /\ crossed \subseteq crossed' /\ Touched(Item(i))
    BY <1>0, <2>1, TouchesDesk, TouchedCross DEF Touched
  <2>4. /\ DOMAIN items' = DOMAIN items /\ (\A j \in DOMAIN items : Alike(j))
        /\ \A j \in DOMAIN items : j # i => items'[j].default = items[j].default
        /\ items[i].kind = "raw" => items'[i].default = LatestCost(costs', i, Horizon)
    <3>1. CASE items[i].kind = "raw"
      <4> DEFINE default == LatestCost(costs', i, Horizon)
                 row == [items[i] EXCEPT !.default = default]
      <4>1. items' = [items EXCEPT ![i] = row]
        BY <2>1, <3>1
      <4> HIDE DEF default
      <4>2. row.kind = items[i].kind /\ row.name = items[i].name /\ row.gone = items[i].gone /\ row.default = default
        BY <1>0 DEF ItemRow
      <4> HIDE DEF row
      <4>3. DOMAIN items' = DOMAIN items /\ items'[i] = row /\ \A j \in DOMAIN items : j # i => items'[j] = items[j]
        BY <4>1
      <4> QED
        BY <4>2, <4>3 DEF Alike, default
    <3>2. CASE items[i].kind # "raw"
      BY <2>1, <3>2 DEF Alike
    <3> QED
      BY <3>1, <3>2
  <2>5. Enters(i, cost, from)
    BY <2>1, <2>2, <2>3, <2>4 DEF Enters
  <2> QED
    BY <2>5 DEF CatalogCase
<1>9. ASSUME NextDay PROVE CatalogCase
  <2>1. items' = items /\ costs' = costs /\ today' = today + 1 /\ today' <= Horizon /\ UNCHANGED requestVars
    BY <1>0, <1>9, OfficeAssumption DEF NextDay
  <2>2. Lies
    BY <1>0, <2>1 DEF Lies, requestVars
  <2> QED
    BY <2>2 DEF CatalogCase
<1> QED
  BY <1>1, <1>2, <1>3, <1>4, <1>5, <1>6, <1>7, <1>8, <1>9 DEF CatalogStep

LEMMA CatalogCases ==
    ASSUME Orderly, [Next]_vars
    PROVE  CatalogCase
<1>0. Exclusive /\ today \in Nat
  BY DEF Orderly, CatalogTyped
<1>1. ASSUME NEW ops \in {FactoryOps, FileOps, CashOps}, Own(ops), Took(ops), UNCHANGED catalogVars PROVE Lies
  BY <1>0, <1>1 DEF Own, Took, FactoryOps, FileOps, CatalogOps, CashOps, Lies, catalogVars
<1>2. ASSUME NEW k \in Desks, Abort(k), desk'[k] = Idle, \A m \in Desks : m # k => desk'[m] = desk[m]
      PROVE  Lies
  <2>1. crossed' = crossed \cup desk[k].on /\ UNCHANGED catalogVars
    BY <1>2 DEF Abort, BreaksOff
  <2> QED
    BY <1>0, <1>2, <2>1 DEF Idle, CatalogOps, Lies, catalogVars
<1>3. CASE UNCHANGED vars
  BY <1>0, <1>3 DEF vars, requestVars, catalogVars, Lies, CatalogCase
<1>4. CASE Next
  <2>1. \/ CatalogStep
        \/ /\ UNCHANGED catalogVars
           /\ \/ \E ops \in {FactoryOps, FileOps, CashOps} : Own(ops) /\ Took(ops)
              \/ \E k \in Desks : Abort(k) /\ desk'[k] = Idle /\ \A m \in Desks : m # k => desk'[m] = desk[m]
    BY <1>0, <1>4, StepOrderly, FactoryTook, FileTook, CashTook
  <2>2. Lies => CatalogCase
    BY DEF CatalogCase
  <2> QED
    BY <1>1, <1>2, <2>1, <2>2, CatalogSteps
<1> QED
  BY <1>3, <1>4

-----------------------------------------------------------------------------
(* Names.  A name is of a live item or ends in the id of a deleted one; a  *)
(* request that is about to write a name has looked it up, and whoever     *)
(* else writes that name crosses it.                                       *)
Wants(f, kind, name) ==
    \/ f.op = "create" /\ f.kind = kind /\ f.name = name
    \/ f.op = "update" /\ "name" \in DOMAIN f.put /\ items[f.id].kind = kind /\ f.put.name = name
Mine(f, j) == f.op = "update" /\ f.id = j
Taken(kind, name, j) == items[j].kind = kind /\ items[j].name = name /\ Apart(Item(j))
Asked(f) ==
    \A kind, name : Wants(f, kind, name) =>
        /\ name \in ItemNames /\ Named(kind, name) \in f.on
        /\ kind \in LookedUp /\ Apart(Named(kind, name)) => \A j \in DOMAIN items : Taken(kind, name, j) => Mine(f, j)

RowNames ==
    \A i \in DOMAIN items :
        /\ items[i].name \in ItemNames \/ (items[i].gone /\ items[i].name = Mangled[i])
        /\ items[i].gone /\ Apart(Item(i)) => items[i].name = Mangled[i]
UniqueNames ==
    \A i, j \in DOMAIN items : i # j /\ items[i].kind = items[j].kind /\ items[i].kind \in Unique
                               => items[i].name # items[j].name
SharedNames ==
    \A i, j \in DOMAIN items :
        i # j /\ items[i].kind \in LookedUp /\ Apart(Item(i)) /\ Taken(items[i].kind, items[i].name, j)
        => items[i].kind \in Unique \/ ~Apart(Named(items[i].kind, items[i].name))
Asking ==
    \A k \in Desks : /\ Asked(desk[k])
                     /\ desk[k].op = "update" /\ items[desk[k].id].gone => Item(desk[k].id) \in crossed
NamesRight == RowNames /\ UniqueNames /\ SharedNames /\ Asking

LEMMA CatalogFrames ==
    ASSUME Orderly
    PROVE  /\ \A k \in Desks : desk[k].op = "update" => desk[k].id \in DOMAIN items /\ Item(desk[k].id) \in desk[k].on
           /\ \A k \in Desks : desk[k].op = "create" => /\ desk[k].name \in ItemNames /\ desk[k].kind \in Kinds
                                                         /\ Named(desk[k].kind, desk[k].name) \in desk[k].on
           /\ \A k \in Desks : desk[k].op = "cost" => desk[k].id \in DOMAIN items /\ Item(desk[k].id) \in desk[k].on
           /\ \A i \in DOMAIN items : Mangled[i] \notin ItemNames
           /\ \A i, j \in DOMAIN items : i # j => Mangled[i] # Mangled[j]
           /\ \A k, m \in Desks : k # m => desk[k].on \cap desk[m].on \subseteq crossed
<1>1. \A k \in Desks : CatalogFrame(desk[k])
  BY DEF Orderly, CatalogTyped
<1>2. scene \in Scenes /\ DOMAIN items \subseteq DOMAIN Mangled
  BY DEF Orderly, CatalogTyped, Exclusive
<1>3. /\ \A i \in DOMAIN items : Mangled[i] \notin ItemNames
      /\ \A i, j \in DOMAIN items : i # j => Mangled[i] # Mangled[j]
  BY <1>2, CatalogInputs
<1>4. \A k, m \in Desks : k # m => desk[k].on \cap desk[m].on \subseteq crossed
  BY DEF Orderly, Exclusive
<1>5. \A k \in Desks : desk[k].op = "update" => desk[k].id \in DOMAIN items /\ Item(desk[k].id) \in desk[k].on
  BY <1>1 DEF CatalogFrame, UpdateFrame
<1>6. \A k \in Desks : desk[k].op = "create" => /\ desk[k].name \in ItemNames /\ desk[k].kind \in Kinds
                                                /\ Named(desk[k].kind, desk[k].name) \in desk[k].on
  BY <1>1 DEF CatalogFrame, CreateFrame
<1>7. \A k \in Desks : desk[k].op = "cost" => desk[k].id \in DOMAIN items /\ Item(desk[k].id) \in desk[k].on
  BY <1>1 DEF CatalogFrame, CostFrame
<1> QED
  BY <1>3, <1>4, <1>5, <1>6, <1>7

(* Nobody is renamed. *)
Still(k) == desk'[k] = desk[k] \/ desk'[k].op \notin {"create", "update"}

LEMMA NamesKept ==
    ASSUME Orderly, NamesRight, crossed \subseteq crossed', DOMAIN items' = DOMAIN items,
           \A j \in DOMAIN items : Alike(j),
           \A k \in Desks : Still(k) \/ (/\ Asked(desk[k])'
                                         /\ desk'[k].op = "update" /\ items'[desk'[k].id].gone => Item(desk'[k].id) \in crossed')
    PROVE  NamesRight'
<1>1. RowNames' /\ UniqueNames' /\ SharedNames'
  BY DEF NamesRight, RowNames, UniqueNames, SharedNames, Taken, Alike, Apart, Item, Named
<1>2. ASSUME NEW k \in Desks, Still(k)
      PROVE  Asked(desk[k])' /\ (desk'[k].op = "update" /\ items'[desk'[k].id].gone => Item(desk'[k].id) \in crossed')
  <2>1. CASE desk'[k].op \notin {"create", "update"}
    BY <2>1 DEF Asked, Wants
  <2>2. CASE desk'[k] = desk[k]
    <3>1. desk[k].op = "update" => desk[k].id \in DOMAIN items
      BY CatalogFrames
    <3>2. desk'[k].op = "update" /\ items'[desk'[k].id].gone => Item(desk'[k].id) \in crossed'
      BY <2>2, <3>1 DEF NamesRight, Asking, Alike
    <3>3. ASSUME NEW kind, NEW name, Wants(desk[k], kind, name)'
          PROVE  /\ name \in ItemNames /\ Named(kind, name) \in desk[k].on
                 /\ kind \in LookedUp /\ Named(kind, name) \notin crossed'
                    => \A j \in DOMAIN items : Taken(kind, name, j)' => Mine(desk[k], j)
      <4>1. Wants(desk[k], kind, name)
        BY <2>2, <3>1, <3>3 DEF Wants, Alike
      <4>2. \A j \in DOMAIN items : Taken(kind, name, j)' => Taken(kind, name, j)
        BY DEF Taken, Alike, Apart, Item
      <4> QED
        BY <4>1, <4>2 DEF NamesRight, Asking, Asked, Apart
    <3> QED
      BY <2>2, <3>2, <3>3 DEF Asked, Apart, Mine, Named, LookedUp
  <2> QED
    BY <1>2, <2>1, <2>2 DEF Still
<1> QED
  BY <1>1, <1>2 DEF NamesRight, Asking

(* One item gets a name, new or not. *)
Renamed(x, kind, name) ==
    /\ crossed \subseteq crossed' /\ name \in ItemNames
    /\ DOMAIN items' = DOMAIN items \cup {x} /\ items'[x].kind = kind /\ items'[x].name = name
    /\ \A j \in DOMAIN items : j # x => Alike(j)
    /\ IF x \in DOMAIN items THEN items[x].kind = kind /\ items'[x].gone = items[x].gone ELSE ~items'[x].gone
    /\ items'[x].gone => Item(x) \in crossed'
    /\ kind \in Unique => \A j \in DOMAIN items : j # x /\ items[j].kind = kind => items[j].name # name
    /\ kind \in LookedUp /\ Named(kind, name) \notin crossed' =>
           kind \in Unique \/ \A j \in DOMAIN items : j # x => ~Taken(kind, name, j)
    /\ \A k \in Desks : Still(k) /\ (desk'[k] = desk[k] /\ Named(kind, name) \in desk[k].on => Named(kind, name) \in crossed')

LEMMA NamesChanged ==
    ASSUME Orderly, NamesRight, NEW x, NEW kind, NEW name, Renamed(x, kind, name)
    PROVE  NamesRight'
<1>0. /\ crossed \subseteq crossed' /\ name \in ItemNames
      /\ DOMAIN items' = DOMAIN items \cup {x} /\ items'[x].kind = kind /\ items'[x].name = name
      /\ \A j \in DOMAIN items : j # x => Alike(j)
      /\ IF x \in DOMAIN items THEN items[x].kind = kind /\ items'[x].gone = items[x].gone ELSE ~items'[x].gone
      /\ items'[x].gone => Item(x) \in crossed'
      /\ kind \in Unique => \A j \in DOMAIN items : j # x /\ items[j].kind = kind => items[j].name # name
      /\ kind \in LookedUp /\ Named(kind, name) \notin crossed' =>
             kind \in Unique \/ \A j \in DOMAIN items : j # x => ~Taken(kind, name, j)
      /\ \A k \in Desks : Still(k) /\ (desk'[k] = desk[k] /\ Named(kind, name) \in desk[k].on
                                       => Named(kind, name) \in crossed')
  BY DEF Renamed
<1>1. RowNames'
  BY <1>0 DEF NamesRight, RowNames, Alike, Apart, Item
<1>2. UniqueNames'
  BY <1>0 DEF NamesRight, UniqueNames, Alike
<1>3. SharedNames'
  <2> SUFFICES ASSUME NEW i \in DOMAIN items', NEW j \in DOMAIN items', i # j, items'[i].kind \in LookedUp,
                      Item(i) \notin crossed', Item(j) \notin crossed',
                      items'[j].kind = items'[i].kind, items'[j].name = items'[i].name,
                      items'[i].kind \notin Unique, Named(items'[i].kind, items'[i].name) \notin crossed'
               PROVE  FALSE
    BY DEF SharedNames, Taken, Apart, Item, Named, LookedUp, Unique
  <2>1. CASE i # x /\ j # x
    BY <1>0, <2>1 DEF NamesRight, SharedNames, Taken, Alike, Apart
  <2>2. CASE i = x
    BY <1>0, <2>2 DEF Taken, Alike, Apart
  <2>3. CASE j = x
    BY <1>0, <2>3 DEF Taken, Alike, Apart
  <2> QED
    BY <2>1, <2>2, <2>3
<1>4. ASSUME NEW k \in Desks
      PROVE  Asked(desk[k])' /\ (desk'[k].op = "update" /\ items'[desk'[k].id].gone => Item(desk'[k].id) \in crossed')
  <2>1. CASE desk'[k].op \notin {"create", "update"}
    BY <2>1 DEF Asked, Wants
  <2>2. CASE desk'[k] = desk[k]
    <3>1. desk[k].op = "update" => desk[k].id \in DOMAIN items
      BY CatalogFrames
    <3>2. desk'[k].op = "update" /\ items'[desk'[k].id].gone => Item(desk'[k].id) \in crossed'
      BY <1>0, <2>2, <3>1 DEF NamesRight, Asking, Alike
    <3>3. ASSUME NEW kd, NEW nm, Wants(desk[k], kd, nm)'
          PROVE  /\ nm \in ItemNames /\ Named(kd, nm) \in desk[k].on
                 /\ kd \in LookedUp /\ Named(kd, nm) \notin crossed'
                    => \A j \in DOMAIN items' : Taken(kd, nm, j)' => Mine(desk[k], j)
      <4>1. Wants(desk[k], kd, nm)
        BY <1>0, <2>2, <3>1, <3>3 DEF Wants, Alike
      <4>2. Asked(desk[k])
        BY DEF NamesRight, Asking
      <4>3. nm \in ItemNames /\ Named(kd, nm) \in desk[k].on
        BY <4>1, <4>2 DEF Asked
      <4>4. ASSUME kd \in LookedUp, Named(kd, nm) \notin crossed', NEW j \in DOMAIN items', Taken(kd, nm, j)'
            PROVE  Mine(desk[k], j)
        <5>1. j # x
          BY <1>0, <2>2, <4>3, <4>4 DEF Taken
        <5>2. Taken(kd, nm, j) /\ j \in DOMAIN items
          BY <1>0, <4>4, <5>1 DEF Taken, Alike, Apart, Item
        <5> QED
          BY <1>0, <4>1, <4>2, <4>4, <5>2 DEF Asked, Apart
      <4> QED
        BY <4>3, <4>4
    <3> QED
      BY <2>2, <3>2, <3>3 DEF Asked, Apart, Mine, Named, LookedUp
  <2> QED
    BY <1>0, <2>1, <2>2 DEF Still
<1> QED
  BY <1>1, <1>2, <1>3, <1>4 DEF NamesRight, Asking

(* A name that was looked up is taken by no uncrossed item. *)
LEMMA LookedNames ==
    ASSUME NamesRight, NEW kind \in LookedUp, NEW name \in ItemNames, NEW except, Available(kind, name, except),
           \A i \in DOMAIN items : Mangled[i] \notin ItemNames
    PROVE  \A j \in DOMAIN items : Taken(kind, name, j) => j \in except
BY DEF NamesRight, RowNames, Available, LiveNamed, OfKind, Taken

LEMMA NamesStep ==
    ASSUME Orderly, NamesRight, [Next]_vars
    PROVE  NamesRight'
<1>0. /\ Exclusive /\ \A i \in DOMAIN items : items[i] \in ItemRow
      /\ items \in Seq(ItemRow) /\ scene \in Scenes
      /\ \A put \in scene.edits : Gives(put, Columns(scene))
  BY SeqDomain, CatalogInputs DEF Orderly, CatalogTyped, Exclusive
<1>1. CASE Lies
  <2>1. /\ items' = items /\ crossed \subseteq crossed'
        /\ \A k \in Desks : desk'[k] = desk[k] \/ desk'[k].op \notin {"create", "update"}
    BY <1>1 DEF Lies, CatalogOps
  <2>2. \A k \in Desks : Still(k)
    BY <2>1 DEF Still
  <2>3. \A j \in DOMAIN items : Alike(j)
    BY <2>1 DEF Alike
  <2> QED
    BY <2>1, <2>2, <2>3, NamesKept
<1>2. CASE Finds
  <2>1. \A k \in Desks : Still(k)
    BY <1>2 DEF Finds, Still
  <2> QED
    BY <1>2, <2>1, NamesKept DEF Finds
<1>3. ASSUME NEW k \in Desks, Looks(k) PROVE NamesRight'
  <2> DEFINE kind == desk'[k].kind
             name == desk'[k].name
  <2>1. /\ items' = items /\ crossed \subseteq crossed' /\ (\A m \in Desks : m # k => desk'[m] = desk[m])
        /\ desk'[k].op = "create" /\ Available(kind, name, {})
    BY <1>3 DEF Looks, Alone
  <2>2. name \in ItemNames /\ Named(kind, name) \in desk'[k].on
    <3>1. Orderly'
      BY <1>0, StepOrderly, StutterOrderly
    <3>2. CreateFrame(desk[k])'
      BY <2>1, <3>1 DEF Orderly, CatalogTyped, CatalogFrame
    <3> QED
      BY <3>2 DEF CreateFrame, Named
  <2>3. kind \in LookedUp => \A j \in DOMAIN items : ~Taken(kind, name, j)
    BY <2>1, <2>2, CatalogFrames, LookedNames
  <2>4. Asked(desk[k])'
    <3> SUFFICES ASSUME NEW kd, NEW nm, Wants(desk[k], kd, nm)'
                 PROVE  /\ nm \in ItemNames /\ Named(kd, nm) \in desk'[k].on
                        /\ kd \in LookedUp /\ Named(kd, nm) \notin crossed'
                           => \A j \in DOMAIN items : ~Taken(kd, nm, j)'
      BY <2>1 DEF Asked, Apart, Named, LookedUp
    <3>1. kd = kind /\ nm = name
      BY <2>1 DEF Wants
    <3>2. \A j \in DOMAIN items : Taken(kd, nm, j)' => Taken(kd, nm, j)
      BY <2>1 DEF Taken, Apart, Item
    <3> HIDE DEF kind, name
    <3> QED
      BY <2>2, <2>3, <3>1, <3>2
  <2>5. \A m \in Desks : m # k => Still(m)
    BY <2>1 DEF Still
  <2>6. \A j \in DOMAIN items : Alike(j)
    BY <2>1 DEF Alike
  <2> QED
    BY <2>1, <2>4, <2>5, <2>6, NamesKept
<1>4. ASSUME NEW k \in Desks, NEW i, NEW put, Rereads(k, i, put) PROVE NamesRight'
  <2>1. /\ items' = items /\ crossed \subseteq crossed' /\ (\A m \in Desks : m # k => desk'[m] = desk[m])
        /\ i \in DOMAIN items /\ ~items[i].gone /\ put \in scene.edits /\ Does("catalog")
        /\ "name" \in DOMAIN put => Available(items[i].kind, put.name, {i})
        /\ desk'[k].op = "update" /\ desk'[k].id = i /\ desk'[k].put = put
        /\ Named(items[i].kind, Patched(items[i], put).name) \in desk'[k].on
    BY <1>4 DEF Rereads, Alone
  <2>2. "name" \in DOMAIN put => put.name \in ItemNames /\ Named(items[i].kind, put.name) \in desk'[k].on
    BY <1>0, <2>1, PatchedItem
  <2>3. "name" \in DOMAIN put /\ items[i].kind \in LookedUp
        => \A j \in DOMAIN items : Taken(items[i].kind, put.name, j) => j = i
    BY <2>1, <2>2, CatalogFrames, LookedNames
  <2>4. Asked(desk[k])'
    <3> SUFFICES ASSUME NEW kd, NEW nm, Wants(desk[k], kd, nm)'
                 PROVE  /\ nm \in ItemNames /\ Named(kd, nm) \in desk'[k].on
                        /\ kd \in LookedUp /\ Named(kd, nm) \notin crossed'
                           => \A j \in DOMAIN items : Taken(kd, nm, j)' => j = i
      BY <2>1 DEF Asked, Apart, Named, LookedUp, Mine
    <3>1. "name" \in DOMAIN put /\ kd = items[i].kind /\ nm = put.name
      BY <2>1 DEF Wants
    <3>2. \A j \in DOMAIN items : Taken(kd, nm, j)' => Taken(kd, nm, j)
      BY <2>1 DEF Taken, Apart, Item
    <3> QED
      BY <2>2, <2>3, <3>1, <3>2
  <2>5. \A m \in Desks : m # k => Still(m)
    BY <2>1 DEF Still
  <2>6. \A j \in DOMAIN items : Alike(j)
    BY <2>1 DEF Alike
  <2> QED
    BY <2>1, <2>4, <2>5, <2>6, NamesKept
<1>5. ASSUME NEW k \in Desks, Creates(k) PROVE NamesRight'
  <2> DEFINE kind == desk[k].kind
             name == desk[k].name
             default == IF kind = "raw" THEN desk[k].cost ELSE 0
             n == Len(items) + 1
  <2>1. /\ crossed' = crossed /\ (\A m \in Desks : m # k => desk'[m] = desk[m]) /\ desk[k].op = "create"
        /\ desk'[k].op \in {"none", "cost"} /\ Writable(kind, name, {})
        /\ Grown(ItemRow, items, NewItem(kind, name, default), items')
    BY <1>5 DEF Creates, Alone
  <2>2. /\ DOMAIN items' = DOMAIN items \cup {n} /\ n \notin DOMAIN items
        /\ items'[n] = NewItem(kind, name, default) /\ \A j \in DOMAIN items : items'[j] = items[j]
    BY <2>1 DEF Grown
  <2>3. items'[n].kind = kind /\ items'[n].name = name /\ ~items'[n].gone
    BY <2>2 DEF NewItem
  <2>4. name \in ItemNames /\ Named(kind, name) \in desk[k].on
    BY <2>1, CatalogFrames
  <2>5. Wants(desk[k], kind, name) /\ \A j : ~Mine(desk[k], j)
    BY <2>1 DEF Wants, Mine
  <2>6. kind \in LookedUp /\ Named(kind, name) \notin crossed => \A j \in DOMAIN items : ~Taken(kind, name, j)
    BY <2>5 DEF NamesRight, Asking, Asked, Apart
  <2>7. \A m \in Desks : Still(m) /\ (desk'[m] = desk[m] /\ Named(kind, name) \in desk[m].on
                                      => Named(kind, name) \in crossed)
    BY <2>1, <2>4, CatalogFrames DEF Still
  <2>8. kind \in Unique => \A j \in DOMAIN items : items[j].kind = kind => items[j].name # name
    BY <2>1 DEF Writable, OfKind
  <2> HIDE DEF kind, name, n
  <2>9. Renamed(n, kind, name)
    BY <2>1, <2>2, <2>3, <2>4, <2>6, <2>7, <2>8 DEF Renamed, Alike
  <2> QED
    BY <2>9, NamesChanged
<1>6. ASSUME NEW k \in Desks, Prices(k) PROVE NamesRight'
  <2>1. items' = items /\ crossed' = crossed /\ (\A m \in Desks : m # k => desk'[m] = desk[m]) /\ desk'[k].op = "none"
    BY <1>6 DEF Prices, Alone
  <2>2. (\A m \in Desks : Still(m)) /\ \A j \in DOMAIN items : Alike(j)
    BY <2>1 DEF Still, Alike
  <2> QED
    BY <2>1, <2>2, NamesKept
<1>7. ASSUME NEW k \in Desks, NEW i, NEW put, Updates(k, i, put) PROVE NamesRight'
  <2> DEFINE kind == items[i].kind
             name == put.name
  <2>1. /\ crossed' = crossed /\ (\A m \in Desks : m # k => desk'[m] = desk[m])
        /\ desk[k].op = "update" /\ desk'[k].op = "none" /\ desk[k].id = i /\ desk[k].put = put /\ i \in DOMAIN items
        /\ put \in scene.edits /\ Does("catalog")
        /\ "name" \in DOMAIN put => Writable(kind, name, {i})
        /\ DOMAIN items' = DOMAIN items /\ items'[i] = Patched(items[i], put)
        /\ \A j \in DOMAIN items : j # i => items'[j] = items[j]
    BY <1>7 DEF Updates, Alone
  <2>2. /\ items'[i].kind = kind /\ items'[i].gone = items[i].gone
        /\ items'[i].name = IF "name" \in DOMAIN put THEN name ELSE items[i].name
        /\ "name" \in DOMAIN put => name \in ItemNames
    BY <1>0, <2>1, PatchedItem
  <2>3. CASE "name" \notin DOMAIN put
    <3>1. (\A m \in Desks : Still(m)) /\ \A j \in DOMAIN items : Alike(j)
      BY <2>1, <2>2, <2>3 DEF Still, Alike
    <3> QED
      BY <2>1, <3>1, NamesKept
  <2>4. CASE "name" \in DOMAIN put
    <3>1. Wants(desk[k], kind, name) /\ \A j : Mine(desk[k], j) => j = i
      BY <2>1, <2>4 DEF Wants, Mine
    <3>2. /\ Named(kind, name) \in desk[k].on
          /\ kind \in LookedUp /\ Named(kind, name) \notin crossed =>
                 \A j \in DOMAIN items : Taken(kind, name, j) => j = i
      BY <3>1 DEF NamesRight, Asking, Asked, Apart
    <3>3. \A m \in Desks : Still(m) /\ (desk'[m] = desk[m] /\ Named(kind, name) \in desk[m].on
                                        => Named(kind, name) \in crossed)
      BY <2>1, <3>2, CatalogFrames DEF Still
    <3>4. kind \in Unique => \A j \in DOMAIN items : j # i /\ items[j].kind = kind => items[j].name # name
      BY <2>1, <2>4 DEF Writable, OfKind
    <3>5. items'[i].gone => Item(i) \in crossed
      BY <2>1, <2>2 DEF NamesRight, Asking
    <3> HIDE DEF kind, name
    <3>6. kind = items[i].kind
      BY DEF kind
    <3>7. Renamed(i, kind, name)
      BY <2>1, <2>2, <2>4, <3>2, <3>3, <3>4, <3>5, <3>6 DEF Renamed, Alike
    <3> QED
      BY <3>7, NamesChanged
  <2> QED
    BY <2>3, <2>4
<1>8. ASSUME NEW name, AddsArea(name) PROVE NamesRight'
  <2> DEFINE n == Len(items) + 1
  <2>1. /\ desk' = desk /\ crossed \subseteq crossed' /\ Touched(Named("area", name))
        /\ Writable("area", name, {}) /\ name \in ItemNames
        /\ Grown(ItemRow, items, NewItem("area", name, 0), items')
    BY <1>8 DEF AddsArea
  <2>2. /\ DOMAIN items' = DOMAIN items \cup {n} /\ n \notin DOMAIN items
        /\ items'[n] = NewItem("area", name, 0) /\ \A j \in DOMAIN items : items'[j] = items[j]
    BY <2>1 DEF Grown
  <2>3. items'[n].kind = "area" /\ items'[n].name = name /\ ~items'[n].gone
    BY <2>2 DEF NewItem
  <2>4. \A j \in DOMAIN items : items[j].kind = "area" => items[j].name # name
    BY <2>1 DEF Writable, OfKind, Unique
  <2>5. "area" \in Unique /\ \A m \in Desks : Still(m) /\ (Named("area", name) \in desk[m].on
                                                          => Named("area", name) \in crossed')
    BY <2>1 DEF Still, Touched, Unique
  <2> HIDE DEF n
  <2>6. Renamed(n, "area", name)
    BY <2>1, <2>2, <2>3, <2>4, <2>5 DEF Renamed, Alike
  <2> QED
    BY <2>6, NamesChanged
<1>9. ASSUME NEW x, Deletes(x) PROVE NamesRight'
  <2>1. /\ desk' = desk /\ crossed \subseteq crossed' /\ Touched(Item(x)) /\ x \in DOMAIN items
        /\ DOMAIN items' = DOMAIN items
        /\ items'[x].kind = items[x].kind /\ items'[x].name = Mangled[x] /\ items'[x].gone
        /\ \A j \in DOMAIN items : j # x => items'[j] = items[j]
    BY <1>9 DEF Deletes
  <2>2. RowNames'
    BY <2>1 DEF NamesRight, RowNames, Apart, Item
  <2>3. \A j \in DOMAIN items : j # x => items[j].name # Mangled[x]
    BY <2>1, CatalogFrames DEF NamesRight, RowNames
  <2>4. UniqueNames'
    BY <2>1, <2>3 DEF NamesRight, UniqueNames
  <2>5. SharedNames'
    BY <2>1, <2>3 DEF NamesRight, SharedNames, Taken, Apart, Item, Named
  <2>6. ASSUME NEW k \in Desks
        PROVE  Asked(desk[k])' /\ (desk'[k].op = "update" /\ items'[desk'[k].id].gone => Item(desk'[k].id) \in crossed')
    <3>1. desk[k].op = "update" => desk[k].id \in DOMAIN items /\ Item(desk[k].id) \in desk[k].on
      BY CatalogFrames
    <3>2. desk'[k].op = "update" /\ items'[desk'[k].id].gone => Item(desk'[k].id) \in crossed'
      BY <2>1, <3>1 DEF NamesRight, Asking, Touched
    <3>3. ASSUME NEW kd, NEW nm, Wants(desk[k], kd, nm)'
          PROVE  /\ nm \in ItemNames /\ Named(kd, nm) \in desk[k].on
                 /\ kd \in LookedUp /\ Named(kd, nm) \notin crossed'
                    => \A j \in DOMAIN items' : Taken(kd, nm, j)' => Mine(desk[k], j)
      <4>1. Wants(desk[k], kd, nm)
        BY <2>1, <3>1, <3>3 DEF Wants
      <4>2. Asked(desk[k])
        BY DEF NamesRight, Asking
      <4>3. nm \in ItemNames /\ Named(kd, nm) \in desk[k].on
        BY <4>1, <4>2 DEF Asked
      <4>4. ASSUME kd \in LookedUp, Named(kd, nm) \notin crossed', NEW j \in DOMAIN items', Taken(kd, nm, j)'
            PROVE  Mine(desk[k], j)
        <5>1. j # x
          BY <2>1, <4>3, <4>4, CatalogFrames DEF Taken
        <5>2. Taken(kd, nm, j) /\ j \in DOMAIN items
          BY <2>1, <4>4, <5>1 DEF Taken, Apart, Item
        <5> QED
          BY <2>1, <4>1, <4>2, <4>4, <5>2 DEF Asked, Apart
      <4> QED
        BY <4>3, <4>4
    <3> QED
      BY <2>1, <3>2, <3>3 DEF Asked, Apart, Mine, Named, LookedUp
  <2> QED
    BY <2>2, <2>4, <2>5, <2>6 DEF NamesRight, Asking
<1>10. ASSUME NEW i, NEW cost, NEW from, Enters(i, cost, from) PROVE NamesRight'
  <2>1. /\ desk' = desk /\ crossed \subseteq crossed' /\ DOMAIN items' = DOMAIN items /\ \A j \in DOMAIN items : Alike(j)
    BY <1>10 DEF Enters
  <2>2. \A m \in Desks : Still(m)
    BY <2>1 DEF Still
  <2> QED
    BY <2>1, <2>2, NamesKept
<1> QED
  BY <1>1, <1>2, <1>3, <1>4, <1>5, <1>6, <1>7, <1>8, <1>9, <1>10, CatalogCases DEF CatalogCase

LEMMA NamesAlways == Spec => []NamesRight
<1>1. Orderly /\ NamesRight /\ [Next]_vars => NamesRight'
  BY NamesStep
<1>2. Init => NamesRight
  BY DEF Init, NamesRight, RowNames, UniqueNames, SharedNames, Asking, Asked, Wants, Idle
<1> QED
  BY <1>1, <1>2, OrderlyAlways, PTL DEF Spec

-----------------------------------------------------------------------------
(* Costs.  The default of a raw material is the cost of its last row, once *)
(* the first one is entered, unless one was entered ahead of its day.      *)
Newest(i, h) ==
    /\ h \in DOMAIN costs /\ costs[h].item = i
    /\ \A g \in DOMAIN costs : costs[g].item = i =>
          costs[g].from < costs[h].from \/ (costs[g].from = costs[h].from /\ g <= h)
Priced(i) ==
    /\ items[i].kind = "raw" /\ items[i].default # 0 /\ Apart(Item(i)) /\ ~InAdvance(i) /\ ~BeingPriced(i)
    => \E h : Newest(i, h) /\ costs[h].cost = items[i].default
NewDefault(f) == IF "default" \in DOMAIN f.put THEN f.put.default ELSE items[f.id].default
PriceFrame(f) ==
    /\ f.op = "cost" /\ Apart(Item(f.id)) /\ items[f.id].kind = "raw" => items[f.id].default = f.cost
    /\ f.op = "update" /\ Apart(Item(f.id)) =>
           f.cost = IF NewDefault(f) = items[f.id].default THEN 0 ELSE NewDefault(f)
Dated == today <= Horizon /\ \A h \in DOMAIN costs : costs[h].at <= today /\ costs[h].from <= Horizon
PricesRight == Dated /\ (\A i \in DOMAIN items : Priced(i)) /\ \A k \in Desks : PriceFrame(desk[k])

(* The item's price and rows stay. *)
PriceKept(i) ==
    /\ i \in DOMAIN items /\ items'[i].kind = items[i].kind /\ items'[i].default = items[i].default
    /\ crossed \subseteq crossed' /\ DOMAIN costs \subseteq DOMAIN costs'
    /\ \A h \in DOMAIN costs : costs'[h] = costs[h]
    /\ \A h \in DOMAIN costs' : h \in DOMAIN costs \/ costs'[h].item # i
    /\ \A k \in Desks : Holds(k, "cost") /\ desk[k].id = i => desk'[k] = desk[k] \/ Item(i) \in crossed'

LEMMA PriceLasts ==
    ASSUME NEW i, Priced(i), PriceKept(i)
    PROVE  Priced(i)'
<1> SUFFICES ASSUME items'[i].kind = "raw", items'[i].default # 0, Item(i) \notin crossed', ~InAdvance(i)', ~BeingPriced(i)'
             PROVE  (\E h : Newest(i, h) /\ costs[h].cost = items[i].default)'
  BY DEF Priced, Apart, Item
<1>1. ~InAdvance(i)
  BY DEF PriceKept, InAdvance
<1>2. ~BeingPriced(i)
  BY DEF PriceKept, BeingPriced, Holds
<1>3. PICK h : Newest(i, h) /\ costs[h].cost = items[i].default
  BY <1>1, <1>2 DEF Priced, PriceKept, Apart
<1>4. Newest(i, h)' /\ costs'[h].cost = items'[i].default
  BY <1>3 DEF PriceKept, Newest
<1> QED
  BY <1>4

(* A row is entered today. *)
LEMMA PriceEntered ==
    ASSUME Orderly, Dated, NEW i, NEW cost, Grown(CostRow, costs, Cost(i, cost, today), costs'),
           today' = today, items'[i].default = cost
    PROVE  Priced(i)'
<1> SUFFICES ASSUME ~InAdvance(i)' PROVE (\E h : Newest(i, h) /\ costs[h].cost = items[i].default)'
  BY DEF Priced
<1> DEFINE n == Len(costs) + 1
<1>1. /\ DOMAIN costs' = DOMAIN costs \cup {n} /\ n \notin DOMAIN costs
      /\ costs'[n] = Cost(i, cost, today) /\ \A h \in DOMAIN costs : costs'[h] = costs[h]
  BY DEF Grown
<1>2. costs'[n].item = i /\ costs'[n].cost = cost /\ costs'[n].from = today
  BY <1>1 DEF Cost
<1>3. Len(costs) \in Nat /\ DOMAIN costs = 1..Len(costs) /\ \A h \in DOMAIN costs : costs[h] \in CostRow
  BY SeqDomain DEF Orderly, CatalogTyped
<1>4. today \in Nat /\ \A h \in DOMAIN costs : /\ h \in Nat /\ h <= n /\ costs[h].from \in Nat /\ costs[h].at \in Nat
                                               /\ costs[h].at <= today
  BY <1>3 DEF CostRow, Dated, Orderly, CatalogTyped
<1> HIDE DEF n
<1>5. \A h \in DOMAIN costs : costs[h].item = i => costs[h].from <= costs[h].at
  BY <1>1, <1>4 DEF InAdvance
<1>6. n \in Nat
  BY <1>3 DEF n
<1>7. ASSUME NEW h, h = n PROVE (Newest(i, h) /\ costs[h].cost = items[i].default)'
  <2>1. Newest(i, h)'
    BY <1>1, <1>2, <1>4, <1>5, <1>6, <1>7 DEF Newest
  <2> QED
    BY <1>2, <1>7, <2>1
<1> QED
  BY <1>7

(* The cost in force, when no row is ahead of its day. *)
LEMMA PriceInForce ==
    ASSUME Orderly, Dated, NEW i, ~InAdvance(i), NEW h, Newest(i, h), NEW asOf \in Nat, today <= asOf
    PROVE  LatestCost(costs, i, asOf) = costs[h].cost
<1>1. costs \in Seq(CostRow) /\ today \in Nat /\ \A g \in DOMAIN costs : costs[g] \in CostRow /\ g \in Nat
  BY SeqDomain DEF Orderly, CatalogTyped
<1>2. \A g \in DOMAIN costs : costs[g].from \in Nat /\ costs[g].at \in Nat /\ costs[g].at <= today
  BY <1>1 DEF CostRow, Dated
<1>3. \A g \in DOMAIN costs : costs[g].item = i => costs[g].from <= asOf
  BY <1>1, <1>2 DEF InAdvance
<1>4. h \in DOMAIN costs /\ costs[h].item = i
  BY DEF Newest
<1>5. PICK g \in DOMAIN costs :
          /\ costs[g].item = i /\ LatestCost(costs, i, asOf) = costs[g].cost
          /\ \A x \in DOMAIN costs : costs[x].item = i /\ costs[x].from <= asOf =>
                costs[x].from < costs[g].from \/ (costs[x].from = costs[g].from /\ x <= g)
  BY <1>1, <1>3, <1>4, LatestIs
<1>6. costs[h].from < costs[g].from \/ (costs[h].from = costs[g].from /\ h <= g)
  BY <1>3, <1>4, <1>5
<1>7. costs[g].from < costs[h].from \/ (costs[g].from = costs[h].from /\ g <= h)
  BY <1>5 DEF Newest
<1>8. g = h
  BY <1>1, <1>2, <1>4, <1>5, <1>6, <1>7
<1> QED
  BY <1>5, <1>8

LEMMA PricedStep ==
    ASSUME Orderly, Orderly', PricesRight, Dated', [Next]_vars, NEW i \in DOMAIN items'
    PROVE  Priced(i)'
<1>0. /\ Dated /\ (\A j \in DOMAIN items : Priced(j)) /\ \A k \in Desks : PriceFrame(desk[k])
      /\ \A j \in DOMAIN items : items[j] \in ItemRow
      /\ items \in Seq(ItemRow) /\ scene \in Scenes
      /\ \A put \in scene.edits : Gives(put, Columns(scene))
  BY SeqDomain, CatalogInputs DEF PricesRight, Orderly, CatalogTyped, Exclusive
<1>1. ASSUME PriceKept(i) PROVE Priced(i)'
  BY <1>0, <1>1, PriceLasts DEF PriceKept
<1>2. ASSUME items'[i].default = 0 \/ BeingPriced(i)' \/ Item(i) \in crossed' PROVE Priced(i)'
  BY <1>2 DEF Priced, Apart, Item
<1>3. CASE Lies
  <2>1. /\ items' = items /\ costs' = costs /\ crossed \subseteq crossed'
        /\ \A k \in Desks : desk'[k] = desk[k] \/ (desk[k].op = "cost" => desk[k].on \subseteq crossed')
    BY <1>3 DEF Lies
  <2>2. PriceKept(i)
    BY <2>1, CatalogFrames DEF PriceKept, Holds
  <2> QED
    BY <1>1, <2>2
<1>4. CASE Finds
  <2>1. PriceKept(i)
    BY <1>4 DEF PriceKept, Finds, Alike
  <2> QED
    BY <1>1, <2>1
<1>5. ASSUME NEW k \in Desks, Looks(k) \/ \E x, put : Rereads(k, x, put) PROVE Priced(i)'
  <2>1. /\ items' = items /\ costs' = costs /\ crossed \subseteq crossed' /\ desk[k].op # "cost"
        /\ \A m \in Desks : m # k => desk'[m] = desk[m]
    <3>1. CASE Looks(k)
      BY <3>1 DEF Looks, Alone, Idle
    <3>2. ASSUME NEW x, NEW put, Rereads(k, x, put)
          PROVE  /\ items' = items /\ costs' = costs /\ crossed \subseteq crossed' /\ desk[k].op # "cost"
                 /\ \A m \in Desks : m # k => desk'[m] = desk[m]
      BY <3>2 DEF Rereads, Alone, Idle
    <3> QED
      BY <1>5, <3>1, <3>2
  <2>2. PriceKept(i)
    BY <2>1 DEF PriceKept, Holds
  <2> QED
    BY <1>1, <2>2
<1>6. ASSUME NEW k \in Desks, Creates(k) PROVE Priced(i)'
  <2> DEFINE n == Len(items) + 1
             default == IF desk[k].kind = "raw" THEN desk[k].cost ELSE 0
  <2>1. /\ costs' = costs /\ crossed' = crossed /\ (\A m \in Desks : m # k => desk'[m] = desk[m])
        /\ desk[k].op = "create"
        /\ Grown(ItemRow, items, NewItem(desk[k].kind, desk[k].name, default), items')
        /\ desk[k].cost # 0 => desk'[k].op = "cost" /\ desk'[k].id = n
    BY <1>6 DEF Creates, Alone
  <2>2. /\ DOMAIN items' = DOMAIN items \cup {n} /\ n \notin DOMAIN items
        /\ items'[n] = NewItem(desk[k].kind, desk[k].name, default) /\ \A j \in DOMAIN items : items'[j] = items[j]
    BY <2>1 DEF Grown
  <2>3. items'[n].default = default
    BY <2>2 DEF NewItem
  <2>4. CASE i = n
    <3>1. items'[i].default = 0 \/ desk[k].cost # 0
      BY <2>3, <2>4
    <3>2. desk[k].cost # 0 => BeingPriced(i)'
      <4> HIDE DEF n
      <4> QED
        BY <2>1, <2>4 DEF BeingPriced, Holds
    <3> QED
      BY <1>2, <3>1, <3>2
  <2>5. CASE i # n
    <3>1. PriceKept(i)
      BY <2>1, <2>2, <2>5 DEF PriceKept, Holds
    <3> QED
      BY <1>1, <3>1
  <2> QED
    BY <2>4, <2>5
<1>7. ASSUME NEW k \in Desks, Prices(k) PROVE Priced(i)'
  <2>1. /\ items' = items /\ today' = today /\ crossed' = crossed /\ (\A m \in Desks : m # k => desk'[m] = desk[m])
        /\ desk[k].op = "cost" /\ Grown(CostRow, costs, Cost(desk[k].id, desk[k].cost, today), costs')
    BY <1>7 DEF Prices, Alone
  <2>2. CASE desk[k].id = i
    <3>1. CASE items[i].kind = "raw" /\ Apart(Item(i))
      <4>1. items'[i].default = desk[k].cost
        BY <1>0, <2>1, <2>2, <3>1 DEF PriceFrame
      <4> QED
        BY <1>0, <2>1, <2>2, <4>1, PriceEntered
    <3>2. CASE items[i].kind # "raw" \/ ~Apart(Item(i))
      BY <2>1, <3>2 DEF Priced, Apart, Item
    <3> QED
      BY <3>1, <3>2
  <2>3. CASE desk[k].id # i
    <3>1. /\ DOMAIN costs' = DOMAIN costs \cup {Len(costs) + 1} /\ \A h \in DOMAIN costs : costs'[h] = costs[h]
          /\ costs'[Len(costs) + 1].item = desk[k].id
      BY <2>1 DEF Grown, Cost
    <3>2. PriceKept(i)
      BY <2>1, <2>3, <3>1 DEF PriceKept, Holds
    <3> QED
      BY <1>1, <3>2
  <2> QED
    BY <2>2, <2>3
<1>8. ASSUME NEW k \in Desks, NEW x, NEW put, Updates(k, x, put) PROVE Priced(i)'
  <2> DEFINE cost == desk[k].cost
             default == IF "default" \in DOMAIN put THEN put.default ELSE items[x].default
  <2>1. /\ today' = today /\ crossed' = crossed /\ (\A m \in Desks : m # k => desk'[m] = desk[m])
        /\ desk[k].op = "update" /\ desk[k].id = x /\ desk[k].put = put /\ x \in DOMAIN items
        /\ put \in scene.edits /\ Does("catalog")
        /\ DOMAIN items' = DOMAIN items /\ items'[x] = Patched(items[x], put)
        /\ \A j \in DOMAIN items : j # x => items'[j] = items[j]
        /\ IF cost = 0 THEN costs' = costs ELSE Grown(CostRow, costs, Cost(x, cost, today), costs')
    BY <1>8 DEF Updates, Alone
  <2>2. items'[x].default = default /\ items'[x].kind = items[x].kind
    BY <1>0, <2>1, PatchedItem
  <2>3. Apart(Item(x)) => cost = IF default = items[x].default THEN 0 ELSE default
    BY <1>0, <2>1 DEF PriceFrame, NewDefault
  <2>4. /\ DOMAIN costs \subseteq DOMAIN costs' /\ \A h \in DOMAIN costs : costs'[h] = costs[h]
        /\ \A h \in DOMAIN costs' : h \in DOMAIN costs \/ costs'[h].item = x
        /\ cost = 0 => costs' = costs
    BY <2>1 DEF Grown, Cost
  <2> HIDE DEF cost, default
  <2>5. \A m \in Desks : Holds(m, "cost") => desk'[m] = desk[m]
    BY <2>1 DEF Holds
  <2>6. CASE i # x
    <3>1. PriceKept(i)
      BY <2>1, <2>4, <2>5, <2>6 DEF PriceKept
    <3> QED
      BY <1>1, <3>1
  <2>7. CASE i = x /\ Apart(Item(x))
    <3>1. CASE cost # 0
      <4>1. items'[i].default = cost
        BY <2>2, <2>3, <2>7, <3>1
      <4> QED
        BY <1>0, <2>1, <2>7, <3>1, <4>1, PriceEntered
    <3>2. CASE cost = 0 /\ default # 0
      <4>1. items'[i].default = items[i].default
        BY <2>2, <2>3, <2>7, <3>2
      <4>2. PriceKept(i)
        BY <2>1, <2>2, <2>4, <2>5, <2>7, <3>2, <4>1 DEF PriceKept
      <4> QED
        BY <1>1, <4>2
    <3>3. CASE default = 0
      BY <1>2, <2>2, <2>7, <3>3
    <3> QED
      BY <3>1, <3>2, <3>3
  <2>8. CASE i = x /\ ~Apart(Item(x))
    BY <1>2, <2>1, <2>8 DEF Apart
  <2> QED
    BY <2>6, <2>7, <2>8
<1>9. ASSUME NEW name, AddsArea(name) PROVE Priced(i)'
  <2> DEFINE n == Len(items) + 1
  <2>1. /\ desk' = desk /\ costs' = costs /\ crossed \subseteq crossed'
        /\ Grown(ItemRow, items, NewItem("area", name, 0), items')
    BY <1>9 DEF AddsArea
  <2>2. /\ DOMAIN items' = DOMAIN items \cup {n}
        /\ items'[n] = NewItem("area", name, 0) /\ \A j \in DOMAIN items : items'[j] = items[j]
    BY <2>1 DEF Grown
  <2>3. items'[n].default = 0
    BY <2>2 DEF NewItem
  <2> HIDE DEF n
  <2>4. CASE i # n
    <3>1. PriceKept(i)
      BY <2>1, <2>2, <2>4 DEF PriceKept
    <3> QED
      BY <1>1, <3>1
  <2> QED
    BY <1>2, <2>3, <2>4
<1>10. ASSUME NEW x, Deletes(x) PROVE Priced(i)'
  <2>1. PriceKept(i)
    BY <1>10 DEF PriceKept, Deletes
  <2> QED
    BY <1>1, <2>1
<1>11. ASSUME NEW x, NEW cost, NEW from, Enters(x, cost, from) PROVE Priced(i)'
  <2>1. /\ desk' = desk /\ today' = today /\ crossed \subseteq crossed' /\ Touched(Item(x)) /\ x \in DOMAIN items
        /\ Grown(CostRow, costs, Cost(x, cost, from), costs')
        /\ DOMAIN items' = DOMAIN items /\ (\A j \in DOMAIN items : items'[j].kind = items[j].kind)
        /\ \A j \in DOMAIN items : j # x => items'[j].default = items[j].default
        /\ items[x].kind = "raw" => items'[x].default = LatestCost(costs', x, Horizon)
    BY <1>11 DEF Enters, Alike
  <2>2. /\ DOMAIN costs' = DOMAIN costs \cup {Len(costs) + 1} /\ \A h \in DOMAIN costs : costs'[h] = costs[h]
        /\ costs'[Len(costs) + 1].item = x
    BY <2>1 DEF Grown, Cost
  <2>3. CASE i # x
    <3>1. PriceKept(i)
      BY <2>1, <2>2, <2>3 DEF PriceKept
    <3> QED
      BY <1>1, <3>1
  <2>4. CASE i = x
    <3> SUFFICES ASSUME items'[i].kind = "raw", ~InAdvance(i)' PROVE (\E h : Newest(i, h) /\ costs[h].cost = items[i].default)'
      BY DEF Priced
    <3>1. /\ costs' \in Seq(CostRow) /\ today' \in Nat /\ Horizon \in Nat /\ today' <= Horizon
          /\ \A h \in DOMAIN costs' : costs'[h] \in CostRow /\ costs'[h].at <= today'
      BY SeqDomain, OfficeAssumption DEF Orderly, CatalogTyped, Dated
    <3>2. \A h \in DOMAIN costs' : costs'[h].item = i => costs'[h].from <= Horizon
      BY <3>1 DEF InAdvance, CostRow
    <3>3. PICK h \in DOMAIN costs' :
              /\ costs'[h].item = i /\ LatestCost(costs', i, Horizon) = costs'[h].cost
              /\ \A g \in DOMAIN costs' : costs'[g].item = i /\ costs'[g].from <= Horizon =>
                    costs'[g].from < costs'[h].from \/ (costs'[g].from = costs'[h].from /\ g <= h)
      <4>1. \E h \in DOMAIN costs' : costs'[h].item = i /\ costs'[h].from <= Horizon
        BY <2>2, <2>4, <3>2
      <4> QED
        BY <3>1, <4>1, LatestIs
    <3>4. Newest(i, h)'
      BY <3>2, <3>3 DEF Newest
    <3>5. costs'[h].cost = items'[i].default
      BY <2>1, <2>4, <3>3
    <3> QED
      BY <3>4, <3>5
  <2> QED
    BY <2>3, <2>4
<1> QED
  BY <1>3, <1>4, <1>5, <1>6, <1>7, <1>8, <1>9, <1>10, <1>11, CatalogCases DEF CatalogCase

LEMMA DatedStep ==
    ASSUME Orderly, Dated, [Next]_vars
    PROVE  Dated'
<1>0. /\ today \in Nat /\ Horizon \in Nat /\ costs \in Seq(CostRow)
      /\ \A h \in DOMAIN costs : costs[h] \in CostRow
  BY SeqDomain, OfficeAssumption DEF Orderly, CatalogTyped
<1>1. \A h \in DOMAIN costs : costs[h].at \in Nat /\ costs[h].from \in Nat
  BY <1>0 DEF CostRow
<1>2. ASSUME costs' = costs, today' \in Nat, today <= today', today' = today \/ today' <= Horizon PROVE Dated'
  BY <1>0, <1>1, <1>2 DEF Dated
<1>3. ASSUME NEW i, NEW cost, NEW from \in Nat, from <= Horizon, today' = today,
             Grown(CostRow, costs, Cost(i, cost, from), costs')
      PROVE  Dated'
  <2> DEFINE n == Len(costs) + 1
  <2>1. /\ DOMAIN costs' = DOMAIN costs \cup {n}
        /\ costs'[n] = Cost(i, cost, from) /\ \A h \in DOMAIN costs : costs'[h] = costs[h]
    BY <1>3 DEF Grown
  <2>2. costs'[n].at = today /\ costs'[n].from = from
    BY <2>1 DEF Cost
  <2> HIDE DEF n
  <2> QED
    BY <1>0, <1>3, <2>1, <2>2 DEF Dated
<1>4. today' \in Nat
  <2>1. Orderly'
    BY StepOrderly, StutterOrderly
  <2> QED
    BY <2>1 DEF Orderly, CatalogTyped
<1>5. CASE Lies
  BY <1>2, <1>4, <1>5 DEF Lies
<1>6. ASSUME UNCHANGED <<costs, today>> PROVE Dated'
  BY <1>6 DEF Dated
<1>7. ASSUME NEW k \in Desks, Prices(k) PROVE Dated'
  <2>1. today' = today /\ Grown(CostRow, costs, Cost(desk[k].id, desk[k].cost, today), costs')
    BY <1>7 DEF Prices
  <2> QED
    BY <1>0, <1>3, <2>1 DEF Dated
<1>8. ASSUME NEW k \in Desks, NEW i, NEW put, Updates(k, i, put) PROVE Dated'
  <2>1. today' = today /\ (costs' = costs \/ Grown(CostRow, costs, Cost(i, desk[k].cost, today), costs'))
    BY <1>8 DEF Updates
  <2> QED
    BY <1>0, <1>3, <1>6, <2>1 DEF Dated
<1>9. ASSUME NEW i, NEW cost, NEW from, Enters(i, cost, from) PROVE Dated'
  <2>1. today' = today /\ from \in 1..Horizon /\ Grown(CostRow, costs, Cost(i, cost, from), costs')
    BY <1>9 DEF Enters
  <2> QED
    BY <1>0, <1>3, <2>1
<1>10. CASE Finds
  BY <1>6, <1>10 DEF Finds
<1>11. ASSUME NEW k \in Desks, Looks(k) \/ Creates(k) PROVE Dated'
  BY <1>6, <1>11 DEF Looks, Creates
<1>12. ASSUME NEW k \in Desks, NEW i, NEW put, Rereads(k, i, put) PROVE Dated'
  BY <1>6, <1>12 DEF Rereads
<1>13. ASSUME NEW name, AddsArea(name) PROVE Dated'
  BY <1>6, <1>13 DEF AddsArea
<1>14. ASSUME NEW i, Deletes(i) PROVE Dated'
  BY <1>6, <1>14 DEF Deletes
<1> QED
  BY <1>5, <1>7, <1>8, <1>9, <1>10, <1>11, <1>12, <1>13, <1>14, CatalogCases DEF CatalogCase

LEMMA PriceFrames ==
    ASSUME Orderly, PricesRight, [Next]_vars, NEW m \in Desks
    PROVE  PriceFrame(desk[m])'
<1>0. /\ PriceFrame(desk[m])
      /\ desk[m].op \in {"cost", "update"} => desk[m].id \in DOMAIN items /\ Item(desk[m].id) \in desk[m].on
      /\ \A j \in DOMAIN items : items[j] \in ItemRow
      /\ scene \in Scenes
      /\ \A put \in scene.edits : Gives(put, Columns(scene))
  BY SeqDomain, CatalogInputs, CatalogFrames DEF PricesRight, Orderly, CatalogTyped, Exclusive
<1>1. ASSUME crossed \subseteq crossed',
             \/ desk'[m].op \notin {"cost", "update"}
             \/ /\ desk'[m] = desk[m]
                /\ desk[m].op \in {"cost", "update"} =>
                      \/ /\ items'[desk[m].id].kind = items[desk[m].id].kind
                         /\ items'[desk[m].id].default = items[desk[m].id].default
                      \/ Item(desk[m].id) \in crossed'
      PROVE  PriceFrame(desk[m])'
  <2>1. CASE desk'[m].op \notin {"cost", "update"}
    BY <2>1 DEF PriceFrame
  <2> QED
    BY <1>0, <1>1, <2>1 DEF PriceFrame, NewDefault, Apart, Item
<1>2. CASE Lies
  <2>1. items' = items /\ crossed \subseteq crossed' /\ (desk'[m] = desk[m] \/ desk'[m].op \notin {"cost", "update"})
    BY <1>2 DEF Lies, CatalogOps
  <2> QED
    BY <1>1, <2>1
<1>3. CASE Finds
  <2>1. /\ desk' = desk /\ crossed \subseteq crossed'
        /\ \A j \in DOMAIN items : items'[j].kind = items[j].kind /\ items'[j].default = items[j].default
    BY <1>3 DEF Finds, Alike
  <2> QED
    BY <1>0, <1>1, <2>1
<1>4. ASSUME NEW k \in Desks, Looks(k) PROVE PriceFrame(desk[m])'
  <2>1. items' = items /\ crossed \subseteq crossed' /\ (m # k => desk'[m] = desk[m]) /\ desk'[k].op = "create"
    BY <1>4 DEF Looks, Alone
  <2> QED
    BY <1>1, <2>1
<1>5. ASSUME NEW k \in Desks, NEW i, NEW put, Rereads(k, i, put) PROVE PriceFrame(desk[m])'
  <2>1. /\ items' = items /\ crossed \subseteq crossed' /\ (m # k => desk'[m] = desk[m])
        /\ desk'[k].op = "update" /\ desk'[k].id = i /\ desk'[k].put = put
        /\ i \in DOMAIN items /\ put \in scene.edits /\ Does("catalog")
        /\ desk'[k].cost = IF Patched(items[i], put).default = items[i].default THEN 0 ELSE Patched(items[i], put).default
    BY <1>5 DEF Rereads, Alone
  <2>2. CASE m = k
    <3>1. Patched(items[i], put).default = IF "default" \in DOMAIN put THEN put.default ELSE items[i].default
      BY <1>0, <2>1, PatchedItem
    <3>2. NewDefault(desk[m])' = Patched(items[i], put).default
      BY <2>1, <2>2, <3>1 DEF NewDefault
    <3> QED
      BY <2>1, <2>2, <3>2 DEF PriceFrame
  <2> QED
    BY <1>1, <2>1, <2>2
<1>6. ASSUME NEW k \in Desks, Creates(k) PROVE PriceFrame(desk[m])'
  <2> DEFINE n == Len(items) + 1
             default == IF desk[k].kind = "raw" THEN desk[k].cost ELSE 0
  <2>1. /\ crossed' = crossed /\ (m # k => desk'[m] = desk[m])
        /\ Grown(ItemRow, items, NewItem(desk[k].kind, desk[k].name, default), items')
        /\ IF desk[k].cost = 0 THEN desk'[k].op = "none"
           ELSE desk'[k].op = "cost" /\ desk'[k].id = n /\ desk'[k].cost = desk[k].cost
    BY <1>6 DEF Creates, Alone
  <2>2. /\ items'[n] = NewItem(desk[k].kind, desk[k].name, default) /\ \A j \in DOMAIN items : items'[j] = items[j]
    BY <2>1 DEF Grown
  <2>3. items'[n].kind = desk[k].kind /\ items'[n].default = default
    BY <2>2 DEF NewItem
  <2> HIDE DEF n
  <2>4. CASE m = k
    BY <2>1, <2>3, <2>4 DEF PriceFrame
  <2> QED
    BY <1>0, <1>1, <2>1, <2>2, <2>4
<1>7. ASSUME NEW k \in Desks, Prices(k) PROVE PriceFrame(desk[m])'
  <2>1. items' = items /\ crossed' = crossed /\ (m # k => desk'[m] = desk[m]) /\ desk'[k].op = "none"
    BY <1>7 DEF Prices, Alone
  <2> QED
    BY <1>1, <2>1
<1>8. ASSUME NEW k \in Desks, NEW i, NEW put, Updates(k, i, put) PROVE PriceFrame(desk[m])'
  <2>1. /\ crossed' = crossed /\ (m # k => desk'[m] = desk[m]) /\ desk[k].op = "update" /\ desk'[k].op = "none"
        /\ desk[k].id = i /\ \A j \in DOMAIN items : j # i => items'[j] = items[j]
    BY <1>8 DEF Updates, Alone
  <2>2. m # k /\ desk[m].op \in {"cost", "update"} /\ desk[m].id = i => Item(i) \in crossed
    BY <1>0, <2>1, CatalogFrames
  <2> QED
    BY <1>0, <1>1, <2>1, <2>2
<1>9. ASSUME NEW name, AddsArea(name) PROVE PriceFrame(desk[m])'
  <2>1. /\ desk' = desk /\ crossed \subseteq crossed' /\ Grown(ItemRow, items, NewItem("area", name, 0), items')
    BY <1>9 DEF AddsArea
  <2>2. \A j \in DOMAIN items : items'[j] = items[j]
    BY <2>1 DEF Grown
  <2> QED
    BY <1>0, <1>1, <2>1, <2>2
<1>10. ASSUME NEW i, Deletes(i) PROVE PriceFrame(desk[m])'
  <2>1. /\ desk' = desk /\ crossed \subseteq crossed'
        /\ \A j \in DOMAIN items : items'[j].kind = items[j].kind /\ items'[j].default = items[j].default
    BY <1>10 DEF Deletes
  <2> QED
    BY <1>0, <1>1, <2>1
<1>11. ASSUME NEW i, NEW cost, NEW from, Enters(i, cost, from) PROVE PriceFrame(desk[m])'
  <2>1. /\ desk' = desk /\ crossed \subseteq crossed' /\ Touched(Item(i))
        /\ \A j \in DOMAIN items : items'[j].kind = items[j].kind
        /\ \A j \in DOMAIN items : j # i => items'[j].default = items[j].default
    BY <1>11 DEF Enters, Alike
  <2>2. desk[m].op \in {"cost", "update"} /\ desk[m].id = i => Item(i) \in crossed'
    BY <1>0, <2>1 DEF Touched
  <2> QED
    BY <1>0, <1>1, <2>1, <2>2
<1> QED
  BY <1>2, <1>3, <1>4, <1>5, <1>6, <1>7, <1>8, <1>9, <1>10, <1>11, CatalogCases DEF CatalogCase

LEMMA PricesAlways == Spec => []PricesRight
<1>1. Orderly /\ Orderly' /\ PricesRight /\ [Next]_vars => PricesRight'
  <2> SUFFICES ASSUME Orderly, Orderly', PricesRight, [Next]_vars PROVE PricesRight'
    OBVIOUS
  <2>1. Dated'
    BY DatedStep DEF PricesRight
  <2>2. \A i \in DOMAIN items' : Priced(i)'
    BY <2>1, PricedStep
  <2>3. \A m \in Desks : PriceFrame(desk[m])'
    BY PriceFrames
  <2> QED
    BY <2>1, <2>2, <2>3 DEF PricesRight
<1>2. Init => PricesRight
  BY OfficeAssumption DEF Init, PricesRight, Dated, PriceFrame, Idle
<1> QED
  BY <1>1, <1>2, OrderlyAlways, PTL DEF Spec

(* A name stands for one live row, always where the database sees to it;   *)
(* a deleted row keeps no name from being used again; and the default cost *)
(* of a raw material is the cost in force, unless a cost was entered ahead *)
(* of its day.                                                             *)
THEOREM NamesAndCostsStand == Spec => []CatalogStands
<1>1. Orderly /\ NamesRight /\ PricesRight => CatalogStands
  <2> SUFFICES ASSUME Orderly, NamesRight, PricesRight PROVE CatalogStands
    OBVIOUS
  <2>1. ASSUME NEW i \in DOMAIN items, NEW j \in DOMAIN items,
               items[i].kind = items[j].kind, items[i].name = items[j].name, i # j,
               items[i].kind \in LookedUp, Apart(Item(i)), Apart(Item(j))
        PROVE  items[i].kind \notin Unique /\ ~Apart(Named(items[i].kind, items[i].name))
    BY <2>1 DEF NamesRight, UniqueNames, SharedNames, Taken
  <2>2. \A i \in DOMAIN items : items[i].gone /\ Apart(Item(i)) => items[i].name \notin ItemNames
    BY CatalogFrames DEF NamesRight, RowNames
  <2>3. ASSUME NEW i \in OfKind("raw"), items[i].default # 0, Apart(Item(i)), ~InAdvance(i), ~BeingPriced(i)
        PROVE  items[i].default = CurrentCost(i, today)
    <3>1. i \in DOMAIN items /\ items[i].kind = "raw" /\ Dated /\ today \in Nat
      BY DEF OfKind, PricesRight, Orderly, CatalogTyped
    <3>2. PICK h : Newest(i, h) /\ costs[h].cost = items[i].default
      BY <2>3, <3>1 DEF PricesRight, Priced
    <3>3. LatestCost(costs, i, today) = costs[h].cost
      BY <2>3, <3>1, <3>2, PriceInForce
    <3> QED
      BY <3>2, <3>3 DEF CurrentCost
  <2> QED
    BY <2>1, <2>2, <2>3 DEF CatalogStands
<1> QED
  BY <1>1, OrderlyAlways, NamesAlways, PricesAlways, PTL

-----------------------------------------------------------------------------
(* Idempotency keys.  The inductive invariant IInv says what the unique    *)
(* index buys: a request that has claimed its key finds the row still      *)
(* there (nobody else deletes it), and a request that took effect keeps    *)
(* everyone else away from its key until it loses its answer.              *)
(* Where a request can stand, given its key. *)
KeyedSteps ==
    \A r \in Requests :
        /\ pc[r] \in {"create", "again", "save", "release"} => KeyOf[r] \in Keys
        /\ pc[r] = "run" => KeyOf[r] \in Keys \cup {NoKey}
        /\ pc[r] # "done" => answer[r] = None

ExecutedSteps ==
    \A r \in Requests :
        /\ pc[r] = "save" => r \in executed
        /\ r \in executed => pc[r] \in {"save", "release", "done", "dead"}
        /\ (r \in executed /\ "late" \notin Faults)
              => pc[r] # "release" /\ answer[r] # Failed

OwnerHoldsRow == \A r \in Requests : Owner(r) => keyRow[KeyOf[r]] # Absent

StoredIsExecuted ==
    \A k \in Keys : keyRow[k] \in Requests =>
        keyRow[k] \in executed /\ KeyOf[keyRow[k]] = k

(* A request that took effect and has not lost its answer blocks its key.  *)
ExecutedBlocksKey ==
    \A r \in Requests :
        (r \in executed /\ ~Lost(r) /\ KeyOf[r] \in Keys) =>
            /\ keyRow[KeyOf[r]] # Absent
            /\ \A s \in Requests : (s # r /\ Owner(s)) => KeyOf[s] # KeyOf[r]

IInv == /\ TypeOK
        /\ KeyedSteps
        /\ ExecutedSteps
        /\ OwnerHoldsRow
        /\ OneOwner
        /\ StoredIsExecuted
        /\ ExecutedBlocksKey
        /\ OnceUnlessLost
        /\ ReplayFaithful
-----------------------------------------------------------------------------
(* The table is empty when the program starts. *)
LEMMA InitIInv == KeyInit => IInv
  BY KeyAssumption
  DEF KeyInit, IInv, TypeOK, KeyedSteps, ExecutedSteps, OwnerHoldsRow, OneOwner,
      StoredIsExecuted, ExecutedBlocksKey, OnceUnlessLost, ReplayFaithful, Owner,
      Lost, KeyAssumption

(* Every await of the helper, and every fault, keeps IInv. *)
LEMMA StepIInv == IInv /\ [KeyNext]_keyVars => IInv'
  <1> SUFFICES ASSUME IInv, [KeyNext]_keyVars PROVE IInv'
    OBVIOUS
  <1> USE KeyAssumption
          DEF IInv, TypeOK, KeyedSteps, ExecutedSteps, OwnerHoldsRow, OneOwner,
              StoredIsExecuted, ExecutedBlocksKey, OnceUnlessLost, ReplayFaithful,
              Owner, Lost, KeyAssumption, Return, Goto
  <1>1. ASSUME NEW r \in Requests, CheckKey(r) PROVE IInv'
    BY <1>1 DEF CheckKey
  <1>2. ASSUME NEW r \in Requests, Lookup(r) PROVE IInv'
    BY <1>2 DEF Lookup
  <1>3. ASSUME NEW r \in Requests, Claim(r) PROVE IInv'
    BY <1>3 DEF Claim
  <1>4. ASSUME NEW r \in Requests, LookupAgain(r) PROVE IInv'
    BY <1>4 DEF LookupAgain
  <1>5. ASSUME NEW r \in Requests, Run(r) PROVE IInv'
    BY <1>5 DEF Run
  <1>6. ASSUME NEW r \in Requests, Save(r) PROVE IInv'
    BY <1>6 DEF Save
  <1>7. ASSUME NEW r \in Requests, Release(r) PROVE IInv'
    BY <1>7 DEF Release
  <1>8. ASSUME NEW r \in Requests, Fault(r) PROVE IInv'
    <2>1. CASE QueryError(r)
      BY <2>1 DEF QueryError
    <2>2. CASE RunLateFailure(r)
      BY <2>2 DEF RunLateFailure
    <2>3. CASE SaveFailure(r)
      BY <2>3 DEF SaveFailure
    <2>4. CASE Crash(r)
      BY <2>4 DEF Crash
    <2> QED
      BY <1>8, <2>1, <2>2, <2>3, <2>4 DEF Fault
  <1>9. CASE UNCHANGED keyVars
    BY <1>9 DEF keyVars
  <1> QED
    BY <1>1, <1>2, <1>3, <1>4, <1>5, <1>6, <1>7, <1>8, <1>9 DEF KeyNext, Step

(* IInv holds throughout: the fact every theorem below rests on. *)
LEMMA Invariance == KeySpec => []IInv
  BY InitIInv, StepIInv, PTL DEF KeySpec
-----------------------------------------------------------------------------
(* One owner per key, a second execution only after a lost one, and no     *)
(* client answered with a result that did not commit under its own key.    *)
THEOREM Soundness == KeySpec => []KeysSound
  BY Invariance, PTL DEF IInv, KeysSound

(* runIdempotent keeps the promise of AtMostOnce, whatever fails. *)
THEOREM ImplementsAtMostOnce == KeySpec => OnceSpec
  <1> USE KeyAssumption DEF KeyAssumption
  <1>1. KeyInit => Once!Init
    BY DEF KeyInit, Once!Init
  <1>2. IInv /\ [KeyNext]_keyVars => [Once!Next]_Once!vars
    <2> SUFFICES ASSUME IInv, [KeyNext]_keyVars PROVE [Once!Next]_Once!vars
      OBVIOUS
    <2> USE DEF IInv, TypeOK, KeyedSteps, ExecutedSteps, Return, Goto,
                Once!Next, Once!vars
    <2>1. ASSUME NEW r \in Requests, CheckKey(r) PROVE [Once!Next]_Once!vars
      BY <2>1 DEF CheckKey, Once!Refuse
    <2>2. ASSUME NEW r \in Requests, Lookup(r) \/ LookupAgain(r)
          PROVE  [Once!Next]_Once!vars
      BY <2>2 DEF Lookup, LookupAgain, StoredIsExecuted, Once!Refuse, Once!Answer
    <2>3. ASSUME NEW r \in Requests, Claim(r) PROVE [Once!Next]_Once!vars
      BY <2>3 DEF Claim
    <2>4. ASSUME NEW r \in Requests, Run(r) PROVE [Once!Next]_Once!vars
      <3>1. r \notin executed /\ answer[r] = None
        BY <2>4 DEF Run
      <3>2. KeyOf[r] \in Keys => \A s \in executed : KeyOf[s] = KeyOf[r] => Once!Lost(s)
        BY <2>4, <3>1 DEF Run, ExecutedBlocksKey, Owner, Lost, Once!Lost
      <3> QED
        BY <2>4, <3>1, <3>2 DEF Run, Once!Execute, Once!Refuse
    <2>5. ASSUME NEW r \in Requests, Save(r) PROVE [Once!Next]_Once!vars
      BY <2>5 DEF Save, Once!Answer
    <2>6. ASSUME NEW r \in Requests, Release(r) PROVE [Once!Next]_Once!vars
      BY <2>6 DEF Release, Once!Refuse
    <2>7. ASSUME NEW r \in Requests, RunLateFailure(r) PROVE [Once!Next]_Once!vars
      <3>1. r \notin executed /\ answer[r] = None
        BY <2>7 DEF RunLateFailure
      <3>2. KeyOf[r] \in Keys => \A s \in executed : KeyOf[s] = KeyOf[r] => Once!Lost(s)
        BY <2>7, <3>1 DEF RunLateFailure, ExecutedBlocksKey, Owner, Lost, Once!Lost
      <3> QED
        BY <2>7, <3>1, <3>2 DEF RunLateFailure, Once!Execute
    <2>9. ASSUME NEW r \in Requests, QueryError(r) \/ SaveFailure(r) \/ Crash(r)
          PROVE  [Once!Next]_Once!vars
      BY <2>9 DEF QueryError, SaveFailure, Crash, Once!Refuse
    <2>8. CASE UNCHANGED keyVars
      BY <2>8 DEF keyVars
    <2> QED
      BY <2>1, <2>2, <2>3, <2>4, <2>5, <2>6, <2>7, <2>8, <2>9 DEF KeyNext, Step, Fault
  <1> QED
    BY <1>1, <1>2, Invariance, PTL DEF KeySpec, OnceSpec, Once!Spec
-----------------------------------------------------------------------------
(* What an owner finds in the row it has claimed: nothing but the mark of  *)
(* the claim, until its own response is stored.                            *)
OwnRow == \A r \in Requests : Owner(r) =>
              \/ keyRow[KeyOf[r]] = Pending
              \/ pc[r] = "release" /\ keyRow[KeyOf[r]] = r

(* No step of another request reaches the row of an owner. *)
LEMMA StepOwnRow == IInv /\ OwnRow /\ [KeyNext]_keyVars => OwnRow'
  <1> SUFFICES ASSUME IInv, OwnRow, [KeyNext]_keyVars, NEW o \in Requests, Owner(o)'
               PROVE  \/ keyRow'[KeyOf[o]] = Pending
                      \/ pc'[o] = "release" /\ keyRow'[KeyOf[o]] = o
    BY DEF OwnRow
  <1> USE KeyAssumption
          DEF IInv, TypeOK, KeyedSteps, OneOwner, OwnRow, Owner, KeyAssumption, Return, Goto
  <1>1. ASSUME NEW r \in Requests, CheckKey(r) \/ Lookup(r) \/ LookupAgain(r)
        PROVE  \/ keyRow'[KeyOf[o]] = Pending
               \/ pc'[o] = "release" /\ keyRow'[KeyOf[o]] = o
    BY <1>1 DEF CheckKey, Lookup, LookupAgain
  <1>2. ASSUME NEW r \in Requests, Claim(r)
        PROVE  \/ keyRow'[KeyOf[o]] = Pending
               \/ pc'[o] = "release" /\ keyRow'[KeyOf[o]] = o
    BY <1>2 DEF Claim
  <1>3. ASSUME NEW r \in Requests, Run(r) \/ RunLateFailure(r)
        PROVE  \/ keyRow'[KeyOf[o]] = Pending
               \/ pc'[o] = "release" /\ keyRow'[KeyOf[o]] = o
    BY <1>3 DEF Run, RunLateFailure
  <1>4. ASSUME NEW r \in Requests, Save(r) \/ SaveFailure(r)
        PROVE  \/ keyRow'[KeyOf[o]] = Pending
               \/ pc'[o] = "release" /\ keyRow'[KeyOf[o]] = o
    BY <1>4 DEF Save, SaveFailure
  <1>5. ASSUME NEW r \in Requests, Release(r)
        PROVE  \/ keyRow'[KeyOf[o]] = Pending
               \/ pc'[o] = "release" /\ keyRow'[KeyOf[o]] = o
    BY <1>5 DEF Release
  <1>6. ASSUME NEW r \in Requests, QueryError(r) \/ Crash(r)
        PROVE  \/ keyRow'[KeyOf[o]] = Pending
               \/ pc'[o] = "release" /\ keyRow'[KeyOf[o]] = o
    BY <1>6 DEF QueryError, Crash
  <1>7. CASE UNCHANGED keyVars
    BY <1>7 DEF keyVars
  <1> QED
    BY <1>1, <1>2, <1>3, <1>4, <1>5, <1>6, <1>7 DEF KeyNext, Step, Fault

(* One step of the table, given what the owners find in their rows. *)
ResponsesStand == \A k \in Keys : keyRow[k] \in Requests =>
                      \/ keyRow'[k] = keyRow[k]
                      \/ keyRow'[k] = Absent /\ pc[keyRow[k]] = "release"

LEMMA StepStable == IInv /\ OwnRow /\ [KeyNext]_keyVars => ResponsesStand
  <1> SUFFICES ASSUME IInv, OwnRow, [KeyNext]_keyVars, NEW k \in Keys, keyRow[k] \in Requests
               PROVE  keyRow'[k] = keyRow[k] \/ (keyRow'[k] = Absent /\ pc[keyRow[k]] = "release")
    BY DEF ResponsesStand
  <1> USE KeyAssumption
          DEF IInv, TypeOK, KeyedSteps, OneOwner, OwnRow, Owner, KeyAssumption, Return, Goto
  <1>1. ASSUME NEW r \in Requests, Release(r)
        PROVE  keyRow'[k] = keyRow[k] \/ (keyRow'[k] = Absent /\ pc[keyRow[k]] = "release")
    <2>1. CASE KeyOf[r] = k
      BY <1>1, <2>1 DEF Release
    <2>2. CASE KeyOf[r] # k
      BY <1>1, <2>2 DEF Release
    <2> QED
      BY <2>1, <2>2
  <1>2. ASSUME NEW r \in Requests, Step(r) \/ Fault(r), ~Release(r)
        PROVE  keyRow'[k] = keyRow[k]
    BY <1>2 DEF Step, CheckKey, Lookup, Claim, LookupAgain, Run, Save, Fault,
                QueryError, RunLateFailure, SaveFailure, Crash
  <1>3. CASE UNCHANGED keyVars
    BY <1>3 DEF keyVars
  <1> QED
    BY <1>1, <1>2, <1>3 DEF KeyNext

(* A response once stored is what every retry is answered with: nobody     *)
(* overwrites it, and only the request that stored it, while it gives its  *)
(* key back after a late failure, takes it away.                           *)
THEOREM StoredResponseStands == KeySpec => ResponseStable
  <1>1. KeyInit => OwnRow
    BY KeyAssumption DEF KeyInit, OwnRow, Owner
  <1>2. KeySpec => []OwnRow
    BY <1>1, StepOwnRow, Invariance, PTL DEF KeySpec
  <1> QED
    BY <1>2, StepStable, Invariance, PTL DEF KeySpec, ResponseStable, ResponsesStand
=============================================================================
