------------------------------ MODULE BackOffice ------------------------------
(***************************************************************************)
(* The back office as a whole: the factory, the files of the customers,    *)
(* the riders' cash and the catalog, under requests that overlap, and what *)
(* their rows and readers promise each other.  A promise that the code     *)
(* checks outside its writes is stated for rows that no two requests       *)
(* handled at once.                                                        *)
(***************************************************************************)
EXTENDS Factory, FieldCash, Catalog

(* The columns that an update may give, and what a scene may consist of:   *)
(* inputs of their types, and tables that the program leaves behind.       *)
Columns(s) == [name |-> IF "catalog" \in s.does THEN ItemNames ELSE PlaceNames,
               active |-> BOOLEAN, rider |-> Riders, amount |-> Nat, day |-> Days,
               byRider |-> BOOLEAN, staff |-> Riders \cup {Nobody}, default |-> Nat]
FileColumns == [status |-> {"ACTIVE", "INACTIVE"}, opening |-> Nat]
Gives(put, columns) == \A x \in DOMAIN put : x \in DOMAIN columns /\ put[x] \in columns[x]

Place == [name : PlaceNames, active : BOOLEAN, default : BOOLEAN]
Bom == [product : Products, version : Nat, active : BOOLEAN, per : [Raws -> Nat]]
Stop == [out : Nat, back : Nat, sale : Nat, cash : Nat, day : Days]

Inputs(s) ==
    /\ s.goods \subseteq Products \cup Raws /\ s.qtys \subseteq Int
    /\ s.recipes \subseteq [Raws -> Nat] /\ s.makes \subseteq Nat \ {0}
    /\ s.who \cup s.active \subseteq Customers /\ s.stops \subseteq Stop /\ s.days \subseteq Days
    /\ s.amounts \cup s.loads \cup s.prices \subseteq Nat /\ s.deltas \subseteq Int
    /\ s.kinds \subseteq Kinds /\ s.names \subseteq ItemNames
    /\ \A put \in s.edits : Gives(put, Columns(s))
    /\ \A put \in s.puts : Gives(put, FileColumns)
    /\ s.rows \in Nat /\ ("catalog" \in s.does => s.rows <= Len(Mangled))

OneBillEach(bills) ==
    \A a, b \in DOMAIN bills : a # b /\ bills[a].product = bills[b].product =>
        bills[a].version # bills[b].version /\ ~(bills[a].active /\ bills[b].active)
Starting(s) ==
    /\ s.places \in Seq(Place)
    /\ s.bills \in Seq(Bom) /\ OneBillEach(s.bills)
    /\ s.opening \in Seq([place : DOMAIN s.places, item : Products \cup Raws, qty : Nat,
                          type : {"OPENING"}, job : {NoJob}])

(* The name of a deleted row ends in its id, so that it is the name of no  *)
(* other row.                                                              *)
MangledAssumption ==
    /\ Mangled \in Seq(STRING) /\ \A i \in DOMAIN Mangled : Mangled[i] \notin ItemNames
    /\ \A i, j \in DOMAIN Mangled : i # j => Mangled[i] # Mangled[j]

ASSUME OfficeAssumption ==
    /\ IsFiniteSet(Desks) /\ IsFiniteSet(Customers) /\ IsFiniteSet(Riders) /\ IsFiniteSet(Days)
    /\ IsFiniteSet(Products) /\ IsFiniteSet(Raws)
    /\ Nobody \notin Customers \cup Riders /\ Products \cap Raws = {}
    /\ Main \in PlaceNames /\ Horizon \in Nat \ {0}
    /\ Kinds \subseteq {"area", "vehicle", "packaging", "product", "raw"}
    /\ MangledAssumption
    /\ \A s \in Scenes : Inputs(s) /\ Starting(s)

vars == <<requestVars, factoryVars, fileVars, cashVars, catalogVars>>

Abort(k) ==
    /\ desk[k].op \in {"visit", "cost"}
    /\ BreaksOff(k)
    /\ UNCHANGED <<factoryVars, fileVars, cashVars, catalogVars>>

MovesAt(c) == {i \in DOMAIN moves : Cell(moves[i]) = c}

Init ==
    /\ scene \in Scenes
    /\ desk = [k \in Desks |-> Idle] /\ crossed = {}
    /\ places = scene.places /\ boms = scene.bills /\ jobs = <<>>
    /\ moves = scene.opening
    /\ stock = [c \in {Cell(moves[i]) : i \in DOMAIN moves} |-> MoveSum(MovesAt(c))]
    /\ files = [c \in Customers |-> [status |-> IF c \in scene.active THEN "ACTIVE" ELSE "none",
                                opening |-> 0, promised |-> FALSE]]
    /\ entries = <<>> /\ cans = <<>> /\ trips = <<>> /\ drops = <<>> /\ yard = 0
    /\ handovers = <<>> /\ expenses = <<>> /\ receipts = <<>> /\ visits = <<>>
    /\ items = <<>> /\ costs = <<>> /\ today = 1

Next ==
    \/ FactoryStep /\ UNCHANGED <<fileVars, cashVars, catalogVars>>
    \/ FileStep /\ UNCHANGED <<factoryVars, cashVars, catalogVars>>
    \/ CashStep /\ UNCHANGED <<factoryVars, catalogVars>>
    \/ CatalogStep /\ UNCHANGED <<factoryVars, fileVars, cashVars>>
    \/ \E k \in Desks : Abort(k)

Spec == Init /\ [][Next]_vars
-----------------------------------------------------------------------------
(* The factory. *)

Posted(j, item) == MoveSum({i \in DOMAIN moves : moves[i].job = j /\ moves[i].item = item})
Moved(type, item) == MoveSum({i \in DOMAIN moves : moves[i].type = type /\ moves[i].item = item})
JobPostedOnce(j) ==
    /\ \A r \in Raws : Posted(j, r) = -jobs[j].lines[r]
    /\ \A p \in Products :
           Posted(j, p) = IF j \in Completed /\ p = jobs[j].product THEN jobs[j].actual ELSE 0

(* Stock is what was moved, place by place; an order that is completed has *)
(* moved its raw materials out and its product in once, and any other has  *)
(* moved nothing; the preview of shortages tells whether what is planned   *)
(* would go through; so the reports on yield and consumption agree with the   *)
(* movements, and a list without a location hides nothing unless an        *)
(* inactive location still holds stock (production.service.ts complete,    *)
(* reports.service.ts, inventory.service.ts listBalances).                 *)
FactoryAgrees ==
    /\ \A c \in DOMAIN stock :
           stock[c] >= 0 /\ stock[c] = MoveSum(MovesAt(c))
    /\ \A j \in DOMAIN jobs : Apart(Job(j)) => JobPostedOnce(j)
    /\ \A j \in DOMAIN jobs : CanMake(j) <=> Enough(JobPosts(j, jobs[j].planned))
    /\ (\A j \in DOMAIN jobs : Apart(Job(j))) =>
           /\ \A p \in Products : ProductionYield(p) = Moved("PRODUCTION_IN", p)
           /\ \A r \in Raws : RawConsumption(r) = -Moved("PRODUCTION_CONSUME", r)
    /\ (\A c \in DOMAIN stock : Active(c[1])) =>
           \A warehouse \in BOOLEAN, item \in Products \cup Raws :
               SumOnHand(item) = OnHandIn(Listed(warehouse), item)

(* A product has at most one active bill of material and no version twice, *)
(* and an order makes the product of its bill (bom.service.ts).            *)
BomsStand ==
    /\ \A p \in Products : Apart(<<"boms", p>>) =>
           /\ Cardinality(ActiveBoms(p)) <= 1
           /\ \A a, b \in BomsOf(p) : boms[a].version = boms[b].version => a = b
    /\ \A j \in DOMAIN jobs : Apart(Job(j)) => boms[jobs[j].bom].product = jobs[j].product

(* While a workspace has locations, one of them can be posted to           *)
(* (inventory.service.ts: "Cannot deactivate the only active stock         *)
(* location").                                                             *)
SomeLocationActive == DOMAIN places # {} => \E l \in DOMAIN places : Active(l)
-----------------------------------------------------------------------------
(* Customers and cans. *)

(* The cans that the inventory says are on hand are those in the yard, the *)
(* empties on the runs that are out, and those that closed runs miss       *)
(* (container-inventory.service.ts against what deliveries and runs moved).*)
CansAccounted ==
    OnHand = yard + SumFunction([t \in DOMAIN trips |-> IF trips[t].open THEN trips[t].empty + Back(t)
                                                       ELSE MissingContainers(t)])

(* The same, unless a delivery that took empties back was cancelled.       *)
CansConserved == (\A d \in DOMAIN drops : drops[d].live \/ drops[d].back = 0) => CansAccounted

(* A customer's file and his ledger agree on what he owed at the start: at *)
(* most one opening entry, of the amount in the file; and the fleet was    *)
(* opened once (customers.service.ts update, setOpening).                  *)
FilesStand ==
    /\ \A c \in Customers : Apart(Customer(c)) =>
           /\ Cardinality(Openings(c)) <= 1
           /\ Amount(Openings(c)) = files[c].opening
    /\ Apart(<<"fleet", "opening">>) =>
           Cardinality({i \in DOMAIN cans : cans[i].type = "OPENING_ON_HAND"}) <= 1

(* Nobody who owes money or holds cans is taken off the active customers,  *)
(* by softDelete or by an update (assertCanDeactivate), unless that update *)
(* changes what he owed at the start.                                      *)
DeactivationChecked ==
    [][\A c \in Customers :
          /\ files[c].status = "ACTIVE" /\ files'[c].status = "INACTIVE"
          /\ files'[c].opening = files[c].opening
          /\ Apart(Customer(c))
          => CanDeactivate(c)]_vars
-----------------------------------------------------------------------------
(* Cash. *)

(* No rider hands over, in a new or a changed handover, cash that he does  *)
(* not carry, unless two requests handled his cash or the handover at once *)
(* (cash-handovers.service.ts).                                            *)
HandoverCovered ==
    [][\A r \in Riders :
          /\ \E h \in Live(handovers') : handovers'[h].rider = r /\ Handover(h) \notin crossed'
                                         /\ (h \in DOMAIN handovers => handovers'[h] # handovers[h])
          /\ Rider(r) \notin crossed'
          => RiderCashBalance(r)' >= 0]_vars

VisitOf(p) == {v \in DOMAIN visits : visits[v].receipt = p}
AtVisit(c) == \E k \in Desks : Holds(k, "visit") /\ Customer(c) \in desk[k].on

(* What the dashboard shows of a rider's days, and the runs of his cash,   *)
(* add up to the balance that bounds his handovers; an expense he paid     *)
(* names him; a payment made on a visit is in the books of that visit      *)
(* alone, and the collection report counts it, and goes on to when it is   *)
(* removed.                                                                *)
CashAgrees ==
    /\ \A r \in Riders :
           /\ SumFunction([day \in Days |-> CollectedOn(r, day) - HandedOverOn(r, day)])
              = RiderCashBalance(r) + RiderPaid(r)
           /\ SumFunction([t \in {t \in DOMAIN trips : trips[t].rider = r} |-> RunCash(t)]) = CashCollected(r)
    /\ \A x \in Live(expenses) : Apart(Expense(x)) => HasPayer(expenses[x])
    /\ \A v \in DOMAIN visits : LET p == visits[v].receipt IN
           p # 0 => /\ VisitOf(p) = {v} /\ p \in Live(receipts)
                    /\ receipts[p].who = visits[v].who /\ receipts[p].amount = visits[v].amount
    /\ \A p \in Live(receipts) : Apart(Customer(receipts[p].who)) /\ ~AtVisit(receipts[p].who) => VisitOf(p) # {}
    /\ (\A c \in Customers : Apart(Customer(c)) /\ ~AtVisit(c)) =>
           SumFunction([r \in Riders |-> CollectedBy(r, Days)]) = SumFunction([p \in DOMAIN receipts |-> receipts[p].amount])
-----------------------------------------------------------------------------
(* The catalog. *)

InAdvance(i) == \E h \in DOMAIN costs : costs[h].item = i /\ costs[h].from > costs[h].at
BeingPriced(i) == \E k \in Desks : Holds(k, "cost") /\ desk[k].id = i

(* A name stands for one live row, always where the database sees to it;   *)
(* a deleted row keeps no name from being used again; and the default cost *)
(* of a raw material, which purchase orders start from, is the cost in     *)
(* force, unless a cost was entered ahead of its day.                      *)
CatalogStands ==
    /\ \A i, j \in DOMAIN items :
           /\ items[i].kind = items[j].kind /\ items[i].name = items[j].name /\ i # j
           /\ items[i].kind \in LookedUp /\ Apart(Item(i)) /\ Apart(Item(j))
           => items[i].kind \notin Unique /\ ~Apart(Named(items[i].kind, items[i].name))
    /\ \A i \in DOMAIN items : items[i].gone /\ Apart(Item(i)) => items[i].name \notin ItemNames
    /\ \A i \in OfKind("raw") :
           items[i].default # 0 /\ Apart(Item(i)) /\ ~InAdvance(i) /\ ~BeingPriced(i)
           => items[i].default = CurrentCost(i, today)
=============================================================================
