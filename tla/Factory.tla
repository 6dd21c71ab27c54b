------------------------------- MODULE Factory -------------------------------
(***************************************************************************)
(* Stock locations, bills of material and production orders                *)
(* (inventory.service.ts, raw-materials.service.ts, bom.service.ts,        *)
(* production.service.ts), and the reports on them.                        *)
(*                                                                         *)
(* The status of an order is checked before it is written by id, and the   *)
(* bill of material is read before the transaction that consumes it.       *)
(***************************************************************************)
EXTENDS Requests, SequencesExt

CONSTANTS Products, Raws, PlaceNames,
          Main  \* the name of the location that is made when there is none

VARIABLES
    places,  \* StockLocation rows
    boms,    \* Bom rows; per is qtyPerOutputUnit, 0 where there is no line
    jobs,    \* ProductionOrder rows; lines sums its ProductionConsumeLine rows
    stock,   \* StockBalance and RawMaterialBalance rows: <<place, item>> -> quantity
    moves    \* StockMovement and RawMaterialMovement rows

factoryVars == <<places, boms, jobs, stock, moves>>
-----------------------------------------------------------------------------
(* Stock locations. *)

Active(l) == places[l].active
NewPlace(name, default) == [name |-> name, active |-> TRUE, default |-> default]
NameFree(name, except) == \A l \in DOMAIN places \ except : places[l].name # name

\* ensureDefaultLocation; the unique name makes it fail for ever when Main is inactive.
EnsureDefault ==
    IF \E l \in DOMAIN places : Active(l) THEN UNCHANGED places
    ELSE NameFree(Main, {}) /\ places' = Append(places, NewPlace(Main, TRUE))

\* The location a request without one gets: the default first, then the oldest.
DefaultPlace ==
    LET active == {l \in DOMAIN places : Active(l)}
        default == {l \in active : places[l].default}
    IN  Min(IF default # {} THEN default ELSE active)

\* Where a request may post: an active location it names, or that one.
Targets == IF \E l \in DOMAIN places : Active(l) THEN {l \in DOMAIN places : Active(l)}
           ELSE {Len(places) + 1}

CreateLocation(name) ==
    /\ Does("location")
    /\ NameFree(name, {})
    /\ IF \E l \in DOMAIN places : Active(l)
       THEN places' = Append(places, NewPlace(name, FALSE))
       ELSE NameFree(Main, {}) /\ name # Main
            /\ places' = places \o <<NewPlace(Main, TRUE), NewPlace(name, FALSE)>>
    /\ UNCHANGED <<requestVars, boms, jobs, stock, moves>>

\* Only the default location looks for another active one.
BeginUpdateLocation(k, l, put) ==
    /\ Does("location")
    /\ (put = [active |-> FALSE] /\ places[l].default) => \E other \in DOMAIN places \ {l} : Active(other)
    /\ Starts(k, [op |-> "location", on |-> {<<"place", l>>}, place |-> l, put |-> put])
    /\ UNCHANGED factoryVars

CommitUpdateLocation(k) ==
    /\ Holds(k, "location")
    /\ LET f == desk[k] IN
           places' = IF "name" \in DOMAIN f.put /\ ~NameFree(f.put.name, {f.place}) THEN places
                     ELSE [places EXCEPT ![f.place] = Patched(@, f.put)]
    /\ Ends(k)
    /\ UNCHANGED <<boms, jobs, stock, moves>>
-----------------------------------------------------------------------------
(* Postings: each locks its balances and never lets one go below zero.     *)

InStock(l, item) == IF <<l, item>> \in DOMAIN stock THEN stock[<<l, item>>] ELSE 0
Move(l, item, qty, type, job) == [place |-> l, item |-> item, qty |-> qty, type |-> type, job |-> job]
NoJob == 0
Cell(m) == <<m.place, m.item>>

Enough(posts) == \A i \in DOMAIN posts : InStock(posts[i].place, posts[i].item) + posts[i].qty >= 0
PostAll(posts) ==
    /\ moves' = moves \o posts
    /\ stock' = [c \in DOMAIN stock \cup {Cell(posts[i]) : i \in DOMAIN posts} |->
                    IF \E i \in DOMAIN posts : Cell(posts[i]) = c
                    THEN InStock(c[1], c[2]) + posts[CHOOSE i \in DOMAIN posts : Cell(posts[i]) = c].qty
                    ELSE stock[c]]

\* The default location is made before the transaction of the posting, in every service.
Post(l, item, qty, type) ==
    /\ Does("stock")
    /\ Len(moves) < scene.moves
    /\ EnsureDefault
    /\ LET posts == <<Move(l, item, qty, type, NoJob)>> IN
           IF Enough(posts) THEN PostAll(posts) ELSE UNCHANGED <<stock, moves>>
    /\ UNCHANGED <<requestVars, boms, jobs>>

\* Of finished goods as of raw materials.
PostOpening(l, item, qty) == qty > 0 /\ Post(l, item, qty, "OPENING")
PostAdjustment(l, item, qty) == qty # 0 /\ Post(l, item, qty, "ADJUSTMENT")

PostTransfer(from, to, p, qty) ==
    /\ Does("stock")
    /\ Len(moves) < scene.moves
    /\ from # to /\ Active(from) /\ Active(to) /\ qty > 0
    /\ LET posts == <<Move(from, p, -qty, "TRANSFER_OUT", NoJob), Move(to, p, qty, "TRANSFER_IN", NoJob)>>
       IN  Enough(posts) /\ PostAll(posts)
    /\ UNCHANGED <<requestVars, places, boms, jobs>>
-----------------------------------------------------------------------------
(* Bills of material. *)

BomsOf(p) == {b \in DOMAIN boms : boms[b].product = p}
ActiveBoms(p) == {b \in BomsOf(p) : boms[b].active}
Retired(p, except) ==
    [b \in DOMAIN boms |-> IF b \in BomsOf(p) \ except THEN [boms[b] EXCEPT !.active = FALSE] ELSE boms[b]]

\* The next version is read before the transaction.
BeginCreateBom(k, p, per, active) ==
    /\ Does("bom")
    /\ Starts(k, [op |-> "newBom", on |-> {<<"boms", p>>}, product |-> p, per |-> per, active |-> active,
                  version |-> Max({0} \cup {boms[b].version : b \in BomsOf(p)}) + 1])
    /\ UNCHANGED factoryVars

\* Mutant: the bills that were active stay active.
CommitCreateBomBeside(k) ==
    /\ Holds(k, "newBom")
    /\ Len(boms) < scene.boms
    /\ LET f == desk[k] IN
           boms' = Append(boms, [product |-> f.product, version |-> f.version,
                                 active |-> f.active, per |-> f.per])
    /\ Ends(k)
    /\ UNCHANGED <<places, jobs, stock, moves>>

CommitCreateBom(k) ==
    /\ Holds(k, "newBom")
    /\ Len(boms) < scene.boms
    /\ LET f == desk[k] IN
           boms' = Append(IF f.active THEN Retired(f.product, {}) ELSE boms,
                          [product |-> f.product, version |-> f.version, active |-> f.active, per |-> f.per])
    /\ Ends(k)
    /\ UNCHANGED <<places, jobs, stock, moves>>

\* Others are retired only if this one was read inactive.  (deactivate is this with FALSE.)
BeginUpdateBom(k, b, put) ==
    /\ Does("bom")
    /\ Starts(k, [op |-> "bom", on |-> {<<"boms", boms[b].product>>}, bom |-> b, put |-> put,
                  retires |-> "active" \in DOMAIN put /\ put.active /\ ~boms[b].active])
    /\ UNCHANGED factoryVars

CommitUpdateBom(k) ==
    /\ Holds(k, "bom")
    /\ LET f == desk[k]
           others == IF f.retires THEN Retired(boms[f.bom].product, {f.bom}) ELSE boms
       IN  boms' = [others EXCEPT ![f.bom] = Patched(@, f.put)]
    /\ Ends(k)
    /\ UNCHANGED <<places, jobs, stock, moves>>
-----------------------------------------------------------------------------
(* Production orders. *)

Job(j) == <<"job", j>>
\* requireActiveBomWithLines: the bill of the order, or the active one in its place.
ActiveBomFor(p, preferred) == IF boms[preferred].active THEN {preferred} ELSE ActiveBoms(p)

CreateJob(b, l, planned) ==
    /\ Does("job")
    /\ Len(jobs) < scene.jobs
    /\ boms[b].active /\ EnsureDefault
    /\ jobs' = Append(jobs, [product |-> boms[b].product, bom |-> b, place |-> l, planned |-> planned,
                             actual |-> 0, status |-> "DRAFT", lines |-> [r \in Raws |-> 0]])
    /\ UNCHANGED <<requestVars, boms, stock, moves>>

Writes(k, j, put, posts, lines) ==
    /\ Does("job")
    /\ Starts(k, [op |-> "job", on |-> {Job(j)}, job |-> j, put |-> put, posts |-> posts, lines |-> lines])
    /\ UNCHANGED <<boms, jobs, stock, moves>>
NoLines == [r \in Raws |-> 0]

\* A location that is given is resolved as for a new order.
BeginUpdateJob(k, j, b, l, planned) ==
    /\ jobs[j].status = "DRAFT"
    /\ boms[b].active
    /\ Writes(k, j, [product |-> boms[b].product, bom |-> b, place |-> l,
                     planned |-> planned], <<>>, NoLines)
    /\ IF l = jobs[j].place THEN UNCHANGED places ELSE EnsureDefault

BeginPlan(k, j) ==
    /\ jobs[j].status = "DRAFT"
    /\ \E b \in ActiveBomFor(jobs[j].product, jobs[j].bom) :
           Writes(k, j, [status |-> "PLANNED", bom |-> b], <<>>, NoLines)
    /\ UNCHANGED places

BeginStart(k, j) ==
    /\ jobs[j].status = "PLANNED"
    /\ ActiveBomFor(jobs[j].product, jobs[j].bom) # {}
    /\ Writes(k, j, [status |-> "IN_PROGRESS"], <<>>, NoLines)
    /\ UNCHANGED places

\* Mutant: a completed order can be cancelled too.
BeginCancelAny(k, j) ==
    /\ jobs[j].status # "CANCELLED"
    /\ Writes(k, j, [status |-> "CANCELLED"], <<>>, NoLines)
    /\ UNCHANGED places

BeginCancel(k, j) ==
    /\ jobs[j].status \in {"DRAFT", "PLANNED", "IN_PROGRESS"}
    /\ Writes(k, j, [status |-> "CANCELLED"], <<>>, NoLines)
    /\ UNCHANGED places

Consumes(j, qty) == [r \in Raws |-> boms[jobs[j].bom].per[r] * qty]
JobPosts(j, qty) ==
    LET l == jobs[j].place
        used == {r \in Raws : Consumes(j, qty)[r] > 0}
        out == {Move(l, r, -Consumes(j, qty)[r], "PRODUCTION_CONSUME", j) : r \in used}
    IN  SetToSeq(out) \o <<Move(l, jobs[j].product, qty, "PRODUCTION_IN", j)>>

BeginComplete(k, j, actual) ==
    /\ jobs[j].status = "IN_PROGRESS"
    /\ Writes(k, j, [status |-> "COMPLETED", actual |-> actual], JobPosts(j, actual), Consumes(j, actual))
    /\ UNCHANGED places

\* One transaction; it is rolled back when a raw material runs short.
CommitJob(k) ==
    /\ Holds(k, "job")
    /\ Len(moves) + Len(desk[k].posts) <= scene.moves
    /\ LET f == desk[k] IN
           IF ~Enough(f.posts) THEN UNCHANGED <<jobs, stock, moves>>
           ELSE /\ jobs' = [jobs EXCEPT ![f.job] =
                               [Patched(@, f.put) EXCEPT !.lines = [r \in Raws |-> jobs[f.job].lines[r] + f.lines[r]]]]
                /\ PostAll(f.posts)
    /\ Ends(k)
    /\ UNCHANGED <<places, boms>>
-----------------------------------------------------------------------------
(* Readers. *)

MoveSum(rows) == SumFunction([i \in rows |-> moves[i].qty])
Completed == {j \in DOMAIN jobs : jobs[j].status = "COMPLETED"}

\* shortagePreview: is there enough to make what is planned?
CanMake(j) ==
    \A r \in Raws : boms[jobs[j].bom].per[r] * jobs[j].planned <= InStock(jobs[j].place, r)

ProductionYield(p) ==
    SumFunction([j \in {j \in Completed : jobs[j].product = p} |-> jobs[j].actual])
RawConsumption(r) == SumFunction([j \in Completed |-> jobs[j].lines[r]])

StockOnHand(l) == {c \in DOMAIN stock : c[1] = l}
\* listBalances without a location: the default one, if it is the only active one and
\* the workspace keeps a single warehouse; otherwise all of them.
Listed(warehouse) ==
    IF ~warehouse /\ Cardinality({l \in DOMAIN places : Active(l)}) <= 1
    THEN StockOnHand(DefaultPlace) ELSE DOMAIN stock
OnHandIn(cells, item) == SumFunction([c \in {c \in cells : c[2] = item} |-> stock[c]])
SumOnHand(item) == OnHandIn(DOMAIN stock, item)

FactoryStep ==
    \/ \E name \in PlaceNames : CreateLocation(name)
    \/ \E k \in Desks, l \in DOMAIN places, put \in scene.edits : BeginUpdateLocation(k, l, put)
    \/ \E l \in Targets, qty \in scene.qtys, item \in scene.goods :
           PostOpening(l, item, qty) \/ PostAdjustment(l, item, qty)
    \/ \E from, to \in DOMAIN places, p \in Products \cap scene.goods, qty \in scene.qtys : PostTransfer(from, to, p, qty)
    \/ \E k \in Desks, per \in scene.recipes :
           \/ \E p \in Products \cap scene.goods, active \in BOOLEAN : BeginCreateBom(k, p, per, active)
           \/ \E b \in DOMAIN boms, put \in {[per |-> per]} \cup {[active |-> a] : a \in BOOLEAN} :
                  BeginUpdateBom(k, b, put)
    \/ \E b \in DOMAIN boms, qty \in scene.makes :
           \/ \E l \in Targets : CreateJob(b, l, qty)
           \/ \E k \in Desks, j \in DOMAIN jobs :
                  \E l \in {jobs[j].place} \cup Targets : BeginUpdateJob(k, j, b, l, qty)
    \/ \E k \in Desks, j \in DOMAIN jobs :
           \/ BeginPlan(k, j) \/ BeginStart(k, j) \/ BeginCancel(k, j)
           \/ \E qty \in scene.makes : BeginComplete(k, j, qty)
    \/ \E k \in Desks :
           CommitUpdateLocation(k) \/ CommitCreateBom(k) \/ CommitUpdateBom(k) \/ CommitJob(k)
=============================================================================
