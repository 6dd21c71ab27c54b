------------------------------- MODULE Catalog -------------------------------
(***************************************************************************)
(* The catalog: areas, vehicles, packaging types, products and raw         *)
(* materials, their names and what they cost (areas.service.ts,            *)
(* vehicles.service.ts, packaging-types.service.ts, products.service.ts,   *)
(* raw-materials.service.ts).                                              *)
(*                                                                         *)
(* A name is looked up before it is written.  Deleting changes the name;   *)
(* the database forbids equal names of areas and of vehicles, deleted rows *)
(* included.                                                               *)
(***************************************************************************)
EXTENDS Requests, SequencesExt

CONSTANTS ItemNames, Kinds, Mangled,
          Horizon  \* the last day of the instance

VARIABLES
    items,  \* rows of the five tables; default is defaultCost, 0 where there is none
    costs,  \* cost history rows; at is createdAt
    today

catalogVars == <<items, costs, today>>

LookedUp == Kinds \ {"raw"}
Unique == {"area", "vehicle"}
Deletable == {"area", "vehicle", "product"}

OfKind(kind) == {i \in DOMAIN items : items[i].kind = kind}
LiveNamed(kind, name) == {i \in OfKind(kind) : items[i].name = name /\ ~items[i].gone}
\* assertNameUnique, and the index of the database.
Available(kind, name, except) == kind \in LookedUp => LiveNamed(kind, name) \subseteq except
Writable(kind, name, except) ==
    kind \in Unique => \A i \in OfKind(kind) \ except : items[i].name # name

Item(i) == <<"item", i>>
Named(kind, name) == <<kind, name>>
NewItem(kind, name, default) ==
    [kind |-> kind, name |-> name, active |-> TRUE, gone |-> FALSE, default |-> default]
Cost(i, cost, from) == [item |-> i, cost |-> cost, from |-> from, at |-> today]
-----------------------------------------------------------------------------
(* What an item costs. *)

\* The row of the latest day; of several, the one entered last.
LatestCost(table, i, asOf) ==
    LET rows == {h \in DOMAIN table : table[h].item = i /\ table[h].from <= asOf}
        last == Max({table[h].from : h \in rows})
    IN  IF rows = {} THEN 0 ELSE table[Max({h \in rows : table[h].from = last})].cost

\* resolveCurrentCost, and resolveCurrentCosts for several products.
CurrentCost(i, asOf) == LatestCost(costs, i, asOf)
-----------------------------------------------------------------------------
(* Creating: the name is looked up, the row inserted, its cost after it. *)

BeginCreate(k, kind, name, cost) ==
    /\ Does("catalog")
    /\ Available(kind, name, {})
    /\ kind \in {"product", "raw"} \/ cost = 0
    /\ Starts(k, [op |-> "create", on |-> {Named(kind, name)}, kind |-> kind, name |-> name, cost |-> cost])
    /\ UNCHANGED catalogVars

\* Only a raw material keeps the cost in its own row.
CommitCreate(k) ==
    /\ Holds(k, "create") /\ Len(items) < scene.rows
    /\ LET f == desk[k] IN
           IF ~Writable(f.kind, f.name, {}) THEN UNCHANGED items /\ Ends(k)
           ELSE /\ items' = Append(items, NewItem(f.kind, f.name, IF f.kind = "raw" THEN f.cost ELSE 0))
                /\ IF f.cost = 0 THEN Ends(k)
                   ELSE /\ desk' = [desk EXCEPT ![k] = [op |-> "cost", on |-> {Item(Len(items) + 1)},
                                                        id |-> Len(items) + 1, cost |-> f.cost]]
                        /\ UNCHANGED <<scene, crossed>>
    /\ UNCHANGED <<costs, today>>

FirstCost(k) ==
    /\ Holds(k, "cost")
    /\ costs' = Append(costs, Cost(desk[k].id, desk[k].cost, today))
    /\ Ends(k)
    /\ UNCHANGED <<items, today>>

\* resolveAreaId, inside the transaction of a customer: an inactive area is activated.
AreaByName(name) ==
    /\ Does("catalog") /\ "area" \in scene.kinds
    /\ LET found == LiveNamed("area", name) IN
           IF found # {} THEN items' = [items EXCEPT ![Min(found)].active = TRUE]
           ELSE /\ Writable("area", name, {}) /\ Len(items) < scene.rows
                /\ items' = Append(items, NewItem("area", name, 0))
    /\ Touches({Named("area", name)})
    /\ UNCHANGED <<costs, today>>
-----------------------------------------------------------------------------
(* Updating writes by id, also to a row deleted meanwhile. *)

\* Mutant: a new name is not looked up.
BeginUpdateUnchecked(k, i, put) ==
    /\ Does("catalog")
    /\ ~items[i].gone
    /\ Starts(k, [op |-> "update", id |-> i, put |-> put, cost |-> 0,
                  on |-> {Item(i), Named(items[i].kind, Patched(items[i], put).name)}])
    /\ UNCHANGED catalogVars

\* cost is what the history of a raw material gets: only if it is not what was read.
BeginUpdate(k, i, put) ==
    /\ Does("catalog")
    /\ ~items[i].gone
    /\ "name" \in DOMAIN put => Available(items[i].kind, put.name, {i})
    /\ "default" \in DOMAIN put => items[i].kind = "raw" /\ Len(costs) < scene.costs
    /\ LET new == Patched(items[i], put) IN
           Starts(k, [op |-> "update", id |-> i, put |-> put,
                      cost |-> IF new.default = items[i].default THEN 0 ELSE new.default,
                      on |-> {Item(i), Named(new.kind, new.name)}])
    /\ UNCHANGED catalogVars

CommitUpdate(k) ==
    /\ Holds(k, "update")
    /\ LET f == desk[k]
           new == Patched(items[f.id], f.put)
       IN  IF "name" \in DOMAIN f.put /\ ~Writable(new.kind, new.name, {f.id}) THEN UNCHANGED <<items, costs>>
           ELSE /\ items' = [items EXCEPT ![f.id] = new]
                /\ costs' = IF f.cost = 0 THEN costs ELSE Append(costs, Cost(f.id, f.cost, today))
    /\ Ends(k)
    /\ UNCHANGED today

\* A deleted row gives up its name, so that it can be used again.
SoftDelete(i) ==
    /\ Does("catalog")
    /\ items[i].kind \in Deletable /\ ~items[i].gone
    /\ items' = [items EXCEPT ![i].name = Mangled[i], ![i].active = FALSE, ![i].gone = TRUE]
    /\ Touches({Item(i), Named(items[i].kind, items[i].name)})
    /\ UNCHANGED <<costs, today>>
-----------------------------------------------------------------------------
(* Costs. *)

\* addCost: a raw material takes the cost of its latest row, in force or not.
AddCost(i, cost, from) ==
    /\ Does("cost")
    /\ Len(costs) < scene.costs
    /\ items[i].kind \in {"product", "raw"} /\ ~items[i].gone
    /\ costs' = Append(costs, Cost(i, cost, from))
    /\ items' = IF items[i].kind = "raw"
                THEN [items EXCEPT ![i].default = LatestCost(costs', i, Horizon)] ELSE items
    /\ Touches({Item(i)})
    /\ UNCHANGED today

NextDay ==
    /\ Does("cost")
    /\ today < Horizon
    /\ today' = today + 1
    /\ UNCHANGED <<requestVars, items, costs>>

CatalogStep ==
    \/ \E k \in Desks :
           \/ \E kind \in scene.kinds, name \in scene.names, cost \in scene.prices \cup {0} : BeginCreate(k, kind, name, cost)
           \/ \E i \in DOMAIN items, put \in scene.edits : BeginUpdate(k, i, put)
           \/ CommitCreate(k) \/ FirstCost(k) \/ CommitUpdate(k)
    \/ \E name \in scene.names : AreaByName(name)
    \/ \E i \in DOMAIN items :
           SoftDelete(i) \/ \E cost \in scene.prices, from \in 1..Horizon : AddCost(i, cost, from)
    \/ NextDay
=============================================================================
