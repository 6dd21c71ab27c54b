----------------------------- MODULE MCBackOffice -----------------------------
(* Small instance of BackOffice: each scene opens some of the operations.    *)
EXTENDS BackOffice, TLC

CONSTANTS ann, bob, r1, r2, d1, d2

DesksAlike == Permutations(Desks)

MCMangled == <<"deleted 1", "deleted 2", "deleted 3">>

main == [name |-> "Main", active |-> TRUE, default |-> TRUE]
shed == [name |-> "Shed", active |-> TRUE, default |-> FALSE]
opened(l, item, qty) == [place |-> l, item |-> item, qty |-> qty, type |-> "OPENING", job |-> NoJob]
stop(out, back, sale, cash, day) == [out |-> out, back |-> back, sale |-> sale, cash |-> cash, day |-> day]
one == [r \in Raws |-> IF r = "sugar" THEN 1 ELSE 0]
both == [r \in Raws |-> 1]

bill == [product |-> "juice", version |-> 1, active |-> TRUE, per |-> both]
other == [product |-> "syrup", version |-> 1, active |-> TRUE, per |-> one]
opening(n) == [opening |-> n]
named(n) == [name |-> n]
active(a) == [active |-> a]
status(s) == [status |-> s]

MCScenes ==
    LET base == [does |-> {}, places |-> <<>>, goods |-> {}, opening |-> <<>>, moves |-> 0, qtys |-> {},
                 recipes |-> {}, bills |-> <<>>, boms |-> 0, makes |-> {}, jobs |-> 0,
                 who |-> {}, active |-> {}, amounts |-> {}, loads |-> {}, puts |-> {}, deltas |-> {}, stops |-> {}, days |-> {1},
                 rows |-> 0, trips |-> 0, drops |-> 0, edits |-> {}, kinds |-> {}, names |-> {"x", "y"}, prices |-> {}, costs |-> 0]
        factory == [base EXCEPT !.places = <<main>>, !.goods = {"juice"}, !.bills = <<bill>>, !.boms = 2,
                                !.opening = <<opened(1, "sugar", 2), opened(1, "salt", 1)>>, !.moves = 8]
    IN  \* locations, and stock at locations that come and go
        {[base EXCEPT !.does = {"location"}, !.edits = {named("Main"), named("Shed"), active(TRUE), active(FALSE)}]}
        \cup
        {[base EXCEPT !.does = {"location", "stock"}, !.moves = 3, !.qtys = {-1, 2}, !.goods = {"juice"},
                      !.edits = {active(FALSE)}]}
        \cup
        \* bills of material
        {[base EXCEPT !.does = {"bom"}, !.boms = 3, !.recipes = {one}, !.goods = {"juice"}]}
        \cup
        \* production orders, and bills that change under them
        {[factory EXCEPT !.does = {"job"}, !.bills = <<bill, other>>, !.places = <<main, shed>>,
                         !.makes = {1, 2}, !.jobs = 1]}
        \cup
        {[factory EXCEPT !.does = {"job"}, !.makes = {1}, !.jobs = 2]}
        \cup
        {[factory EXCEPT !.does = {"job"}, !.places = <<>>, !.opening = <<>>, !.makes = {1}, !.jobs = 1]}
        \cup
        {[factory EXCEPT !.does = {"bom", "job"}, !.recipes = {one}, !.makes = {1}, !.jobs = 1]}
        \cup
        {[base EXCEPT !.does = {"customer"}, !.who = {ann}, !.amounts = {0, 2}, !.loads = {0, 1}, !.rows = 3,
                      !.puts = {opening(0), opening(1), status("INACTIVE"), status("ACTIVE"),
                                opening(0) @@ status("INACTIVE")}]}
        \cup
        {[base EXCEPT !.does = {"trip", "cancel"}, !.who = {ann}, !.active = {ann},
                      !.loads = {0, 1, 2}, !.trips = n, !.drops = 3 - n,
                      !.stops = {stop(1, 0, 1, 0, 1), stop(0, 1, 0, 0, 1)}] : n \in 1..2}
        \cup
        \* a customer is taken off while deliveries reach him
        {[base EXCEPT !.does = {"customer", "trip"}, !.who = {ann}, !.active = {ann}, !.loads = {0, 1},
                      !.rows = 4, !.puts = {status("INACTIVE")}, !.trips = 1, !.drops = 2,
                      !.stops = {stop(1, 0, 1, 1, 1), stop(0, 1, 1, 0, 1)}]}
        \cup
        {[base EXCEPT !.does = {"cans"}, !.who = {ann}, !.active = {ann},
                      !.loads = {0, 1}, !.deltas = {-1}, !.rows = 4,
                      !.stops = {stop(1, 0, 1, 0, 1), stop(0, 1, 0, 0, 1)}]}
        \cup
        {[base EXCEPT !.does = {"trip", "handover"}, !.who = {ann}, !.active = {ann}, !.amounts = {1, 2},
                      !.loads = {0}, !.rows = 2, !.trips = 1, !.drops = 1, !.stops = {stop(0, 0, 2, 2, 1)},
                      !.edits = {[rider |-> r2], [amount |-> 2]}]}
        \cup
        {[base EXCEPT !.does = {"trip", "handover", "expense", "cancel"}, !.who = {ann}, !.active = {ann},
                      !.amounts = {1}, !.loads = {0}, !.rows = 1, !.trips = 1, !.drops = 2, !.days = {2},
                      !.stops = {stop(0, 0, 1, 1, 1)}, !.edits = {}]}
        \cup
        {[base EXCEPT !.does = {"expense"}, !.rows = 1, !.amounts = {1},
                      !.edits = {[byRider |-> TRUE], [byRider |-> FALSE], [staff |-> Nobody], [staff |-> r1]}]}
        \cup
        {[base EXCEPT !.does = {"visit", "removal"}, !.who = {ann}, !.active = {ann},
                      !.amounts = {0, 1}, !.rows = 2]}
        \cup
        {[base EXCEPT !.does = {"catalog"}, !.rows = 2, !.kinds = kinds,
                      !.edits = {named("x"), named("y"), active(FALSE)}] :
             kinds \in {{"area"}, {"vehicle"}, {"packaging"}, {"product"}}}
        \cup
        {[base EXCEPT !.does = {"catalog", "cost"}, !.rows = 1, !.kinds = {kind}, !.names = {"x"},
                      !.prices = {1, 2}, !.costs = 2, !.edits = {[default |-> c] : c \in 0..2}] :
             kind \in {"raw", "product"}}
=============================================================================
