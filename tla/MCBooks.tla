------------------------------- MODULE MCBooks -------------------------------
(* Small instance of Books: each scene opens some of the operations, over a *)
(* few days around the end of a month.                                       *)
EXTENDS Books

CONSTANTS ann, bob, v1, v2, d1, d2

MCMonthLengths == <<3, 4, 2, 3>>
MCAgeLimits == <<1, 2, 3>>
van == [rider |-> "r1", vehicle |-> "van", date |-> 6]
truck == [rider |-> "r2", vehicle |-> "truck", date |-> 8]
MCTrips == {van, truck}
MCPeriods == {[from |-> 4, to |-> 7], [from |-> 6, to |-> 8]}

Weekly(n, anchor) == [kind |-> "WEEKS", weeks |-> n, day |-> anchor]
Monthly(day) == [kind |-> "MONTHLY", weeks |-> 0, day |-> day]
OnDelivery == [kind |-> "CASH_ON_DELIVERY", weeks |-> 0, day |-> NoDay]

MCScenes ==
    LET lot(p, n, cash) == [product |-> p, units |-> n, cash |-> cash]
        base == [does |-> {}, who |-> {ann}, cycle |-> (ann :> OnDelivery @@ bob :> OnDelivery), zone |-> 0,
                 first |-> 8, last |-> 18, step |-> 2, rows |-> 0, sales |-> 0, invoices |-> 0,
                 lots |-> {}, fees |-> {0}, amounts |-> {}, dates |-> {}, trips |-> MCTrips, products |-> {"water"}]
        cycles == {Weekly(n, anchor) : n \in 1..2, anchor \in 0..9} \cup {Monthly(day) : day \in 0..5}
        billed(c) == ann :> c @@ bob :> Weekly(1, 4)
    IN  \* the calendar alone, for every cycle
        {[base EXCEPT !.cycle = billed(c), !.zone = z, !.step = 1] : c \in cycles, z \in {-1, 1}}
        \cup
        \* a customer owes, pays, pays in advance and is corrected
        {[base EXCEPT !.does = {"opening", "deliver", "pay"}, !.cycle = billed(c), !.rows = 3, !.sales = 2,
                      !.lots = {lot("water", 1, 0), lot("water", 2, 1)}, !.amounts = {1, 4},
                      !.dates = {4, 7}, !.trips = {van}, !.last = 14] :
             c \in {OnDelivery, Weekly(1, 4), Monthly(3)}}
        \cup
        {[base EXCEPT !.does = {"deliver", "pay", "edit payment"}, !.cycle = billed(Weekly(1, 4)),
                      !.rows = 2, !.sales = 1, !.lots = {lot("water", 1, 0)}, !.amounts = {1, 2},
                      !.dates = {4, 7}, !.trips = {van}, !.last = 14]}
        \cup
        \* sales on both sides of a month's end, in two time zones
        {[base EXCEPT !.does = {"deliver", "cancel delivery"}, !.zone = z, !.first = 15, !.last = 17,
                      !.rows = 6, !.sales = 2, !.lots = {lot("water", 1, 0), lot("oil", 2, 1)},
                      !.dates = {6, 8}, !.products = {"water", "oil"}] : z \in {-1, 1}}
        \cup
        {[base EXCEPT !.does = {"order", "pay order", "cancel order"}, !.zone = z, !.step = 1,
                      !.first = 14, !.last = 17, !.rows = 4, !.sales = 2, !.fees = {0, 1},
                      !.lots = {lot("water", 1, 0), lot("oil", 2, 1)}, !.products = {"water", "oil"}] :
             z \in {-1, 1}}
        \cup
        {[base EXCEPT !.does = {"deliver", "order", "spend", "pay", "remove payment"}, !.who = {ann, bob},
                      !.first = 14, !.last = 16, !.rows = 3, !.sales = 1, !.lots = {lot("water", 1, 1)},
                      !.amounts = {1}, !.dates = {6, 8}, !.trips = {van}]}
        \cup
        \* invoices while the books go on
        {[base EXCEPT !.does = {"deliver", "cancel delivery", "order", "opening", "invoice"}, !.zone = 1,
                      !.first = 13, !.last = 17, !.rows = 2, !.sales = 1, !.invoices = 1,
                      !.lots = {lot("water", 1, 1)}, !.amounts = {1}, !.dates = {6, 8}, !.trips = {van}]}
        \cup
        \* two requests on the invoices of one customer, and of two
        {[base EXCEPT !.does = {"invoice"}, !.invoices = 3, !.first = 16, !.last = 16]}
        \cup
        {[base EXCEPT !.does = {"invoice"}, !.invoices = 2, !.who = {ann, bob}, !.first = 16, !.last = 16]}
        \cup
        \* bills of two vendors
        {[base EXCEPT !.does = {"vendor", "bill"}, !.sales = 2, !.amounts = {1, 2}, !.dates = {5, 6},
                      !.first = 8, !.last = 10]}
=============================================================================
