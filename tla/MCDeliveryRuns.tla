--------------------------- MODULE MCDeliveryRuns ---------------------------
(* One customer, a returnable product p1 and another product p2, and one   *)
(* run.  Each scene opens some of the inputs, for one clerk or for two.    *)
EXTENDS DeliveryRuns, TLC

CONSTANTS c1, c2, r1, p1, p2, alice, b1

ClerksAlike == Permutations(Clerks)

MCPrice == (p1 :> 1) @@ (p2 :> 2)
MCStock == (p1 :> 2) @@ (p2 :> 2)

Of(p, q) == [x \in {p1, p2} |-> IF x = p THEN q ELSE 0]
Zero == [x \in {p1, p2} |-> 0]
Stop(items, empties, cash, day, promised) ==
    [customer |-> alice, items |-> items, empties |-> empties, cash |-> cash,
     day |-> day, promised |-> promised]
Paid(amount, day) == [customer |-> alice, amount |-> amount, day |-> day]
Load(n, m) == (p1 :> n) @@ (p2 :> m)

\* A sale on a promise with an amount, a sale of the other product for some cash, and an
\* empty taken back on a promise of any payment.
Varied == {Stop(Of(p2, 1), Zero, 0, 1, [due |-> 2, amount |-> 2]),
           Stop(Of(p1, 1), Zero, 2, 2, NoPromise),
           Stop(Zero, Of(p1, 1), 0, 1, [due |-> 1, amount |-> 0])}
Promised == {Stop(Of(p1, 2), Zero, 1, 1, [due |-> 1, amount |-> 2])}

MCScenes ==
    LET one == [clerks |-> {c1}, inventory |-> TRUE, loads |-> {Load(1, 1), Load(2, 1), Load(1, 3)},
                filled |-> b1 :> 0, refills |-> {}, fills |-> {}, closings |-> {p1 :> 0}, returns |-> {<<>>, Load(1, 1)},
                stops |-> Varied, payments |-> {}, edits |-> {},
                maxDeliveries |-> 2, maxUpdates |-> 2, maxPayments |-> 3]
        two == [one EXCEPT !.clerks = {c1, c2}, !.loads = {Load(2, 1)}, !.stops = Promised,
                           !.closings = {p1 :> 0, p1 :> 1}, !.payments = {Paid(1, 1)}]
    IN  \* one request at a time: the warehouse cannot give the last load
        {[one EXCEPT !.payments = {Paid(1, 2)}, !.edits = {[amount |-> 3, day |-> 1]}]}
        \cup
        \* edits that name only some products, and a workspace without inventory
        {[one EXCEPT !.loads = {Load(2, 1), p1 :> 1}, !.returns = {<<>>}]}
        \cup
        {[one EXCEPT !.inventory = FALSE, !.loads = {Load(1, 1), Load(2, 1)}]}
        \cup
        \* a batch made, edited and removed while a run takes one or two cans from it
        {[one EXCEPT !.clerks = cs, !.filled = b1 :> 1, !.fills = {1, 2}, !.loads = {Load(1, 1)},
                     !.stops = {Stop(Of(p1, 1), Zero, 0, 1, NoPromise)}, !.maxDeliveries = 1,
                     !.refills = {[batch |-> b1, product |-> p1, qty |-> q] : q \in {1, 2}}] :
             cs \in {{c1}, {c1, c2}}}
        \cup
        \* two requests at once
        {[two EXCEPT !.maxUpdates = 3]}
=============================================================================
