-------------------------- MODULE MCCustomerOrders --------------------------
(* Two orders of litres in cans (p1) and free pieces (p2), with stock for  *)
(* one and a half: two carts of the second kind, or one of each.           *)
EXTENDS CustomerOrders, TLC

CONSTANTS c1, c2, p1, p2

OneClerk == {c1}
TwoClerks == {c1, c2}
TwoOrders == {1, 2}
MCProducts == {p1, p2}
MCTracked == {p1}
MCPrice == (p1 :> 1) @@ (p2 :> 0)
MCStock == (p1 :> 3) @@ (p2 :> 2)

Lot(qty, cans) == [qty |-> qty, cans |-> cans]
MCCarts == {(p1 :> Lot(2, 1)), (p1 :> Lot(1, 1)) @@ (p2 :> Lot(1, 0))}
MCExtras == {-1, 0}

Give(qty, cans, empties) == [qty |-> qty, cans |-> cans, empties |-> empties]
MCHandoffs == {p1 :> Give(1, 2, 1), p2 :> Give(1, 0, 0)}
MCAmounts == {1}
MCDeposits == {2}

(* The number of the second order begins with that of the first.           *)
LongNumbers == {1, 10}
ClerkSymmetry == Permutations(TwoClerks)
=============================================================================
