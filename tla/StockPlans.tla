----------------------------- MODULE StockPlans -----------------------------
(***************************************************************************)
(* What the handlers that move warehouse stock post: the lines they hand   *)
(* to StockPosting, after the checks they make before their transaction.   *)
(* qty is signed, + into and - out of the location.                        *)
(***************************************************************************)
EXTENDS Integers, Sequences

CONSTANTS NoDoc

Move(c, q, d) == [cell |-> c, qty |-> q, doc |-> d]

Plain(ls) == [undo |-> NoDoc, lines |-> ls]

(* postOpening: only positive quantities. *)
Opening(cells, qtys) == {Plain(<<Move(c, q, NoDoc)>>) : c \in cells, q \in {x \in qtys : x > 0}}

(* postAdjustment: any quantity but 0. *)
Adjustment(cells, qtys) == {Plain(<<Move(c, q, NoDoc)>>) : c \in cells, q \in qtys \ {0}}

(* postTransfer: OUT of one location, then IN to another one. *)
Transfer(cells, qtys) ==
    {Plain(<<Move(p[1], -q, NoDoc), Move(p[2], q, NoDoc)>>) :
        p \in {x \in cells \X cells : x[1] # x[2]}, q \in {x \in qtys : x > 0}}

(* postTruckLoadWarehouseOut, postOrderSaleOut: one OUT row per product. *)
TakeOut(doc, cells, qtys) ==
    {Plain(<<Move(c, -q, doc)>>) : c \in cells, q \in {x \in qtys : x > 0}}

(* The update of a run: its load is given back, then posted anew. *)
Reload(doc, cells, qtys) ==
    {[undo |-> doc, lines |-> p.lines] : p \in TakeOut(doc, cells, qtys)}

(* reverseOrderSaleOut: a cancelled order gives everything back. *)
CancelOut(doc) == {[undo |-> doc, lines |-> <<>>]}
=============================================================================
