--------------------------- MODULE MCStockPosting ---------------------------
(* One product at two locations; the second one has no balance row yet.    *)
(* The run d1 has taken one unit out of the first location.                *)
EXTENDS StockPosting, TLC

CONSTANTS t1, t2, t3, c1, c2, d1, d2

MCTxs == {t1, t2, t3}
MCCells == {c1, c2}
MCDocs == {d1, d2}

MCStock == (c1 :> 2) @@ (c2 :> 0)
MCOuts == {[doc |-> d1, cell |-> c1, qty |-> 1, by |-> Before]}

P == INSTANCE StockPlans

(* Two edits and a cancellation of one document race with a sale, with an  *)
(* adjustment that empties the cell, with transfers in both directions     *)
(* (opposite lock orders) and with the first posting at c2, whose balance  *)
(* row two requests can insert at once.                                    *)
MCPlans == P!Reload(d1, {c1}, {2}) \cup P!CancelOut(d1) \cup P!TakeOut(d2, {c1}, {2})
           \cup P!Opening({c2}, {1}) \cup P!Adjustment({c1}, {-2})
           \cup P!Transfer(MCCells, {1})
=============================================================================
