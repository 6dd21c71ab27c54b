----------------------------- MODULE StockLedger -----------------------------
(***************************************************************************)
(* What the warehouse promises its callers: a posting (opening stock, an   *)
(* adjustment, a transfer, a truck load, a reversal) changes the balances  *)
(* of all its lines at once or not at all, and no balance is ever          *)
(* negative.  StockPosting, the row-by-row transactions of the code,       *)
(* implements it.                                                          *)
(***************************************************************************)
EXTENDS Integers, Sequences, Functions

CONSTANTS Txs,           \* the requests that post stock
          Cells,         \* (location, product) pairs, one stock_balances row each
          Docs,          \* the delivery runs and orders that take stock out
          NoDoc,         \* a posting that belongs to no document
          Before,        \* "inserted before the model starts"
          Plans,         \* what a request may post
          InitialStock,  \* the balance of every cell at the start
          InitialOuts    \* the OUT rows of the documents at the start

VARIABLES balance,  \* the committed quantity of every cell
          outs,     \* the committed, reversible OUT rows
          posted    \* the requests that have committed

ledgerVars == <<balance, outs, posted>>

(* The net effect on cell c of a sequence of signed lines, and of giving   *)
(* back a set of OUT rows.                                                 *)
LineEffect(lines, c) ==
    SumFunction([i \in DOMAIN lines |-> IF lines[i].cell = c THEN lines[i].qty ELSE 0])

GivenBack(rows, c) == SumFunction([m \in {x \in rows : x.cell = c} |-> m.qty])

(* The OUT rows that request t leaves behind. *)
OutRows(t, lines) ==
    {[doc |-> l.doc, cell |-> l.cell, qty |-> -l.qty, by |-> t] :
        l \in {x \in Range(lines) : x.doc # NoDoc}}

Init == /\ balance = InitialStock
        /\ outs = InitialOuts
        /\ posted = {}

Post(t) ==
    /\ t \notin posted
    /\ posted' = posted \cup {t}
    /\ \E p \in Plans, undone \in SUBSET outs :
           /\ \A m \in undone : m.doc = p.undo
           /\ balance' = [c \in Cells |-> balance[c] + LineEffect(p.lines, c)
                                                     + GivenBack(undone, c)]
           /\ outs' = (outs \ undone) \cup OutRows(t, p.lines)
    /\ \A c \in Cells : balance'[c] >= 0

Next == \E t \in Txs : Post(t)

Spec == Init /\ [][Next]_ledgerVars
=============================================================================
