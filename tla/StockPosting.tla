---------------------------- MODULE StockPosting ----------------------------
(***************************************************************************)
(* The warehouse stock of one tenant as the code posts it: a transaction   *)
(* walks its lines, and for each one locks the balance row with SELECT ... *)
(* FOR UPDATE (stock-lock.helper.ts; a missing row is first inserted with  *)
(* quantity 0), checks the new quantity, writes it as an absolute value    *)
(* and inserts the movement (stock-apply.helper.ts).  Editing a truck load *)
(* or cancelling an order first gives the document's OUT rows back.        *)
(*                                                                         *)
(* MySQL is modelled by what the code relies on: row locks are held until  *)
(* commit or rollback, a locking read returns the committed value or the   *)
(* transaction's own, a plain SELECT returns the snapshot, and the victim  *)
(* of a deadlock is rolled back.  The gap locks of a locking read that     *)
(* finds no row are left out, so more interleavings are allowed here than  *)
(* REPEATABLE READ has.                                                    *)
(***************************************************************************)
EXTENDS Integers, Sequences

CONSTANTS Txs, Cells, Docs, NoDoc, Before, Plans, InitialStock, InitialOuts,
          Free,       \* nobody holds the row lock
          Unwritten   \* the transaction has not written this balance

(* A line that belongs to a document takes stock out. *)
Line == {l \in [cell : Cells, qty : Int, doc : Docs \cup {NoDoc}] :
             l.doc # NoDoc => l.qty < 0}
OutRow == [doc : Docs, cell : Cells, qty : Nat \ {0}, by : Txs \cup {Before}]

PostingAssumption ==
    /\ Plans \subseteq [undo : Docs \cup {NoDoc}, lines : Seq(Line)]
    /\ InitialStock \in [Cells -> Nat]
    /\ InitialOuts \subseteq {m \in OutRow : m.by = Before}
    /\ Cells # {}
    /\ Free \notin Txs /\ Unwritten \notin Int /\ Before \notin Txs /\ NoDoc \notin Docs

ASSUME PostingAssumption

VARIABLES
    balance,  \* stock_balances: the committed quantity, 0 where there is no row
    rows,     \* the cells whose balance row exists and is committed
    ledger,   \* stock_movements: the sum of the committed signed quantities
    outs,     \* stock_movements: the committed OUT rows of the documents
    holder,   \* who holds the lock of each balance row
    pc,       \* where each transaction stands
    at,       \* the cell of the line it is working on
    undo,     \* the OUT rows it has read and still has to give back
    lines,    \* the lines it still has to post
    seen,     \* the quantity its last locking read returned
    draft,    \* the balances it has written, not yet committed
    delta,    \* the sum of its own movements per cell, not yet committed
    made,     \* the balance rows it has inserted
    removed,  \* the OUT rows it has deleted
    entered   \* the OUT rows it has inserted

db == <<balance, rows, ledger, outs>>
local == <<undo, lines, draft, delta, made, removed, entered>>
postingVars == <<db, holder, pc, at, seen, local>>

PostingInit ==
    /\ balance = InitialStock
    /\ rows = {c \in Cells : InitialStock[c] > 0}
    /\ ledger = InitialStock
    /\ outs = InitialOuts
    /\ holder = [c \in Cells |-> Free]
    /\ pc = [t \in Txs |-> "idle"]
    /\ at = [t \in Txs |-> CHOOSE c \in Cells : TRUE]
    /\ undo = [t \in Txs |-> {}]
    /\ lines = [t \in Txs |-> <<>>]
    /\ seen = [t \in Txs |-> 0]
    /\ draft = [t \in Txs |-> [c \in Cells |-> Unwritten]]
    /\ delta = [t \in Txs |-> [c \in Cells |-> 0]]
    /\ made = [t \in Txs |-> {}]
    /\ removed = [t \in Txs |-> {}]
    /\ entered = [t \in Txs |-> {}]

Proceed(t, l) == pc' = [pc EXCEPT ![t] = l] /\ UNCHANGED at

GotoAt(t, l, c) == pc' = [pc EXCEPT ![t] = l] /\ at' = [at EXCEPT ![t] = c]

At(t, l, c) == pc[t] = l /\ at[t] = c

(* The quantity a locking read by t returns. *)
Current(t, c) == IF draft[t][c] = Unwritten THEN balance[c] ELSE draft[t][c]

(* t turns to a line at cell c: first any OUT row it has to give back (the *)
(* query has no ORDER BY), then its lines in order.                        *)
Wants(t, c) ==
    /\ pc[t] = "item"
    /\ \/ \E m \in undo[t] : m.cell = c
       \/ undo[t] = {} /\ lines[t] # <<>> /\ Head(lines[t]).cell = c

TakeLock(t, c) == /\ holder[c] \in {Free, t}
                  /\ holder' = [holder EXCEPT ![c] = t]

(* The transaction starts; its snapshot decides which OUT rows it undoes.  *)
Begin(t) ==
    /\ pc[t] = "idle"
    /\ \E p \in Plans :
           /\ undo' = [undo EXCEPT ![t] = {m \in outs : m.doc = p.undo}]
           /\ lines' = [lines EXCEPT ![t] = p.lines]
    /\ Proceed(t, "item")
    /\ UNCHANGED <<db, holder, seen, draft, delta, made, removed, entered>>

(* Mutant: the balance is read without FOR UPDATE. *)
LockRowPlain(t, c) ==
    /\ Wants(t, c) \/ At(t, "relock", c)
    /\ c \in rows \cup made[t]
    /\ seen' = [seen EXCEPT ![t] = Current(t, c)]
    /\ GotoAt(t, "apply", c)
    /\ UNCHANGED <<db, holder, local>>

(* SELECT ... FOR UPDATE finds the row and locks it. *)
LockRow(t, c) ==
    /\ Wants(t, c) \/ At(t, "relock", c)
    /\ c \in rows \cup made[t]
    /\ TakeLock(t, c)
    /\ seen' = [seen EXCEPT ![t] = Current(t, c)]
    /\ GotoAt(t, "apply", c)
    /\ UNCHANGED <<db, local>>

(* SELECT ... FOR UPDATE finds no row. *)
LockMisses(t, c) ==
    /\ Wants(t, c)
    /\ c \notin rows \cup made[t]
    /\ holder[c] = Free
    /\ GotoAt(t, "create", c)
    /\ UNCHANGED <<db, holder, seen, local>>

(* Mutant: a duplicate key makes the insert try again. *)
CreateRowRetries(t, c) ==
    /\ At(t, "create", c)
    /\ c \notin rows
    /\ TakeLock(t, c)
    /\ made' = [made EXCEPT ![t] = @ \cup {c}]
    /\ GotoAt(t, "relock", c)
    /\ UNCHANGED <<db, seen, undo, lines, draft, delta, removed, entered>>

(* INSERT with quantity 0: it waits for another inserter to finish, and a  *)
(* duplicate key (P2002) is ignored.                                       *)
CreateRow(t, c) ==
    /\ At(t, "create", c)
    /\ \/ /\ c \notin rows
          /\ TakeLock(t, c)
          /\ made' = [made EXCEPT ![t] = @ \cup {c}]
       \/ /\ c \in rows
          /\ UNCHANGED <<made, holder>>
    /\ GotoAt(t, "relock", c)
    /\ UNCHANGED <<db, seen, undo, lines, draft, delta, removed, entered>>

(* Nothing of a transaction that fails remains. *)
Rollback(t) ==
    /\ Proceed(t, "failed")
    /\ holder' = [c \in Cells |-> IF holder[c] = t THEN Free ELSE holder[c]]
    /\ draft' = [draft EXCEPT ![t] = [c \in Cells |-> Unwritten]]
    /\ delta' = [delta EXCEPT ![t] = [c \in Cells |-> 0]]
    /\ made' = [made EXCEPT ![t] = {}]
    /\ undo' = [undo EXCEPT ![t] = {}]
    /\ lines' = [lines EXCEPT ![t] = <<>>]
    /\ removed' = [removed EXCEPT ![t] = {}]
    /\ entered' = [entered EXCEPT ![t] = {}]
    /\ UNCHANGED <<db, seen>>

(* Write balance and movement of a change of q at cell c. *)
Write(t, c, q) ==
    /\ draft' = [draft EXCEPT ![t][c] = seen[t] + q]
    /\ delta' = [delta EXCEPT ![t][c] = @ + q]

(* applyProductStockMovement: refuse a negative result, else write the new *)
(* quantity and insert the movement.                                       *)
ApplyLine(t, c) ==
    /\ At(t, "apply", c)
    /\ undo[t] = {}
    /\ LET l == Head(lines[t]) IN
           \/ /\ seen[t] + l.qty < 0
              /\ Rollback(t)
           \/ /\ seen[t] + l.qty >= 0
              /\ Write(t, c, l.qty)
              /\ lines' = [lines EXCEPT ![t] = Tail(@)]
              /\ entered' = IF l.doc = NoDoc THEN entered
                            ELSE [entered EXCEPT ![t] = @ \cup
                                  {[doc |-> l.doc, cell |-> c, qty |-> -l.qty, by |-> t]}]
              /\ Proceed(t, "item")
              /\ UNCHANGED <<db, holder, seen, undo, made, removed>>

(* reverseTruckLoadWarehouseOut, reverseOrderSaleOut: give an OUT row back *)
(* and delete it; the delete throws (P2025) if the row is already gone.    *)
GiveBack(t, c) ==
    /\ At(t, "apply", c)
    /\ \E m \in undo[t] :
           /\ m.cell = c
           /\ \/ /\ m \notin outs
                 /\ Rollback(t)
              \/ /\ m \in outs
                 /\ Write(t, c, m.qty)
                 /\ undo' = [undo EXCEPT ![t] = @ \ {m}]
                 /\ removed' = [removed EXCEPT ![t] = @ \cup {m}]
                 /\ Proceed(t, "item")
                 /\ UNCHANGED <<db, holder, seen, lines, made, entered>>

(* Mutant: every line is committed on its own, outside a transaction: a    *)
(* failure after the first line leaves half of the posting behind.         *)
CommitAnyTime(t) ==
    /\ pc[t] = "item"
    /\ undo[t] = {}
    /\ balance' = [c \in Cells |-> Current(t, c)]
    /\ rows' = rows \cup made[t]
    /\ ledger' = [c \in Cells |-> ledger[c] + delta[t][c]]
    /\ outs' = (outs \ removed[t]) \cup entered[t]
    /\ Proceed(t, "committed")
    /\ holder' = [c \in Cells |-> IF holder[c] = t THEN Free ELSE holder[c]]
    /\ UNCHANGED <<seen, local>>

(* The interactive transaction commits when its callback returns.          *)
Commit(t) ==
    /\ pc[t] = "item"
    /\ undo[t] = {} /\ lines[t] = <<>>
    /\ balance' = [c \in Cells |-> Current(t, c)]
    /\ rows' = rows \cup made[t]
    /\ ledger' = [c \in Cells |-> ledger[c] + delta[t][c]]
    /\ outs' = (outs \ removed[t]) \cup entered[t]
    /\ Proceed(t, "committed")
    /\ holder' = [c \in Cells |-> IF holder[c] = t THEN Free ELSE holder[c]]
    /\ UNCHANGED <<seen, local>>

Running(t) == pc[t] \notin {"idle", "committed", "failed"}

(* A row somebody else holds: t waits, and MySQL may choose it as the      *)
(* victim of a deadlock or let its wait time out.                          *)
LockFails(t, c) ==
    /\ Wants(t, c) \/ At(t, "create", c) \/ At(t, "relock", c)
    /\ holder[c] \notin {Free, t}
    /\ Rollback(t)

(* The process dies or the transaction's time limit passes. *)
Break(t) == Running(t) /\ Rollback(t)

PostingStep(t) ==
    \/ Begin(t) \/ Commit(t)
    \/ \E c \in Cells : \/ LockRow(t, c) \/ LockMisses(t, c) \/ CreateRow(t, c)
                        \/ ApplyLine(t, c) \/ GiveBack(t, c) \/ LockFails(t, c)

PostingNext == \E t \in Txs : PostingStep(t) \/ Break(t)

PostingSpec == PostingInit /\ [][PostingNext]_postingVars

(* Every query of a running transaction is answered in the end, be it by   *)
(* the error that its lock wait has failed.                                *)
FairSpec == PostingSpec /\ \A t \in Txs : WF_postingVars(PostingStep(t))
-----------------------------------------------------------------------------
PostingTypeOK ==
    /\ balance \in [Cells -> Int]
    /\ rows \subseteq Cells
    /\ ledger \in [Cells -> Int]
    /\ outs \subseteq OutRow
    /\ holder \in [Cells -> Txs \cup {Free}]
    /\ pc \in [Txs -> {"idle", "item", "create", "relock", "apply", "committed", "failed"}]
    /\ at \in [Txs -> Cells]
    /\ undo \in [Txs -> SUBSET OutRow]
    /\ lines \in [Txs -> Seq(Line)]
    /\ seen \in [Txs -> Int]
    /\ draft \in [Txs -> [Cells -> Int \cup {Unwritten}]]
    /\ delta \in [Txs -> [Cells -> Int]]
    /\ made \in [Txs -> SUBSET Cells]
    /\ removed \in [Txs -> SUBSET OutRow]
    /\ entered \in [Txs -> SUBSET OutRow]

(* "Never free-edit; post StockMovement" (schema.prisma): every committed  *)
(* balance is the sum of the committed movements, although it is written   *)
(* as an absolute value computed from an earlier read.                     *)
BalanceIsLedger == balance = ledger

(* No interleaving of loads, sales, adjustments and transfers takes a      *)
(* committed balance below zero.                                           *)
NeverNegative == \A c \in Cells : balance[c] >= 0

(* An OUT row is given back at most once, although two cancellations of    *)
(* one document can both read it in their snapshots.                       *)
GivenBackOnce == \A t, u \in Txs :
    (t # u /\ pc[t] = "committed" /\ pc[u] = "committed") =>
        removed[t] \cap removed[u] = {}

(* The stock tables are sound whatever the postings' queries interleave    *)
(* to: no lost update, no overdraft, no row given back twice.              *)
PostingsSound == PostingTypeOK /\ BalanceIsLedger /\ NeverNegative /\ GivenBackOnce

(* Every posting commits or fails: no set of postings waits for ever.      *)
EveryPostingEnds == \A t \in Txs : <>(pc[t] \in {"committed", "failed"})

Ledger == INSTANCE StockLedger
            WITH posted <- {t \in Txs : pc[t] = "committed"}

(* Row by row, under any interleaving, a posting takes effect as a whole.  *)
ImplementsLedger == Ledger!Spec
=============================================================================
