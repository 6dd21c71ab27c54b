---------------------------- MODULE MCPurchasing ----------------------------
(* One clerk makes every request; another one edits the order and receives *)
(* goods at the same time.                                                 *)
EXTENDS Purchasing

CONSTANTS c1, c2

MCClerks == {c1, c2}
MCDoes == [c \in MCClerks |-> IF c = c1
                              THEN {"order", "edit", "receive", "bill", "pay", "void"}
                              ELSE {"edit", "receive"}]
MCLines == {1, 2}
MCUnitCost == [l \in MCLines |-> 2 * (l - 1)]
=============================================================================
