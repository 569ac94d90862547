------------------------- MODULE MCPurchaseOrders -------------------------
(* Small instances of PurchaseOrders: two purchase orders of a line each, or    *)
(* one of two lines; one or two order lines and a transfer.                     *)
EXTENDS PurchaseOrders, TLC

CONSTANTS p1, p2, l1, l2, o1, o2, d1, t1

OneEach  == [l \in Lines |-> IF l = l1 THEN p1 ELSE p2]
TwoOfOne == [l \in Lines |-> p1]
Needs == [t \in Targets |-> IF t \in {o1, t1} THEN 2 ELSE 1]
=============================================================================
