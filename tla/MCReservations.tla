--------------------------- MODULE MCReservations ---------------------------
(* Small instances of Reservations: up to two orders, lines and bins.      *)
EXTENDS Reservations, TLC

CONSTANTS o1, o2, b1, b2, l1, l2, l3, r1, r2

\* l1 and l2 are lines of different orders in one bin, or of the only order;
\* l3 is a second line of l2's order, in another bin.
MCOrderOf == [l \in Lines |-> IF l = l1 \/ o2 \notin Orders THEN o1 ELSE o2]
MCBinOf == [l \in Lines |-> IF l = l3 THEN b2 ELSE b1]
MCQuantity == [l \in Lines |-> IF l = l1 THEN 2 ELSE 1]
MCFloorSample == [b \in Bins |-> IF b = b1 THEN 1 ELSE 0]
=============================================================================
