----------------------------- MODULE MCTransfers -----------------------------
(* Small instances of Transfers: up to three transfers, one or two items.     *)
EXTENDS Transfers, TLC

CONSTANTS x1, x2, x3, i1, i2, m1, m2, r1, r2

\* Two units of the first item and one of the second.
MCStock == [i \in Items |-> IF i = i1 THEN 2 ELSE 1]

\* Transfers of one type are interchangeable.
Swap == {f \in Permutations(Transfers) : \A x \in Transfers : f[x] \in AsIs <=> x \in AsIs}
=============================================================================
