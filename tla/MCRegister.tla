------------------------------ MODULE MCRegister ------------------------------
(* Small instances of Register: one card, up to two sales and two registers.  *)
EXTENDS Register, TLC

CONSTANTS g1, s1, s2, r1, r2

Swap == Permutations(Registers) \cup Permutations(Sales)
=============================================================================
