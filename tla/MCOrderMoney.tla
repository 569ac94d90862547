----------------------------- MODULE MCOrderMoney -----------------------------
(* One customer; every order has one line, each unit of it worth a cent.   *)
EXTENDS OrderMoney, TLC

CONSTANTS o1, l1, c1, i1, i2, r1, r2

MCCustomerOf == [o \in Orders |-> c1]
MCOrderOf    == [l \in Lines |-> o1]
MCTotal      == [o \in Orders |-> 2]
MCDelivered  == [l \in Lines |-> 2]
MCPrice      == [l \in Lines |-> 1]
===============================================================================
