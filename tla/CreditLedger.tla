----------------------------- MODULE CreditLedger -----------------------------
(***************************************************************************)
(* What the store-credit ledger promises: each customer has a balance,     *)
(* credit is issued at any time, and a debit is taken in one step from a   *)
(* balance that covers it (store-credit.service.ts).                       *)
(***************************************************************************)
EXTENDS Integers

CONSTANTS Customers

VARIABLE credit

Init == credit = [c \in Customers |-> 0]

Issue(c) ==
    /\ credit' \in [Customers -> Int]
    /\ credit'[c] > credit[c]
    /\ \A d \in Customers \ {c} : credit'[d] = credit[d]

Debit(c) ==
    /\ credit' \in [Customers -> Int]
    /\ credit'[c] < credit[c] /\ credit'[c] >= 0
    /\ \A d \in Customers \ {c} : credit'[d] = credit[d]

Next == \E c \in Customers : Issue(c) \/ Debit(c)

Spec == Init /\ [][Next]_credit

=============================================================================
