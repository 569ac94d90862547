---------------------------- MODULE MCIdempotency ----------------------------
(* Four attempts under one key, one of them with another body.             *)
EXTENDS Idempotency, TLC

CONSTANTS a1, a2, a3, a4, a5, x, y

MCBodyOf == [a \in Attempts |-> IF a \in {a4, a5} THEN y ELSE x]
=============================================================================
