----------------------------- MODULE MCChatOutbox -----------------------------
(* Small instances of ChatOutbox: up to three events and two workers.         *)
EXTENDS ChatOutbox, TLC

CONSTANTS e1, e2, e3, w1, w2

\* Workers are interchangeable.
Swap == Permutations(Workers)
=============================================================================
