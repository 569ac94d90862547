----------------------------- MODULE AtLeastOnce -----------------------------
(***************************************************************************)
(* What an outbox promises (chat-worker.ts): an event that was written is  *)
(* handed to the receiver, perhaps more than once, before anybody calls it *)
(* sent, and it is either sent or given up, never both.                    *)
(***************************************************************************)
CONSTANTS Events

VARIABLES
    stage,   \* where an event is
    reached  \* the events that the receiver has seen

vars == <<stage, reached>>

Init ==
    /\ stage = [e \in Events |-> "none"]
    /\ reached = {}

Moves(e, from, to) ==
    /\ stage[e] = from
    /\ stage' = [stage EXCEPT ![e] = to]
    /\ UNCHANGED reached

Write(e) == Moves(e, "none", "waiting")

Hand(e) ==
    /\ stage[e] # "none"
    /\ reached' = reached \cup {e}
    /\ UNCHANGED stage

Settle(e) == e \in reached /\ Moves(e, "waiting", "sent")

GiveUp(e) == Moves(e, "waiting", "failed")

\* A manager may have what failed tried again.
Revive ==
    /\ stage' = [e \in Events |-> IF stage[e] = "failed" THEN "waiting" ELSE stage[e]]
    /\ UNCHANGED reached

Next ==
    \/ \E e \in Events : Write(e) \/ Hand(e) \/ Settle(e) \/ GiveUp(e)
    \/ Revive

Spec == Init /\ [][Next]_vars

=============================================================================
