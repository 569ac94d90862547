------------------------------ MODULE ChatOutbox ------------------------------
(***************************************************************************)
(* The outboxes of the chat: chat_outbox, whose events go to the realtime  *)
(* provider (chat-worker.ts), and chat_push_deliveries, whose jobs go to   *)
(* one push subscription (chat-push-worker.ts).                            *)
(*                                                                         *)
(* A worker claims a due row and commits the claim, calls the provider     *)
(* without a transaction, and settles the row in another transaction.      *)
(* A lease of 30 seconds makes the row of a worker that died claimable     *)
(* again.  Time is abstract: a lease may lapse, a delay may be over.       *)
(***************************************************************************)
EXTENDS Integers, FiniteSets

CONSTANTS
    Events, Workers,
    Pushes,       \* the events that are push jobs of the subscription
    MaxAttempts,  \* 8: the attempt whose failure is final
    MaxFaults,    \* bound: crashes, and leases that lapse under a worker
    MaxRevivals,  \* bound: times a manager retries what failed
    None

ASSUME OutboxAssumption ==
    /\ Pushes \subseteq Events
    /\ MaxAttempts \in Nat \ {0}
    /\ MaxFaults \in Nat /\ MaxRevivals \in Nat
    /\ None \notin Workers \cup Events

VARIABLES
    rows,        \* the events that have been written and not deleted
    written,     \* the events that were ever written
    attempts, lease,
    lapsed,      \* leaseExpiresAt has passed
    due,         \* availableAt has passed
    completed, failed,
    subscribed,  \* the push subscription is there
    enabled,     \* the integration of the conversation is enabled
    worker,      \* what each worker is doing
    taken,       \* the events that the provider has taken
    faults, revivals

eventVars == <<rows, written, attempts, lease, lapsed, due, completed, failed>>
vars == <<eventVars, subscribed, enabled, worker, taken, faults, revivals>>

\* tries is the attempts counter that the claim returned.
Idle == [pc |-> "idle", event |-> None, tries |-> 0]

Work == [pc : {"idle", "call", "sent", "refused", "gone"},
         event : Events \cup {None}, tries : Nat]

\* A row without a lease has no time at which the lease ends.
TypeOK ==
    /\ rows \subseteq written /\ written \subseteq Events
    /\ attempts \in [Events -> Nat]
    /\ lease \in [Events -> Workers \cup {None}]
    /\ lapsed \subseteq {e \in Events : lease[e] # None}
    /\ due \subseteq Events
    /\ completed \subseteq written /\ failed \subseteq written
    /\ subscribed \in BOOLEAN /\ enabled \in BOOLEAN
    /\ worker \in [Workers -> Work]
    /\ \A w \in Workers : worker[w].pc = "idle" <=> worker[w].event = None
    /\ taken \subseteq written
    /\ faults \in 0 .. MaxFaults /\ revivals \in 0 .. MaxRevivals

Realtime == Events \ Pushes

Open(e) == e \in rows \ (completed \cup failed)

-----------------------------------------------------------------------------
(* Writing events.                                                         *)

\* append writes an event with its message, and a push job if there is a
\* subscription.
Write(e) ==
    /\ e \notin written
    /\ e \in Pushes => subscribed
    /\ rows' = rows \cup {e} /\ written' = written \cup {e}
    /\ due' = due \cup {e}
    /\ UNCHANGED <<attempts, lease, lapsed, completed, failed, subscribed,
                   enabled, worker, taken, faults, revivals>>

\* POST operations/retry: everything that failed is due again.
RetryFailed ==
    /\ failed \cap rows # {}
    /\ revivals < MaxRevivals
    /\ revivals' = revivals + 1
    /\ failed' = failed \ rows
    /\ attempts' = [e \in Events |-> IF e \in failed \cap rows THEN 0 ELSE attempts[e]]
    /\ due' = due \cup (failed \cap rows)
    /\ lease' = [e \in Events |-> IF e \in failed \cap rows THEN None ELSE lease[e]]
    /\ lapsed' = lapsed \ (failed \cap rows)
    /\ UNCHANGED <<rows, written, completed, subscribed, enabled, worker,
                   taken, faults>>

\* A subscription that is deleted takes its jobs along.
Unsubscribed ==
    /\ subscribed' = FALSE
    /\ rows' = rows \ Pushes
    /\ lease' = [e \in Events |-> IF e \in Pushes THEN None ELSE lease[e]]
    /\ lapsed' = lapsed \ Pushes
    /\ UNCHANGED <<written, attempts, due, completed, failed>>

\* unsubscribePush.
Unsubscribe ==
    /\ subscribed
    /\ Unsubscribed
    /\ UNCHANGED <<enabled, worker, taken, faults, revivals>>

\* The integration is switched off or on; the delivery worker skips the
\* events of one that is off.
Toggle ==
    /\ enabled' = ~enabled
    /\ UNCHANGED <<eventVars, subscribed, worker, taken, faults, revivals>>

-----------------------------------------------------------------------------
(* A worker.                                                               *)

\* Slip: a lease is for ever.
ClaimableUnleased(e) == Open(e) /\ e \in due /\ lease[e] = None /\ (e \in Pushes \/ enabled)

Claimable(e) ==
    /\ Open(e)
    /\ e \in due
    /\ lease[e] = None \/ e \in lapsed
    /\ e \in Pushes \/ enabled

Leased(w, e) ==
    /\ worker[w] = Idle
    /\ lease' = [lease EXCEPT ![e] = w]
    /\ lapsed' = lapsed \ {e}
    /\ attempts' = [attempts EXCEPT ![e] = @ + 1]
    /\ worker' = [worker EXCEPT ![w] = [pc |-> "call", event |-> e,
                                        tries |-> attempts[e] + 1]]
    /\ UNCHANGED <<rows, written, due, completed, failed, subscribed, enabled,
                   taken, faults, revivals>>

\* claim: any due row; which one comes first is a matter of time.
ClaimEvent(w, e) == Claimable(e) /\ Leased(w, e)

\* The push worker finds that the member may no longer see the chat.
ClaimUnauthorized(w, e) ==
    /\ worker[w] = Idle
    /\ e \in Pushes /\ Claimable(e)
    /\ Unsubscribed
    /\ UNCHANGED <<enabled, worker, taken, faults, revivals>>

\* The push worker finds that the message was read, or the chat resolved.
ClaimMoot(w, e) ==
    /\ worker[w] = Idle
    /\ e \in Pushes /\ Claimable(e)
    /\ completed' = completed \cup {e}
    /\ UNCHANGED <<rows, written, attempts, lease, lapsed, due, failed,
                   subscribed, enabled, worker, taken, faults, revivals>>

Turns(w, from, to) ==
    /\ worker[w].pc = from
    /\ worker' = [worker EXCEPT ![w].pc = to]
    /\ UNCHANGED <<eventVars, subscribed, enabled, faults, revivals>>

\* The provider takes the event; its answer may come too late.
CallAccepted(w) ==
    /\ \E answer \in {"sent", "refused"} : Turns(w, "call", answer)
    /\ taken' = taken \cup {worker[w].event}

CallRefused(w) == Turns(w, "call", "refused") /\ UNCHANGED taken

\* The push service says that the subscription is gone.
CallGone(w) ==
    /\ worker[w].event \in Pushes
    /\ Turns(w, "call", "gone") /\ UNCHANGED taken

Done(w) ==
    /\ worker' = [worker EXCEPT ![w] = Idle]
    /\ UNCHANGED <<rows, written, attempts, subscribed, enabled, taken,
                   faults, revivals>>

Unleash(e) ==
    /\ lease' = [lease EXCEPT ![e] = None]
    /\ lapsed' = lapsed \ {e}

\* The WHERE clause of settle: the row still has this worker's token.  Only
\* the delivery worker also asks that the event is not completed.
Mine(w) ==
    LET e == worker[w].event
    IN e \in rows /\ lease[e] = w /\ (e \in Pushes \/ e \notin completed)

Completes(w, answers) ==
    LET e == worker[w].event
    IN  /\ worker[w].pc \in answers
        /\ Mine(w)
        /\ completed' = completed \cup {e}
        /\ Unleash(e)
        /\ UNCHANGED <<due, failed>>
        /\ Done(w)

\* Slip: the last failure counts as a delivery.
SettleSentOrLast(w) ==
    Completes(w, IF worker[w].tries >= MaxAttempts THEN {"sent", "refused"} ELSE {"sent"})

SettleSent(w) == Completes(w, {"sent"})

SettleRetry(w) ==
    LET e == worker[w].event
    IN  /\ worker[w].pc = "refused" /\ worker[w].tries < MaxAttempts
        /\ Mine(w)
        /\ due' = due \ {e}
        /\ Unleash(e)
        /\ UNCHANGED <<completed, failed>>
        /\ Done(w)

GivesUp(w, guard) ==
    LET e == worker[w].event
    IN  /\ worker[w].pc = "refused" /\ worker[w].tries >= MaxAttempts
        /\ guard
        /\ failed' = failed \cup {e}
        /\ Unleash(e)
        /\ UNCHANGED <<completed, due>>
        /\ Done(w)

\* Slip: settle does not ask for its token.
SettleFailedAnyway(w) == GivesUp(w, worker[w].event \in rows)

SettleFailed(w) == GivesUp(w, Mine(w))

\* The row has been claimed by another worker, settled or deleted: nothing
\* matches.
SettleNothing(w) ==
    /\ worker[w].pc \in {"sent", "refused"}
    /\ ~Mine(w)
    /\ UNCHANGED <<lease, lapsed, due, completed, failed>>
    /\ Done(w)

SettleGone(w) ==
    /\ worker[w].pc = "gone"
    /\ Unsubscribed
    /\ worker' = [worker EXCEPT ![w] = Idle]
    /\ UNCHANGED <<enabled, taken, faults, revivals>>

-----------------------------------------------------------------------------
(* Faults and time.                                                        *)

\* A worker dies and another takes its place, or its settle throws.
Crash(w) ==
    /\ worker[w] # Idle
    /\ faults < MaxFaults /\ faults' = faults + 1
    /\ worker' = [worker EXCEPT ![w] = Idle]
    /\ UNCHANGED <<eventVars, subscribed, enabled, taken, revivals>>

Abandoned(e) == lease[e] # None /\ worker[lease[e]].event # e

\* Thirty seconds pass after a claim.  Calls are given up after ten, so the
\* worker has settled by then, unless its process stalled.
Lapse(e) ==
    /\ lease[e] # None /\ e \notin lapsed
    /\ Abandoned(e) \/ faults < MaxFaults
    /\ faults' = IF Abandoned(e) THEN faults ELSE faults + 1
    /\ lapsed' = lapsed \cup {e}
    /\ UNCHANGED <<rows, written, attempts, lease, due, completed, failed,
                   subscribed, enabled, worker, taken, revivals>>

\* The delay before the next attempt is over.
ComesDue(e) ==
    /\ e \in rows \ due
    /\ due' = due \cup {e}
    /\ UNCHANGED <<rows, written, attempts, lease, lapsed, completed, failed,
                   subscribed, enabled, worker, taken, faults, revivals>>

-----------------------------------------------------------------------------
Init ==
    /\ rows = {} /\ written = {}
    /\ attempts = [e \in Events |-> 0]
    /\ lease = [e \in Events |-> None]
    /\ lapsed = {} /\ due = {}
    /\ completed = {} /\ failed = {}
    /\ subscribed = TRUE /\ enabled = TRUE
    /\ worker = [w \in Workers |-> Idle]
    /\ taken = {}
    /\ faults = 0 /\ revivals = 0

ClaimSome(w) ==
    \E e \in Events : ClaimEvent(w, e) \/ ClaimUnauthorized(w, e) \/ ClaimMoot(w, e)

Call(w) == CallAccepted(w) \/ CallRefused(w) \/ CallGone(w)

Settle(w) ==
    \/ SettleSent(w) \/ SettleRetry(w) \/ SettleFailed(w) \/ SettleNothing(w)
    \/ SettleGone(w)

Environment ==
    \/ \E e \in Events : Write(e)
    \/ RetryFailed \/ Unsubscribe \/ Toggle

Next ==
    \/ \E w \in Workers : ClaimSome(w) \/ Call(w) \/ Settle(w) \/ Crash(w)
    \/ \E e \in Events : Lapse(e) \/ ComesDue(e)
    \/ Environment

Spec == Init /\ [][Next]_vars

\* The job loop calls each worker for ever and every call to a provider
\* ends; clocks advance.  Nothing is assumed of anybody else.
Fairness ==
    /\ \A w \in Workers : WF_vars(ClaimSome(w)) /\ WF_vars(Call(w)) /\ WF_vars(Settle(w))
    /\ \A e \in Events : WF_vars(Abandoned(e) /\ Lapse(e)) /\ WF_vars(ComesDue(e))

FairSpec == Spec /\ Fairness

-----------------------------------------------------------------------------
(* Properties.                                                             *)

\* No event is called both delivered and failed, however late a worker that
\* lost its lease comes back.
OneVerdict == completed \cap failed \cap Realtime = {}

\* The same of push jobs, whose settle does not look at completedAt.
OneVerdictForPushes == completed \cap failed = {}

\* An event is given up only after every attempt it is entitled to.
EveryAttemptMade == \A e \in failed : attempts[e] >= MaxAttempts

\* The outbox of the realtime provider keeps the promise of AtLeastOnce.
Stage(e) ==
    IF e \in completed THEN "sent"
    ELSE IF e \in failed THEN "failed"
    ELSE IF e \in written THEN "waiting"
    ELSE "none"

Outbox == INSTANCE AtLeastOnce
            WITH Events <- Realtime,
                 stage <- [e \in Realtime |-> Stage(e)],
                 reached <- taken \ Pushes

OutboxPromise == Outbox!Spec

\* Every event that was written is delivered, given up or deleted, with
\* workers that die and leases that lapse, if its integration stays on.
EveryEventEnds ==
    <>[]enabled =>
        \A e \in Events : e \in written ~> ~Open(e)

=============================================================================
