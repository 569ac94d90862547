----------------------------- MODULE Idempotency -----------------------------
(***************************************************************************)
(* The idempotency keys of mutating requests: idempotency.interceptor.ts   *)
(* and idempotency.service.ts.                                             *)
(*                                                                         *)
(* All attempts carry one key; keys do not interact.  An attempt is one    *)
(* HTTP request, a retry is a further attempt.  Every statement on the key *)
(* row commits by itself, outside the handler's transaction, so each is a  *)
(* step of its own.                                                        *)
(***************************************************************************)
EXTENDS Integers, FiniteSets

CONSTANTS
    Attempts, Bodies,
    BodyOf,      \* the request body of an attempt, as its fingerprint
    Faults,      \* what may go wrong in an instance
    NoOne

FaultKinds ==
    {"crash",      \* the API process dies
     "slow",       \* a handler runs for more than STALE_LOCK_MS
     "lostReply"}  \* the UPDATE or DELETE after the handler fails

Replies == {"none", "conflict", "error", "ok"}

ASSUME AttemptsAssumption ==
    /\ BodyOf \in [Attempts -> Bodies]
    /\ Attempts \cap Replies = {}
    /\ NoOne \notin Attempts \cup Bodies
    /\ Faults \subseteq FaultKinds

VARIABLES
    row,       \* the idempotency_keys row, Absent if there is none
    pc,        \* where an attempt is
    answer,    \* what its client got
    done,      \* the attempts whose handler has committed
    faulted     \* history: the faults there have been

keyVars == <<row, pc, answer, done, faulted>>

Absent ==
    [status |-> "absent", print |-> NoOne, response |-> NoOne, stale |-> FALSE]

Rows ==
    [status : {"absent", "pending", "completed"},
     print : Bodies \cup {NoOne},
     response : Attempts \cup {NoOne},  \* whose response is stored
     stale : BOOLEAN]                    \* lockedAt is over 60 s ago

Steps == {"new", "takeover", "insert", "run", "complete", "release", "over"}

Answers == Replies \cup Attempts  \* an attempt: the replay of its response

KeyTypeOK ==
    /\ row \in Rows
    /\ pc \in [Attempts -> Steps]
    /\ answer \in [Attempts -> Answers]
    /\ done \subseteq Attempts
    /\ faulted \subseteq Faults

Working == {a \in Attempts : pc[a] \in {"run", "complete", "release"}}

Advances(a, from, to) == pc[a] = from /\ pc' = [pc EXCEPT ![a] = to]

Fault(kind) ==
    /\ kind \in Faults
    /\ faulted' = faulted \cup {kind}

Ends(a, from, reply) ==
    /\ Advances(a, from, "over")
    /\ answer' = [answer EXCEPT ![a] = reply]

-----------------------------------------------------------------------------
(* acquire                                                                 *)

LookupFindsNothing(a) ==
    /\ row.status = "absent"
    /\ Advances(a, "new", "insert")
    /\ UNCHANGED <<row, answer, done, faulted>>

\* Another body, or an attempt in flight that is not stale yet.
LookupConflicts(a) ==
    /\ row.status # "absent"
    /\ row.print # BodyOf[a] \/ (row.status = "pending" /\ ~row.stale)
    /\ Ends(a, "new", "conflict")
    /\ UNCHANGED <<row, done, faulted>>

\* Slip: the fingerprints are not compared.
LookupReplaysAny(a) ==
    /\ row.status = "completed"
    /\ Ends(a, "new", row.response)
    /\ UNCHANGED <<row, done, faulted>>

LookupReplays(a) ==
    /\ row.status = "completed" /\ row.print = BodyOf[a]
    /\ Ends(a, "new", row.response)
    /\ UNCHANGED <<row, done, faulted>>

LookupFindsStale(a) ==
    /\ row.status = "pending" /\ row.print = BodyOf[a] /\ row.stale
    /\ Advances(a, "new", "takeover")
    /\ UNCHANGED <<row, answer, done, faulted>>

\* The DELETE names the key only, whoever holds it by now.
TakeOver(a) ==
    /\ Advances(a, "takeover", "insert")
    /\ row' = Absent
    /\ UNCHANGED <<answer, done, faulted>>

\* Slip: a row that is there is overwritten rather than refused.
InsertOrOverwrite(a) ==
    /\ Advances(a, "insert", "run")
    /\ row' = [Absent EXCEPT !.status = "pending", !.print = BodyOf[a]]
    /\ UNCHANGED <<answer, done, faulted>>

Insert(a) ==
    /\ row.status = "absent"
    /\ Advances(a, "insert", "run")
    /\ row' = [Absent EXCEPT !.status = "pending", !.print = BodyOf[a]]
    /\ UNCHANGED <<answer, done, faulted>>

\* The unique index on (business, key) refuses the row.
InsertRaced(a) ==
    /\ row.status # "absent"
    /\ Ends(a, "insert", "conflict")
    /\ UNCHANGED <<row, done, faulted>>

-----------------------------------------------------------------------------
(* The handler, complete and release.                                      *)

HandlerCommits(a) ==
    /\ Advances(a, "run", "complete")
    /\ done' = done \cup {a}
    /\ UNCHANGED <<row, answer, faulted>>

\* Slip: a failure is stored like a response.
FailureIsStored(a) ==
    /\ Advances(a, "run", "complete")
    /\ UNCHANGED <<row, answer, done, faulted>>

HandlerFails(a) ==
    /\ Advances(a, "run", "release")
    /\ UNCHANGED <<row, answer, done, faulted>>

\* UPDATE by key: nothing if the row is gone, and another attempt's row if
\* it was taken over.
Complete(a) ==
    /\ Ends(a, "complete", "ok")
    /\ row' = IF row.status = "absent" THEN row
              ELSE [row EXCEPT !.status = "completed", !.response = a]
    /\ UNCHANGED <<done, faulted>>

\* The UPDATE throws after the handler has committed.
CompleteFails(a) ==
    /\ Fault("lostReply")
    /\ Advances(a, "complete", "release")
    /\ UNCHANGED <<row, answer, done>>

Release(a) ==
    /\ Ends(a, "release", "error")
    /\ row' = Absent
    /\ UNCHANGED <<done, faulted>>

ReleaseFails(a) ==
    /\ Fault("lostReply")
    /\ Ends(a, "release", "error")
    /\ UNCHANGED <<row, done>>

-----------------------------------------------------------------------------
(* The environment.                                                        *)

\* The process dies: an open transaction rolls back, the key row stays.
Dies(a) ==
    /\ Fault("crash")
    /\ pc[a] \notin {"new", "over"}
    /\ Ends(a, pc[a], "error")
    /\ UNCHANGED <<row, done>>

\* Sixty seconds pass; unless a handler may be slow, it is over by then.
GrowStale ==
    /\ row.status = "pending" /\ ~row.stale
    /\ \/ Working = {} /\ UNCHANGED faulted
       \/ Working # {} /\ Fault("slow")
    /\ row' = [row EXCEPT !.stale = TRUE]
    /\ UNCHANGED <<pc, answer, done>>

KeyInit ==
    /\ row = Absent
    /\ pc = [a \in Attempts |-> "new"]
    /\ answer = [a \in Attempts |-> "none"]
    /\ done = {}
    /\ faulted = {}

Acquire(a) ==
    \/ LookupFindsNothing(a) \/ LookupConflicts(a) \/ LookupReplays(a)
    \/ LookupFindsStale(a) \/ TakeOver(a) \/ Insert(a) \/ InsertRaced(a)

Run(a) ==
    \/ HandlerCommits(a) \/ HandlerFails(a)
    \/ Complete(a) \/ CompleteFails(a) \/ Release(a) \/ ReleaseFails(a)

KeyNext ==
    \/ \E a \in Attempts : Acquire(a) \/ Run(a) \/ Dies(a)
    \/ GrowStale

KeySpec == KeyInit /\ [][KeyNext]_keyVars

-----------------------------------------------------------------------------
(* Properties.                                                             *)

\* As long as nothing has failed, a request is executed once however many
\* times it is retried under its key.
CommitsOnce == faulted = {} => \A a, b \in done : a = b

\* As long as nothing has failed, a replayed response was produced by a
\* committed attempt with the same body.
ReplayFaithful ==
    faulted = {} =>
        \A a \in Attempts : answer[a] \in Attempts =>
            answer[a] \in done /\ BodyOf[answer[a]] = BodyOf[a]

\* Whatever fails, no client is told of a success that did not happen, and
\* none is refused whose handler committed.
AnswersAreTrue ==
    \A a \in Attempts :
        /\ answer[a] = "ok" => a \in done
        /\ answer[a] \in Attempts => answer[a] \in done
        /\ answer[a] = "conflict" => a \notin done

\* Attempts that race insert one row between them: two handlers never run
\* together unless something has failed.
OneRunner ==
    faulted = {} => \A a, b \in Attempts : pc[a] = "run" /\ pc[b] = "run" => a = b

\* Taking over the lock of an attempt that died lets one retry run: with no
\* fault but crashes, two handlers never run together.
OneTakesOver ==
    faulted \subseteq {"crash"} =>
        \A a, b \in Attempts : pc[a] = "run" /\ pc[b] = "run" => a = b

=============================================================================
