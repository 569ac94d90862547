------------------------------ MODULE ChatProofs ------------------------------
(***************************************************************************)
(* That the chat keeps its promises: the events of its outbox are told     *)
(* once and not given up, and its conversations are not lost.              *)
(*                                                                         *)
(* Events.  The outbox of the realtime provider keeps the promise of       *)
(* AtLeastOnce, for any number of events and workers, whatever workers die *)
(* or come back late.  HasLease is the reason: a worker that still has the *)
(* lease of its event made the last attempt, and nobody has given the      *)
(* event up since.  A worker that has lost the lease writes nothing.       *)
(*                                                                         *)
(* Conversations.  A screen that is not out of date shows every message of *)
(* its chat (ScreensShow), because every append outdates it and a chat     *)
(* nobody has begun is on no screen.  So whoever may work on a chat has    *)
(* seen all of it.  An agent is counted in the step that gives him a chat, *)
(* with the rows as that step leaves them.                                 *)
(***************************************************************************)
EXTENDS ChatOutbox, ChatConversations, Sums, TLAPS

-----------------------------------------------------------------------------
(* Events: the outbox of the chat.                                         *)

Typed ==
    /\ rows \subseteq written /\ written \subseteq Events
    /\ attempts \in [Events -> Nat]
    /\ lease \in [Events -> Workers \cup {None}]
    /\ completed \subseteq written /\ failed \subseteq written
    /\ worker \in [Workers -> Work]

\* A worker works on an event that was written; what it calls sent, the
\* provider has taken.
OnWritten ==
    \A w \in Workers :
        /\ worker[w].pc # "idle" => worker[w].event \in written
        /\ worker[w].pc = "sent" => worker[w].event \in taken

\* A worker that still has the lease made the last attempt.
HasLease ==
    \A w \in Workers :
        worker[w].pc # "idle" /\ lease[worker[w].event] = w =>
            /\ worker[w].event \notin failed
            /\ attempts[worker[w].event] = worker[w].tries

\* Only push jobs are deleted.
RealtimeStays == written \ Pushes \subseteq rows

\* An inductive invariant of the outbox.
OutboxInv == Typed /\ OnWritten /\ HasLease /\ RealtimeStays /\ OneVerdict /\ EveryAttemptMade

-----------------------------------------------------------------------------
LEMMA IdleWorks == Idle \in Work /\ Idle.pc = "idle"
    BY DEF Idle, Work

LEMMA OutboxInvInit == Init => OutboxInv
    BY IdleWorks, OutboxAssumption
    DEF Init, OutboxInv, Typed, OnWritten, HasLease, RealtimeStays, OneVerdict,
        EveryAttemptMade

-----------------------------------------------------------------------------
(* The environment and time.                                               *)

LEMMA WriteKeeps == ASSUME OutboxInv, NEW e \in Events, Write(e) PROVE OutboxInv'
<1>1. Typed'
  BY DEF OutboxInv, Typed, Write
<1>2. QED
  BY <1>1 DEF OutboxInv, Typed, Write, OnWritten, HasLease, RealtimeStays, OneVerdict,
              EveryAttemptMade

LEMMA RetryKeeps == ASSUME OutboxInv, RetryFailed PROVE OutboxInv'
<1> DEFINE revived == failed \cap rows
<1>1. Typed'
  BY DEF OutboxInv, Typed, RetryFailed
<1>2. HasLease'
  <2> SUFFICES ASSUME NEW w \in Workers, worker[w].pc # "idle",
                      lease'[worker[w].event] = w
               PROVE  /\ worker[w].event \notin failed'
                      /\ attempts'[worker[w].event] = worker[w].tries
    BY DEF HasLease, RetryFailed
  <2>1. worker[w].event \in Events
    BY DEF OutboxInv, Typed, OnWritten
  <2>2. worker[w].event \notin revived /\ lease[worker[w].event] = w
    BY <2>1, OutboxAssumption DEF RetryFailed
  <2>3. QED
    BY <2>1, <2>2 DEF OutboxInv, HasLease, RetryFailed
<1>3. EveryAttemptMade'
  <2> SUFFICES ASSUME NEW e \in failed' PROVE attempts'[e] >= MaxAttempts
    BY DEF EveryAttemptMade, RetryFailed
  <2>1. e \in failed /\ e \notin revived /\ e \in Events
    BY DEF OutboxInv, Typed, RetryFailed
  <2>2. QED
    BY <2>1 DEF OutboxInv, EveryAttemptMade, RetryFailed
<1>4. QED
  BY <1>1, <1>2, <1>3 DEF OutboxInv, RetryFailed, OnWritten, RealtimeStays, OneVerdict

\* What unsubscribing and the workers that do it have in common.
LEMMA UnsubscribedKeeps ==
    ASSUME OutboxInv, Unsubscribed, UNCHANGED taken,
           worker' \in [Workers -> Work],
           \A w \in Workers : worker'[w] \in {worker[w], Idle}
    PROVE  OutboxInv'
<1>1. Typed'
  BY DEF OutboxInv, Typed, Unsubscribed
<1>2. HasLease'
  <2> SUFFICES ASSUME NEW w \in Workers, worker'[w].pc # "idle",
                      lease'[worker'[w].event] = w
               PROVE  /\ worker'[w].event \notin failed'
                      /\ attempts'[worker'[w].event] = worker'[w].tries
    BY DEF HasLease
  <2>1. worker'[w] = worker[w]
    BY IdleWorks
  <2>2. worker[w].event \in Events
    BY <2>1 DEF OutboxInv, Typed, OnWritten
  <2>3. lease[worker[w].event] = w
    BY <2>1, <2>2, OutboxAssumption DEF Unsubscribed
  <2>4. QED
    BY <2>1, <2>3 DEF OutboxInv, HasLease, Unsubscribed
<1>3. OnWritten'
  BY IdleWorks DEF OutboxInv, OnWritten, Unsubscribed
<1>4. QED
  BY <1>1, <1>2, <1>3 DEF OutboxInv, Unsubscribed, RealtimeStays, OneVerdict, EveryAttemptMade

LEMMA StillKeeps ==
    ASSUME OutboxInv,
           UNCHANGED <<rows, written, attempts, lease, completed, failed, worker, taken>>
    PROVE  OutboxInv'
    BY DEF OutboxInv, Typed, OnWritten, HasLease, RealtimeStays, OneVerdict, EveryAttemptMade

LEMMA EnvironmentKeeps == ASSUME OutboxInv, Environment PROVE OutboxInv'
<1>1. ASSUME Unsubscribe PROVE OutboxInv'
  BY <1>1, UnsubscribedKeeps DEF Unsubscribe, OutboxInv, Typed
<1>2. ASSUME Toggle PROVE OutboxInv'
  BY <1>2, StillKeeps DEF Toggle, eventVars
<1>3. QED
  BY <1>1, <1>2, WriteKeeps, RetryKeeps DEF Environment

LEMMA TimeKeeps == ASSUME OutboxInv, NEW e \in Events, Lapse(e) \/ ComesDue(e) PROVE OutboxInv'
    BY StillKeeps DEF Lapse, ComesDue

-----------------------------------------------------------------------------
(* The workers.                                                            *)

LEMMA ClaimKeeps ==
    ASSUME OutboxInv, NEW w \in Workers, NEW e \in Events, ClaimEvent(w, e)
    PROVE OutboxInv'
<1> DEFINE now == [pc |-> "call", event |-> e, tries |-> attempts[e] + 1]
<1>1. e \in written /\ e \notin failed /\ attempts[e] \in Nat
  BY DEF OutboxInv, Typed, ClaimEvent, Claimable, Open
<1>2. now \in Work
  BY <1>1 DEF Work
<1>3. Typed'
  BY <1>1, <1>2 DEF OutboxInv, Typed, ClaimEvent, Leased
<1>4. worker' = [worker EXCEPT ![w] = now] /\ worker \in [Workers -> Work]
  BY DEF ClaimEvent, Leased, OutboxInv, Typed
<1>5. OnWritten'
  BY <1>1, <1>4 DEF OutboxInv, OnWritten, ClaimEvent, Leased
<1>6. HasLease'
  <2> SUFFICES ASSUME NEW v \in Workers, worker'[v].pc # "idle",
                      lease'[worker'[v].event] = v
               PROVE  /\ worker'[v].event \notin failed'
                      /\ attempts'[worker'[v].event] = worker'[v].tries
    BY DEF HasLease
  <2>1. CASE v = w
    BY <1>1, <1>4, <2>1 DEF ClaimEvent, Leased, OutboxInv, Typed
  <2>2. CASE v # w
    <3>1. worker'[v] = worker[v] /\ worker[v].event \in Events
      BY <1>4, <2>2 DEF OutboxInv, Typed, OnWritten
    <3>2. worker[v].event # e
      BY <2>2, <3>1 DEF ClaimEvent, Leased, OutboxInv, Typed
    <3>3. QED
      BY <3>1, <3>2 DEF OutboxInv, Typed, HasLease, ClaimEvent, Leased
  <2>3. QED
    BY <2>1, <2>2
<1>7. EveryAttemptMade'
  BY <1>1 DEF OutboxInv, Typed, EveryAttemptMade, ClaimEvent, Leased
<1>8. QED
  BY <1>3, <1>5, <1>6, <1>7 DEF OutboxInv, RealtimeStays, OneVerdict, ClaimEvent, Leased

LEMMA MootKeeps ==
    ASSUME OutboxInv, NEW w \in Workers, NEW e \in Events, ClaimMoot(w, e)
    PROVE OutboxInv'
<1>1. e \in written /\ e \in Pushes
  BY DEF OutboxInv, Typed, ClaimMoot, Claimable, Open
<1>2. QED
  BY <1>1 DEF OutboxInv, Typed, OnWritten, HasLease, RealtimeStays, OneVerdict,
              EveryAttemptMade, ClaimMoot, Realtime

LEMMA ClaimSomeKeeps == ASSUME OutboxInv, NEW w \in Workers, ClaimSome(w) PROVE OutboxInv'
<1>1. ASSUME NEW e \in Events, ClaimUnauthorized(w, e) PROVE OutboxInv'
  BY <1>1, UnsubscribedKeeps DEF ClaimUnauthorized, OutboxInv, Typed
<1>2. QED
  BY <1>1, ClaimKeeps, MootKeeps DEF ClaimSome

LEMMA CallKeeps == ASSUME OutboxInv, NEW w \in Workers, Call(w) PROVE OutboxInv'
<1>1. PICK to \in {"sent", "refused", "gone"} :
        Turns(w, "call", to) /\ taken \subseteq taken'
          /\ (to = "sent" => worker[w].event \in taken')
  BY DEF Call, CallAccepted, CallRefused, CallGone
<1> DEFINE now == [pc |-> to, event |-> worker[w].event, tries |-> worker[w].tries]
<1>2. /\ worker' = [worker EXCEPT ![w] = now]
      /\ worker[w].pc = "call"
      /\ UNCHANGED eventVars
  <2>1. worker' = [worker EXCEPT ![w].pc = to] /\ worker \in [Workers -> Work]
    BY <1>1 DEF Turns, OutboxInv, Typed
  <2>2. \A q \in Work : [q EXCEPT !.pc = to]
                            = [pc |-> to, event |-> q.event, tries |-> q.tries]
    BY DEF Work
  <2>3. [worker[w] EXCEPT !.pc = to] = now
    BY <2>1, <2>2
  <2>4. worker' = [worker EXCEPT ![w] = now]
    BY <2>1, <2>3, Zenon
  <2>5. QED
    BY <1>1, <2>4 DEF Turns
<1>3. now \in Work
  BY DEF OutboxInv, Typed, Work
<1>4. ASSUME NEW v \in Workers
      PROVE  /\ worker'[v].event = worker[v].event
             /\ worker'[v].tries = worker[v].tries
             /\ worker'[v].pc # "idle" => worker[v].pc # "idle"
             /\ worker'[v].pc = "sent" =>
                    worker[v].pc = "sent" \/ (v = w /\ to = "sent")
  <2>1. CASE v = w
    <3>1. worker'[v] = now
      BY <1>2, <2>1 DEF OutboxInv, Typed
    <3>2. QED
      BY <1>2, <2>1, <3>1
  <2>2. CASE v # w
    <3>1. worker'[v] = worker[v]
      BY <1>2, <2>2 DEF OutboxInv, Typed
    <3>2. QED
      BY <3>1
  <2>3. QED
    BY <2>1, <2>2
<1>5. Typed'
  BY <1>2, <1>3 DEF OutboxInv, Typed, eventVars
<1>6. OnWritten'
  BY <1>1, <1>2, <1>4 DEF OutboxInv, OnWritten, eventVars
<1>7. HasLease'
  BY <1>2, <1>4 DEF OutboxInv, HasLease, eventVars
<1>8. QED
  BY <1>2, <1>5, <1>6, <1>7 DEF OutboxInv, RealtimeStays, OneVerdict, EveryAttemptMade, eventVars

\* A worker that puts its event down; what the row becomes is up to the case.
LEMMA DoneKeeps ==
    ASSUME OutboxInv, NEW w \in Workers,
           worker' = [worker EXCEPT ![w] = Idle],
           UNCHANGED <<rows, written, attempts, taken>>,
           lease' = lease \/ lease' = [lease EXCEPT ![worker[w].event] = None],
           failed \subseteq failed', failed' \subseteq written,
           \A e \in failed' \ failed : e = worker[w].event /\ lease'[e] = None
                                         /\ attempts[e] >= MaxAttempts,
           completed' \subseteq written,
           completed' \cap failed' \cap Realtime = {}
    PROVE  OutboxInv'
<1>1. Typed'
  BY IdleWorks, OutboxAssumption DEF OutboxInv, Typed
<1>2. worker' = [worker EXCEPT ![w] = Idle] /\ worker \in [Workers -> Work]
  BY DEF OutboxInv, Typed
<1>3. OnWritten'
  BY <1>2, IdleWorks DEF OutboxInv, OnWritten
<1>4. HasLease'
  <2> SUFFICES ASSUME NEW v \in Workers, worker'[v].pc # "idle",
                      lease'[worker'[v].event] = v
               PROVE  /\ worker'[v].event \notin failed'
                      /\ attempts'[worker'[v].event] = worker'[v].tries
    BY DEF HasLease
  <2>1. v # w /\ worker'[v] = worker[v]
    BY <1>2, IdleWorks
  <2>2. worker[v].event \in Events
    BY <2>1 DEF OutboxInv, Typed, OnWritten
  <2>3. lease[worker[v].event] = v /\ lease'[worker[v].event] # None
    BY <2>1, <2>2, OutboxAssumption DEF OutboxInv, Typed
  <2>4. QED
    BY <2>1, <2>3 DEF OutboxInv, HasLease
<1>5. EveryAttemptMade'
  BY DEF OutboxInv, EveryAttemptMade
<1>6. QED
  BY <1>1, <1>3, <1>4, <1>5 DEF OutboxInv, RealtimeStays, OneVerdict

\* A worker whose row still has its token.
LEMMA MineLeased ==
    ASSUME OutboxInv, NEW w \in Workers, worker[w].pc # "idle", Mine(w)
    PROVE  /\ worker[w].event \in written /\ worker[w].event \in Events
           /\ worker[w].event \notin failed
           /\ attempts[worker[w].event] = worker[w].tries
           /\ worker[w].event \in Realtime => worker[w].event \notin completed
    BY DEF OutboxInv, Typed, OnWritten, HasLease, Mine, Realtime

LEMMA SentKeeps == ASSUME OutboxInv, NEW w \in Workers, SettleSent(w) PROVE OutboxInv'
<1>1. worker[w].event \in written /\ worker[w].event \notin failed
  BY MineLeased DEF SettleSent, Completes
<1>2. QED
  BY <1>1, DoneKeeps DEF OutboxInv, Typed, OneVerdict, SettleSent, Completes, Unleash, Done

LEMMA FailedKeeps == ASSUME OutboxInv, NEW w \in Workers, SettleFailed(w) PROVE OutboxInv'
<1> DEFINE e == worker[w].event
<1>1. /\ e \in written /\ e \in Events
      /\ attempts[e] = worker[w].tries
      /\ e \in Realtime => e \notin completed
  BY MineLeased DEF SettleFailed, GivesUp
<1>2. lease' = [lease EXCEPT ![e] = None] /\ failed' = failed \cup {e}
  BY DEF SettleFailed, GivesUp, Unleash
<1>3. lease'[e] = None
  BY <1>1, <1>2 DEF OutboxInv, Typed
<1>4. Done(w) /\ completed' = completed /\ worker[w].tries >= MaxAttempts
  BY DEF SettleFailed, GivesUp
<1>5. completed' \cap failed' \cap Realtime = {}
  BY <1>1, <1>2, <1>4 DEF OutboxInv, OneVerdict
<1>6. QED
  BY <1>1, <1>2, <1>3, <1>4, <1>5, DoneKeeps DEF OutboxInv, Typed, Done

LEMMA SettleKeeps == ASSUME OutboxInv, NEW w \in Workers, Settle(w) PROVE OutboxInv'
<1>1. ASSUME SettleRetry(w) PROVE OutboxInv'
  BY <1>1, DoneKeeps DEF SettleRetry, Unleash, Done, OutboxInv, Typed, OneVerdict
<1>2. ASSUME SettleNothing(w) PROVE OutboxInv'
  BY <1>2, DoneKeeps DEF SettleNothing, Done, OutboxInv, Typed, OneVerdict
<1>3. ASSUME SettleGone(w) PROVE OutboxInv'
  BY <1>3, UnsubscribedKeeps, IdleWorks DEF SettleGone, OutboxInv, Typed
<1>4. QED
  BY <1>1, <1>2, <1>3, SentKeeps, FailedKeeps DEF Settle

LEMMA CrashKeeps == ASSUME OutboxInv, NEW w \in Workers, Crash(w) PROVE OutboxInv'
<1>1. UNCHANGED <<rows, written, attempts, lease, failed, completed, taken>>
  BY DEF Crash, eventVars
<1>2. QED
  BY <1>1, DoneKeeps DEF Crash, OutboxInv, Typed, OneVerdict

LEMMA OutboxInvStep == OutboxInv /\ [Next]_vars => OutboxInv'
<1>1. CASE UNCHANGED vars
  BY <1>1, StillKeeps DEF vars, eventVars
<1>2. CASE Next
  BY <1>2, ClaimSomeKeeps, CallKeeps, SettleKeeps, CrashKeeps, TimeKeeps,
     EnvironmentKeeps DEF Next
<1>3. QED
  BY <1>1, <1>2

LEMMA OutboxInvHolds == Spec => []OutboxInv
    BY OutboxInvInit, OutboxInvStep, PTL DEF Spec

-----------------------------------------------------------------------------
(* The steps of the outbox as steps of AtLeastOnce.                        *)

LEMMA StageValues ==
    ASSUME NEW e
    PROVE  /\ e \in completed => Stage(e) = "sent"
           /\ e \in failed \ completed => Stage(e) = "failed"
           /\ e \in written \ (completed \cup failed) => Stage(e) = "waiting"
           /\ e \notin written \cup completed \cup failed => Stage(e) = "none"
    BY DEF Stage

LEMMA StageValuesNext ==
    ASSUME NEW e
    PROVE  /\ e \in completed' => Stage(e)' = "sent"
           /\ e \in failed' \ completed' => Stage(e)' = "failed"
           /\ e \in written' \ (completed' \cup failed') => Stage(e)' = "waiting"
           /\ e \notin written' \cup completed' \cup failed' => Stage(e)' = "none"
    BY DEF Stage

\* One event moves, and the others stay where they are.
LEMMA OneMoves ==
    ASSUME NEW e \in Realtime, NEW from, NEW to,
           Stage(e) = from, Stage(e)' = to,
           \A f \in Realtime \ {e} : Stage(f)' = Stage(f),
           taken' = taken
    PROVE  Outbox!Moves(e, from, to)
    BY DEF Outbox!Moves

LEMMA NobodyMoves ==
    ASSUME \A f \in Realtime : Stage(f)' = Stage(f),
           taken' \ Pushes = taken \ Pushes
    PROVE  UNCHANGED Outbox!vars
    BY DEF Outbox!vars

LEMMA SameStages ==
    ASSUME written' = written, completed' \ Pushes = completed \ Pushes,
           failed' \ Pushes = failed \ Pushes
    PROVE  \A f \in Realtime : Stage(f)' = Stage(f)
<1> SUFFICES ASSUME NEW f \in Realtime PROVE Stage(f)' = Stage(f)
  OBVIOUS
<1>1. (f \in completed' <=> f \in completed) /\ (f \in failed' <=> f \in failed)
  BY DEF Realtime
<1>2. QED
  BY <1>1, StageValues, StageValuesNext

Maps == [Outbox!Next]_(Outbox!vars)

LEMMA WriteMaps == ASSUME OutboxInv, NEW e \in Events, Write(e) PROVE Maps
<1>1. \A f \in Events \ {e} : Stage(f)' = Stage(f)
  BY StageValues, StageValuesNext DEF Write
<1>2. CASE e \in Pushes
  BY <1>1, <1>2, NobodyMoves DEF Maps, Realtime, Write
<1>3. CASE e \in Realtime
  <2>1. Stage(e) = "none" /\ Stage(e)' = "waiting"
    BY StageValues, StageValuesNext DEF OutboxInv, Typed, Write
  <2>2. Outbox!Write(e)
    BY <1>1, <1>3, <2>1, OneMoves DEF Outbox!Write, Realtime, Write
  <2>3. QED
    BY <1>3, <2>2 DEF Maps, Outbox!Next
<1>4. QED
  BY <1>2, <1>3 DEF Realtime

LEMMA RetryMaps == ASSUME OutboxInv, RetryFailed PROVE Maps
<1>1. ASSUME NEW f \in Realtime
      PROVE  Stage(f)' = IF Stage(f) = "failed" THEN "waiting" ELSE Stage(f)
  <2>1. f \in failed => f \in rows /\ f \notin completed /\ f \in written
    BY DEF OutboxInv, Typed, RealtimeStays, OneVerdict, Realtime
  <2>2. f \notin failed' /\ (f \in completed' <=> f \in completed)
          /\ (f \in written' <=> f \in written)
    BY <2>1 DEF RetryFailed
  <2>3. QED
    BY <2>1, <2>2, StageValues, StageValuesNext
<1>2. taken' = taken
  BY DEF RetryFailed
<1>3. Outbox!Revive
  BY <1>1, <1>2 DEF Outbox!Revive
<1>4. QED
  BY <1>3 DEF Maps, Outbox!Next

LEMMA CallMaps == ASSUME OutboxInv, NEW w \in Workers, Call(w) PROVE Maps
<1>1. UNCHANGED eventVars
  BY DEF Call, CallAccepted, CallRefused, CallGone, Turns
<1>2. \A f \in Realtime : Stage(f)' = Stage(f)
  BY <1>1, SameStages DEF eventVars
<1>3. CASE taken' = taken
  BY <1>2, <1>3, NobodyMoves DEF Maps
<1>4. CASE CallAccepted(w)
  <2> DEFINE e == worker[w].event
  <2>1. e \in written /\ e \in Events /\ taken' = taken \cup {e}
    BY <1>4 DEF CallAccepted, Turns, OutboxInv, Typed, OnWritten
  <2>2. CASE e \in Pushes
    <3>1. taken' \ Pushes = taken \ Pushes
      BY <2>1, <2>2
    <3>2. QED
      BY <1>2, <3>1, NobodyMoves DEF Maps
  <2>3. CASE e \in Realtime
    <3>1. Stage(e) # "none"
      BY <2>1, StageValues
    <3>2. taken' \ Pushes = (taken \ Pushes) \cup {e}
      BY <2>1, <2>3 DEF Realtime
    <3>3. Outbox!Hand(e)
      BY <1>2, <2>3, <3>1, <3>2 DEF Outbox!Hand
    <3>4. QED
      BY <2>3, <3>3 DEF Maps, Outbox!Next
  <2>4. QED
    BY <2>1, <2>2, <2>3 DEF Realtime
<1>5. QED
  BY <1>3, <1>4 DEF Call, CallRefused, CallGone

LEMMA SentMaps == ASSUME OutboxInv, NEW w \in Workers, SettleSent(w) PROVE Maps
<1>0. PICK e \in Events : e = worker[w].event
  BY MineLeased DEF SettleSent, Completes
<1>1. /\ e \in written /\ e \in taken
      /\ e \notin failed
      /\ e \in Realtime => e \notin completed
  BY <1>0, MineLeased DEF SettleSent, Completes, OutboxInv, OnWritten
<1>2. completed' = completed \cup {e} /\ UNCHANGED <<failed, written, taken>>
  BY <1>0 DEF SettleSent, Completes, Done
<1>3. CASE e \in Pushes
  <2>1. completed' \ Pushes = completed \ Pushes
    BY <1>2, <1>3
  <2>2. QED
    BY <1>2, <2>1, SameStages, NobodyMoves DEF Maps
<1>4. CASE e \in Realtime
  <2>1. Stage(e) = "waiting" /\ Stage(e)' = "sent"
    BY <1>1, <1>2, <1>4, StageValues, StageValuesNext
  <2>2. \A f \in Realtime \ {e} : Stage(f)' = Stage(f)
    BY <1>2, StageValues, StageValuesNext
  <2>3. Outbox!Settle(e)
    BY <1>1, <1>2, <1>4, <2>1, <2>2, OneMoves DEF Outbox!Settle, Realtime
  <2>4. QED
    BY <1>4, <2>3 DEF Maps, Outbox!Next
<1>5. QED
  BY <1>1, <1>3, <1>4 DEF Realtime

LEMMA FailedMaps == ASSUME OutboxInv, NEW w \in Workers, SettleFailed(w) PROVE Maps
<1>0. PICK e \in Events : e = worker[w].event
  BY MineLeased DEF SettleFailed, GivesUp
<1>1. /\ e \in written
      /\ e \notin failed
      /\ e \in Realtime => e \notin completed
  BY <1>0, MineLeased DEF SettleFailed, GivesUp
<1>2. failed' = failed \cup {e} /\ UNCHANGED <<completed, written, taken>>
  BY <1>0 DEF SettleFailed, GivesUp, Done
<1>3. CASE e \in Pushes
  <2>1. failed' \ Pushes = failed \ Pushes
    BY <1>2, <1>3
  <2>2. QED
    BY <1>2, <2>1, SameStages, NobodyMoves DEF Maps
<1>4. CASE e \in Realtime
  <2>1. Stage(e) = "waiting" /\ Stage(e)' = "failed"
    BY <1>1, <1>2, <1>4, StageValues, StageValuesNext
  <2>2. \A f \in Realtime \ {e} : Stage(f)' = Stage(f)
    BY <1>2, StageValues, StageValuesNext
  <2>3. Outbox!GiveUp(e)
    BY <1>2, <1>4, <2>1, <2>2, OneMoves DEF Outbox!GiveUp
  <2>4. QED
    BY <1>4, <2>3 DEF Maps, Outbox!Next
<1>5. QED
  BY <1>1, <1>3, <1>4 DEF Realtime

\* The steps that AtLeastOnce does not see.
LEMMA OthersStutter ==
    ASSUME written' = written, failed' = failed, taken' = taken,
           completed' \ Pushes = completed \ Pushes
    PROVE  Maps
    BY SameStages, NobodyMoves DEF Maps

LEMMA ClaimMaps == ASSUME NEW w \in Workers, ClaimSome(w) PROVE Maps
<1>1. PICK e \in Events : ClaimEvent(w, e) \/ ClaimUnauthorized(w, e) \/ ClaimMoot(w, e)
  BY DEF ClaimSome
<1>2. completed' \ Pushes = completed \ Pushes
  BY <1>1 DEF ClaimEvent, Leased, ClaimUnauthorized, ClaimMoot, Unsubscribed
<1>3. UNCHANGED <<written, failed, taken>>
  BY <1>1 DEF ClaimEvent, Leased, ClaimUnauthorized, ClaimMoot, Unsubscribed
<1>4. QED
  BY <1>2, <1>3, OthersStutter

LEMMA SettleMaps == ASSUME OutboxInv, NEW w \in Workers, Settle(w) PROVE Maps
<1>1. CASE SettleRetry(w) \/ SettleNothing(w) \/ SettleGone(w)
  BY <1>1, OthersStutter DEF SettleRetry, SettleNothing, SettleGone, Done, Unsubscribed
<1>2. QED
  BY <1>1, SentMaps, FailedMaps DEF Settle

LEMMA StepMaps == OutboxInv /\ [Next]_vars => Maps
<1> SUFFICES ASSUME OutboxInv, [Next]_vars PROVE Maps
  OBVIOUS
<1>1. ASSUME NEW w \in Workers, Crash(w) PROVE Maps
  BY <1>1, OthersStutter DEF Crash, eventVars
<1>2. ASSUME NEW e \in Events, Lapse(e) \/ ComesDue(e) PROVE Maps
  BY <1>2, OthersStutter DEF Lapse, ComesDue
<1>3. ASSUME Unsubscribe \/ Toggle PROVE Maps
  BY <1>3, OthersStutter DEF Unsubscribe, Toggle, Unsubscribed, eventVars
<1>4. CASE UNCHANGED vars
  BY <1>4, OthersStutter DEF vars, eventVars
<1>5. QED
  BY <1>1, <1>2, <1>3, <1>4, ClaimMaps, CallMaps, SettleMaps, WriteMaps, RetryMaps
     DEF Next, Environment

LEMMA InitMaps == Init => Outbox!Init
    BY DEF Init, Outbox!Init, Stage

-----------------------------------------------------------------------------
(* Theorems.                                                               *)

\* No realtime event is both completed and failed, however late a worker that
\* lost its lease settles (chat-worker.ts, settle).
THEOREM OneVerdictHolds == Spec => []OneVerdict
<1>1. OutboxInv => OneVerdict
  BY DEF OutboxInv
<1>2. QED
  BY <1>1, OutboxInvHolds, PTL

\* An event, or a push job, is given up only after its last attempt
\* (chat-worker.ts and chat-push-worker.ts, settle).
THEOREM EveryAttemptMadeHolds == Spec => []EveryAttemptMade
<1>1. OutboxInv => EveryAttemptMade
  BY DEF OutboxInv
<1>2. QED
  BY <1>1, OutboxInvHolds, PTL

\* The workers of the realtime provider, with their leases, crashes and late
\* answers, implement at-least-once delivery (chat-worker.ts).
THEOREM OutboxHolds == Spec => OutboxPromise
<1>1. Spec => [][Maps]_vars
  BY OutboxInvHolds, StepMaps, PTL DEF Spec
<1>2. QED
  BY <1>1, InitMaps, OutboxInvHolds, StepMaps, PTL DEF Spec, OutboxPromise, Outbox!Spec, Maps

-----------------------------------------------------------------------------
(* Conversations.                                                          *)

\* A screen shows all the messages of its chat, and the chat has begun.
ScreensShow ==
    \A s \in screens :
        /\ status[s[2]] # "none"
        /\ s[3] = Len(log[s[2]])

\* An inductive invariant of the conversations.
DeskInv == DeskTypeOK /\ log = [c \in Conversations |-> log[c]] /\ ScreensShow /\ CallbackSurvives

LEMMA DeskInvInit == DeskInit => DeskInv
    BY ChatAssumption
    DEF DeskInit, DeskInv, DeskTypeOK, States, ScreensShow, CallbackSurvives

\* The last member of a set of sequence numbers is one.
LEMMA LastIsNumber ==
    ASSUME NEW S, S \subseteq Nat, NEW n \in Nat, \A i \in S : i <= n
    PROVE  LastOf(S) \in Nat
<1>1. CASE S = {}
    BY <1>1 DEF LastOf
<1>2. CASE S # {}
    <2> DEFINE gaps == {n - i : i \in S}
    <2>1. gaps \subseteq Nat /\ gaps # {}
        <3>1. \A i \in S : n - i \in Nat
            OBVIOUS
        <3>2. PICK i \in S : TRUE
            BY <1>2
        <3>3. n - i \in gaps
            BY <3>2
        <3> QED  BY <3>1, <3>3
    <2>2. PICK g \in gaps : \A h \in gaps : g <= h
        <3> HIDE DEF gaps
        <3> QED  BY <2>1, LeastMember
    <2>3. PICK i \in S : g = n - i
        BY <2>2
    <2>4. \A j \in S : j <= i
        BY <2>2, <2>3
    <2>5. LastOf(S) \in S
        BY <2>3, <2>4, <1>2 DEF LastOf
    <2> QED  BY <2>5
<1> QED  BY <1>1, <1>2

LEMMA AppendKeeps ==
    ASSUME DeskInv, NEW c \in Conversations, NEW message \in Messages, Appends(c, message),
           status[c] = "none" => UNCHANGED screens,
           status[c] # "none" => Outdates({c}),
           NEW to \in Live, status' = [status EXCEPT ![c] = to],
           status[c] # "deleted",
           accepted' = accepted \/ (owner[c] # Nobody /\ accepted' = accepted \cup {c}),
           awaiting' \subseteq awaiting \cup {c}
    PROVE  DeskInv'
<1> USE DEF DeskInv
<1>1. DeskTypeOK'
    <2>1. \A d \in Conversations : log'[d] \in Seq(Messages)
        BY DEF Appends, DeskTypeOK
    <2>2. screens' \subseteq screens
        BY DEF Outdates
    <2>3. accepted' \subseteq {d \in Conversations : status'[d] = "deleted" \/ owner'[d] # Nobody}
        BY DEF Appends, DeskTypeOK
    <2> QED  BY <2>1, <2>2, <2>3 DEF Appends, DeskTypeOK, States, Live
<1>2. ScreensShow'
    <2>1. \A s \in screens' : s \in screens /\ s[2] # c /\ s[2] \in Conversations
        BY DEF Outdates, ScreensShow, DeskTypeOK
    <2> QED  BY <2>1 DEF ScreensShow, Appends, DeskTypeOK
<1>3. CallbackSurvives' /\ (log = [d \in Conversations |-> log[d]])'
    BY DEF CallbackSurvives, Appends, DeskTypeOK, Live
<1> QED  BY <1>1, <1>2, <1>3

LEMMA VisitorKeeps == ASSUME DeskInv, NEW c \in Conversations, Visitor(c) PROVE DeskInv'
<1>1. ASSUME NEW key \in Keys, VisitorSays(c, key), status[c] \in {"none"} \cup Live,
             status[c] = "none" => UNCHANGED screens, status[c] # "none" => Outdates({c})
      PROVE DeskInv'
    <2> DEFINE message == [from |-> "visitor", private |-> FALSE, key |-> key]
               to == IF status[c] \in {"none", "queued"} THEN "queued" ELSE "open"
    <2>1. message \in Messages
        BY DEF Messages, Senders
    <2>2. status' = [status EXCEPT ![c] = to] /\ to \in Live /\ status[c] # "deleted"
        BY <1>1 DEF VisitorSays, Live
    <2>3. Appends(c, message) /\ accepted' = accepted /\ awaiting' \subseteq awaiting \cup {c}
        BY <1>1 DEF VisitorSays
    <2> HIDE DEF message, to
    <2> QED  BY <1>1, <2>1, <2>2, <2>3, AppendKeeps
<1>2. ASSUME NEW key \in Keys, Start(c, key) \/ SendVisitorMessage(c, key) PROVE DeskInv'
    BY <1>1, <1>2 DEF Start, SendVisitorMessage, Live
<1>3. CASE VisitorFollowup(c)
    BY <1>3 DEF VisitorFollowup, DeskInv, DeskTypeOK, ScreensShow, CallbackSurvives, States,
                Live, Outdates
<1>4. CASE EndVisitorChat(c)
    BY <1>4 DEF EndVisitorChat, DeskInv, DeskTypeOK, ScreensShow, CallbackSurvives, States,
                Live, Outdates
<1> QED  BY <1>2, <1>3, <1>4 DEF Visitor

LEMMA WritesKeep ==
    ASSUME DeskInv, NEW a \in Agents, NEW c \in Conversations, NEW key \in Keys,
           SendStaffMessage(a, c, key) \/ WriteNote(a, c, key)
    PROVE  DeskInv'
<1> DEFINE message(private) == [from |-> a, private |-> private, key |-> key]
<1>1. message(TRUE) \in Messages /\ message(FALSE) \in Messages
    BY DEF Messages, Senders
<1>2. status[c] \in Live /\ status[c] \notin {"none", "deleted"} /\ Outdates({c})
    BY DEF SendStaffMessage, WriteNote, Visible, Live
<1>3. CASE SendStaffMessage(a, c, key)
    <2>1. "waiting_customer" \in Live
        BY DEF Live
    <2>2. Appends(c, message(FALSE)) /\ awaiting' \subseteq awaiting \cup {c}
        BY <1>3 DEF SendStaffMessage
    <2>3. status' = [status EXCEPT ![c] = "waiting_customer"]
        BY <1>3 DEF SendStaffMessage
    <2>4. accepted' = accepted \/ (owner[c] # Nobody /\ accepted' = accepted \cup {c})
        BY <1>3, ChatAssumption DEF SendStaffMessage
    <2> HIDE DEF message
    <2> QED  BY <1>1, <1>2, <2>1, <2>2, <2>3, <2>4, AppendKeeps
<1>4. CASE WriteNote(a, c, key)
    <2>1. Appends(c, message(TRUE)) /\ awaiting' \subseteq awaiting \cup {c}
          /\ accepted' = accepted
        BY <1>4 DEF WriteNote
    <2>2. status' = [status EXCEPT ![c] = status[c]]
        BY <1>4 DEF WriteNote, DeskInv, DeskTypeOK
    <2> HIDE DEF message
    <2> QED  BY <1>1, <1>2, <2>1, <2>2, AppendKeeps
<1> QED  BY <1>3, <1>4

\* A request that changes nothing but the row of its chat, which it outdates.
LEMMA RowKeeps ==
    ASSUME DeskInv, NEW c \in Conversations, Outdates({c}), UNCHANGED <<log, read, help, available>>,
           status[c] \in Live,
           NEW to \in Live, status' = [status EXCEPT ![c] = to],
           NEW who \in Agents \cup {Nobody}, owner' = [owner EXCEPT ![c] = who],
           accepted' \subseteq accepted \cup {c}, c \in accepted' => who # Nobody,
           napOver' \subseteq napOver, awaiting' \subseteq awaiting,
           NEW time \in {"none", "running", "past"}, deadline' = [deadline EXCEPT ![c] = time],
           NEW call \in {"none", "requested", "completed"}, followup' = [followup EXCEPT ![c] = call]
    PROVE  DeskInv'
<1> USE DEF DeskInv
<1>1. DeskTypeOK'
    <2>1. screens' \subseteq screens
        BY DEF Outdates
    <2>2. status' \in [Conversations -> States] /\ owner' \in [Conversations -> Agents \cup {Nobody}]
        BY DEF DeskTypeOK, States, Live
    <2>3. accepted' \subseteq {d \in Conversations : status'[d] = "deleted" \/ owner'[d] # Nobody}
        BY DEF DeskTypeOK
    <2> QED  BY <2>1, <2>2, <2>3 DEF DeskTypeOK
<1>2. ScreensShow'
    <2>1. \A s \in screens' : s \in screens /\ s[2] # c /\ s[2] \in Conversations
        BY DEF Outdates, DeskTypeOK
    <2> QED  BY <2>1 DEF ScreensShow, DeskTypeOK
<1>3. CallbackSurvives' /\ (log = [d \in Conversations |-> log[d]])'
    BY DEF CallbackSurvives, DeskTypeOK, Live
<1> QED  BY <1>1, <1>2, <1>3

LEMMA WorkflowKeeps ==
    ASSUME DeskInv, NEW a \in Agents, NEW c \in Conversations, Workflow(a, c)
    PROVE  DeskInv'
<1> DEFINE now == status[c]  who == owner[c]  time == deadline[c]  call == followup[c]
<1>1. /\ who \in Agents \cup {Nobody} /\ time \in {"none", "running", "past"}
      /\ call \in {"none", "requested", "completed"}
      /\ owner = [owner EXCEPT ![c] = who] /\ deadline = [deadline EXCEPT ![c] = time]
      /\ followup = [followup EXCEPT ![c] = call]
    BY DEF DeskInv, DeskTypeOK
<1>2. /\ MayWork(a, c) /\ status[c] \in Live /\ Outdates({c})
      /\ UNCHANGED <<log, read, help, available>> /\ followup' = followup
      /\ napOver' \subseteq napOver /\ awaiting' \subseteq awaiting
    BY DEF Workflow, Claim, Claims, Release, Resolve, Spam, Reopen, Snooze, MayWork, Visible, Worked
<1>3. c \in accepted => who # Nobody
    BY <1>2 DEF DeskInv, DeskTypeOK, Live
<1>4. CASE Claim(a, c)
    <2>1. /\ status' = [status EXCEPT ![c] = "open"] /\ owner' = [owner EXCEPT ![c] = a]
          /\ deadline' = [deadline EXCEPT ![c] = "running"] /\ accepted' \subseteq accepted \cup {c}
        BY <1>4 DEF Claim, Claims, Worked
    <2>2. a # Nobody /\ "open" \in Live
        BY ChatAssumption DEF Live
    <2> HIDE DEF call
    <2> QED  BY <1>1, <1>2, <2>1, <2>2, RowKeeps
<1>5. CASE Release(a, c)
    <2>1. /\ status' = [status EXCEPT ![c] = "queued"] /\ owner' = [owner EXCEPT ![c] = Nobody]
          /\ deadline' = [deadline EXCEPT ![c] = "running"] /\ accepted' = accepted \ {c}
        BY <1>5 DEF Release, Worked
    <2>2. "queued" \in Live
        BY DEF Live
    <2> HIDE DEF call
    <2> QED  BY <1>1, <1>2, <2>1, <2>2, RowKeeps
<1>6. CASE Resolve(a, c) \/ Spam(a, c) \/ Reopen(a, c) \/ Snooze(a, c)
    <2>1. PICK to \in Live : status' = [status EXCEPT ![c] = to]
        BY <1>6 DEF Resolve, Spam, Reopen, Snooze, Worked, Live
    <2>2. UNCHANGED <<owner, accepted, deadline>>
        BY <1>6 DEF Resolve, Spam, Reopen, Snooze
    <2> HIDE DEF who, time, call
    <2> QED  BY <1>1, <1>2, <1>3, <2>1, <2>2, RowKeeps
<1> QED  BY <1>4, <1>5, <1>6 DEF Workflow

LEMMA TransferKeeps ==
    ASSUME DeskInv, NEW a \in Agents, NEW c \in Conversations, NEW b \in Agents, Transfer(a, c, b)
    PROVE  DeskInv'
<1> DEFINE call == followup[c]
<1>1. /\ call \in {"none", "requested", "completed"} /\ followup = [followup EXCEPT ![c] = call]
    BY DEF DeskInv, DeskTypeOK
<1>2. /\ status[c] \in Live /\ "open" \in Live /\ b # Nobody
      /\ status' = [status EXCEPT ![c] = "open"] /\ owner' = [owner EXCEPT ![c] = b]
      /\ deadline' = [deadline EXCEPT ![c] = "running"] /\ accepted' \subseteq accepted
      /\ UNCHANGED <<napOver, awaiting, followup, log, read, help, available>> /\ Outdates({c})
    BY ChatAssumption DEF Transfer, Visible, Live
<1> HIDE DEF call
<1> QED  BY <1>1, <1>2, RowKeeps

\* Requests that leave the chats' states and messages alone.
LEMMA AsideKeeps ==
    ASSUME DeskInv, UNCHANGED <<status, log>>, DeskTypeOK',
           \A c \in Conversations : followup'[c] = "requested" => followup[c] = "requested",
           \A s \in screens' : s \in screens \/ (status[s[2]] \in Live /\ s[3] = Len(log[s[2]]))
    PROVE  DeskInv'
    BY DEF DeskInv, ScreensShow, CallbackSurvives, Live

LEMMA StaffKeeps ==
    ASSUME DeskInv, NEW a \in Agents, NEW c \in Conversations, Staff(a, c)
    PROVE  DeskInv'
<1>1. CASE Load(a, c)
    <2>1. Len(log[c]) \in Nat
        BY DEF DeskInv, DeskTypeOK
    <2>2. DeskTypeOK'
        BY <1>1, <2>1 DEF Load, DeskInv, DeskTypeOK, rowVars
    <2> QED  BY <1>1, <2>2, AsideKeeps DEF Load, rowVars, Visible
<1>2. CASE AcceptAssignment(a, c)
    <2>1. a # Nobody /\ owner[c] = a
        BY <1>2, ChatAssumption DEF AcceptAssignment
    <2>2. DeskTypeOK'
        BY <1>2, <2>1 DEF AcceptAssignment, DeskInv, DeskTypeOK, Outdates
    <2> QED  BY <1>2, <2>2, AsideKeeps DEF AcceptAssignment, Outdates
<1>3. CASE CompleteFollowup(a, c)
    <2>1. DeskTypeOK'
        BY <1>3 DEF CompleteFollowup, DeskInv, DeskTypeOK, Outdates
    <2> QED  BY <1>3, <2>1, AsideKeeps DEF CompleteFollowup, Outdates, DeskInv, DeskTypeOK
<1>4. ASSUME NEW key \in Keys, SendStaffMessage(a, c, key) \/ WriteNote(a, c, key) PROVE DeskInv'
    BY <1>4, WritesKeep
<1>5. ASSUME NEW b \in Agents, Transfer(a, c, b) PROVE DeskInv'
    BY <1>5, TransferKeeps
<1> QED  BY <1>1, <1>2, <1>3, <1>4, <1>5, WorkflowKeeps DEF Staff

LEMMA ReadKeeps ==
    ASSUME DeskInv, NEW c \in Conversations, NEW side \in Sides, NEW upTo \in 1 .. Len(log[c]),
           Read(c, side, upTo)
    PROVE  DeskInv'
<1> DEFINE seen == {read[c][side]} \cup {i \in Public(c) : i <= upTo}
<1>1. read[c][side] \in Nat /\ Len(log[c]) \in Nat
    BY DEF DeskInv, DeskTypeOK
<1>2. seen \subseteq Nat
    BY <1>1 DEF Public
<1>3. \A i \in seen : i <= read[c][side] + Len(log[c])
    BY <1>1 DEF Public
<1>4. LastOf(seen) \in Nat
    <2> DEFINE n == read[c][side] + Len(log[c])
    <2>1. n \in Nat /\ \A i \in seen : i <= n
        BY <1>1, <1>3
    <2> HIDE DEF seen, n
    <2> QED  BY <1>2, <2>1, LastIsNumber
<1>5. read' = [read EXCEPT ![c][side] = LastOf(seen)]
    BY DEF Read
<1>6. read' \in [Conversations -> [Sides -> Nat]]
    <2> HIDE DEF seen
    <2> QED  BY <1>4, <1>5 DEF DeskInv, DeskTypeOK
<1>7. UNCHANGED <<rowVars, log, help, available, screens>>
    BY DEF Read
<1>8. DeskTypeOK'
    BY <1>6, <1>7 DEF DeskInv, DeskTypeOK, rowVars
<1> QED  BY <1>7, <1>8, AsideKeeps DEF rowVars

LEMMA OthersKeep ==
    ASSUME DeskInv,
           \/ \E a \in Agents : Availability(a)
           \/ \E h \in Requests : Help(h)
           \/ Time
           \/ UNCHANGED deskVars
    PROVE  DeskInv'
<1>1. CASE \E a \in Agents : Availability(a)
    <2>1. DeskTypeOK'
        BY <1>1 DEF Availability, DeskInv, DeskTypeOK, rowVars
    <2> QED  BY <1>1, <2>1, AsideKeeps DEF Availability, rowVars
<1>2. ASSUME NEW h \in Requests, Help(h) PROVE DeskInv'
    <2>1. PICK to \in {"requested", "accepted", "finished", "cancelled"} : HelpGoes(h, to)
        BY <1>2 DEF Help, AskHelp, AcceptHelp, FinishHelp, CancelHelp
    <2>2. DeskTypeOK'
        BY <2>1 DEF HelpGoes, DeskInv, DeskTypeOK, rowVars
    <2> QED  BY <2>1, <2>2, AsideKeeps DEF HelpGoes, rowVars
<1>3. CASE Time
    <2>1. DeskTypeOK'
        BY <1>3 DEF Time, MissDeadline, EndNap, DeskInv, DeskTypeOK
    <2> QED  BY <1>3, <2>1, AsideKeeps DEF Time, MissDeadline, EndNap
<1>4. CASE UNCHANGED deskVars
    <2>1. DeskTypeOK'
        BY <1>4 DEF deskVars, DeskInv, DeskTypeOK, rowVars
    <2> QED  BY <1>4, <2>1, AsideKeeps DEF deskVars, rowVars
<1> QED  BY <1>1, <1>2, <1>3, <1>4

LEMMA RetentionKeeps ==
    ASSUME DeskInv, NEW cs \in SUBSET Conversations, Retention(cs)
    PROVE  DeskInv'
<1> USE DEF DeskInv
<1>1. screens' \subseteq screens /\ \A s \in screens' : s[2] \notin cs
    BY DEF Retention, Outdates
<1>2. DeskTypeOK'
    BY <1>1 DEF Retention, DeskTypeOK, States
<1>3. ScreensShow'
    BY <1>1 DEF Retention, ScreensShow, DeskTypeOK
<1>4. CallbackSurvives' /\ (log = [d \in Conversations |-> log[d]])'
    BY DEF Retention, Eligible, CallbackSurvives
<1> QED  BY <1>2, <1>3, <1>4

\* What maintenance does where it assigns the waiting chats as to says.
Assigns(to) ==
    LET cs == {c \in Waiting : to[c] # Nobody}
    IN  /\ AutoAssign => Routes(to)
        /\ AutoAssign \/ cs = {}
        /\ owner' = [c \in Conversations |-> IF c \in cs THEN to[c] ELSE OwnerLeft(c)]
        /\ status' = [c \in Conversations |-> IF c \in cs THEN "open" ELSE StatusLeft(c)]
        /\ accepted' = accepted \ cs
        /\ deadline' = [c \in Conversations |->
                           IF c \in cs THEN "running"
                           ELSE IF c \in Expired THEN "none" ELSE deadline[c]]
        /\ napOver' = napOver \ Woken
        /\ Outdates(cs \cup Expired \cup Woken)
        /\ UNCHANGED <<awaiting, followup, log, read, help, available>>

LEMMA RouterAssigns ==
    ASSUME Maintenance
    PROVE  \E to \in [Waiting -> Agents \cup {Nobody}] : Assigns(to)
<1>1. PICK to \in IF AutoAssign THEN [Waiting -> Agents \cup {Nobody}]
                                ELSE {[c \in Waiting |-> Nobody]} :
        LET cs == {c \in Waiting : to[c] # Nobody}
        IN  /\ AutoAssign => Routes(to)
            /\ owner' = [c \in Conversations |-> IF c \in cs THEN to[c] ELSE OwnerLeft(c)]
            /\ status' = [c \in Conversations |-> IF c \in cs THEN "open" ELSE StatusLeft(c)]
            /\ accepted' = accepted \ cs
            /\ deadline' = [c \in Conversations |->
                               IF c \in cs THEN "running"
                               ELSE IF c \in Expired THEN "none" ELSE deadline[c]]
            /\ napOver' = napOver \ Woken
            /\ Outdates(cs \cup Expired \cup Woken)
            /\ UNCHANGED <<awaiting, followup, log, read, help, available>>
    BY Zenon DEF Maintenance
<1>2. to \in [Waiting -> Agents \cup {Nobody}] /\ (AutoAssign \/ \A c \in Waiting : to[c] = Nobody)
    BY <1>1
<1>3. Assigns(to)
    BY <1>1, <1>2, Zenon DEF Assigns
<1> QED  BY <1>2, <1>3

LEMMA MaintenanceKeeps == ASSUME DeskInv, Maintenance PROVE DeskInv'
<1> USE DEF DeskInv
<1>1. PICK to \in [Waiting -> Agents \cup {Nobody}] : Assigns(to)
    BY RouterAssigns
<1> DEFINE cs == {c \in Waiting : to[c] # Nobody}
<1>2. \A c \in cs : c \in Conversations /\ to[c] \in Agents
    BY DEF Waiting
<1>3. \A c \in Conversations : OwnerLeft(c) \in Agents \cup {Nobody} /\ StatusLeft(c) \in States
    BY DEF OwnerLeft, StatusLeft, DeskTypeOK, States
<1>4. screens' \subseteq screens
    BY <1>1 DEF Assigns, Outdates
<1>5. \A c \in Conversations \ cs :
          /\ status'[c] = StatusLeft(c) /\ owner'[c] = OwnerLeft(c)
          /\ status[c] \in {"none", "deleted"} <=> StatusLeft(c) \in {"none", "deleted"}
          /\ StatusLeft(c) \in {"none", "deleted"} => StatusLeft(c) = status[c]
    BY <1>1 DEF Assigns, StatusLeft, Expired, Woken
<1>6. \A c \in cs : status'[c] = "open" /\ owner'[c] = to[c]
    BY <1>1, <1>2 DEF Assigns
<1>7. accepted' \subseteq {c \in Conversations : status'[c] = "deleted" \/ owner'[c] # Nobody}
    <2> SUFFICES ASSUME NEW c \in accepted' PROVE c \in Conversations /\ (status'[c] = "deleted" \/ owner'[c] # Nobody)
        OBVIOUS
    <2>1. c \in accepted /\ c \in Conversations /\ c \notin cs /\ c \notin Expired
        BY <1>1 DEF Assigns, DeskTypeOK, Expired
    <2> QED  BY <2>1, <1>5 DEF OwnerLeft, StatusLeft, Expired, Woken, DeskTypeOK
<1>8. DeskTypeOK'
    <2>1. owner' \in [Conversations -> Agents \cup {Nobody}]
        BY <1>1, <1>2, <1>3 DEF Assigns
    <2>2. status' \in [Conversations -> States]
        BY <1>1, <1>3 DEF Assigns, States
    <2>3. deadline' \in [Conversations -> {"none", "running", "past"}]
        BY <1>1 DEF Assigns, DeskTypeOK
    <2> QED  BY <1>1, <1>4, <1>7, <2>1, <2>2, <2>3 DEF Assigns, DeskTypeOK
<1>9. ScreensShow'
    <2> SUFFICES ASSUME NEW s \in screens' PROVE status'[s[2]] # "none" /\ s[3] = Len(log'[s[2]])
        BY DEF ScreensShow
    <2>1. s \in screens /\ s[2] \in Conversations /\ status[s[2]] # "none" /\ s[3] = Len(log[s[2]])
        BY <1>4 DEF ScreensShow, DeskTypeOK
    <2> QED  BY <2>1, <1>1, <1>5, <1>6 DEF Assigns
<1>10. CallbackSurvives'
    BY <1>1, <1>5, <1>6 DEF Assigns, CallbackSurvives
<1> QED  BY <1>1, <1>8, <1>9, <1>10 DEF Assigns

LEMMA DeskInvStep == DeskInv /\ [DeskNext]_deskVars => DeskInv'
    BY VisitorKeeps, StaffKeeps, ReadKeeps, OthersKeep, MaintenanceKeeps, RetentionKeeps DEF DeskNext

LEMMA DeskInvHolds == DeskSpec => []DeskInv
    BY DeskInvInit, DeskInvStep, PTL DEF DeskSpec

\* Every variable of the conversations keeps its type; in particular only an
\* assigned chat, or a deleted one, is accepted.
THEOREM DeskTyped == DeskSpec => []DeskTypeOK
<1>1. DeskInv => DeskTypeOK
    BY DEF DeskInv
<1> QED  BY <1>1, DeskInvHolds, PTL

\* A visitor's callback is not deleted before somebody has made it, whatever
\* the visitor, the staff and the clean-up do in whatever order
\* (ChatService.retention).
THEOREM CallbackSurvivesHolds == DeskSpec => []CallbackSurvives
<1>1. DeskInv => CallbackSurvives
    BY DEF DeskInv
<1> QED  BY <1>1, DeskInvHolds, PTL

\* Who resolves a chat or calls it spam has every message of it on his screen:
\* the version that workflow compares is outdated by every append
\* (ChatService.workflow).
THEOREM NothingIsBuriedHolds == DeskSpec => NothingIsBuried
<1>1. ASSUME DeskInv, NEW a \in Agents, NEW c \in Conversations, Resolve(a, c) \/ Spam(a, c)
      PROVE  <<a, c, Len(log[c])>> \in screens
    <2>1. PICK s \in screens : s[1] = a /\ s[2] = c
        BY <1>1 DEF Resolve, Spam, MayWork, Loaded
    <2>2. s = <<a, c, Len(log[c])>>
        BY <1>1, <2>1 DEF DeskInv, DeskTypeOK, ScreensShow
    <2> QED  BY <2>1, <2>2
<1>2. DeskInv => \A a \in Agents, c \in Conversations :
                    Resolve(a, c) \/ Spam(a, c) => <<a, c, Len(log[c])>> \in screens
    BY <1>1
<1> QED  BY <1>2, DeskInvHolds, PTL DEF DeskSpec, NothingIsBuried

-----------------------------------------------------------------------------
(* Capacity.                                                               *)

\* The chats an agent has to work on.
OnDesk(a) == {c \in Conversations : owner[c] = a /\ status[c] \in Busy}

NewlyOf(a, c) == owner'[c] = a /\ owner[c] # a

LEMMA DeskGrowsByOne ==
    ASSUME NEW a \in Agents, NEW c \in Conversations, OnDesk(a)' \subseteq OnDesk(a) \cup {c},
           Workload(a) < Capacity[a]
    PROVE  Cardinality(OnDesk(a)') <= Capacity[a]
<1>1. IsFiniteSet(OnDesk(a)) /\ Cardinality(OnDesk(a)) \in Nat
    BY ChatAssumption, FS_Subset, FS_CardinalityType DEF OnDesk
<1> DEFINE old == OnDesk(a)
           new == OnDesk(a) \cup {c}
<1>2. IsFiniteSet(new) /\ Cardinality(new) <= Cardinality(old) + 1
    <2>1. new = old \cup {c}
        OBVIOUS
    <2> HIDE DEF old, new
    <2>2. IsFiniteSet(old) /\ Cardinality(old) \in Nat
        BY <1>1 DEF old
    <2>3. IsFiniteSet(new) /\ Cardinality(new) = IF c \in old THEN Cardinality(old) ELSE Cardinality(old) + 1
        BY <2>1, <2>2, FS_AddElement
    <2> QED  BY <2>2, <2>3
<1>3. Cardinality(OnDesk(a)') <= Cardinality(OnDesk(a) \cup {c}) /\ Cardinality(OnDesk(a)') \in Nat
    BY <1>2, FS_Subset, FS_CardinalityType
<1>4. Cardinality(OnDesk(a) \cup {c}) \in Nat /\ Capacity[a] \in Nat /\ Workload(a) = Cardinality(OnDesk(a))
    BY <1>2, FS_CardinalityType, ChatAssumption DEF Workload, OnDesk
<1> QED  BY <1>1, <1>2, <1>3, <1>4

LEMMA ClaimFits ==
    ASSUME DeskInv, NEW b \in Agents, NEW c \in Conversations, Claim(b, c),
           NEW a \in Agents, NEW d \in Conversations, NewlyOf(a, d)
    PROVE  Cardinality(OnDesk(a)') <= Capacity[a]
<1>1. owner' = [owner EXCEPT ![c] = b] /\ status' = [status EXCEPT ![c] = "open"]
    BY DEF Claim, Claims, Worked
<1>2. d = c /\ a = b /\ Workload(a) < Capacity[a]
    BY <1>1 DEF NewlyOf, Claim, Claims, DeskInv, DeskTypeOK
<1>3. OnDesk(a)' \subseteq OnDesk(a) \cup {c}
    BY <1>1 DEF OnDesk, DeskInv, DeskTypeOK
<1> QED  BY <1>2, <1>3, DeskGrowsByOne

LEMMA TransferFits ==
    ASSUME DeskInv, NEW g \in Agents, NEW c \in Conversations, NEW b \in Agents, Transfer(g, c, b),
           NEW a \in Agents, NEW d \in Conversations, NewlyOf(a, d)
    PROVE  Cardinality(OnDesk(a)') <= Capacity[a]
<1>1. owner' = [owner EXCEPT ![c] = b] /\ status' = [status EXCEPT ![c] = "open"]
    BY DEF Transfer
<1>2. d = c /\ a = b /\ Workload(a) < Capacity[a]
    BY <1>1 DEF NewlyOf, Transfer, DeskInv, DeskTypeOK
<1>3. OnDesk(a)' \subseteq OnDesk(a) \cup {c}
    BY <1>1 DEF OnDesk, DeskInv, DeskTypeOK
<1> QED  BY <1>2, <1>3, DeskGrowsByOne

\* The router counts each chat it gives out once: those an agent keeps, and
\* those he gets.
LEMMA MaintenanceFits ==
    ASSUME DeskInv, Maintenance, NEW a \in Agents, NEW d \in Conversations, NewlyOf(a, d)
    PROVE  Cardinality(OnDesk(a)') <= Capacity[a]
<1>1. PICK to \in [Waiting -> Agents \cup {Nobody}] : Assigns(to)
    BY RouterAssigns
<1> DEFINE cs == {c \in Waiting : to[c] # Nobody}
           kept == {c \in Conversations : OwnerLeft(c) = a /\ StatusLeft(c) \in Busy}
           given == {c \in cs : to[c] = a}
<1>2. owner' = [c \in Conversations |-> IF c \in cs THEN to[c] ELSE OwnerLeft(c)]
    BY <1>1 DEF Assigns
<1>3. status' = [c \in Conversations |-> IF c \in cs THEN "open" ELSE StatusLeft(c)]
    BY <1>1 DEF Assigns
<1>4. d \in cs /\ to[d] = a
    BY <1>2, ChatAssumption DEF NewlyOf, OwnerLeft
<1>5. LoadAfter(a, cs, to) <= Capacity[a]
    <2>1. Routes(to)
        BY <1>1, <1>4 DEF Assigns
    <2> QED  BY <2>1, <1>4 DEF Routes
<1>6. LoadAfter(a, cs, to) = Cardinality(kept) + Cardinality(given)
    BY DEF LoadAfter
<1>7. OnDesk(a)' \subseteq kept \cup given
    BY <1>2, <1>3 DEF OnDesk
<1>8. kept \subseteq Conversations /\ given \subseteq Conversations
    BY DEF Waiting
<1> HIDE DEF cs, kept, given
<1>9. IsFiniteSet(kept) /\ IsFiniteSet(given)
    BY <1>8, ChatAssumption, FS_Subset
<1>10. /\ IsFiniteSet(kept \cup given)
       /\ Cardinality(kept \cup given) =
              Cardinality(kept) + Cardinality(given) - Cardinality(kept \cap given)
    BY <1>9, FS_Union
<1>11. IsFiniteSet(kept \cap given)
    BY <1>9, FS_Intersection
<1>12. Cardinality(OnDesk(a)') <= Cardinality(kept \cup given) /\ IsFiniteSet(OnDesk(a)')
    BY <1>7, <1>10, FS_Subset
<1>13. /\ Cardinality(kept) \in Nat /\ Cardinality(given) \in Nat
       /\ Cardinality(kept \cap given) \in Nat /\ Cardinality(OnDesk(a)') \in Nat
       /\ Capacity[a] \in Nat
    BY <1>9, <1>11, <1>12, FS_CardinalityType, ChatAssumption
<1> QED  BY <1>5, <1>6, <1>10, <1>12, <1>13

\* Nothing else gives a chat to an agent.
LEMMA OthersGiveNothing ==
    ASSUME DeskInv, [DeskNext]_deskVars, NEW a \in Agents, NEW d \in Conversations, NewlyOf(a, d)
    PROVE  \/ Maintenance
           \/ \E b \in Agents, c \in Conversations : Claim(b, c)
           \/ \E g \in Agents, c \in Conversations, b \in Agents : Transfer(g, c, b)
<1> SUFFICES ASSUME ~Maintenance, \A b \in Agents, c \in Conversations : ~Claim(b, c),
                    \A g \in Agents, c \in Conversations, b \in Agents : ~Transfer(g, c, b)
             PROVE  \A c \in Conversations : owner'[c] \in {owner[c], Nobody}
    BY ChatAssumption DEF NewlyOf
<1>1. ASSUME NEW c \in Conversations, Visitor(c) PROVE owner' = owner
    BY <1>1 DEF Visitor, Start, SendVisitorMessage, VisitorSays, Appends, VisitorFollowup,
                EndVisitorChat
<1>2. ASSUME NEW g \in Agents, NEW c \in Conversations, Staff(g, c), ~Release(g, c) PROVE owner' = owner
    BY <1>2 DEF Staff, Workflow, SendStaffMessage, WriteNote, Appends, Load, rowVars, Resolve,
                Spam, Reopen, Snooze, AcceptAssignment, CompleteFollowup
<1>3. ASSUME NEW g \in Agents, NEW c \in Conversations, Release(g, c)
      PROVE  \A e \in Conversations : owner'[e] \in {owner[e], Nobody}
    BY <1>3 DEF Release, DeskInv, DeskTypeOK
<1>4. ASSUME NEW cs \in SUBSET Conversations, Retention(cs)
      PROVE  \A e \in Conversations : owner'[e] \in {owner[e], Nobody}
    BY <1>4 DEF Retention
<1>5. ASSUME \/ \E c \in Conversations, side \in Sides : \E upTo \in 1 .. Len(log[c]) : Read(c, side, upTo)
             \/ \E g \in Agents : Availability(g)
             \/ \E h \in Requests : Help(h)
             \/ Time
             \/ UNCHANGED deskVars
      PROVE  owner' = owner
    BY <1>5 DEF Read, Availability, Help, AskHelp, AcceptHelp, FinishHelp, CancelHelp, HelpGoes,
                Time, MissDeadline, EndNap, rowVars, deskVars
<1> QED  BY <1>1, <1>2, <1>3, <1>4, <1>5 DEF DeskNext

\* No step gives an agent a chat beyond his capacity, counted as the step leaves
\* the rows: not a claim, not a colleague's transfer, and not the router, which
\* may wake, take back and give out many chats at once (ChatService.workflow,
\* transferConversation, maintenance).
THEOREM AssignmentHolds == DeskSpec => AssignmentRespectsCapacity
<1>1. ASSUME DeskInv, [DeskNext]_deskVars, NEW a \in Agents,
             \E c \in Conversations : owner'[c] = a /\ owner[c] # a
      PROVE  Cardinality({c \in Conversations : owner'[c] = a /\ status'[c] \in Busy}) <= Capacity[a]
    <2>1. PICK d \in Conversations : NewlyOf(a, d)
        BY <1>1 DEF NewlyOf
    <2>2. Cardinality(OnDesk(a)') <= Capacity[a]
        BY <1>1, <2>1, OthersGiveNothing, ClaimFits, TransferFits, MaintenanceFits
    <2> QED  BY <2>2 DEF OnDesk
<1>2. DeskInv /\ [DeskNext]_deskVars =>
          \A a \in Agents :
              (\E c \in Conversations : owner'[c] = a /\ owner[c] # a) =>
                  Cardinality({c \in Conversations : owner'[c] = a /\ status'[c] \in Busy})
                      <= Capacity[a]
    BY <1>1
<1> QED  BY <1>2, DeskInvHolds, PTL DEF DeskSpec, AssignmentRespectsCapacity

=============================================================================
