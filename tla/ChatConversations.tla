-------------------------- MODULE ChatConversations --------------------------
(***************************************************************************)
(* Conversations between visitors and staff: chat.service.ts.              *)
(*                                                                         *)
(* Every handler is one transaction that locks the conversation's row      *)
(* before it reads it, and every handler that counts an agent's chats      *)
(* holds the advisory lock of the business until it commits.  So a handler *)
(* is one action.  What is left to race are the screens: an agent decides  *)
(* on a version that he loaded some time ago.                              *)
(***************************************************************************)
EXTENDS Integers, Sequences, FiniteSets

CONSTANTS
    Conversations, Agents, Keys,
    Capacity,     \* chats an agent may have at a time
    Managers,     \* the agents with chat.manage
    ViewTeam,     \* the agents with chat.view_team
    SharedInbox,  \* setting: whoever accepts a chat answers it
    AutoAssign,   \* setting: maintenance assigns what waits
    MaxMessages,  \* bound: messages of all conversations
    Helpers,      \* the agents who are asked for help
    Callbacks,    \* the chats whose visitor may ask to be called back
    Sides,        \* who acknowledges messages: "visitor", "staff"
    Nobody

ASSUME ChatAssumption ==
    /\ IsFiniteSet(Conversations) /\ Capacity \in [Agents -> Nat]
    /\ Managers \subseteq Agents /\ ViewTeam \subseteq Agents
    /\ SharedInbox \in BOOLEAN /\ AutoAssign \in BOOLEAN
    /\ MaxMessages \in Nat
    /\ Helpers \subseteq Agents /\ Callbacks \subseteq Conversations
    /\ Sides \subseteq {"visitor", "staff"}
    /\ Nobody \notin Agents /\ "visitor" \notin Agents

VARIABLES
    status,     \* chat_conversations.status
    owner,      \* assignedMembershipId
    accepted,   \* acceptedAt is set
    deadline,   \* assignedAt: none, within the acceptance minutes, or past
    napOver,    \* snoozedUntil has passed
    awaiting,   \* awaitingSince is set
    log,        \* the messages of a conversation, by sequence
    read,       \* visitorReadSequence and staffReadSequence
    followup,   \* the callback a visitor asked for
    help,       \* chat_help_requests: the state of a request
    available,  \* agents that are available, their heartbeat in time
    screens     \* who has a chat's latest version on his screen, showing how
                \* many messages

rowVars == <<status, owner, accepted, deadline, napOver, awaiting, followup>>
deskVars == <<rowVars, log, read, help, available, screens>>

States == {"none", "queued", "open", "waiting_customer", "snoozed", "resolved",
           "spam", "deleted"}
Live  == {"queued", "open", "waiting_customer", "snoozed", "resolved", "spam"}
Busy  == {"queued", "open", "waiting_customer"}

Senders == Agents \cup {"visitor"}
Messages == [from : Senders, private : BOOLEAN, key : Keys]

\* A request for help names its chat, the agent who asks and the one asked.
Requests == {<<c, a, b>> : c \in Conversations, a \in Agents, b \in Helpers}

DeskTypeOK ==
    /\ status \in [Conversations -> States]
    /\ owner \in [Conversations -> Agents \cup {Nobody}]
    /\ accepted \subseteq {c \in Conversations : status[c] = "deleted" \/ owner[c] # Nobody}
    /\ napOver \subseteq Conversations
    /\ awaiting \subseteq Conversations
    /\ deadline \in [Conversations -> {"none", "running", "past"}]
    /\ \A c \in Conversations : log[c] \in Seq(Messages)
    /\ read \in [Conversations -> [Sides -> Nat]]
    /\ followup \in [Conversations -> {"none", "requested", "completed"}]
    /\ help \in [Requests -> {"none", "requested", "accepted", "finished", "cancelled"}]
    /\ available \subseteq Agents
    /\ screens \subseteq Agents \X Conversations \X Nat

Workload(a) == Cardinality({c \in Conversations : owner[c] = a /\ status[c] \in Busy})
HasRoom(a) == a \in available /\ Workload(a) < Capacity[a]

\* What an agent may see: his own chats, all of them for the team's eyes, and
\* those that wait in a shared inbox.
Visible(a, c) ==
    /\ status[c] \in Live
    /\ \/ a \in ViewTeam \/ owner[c] = a
       \/ SharedInbox /\ owner[c] = Nobody /\ status[c] \in {"queued", "open"}

\* A write that raises the version: every screen is out of date.
Outdates(cs) == screens' = {s \in screens : s[2] \notin cs}

Loaded(a, c) == \E s \in screens : s[1] = a /\ s[2] = c

-----------------------------------------------------------------------------
(* Messages.                                                               *)

\* An append that finds its message already there writes nothing.
New(c, from, key) == \A i \in 1 .. Len(log[c]) : log[c][i].from # from \/ log[c][i].key # key

Written == UNION {{c} \X DOMAIN log[c] : c \in Conversations}

Appends(c, message) ==
    /\ New(c, message.from, message.key)
    /\ Cardinality(Written) < MaxMessages
    /\ log' = [log EXCEPT ![c] = Append(@, message)]
    /\ UNCHANGED <<owner, deadline, napOver, read, followup, help, available>>

VisitorSays(c, key) ==
    /\ Appends(c, [from |-> "visitor", private |-> FALSE, key |-> key])
    /\ status' = [status EXCEPT ![c] = IF @ \in {"none", "queued"} THEN "queued"
                                                                  ELSE "open"]
    /\ awaiting' = awaiting \cup {c}
    /\ UNCHANGED accepted

\* POST visitor/conversations.  A retry finds the conversation and its
\* first message.
Start(c, key) ==
    /\ status[c] = "none"
    /\ VisitorSays(c, key)
    /\ UNCHANGED screens

\* Slip: the message leaves the version as it is.
SendVisitorSilently(c, key) ==
    /\ status[c] \in Live \ {"spam"}
    /\ VisitorSays(c, key)
    /\ UNCHANGED screens

\* POST visitor/conversations/:id/messages.
SendVisitorMessage(c, key) ==
    /\ status[c] \in Live \ {"spam"}
    /\ VisitorSays(c, key)
    /\ Outdates({c})

\* POST conversations/:id/messages; in a shared inbox the owner replies.
SendStaffMessage(a, c, key) ==
    /\ Visible(a, c) /\ status[c] # "spam"
    /\ SharedInbox => owner[c] = a
    /\ Appends(c, [from |-> a, private |-> FALSE, key |-> key])
    /\ status' = [status EXCEPT ![c] = "waiting_customer"]
    /\ awaiting' = awaiting \ {c}
    /\ accepted' = IF owner[c] = a THEN accepted \cup {c} ELSE accepted
    /\ Outdates({c})

\* POST conversations/:id/notes.
WriteNote(a, c, key) ==
    /\ Visible(a, c) /\ status[c] # "spam"
    /\ Appends(c, [from |-> a, private |-> TRUE, key |-> key])
    /\ Outdates({c})
    /\ UNCHANGED <<status, awaiting, accepted>>

Public(c) == {i \in 1 .. Len(log[c]) : ~log[c][i].private}

LastOf(S) == IF S = {} THEN 0 ELSE CHOOSE i \in S : \A j \in S : j <= i

\* activity: the last public message up to the one acknowledged, and never
\* back.
Read(c, side, upTo) ==
    /\ status[c] \in Live
    /\ read' = [read EXCEPT ![c][side] =
                    LastOf({@} \cup {i \in Public(c) : i <= upTo})]
    /\ UNCHANGED <<rowVars, log, help, available, screens>>

-----------------------------------------------------------------------------
(* The visitor's other requests.                                           *)

\* The visitor wants to be called back.
VisitorFollowup(c) ==
    /\ c \in Callbacks
    /\ status[c] \in Live \ {"spam"}
    /\ status' = [status EXCEPT ![c] = "queued"]
    /\ followup' = [followup EXCEPT ![c] = "requested"]
    /\ Outdates({c})
    /\ UNCHANGED <<owner, accepted, deadline, napOver, awaiting, log, read, help,
                   available>>

EndVisitorChat(c) ==
    /\ status[c] \in Live \ {"spam"}
    /\ status' = [status EXCEPT ![c] = "resolved"]
    /\ awaiting' = awaiting \ {c}
    /\ Outdates({c})
    /\ UNCHANGED <<owner, accepted, deadline, napOver, followup, log, read, help,
                   available>>

-----------------------------------------------------------------------------
(* The staff.                                                              *)

\* An agent's screen loads a conversation.
Load(a, c) ==
    /\ Visible(a, c)
    /\ screens' = {s \in screens : s[1] # a \/ s[2] # c} \cup {<<a, c, Len(log[c])>>}
    /\ UNCHANGED <<rowVars, log, read, help, available>>

\* What workflow asks of every action: the version is that of the screen,
\* and a chat of somebody else is for managers.
MayWork(a, c) ==
    /\ Visible(a, c)
    /\ Loaded(a, c)
    /\ owner[c] \in {Nobody, a} \/ a \in Managers

Worked(c, state) ==
    /\ status' = [status EXCEPT ![c] = state]
    /\ napOver' = napOver \ {c}
    /\ Outdates({c})
    /\ UNCHANGED <<followup, log, read, help, available>>

Claims(a, c, room) ==
    /\ MayWork(a, c)
    /\ owner[c] \in {Nobody, a}
    /\ owner[c] = Nobody => room
    /\ owner' = [owner EXCEPT ![c] = a]
    /\ accepted' = accepted \cup {c}
    /\ deadline' = [deadline EXCEPT ![c] = "running"]
    /\ UNCHANGED awaiting
    /\ Worked(c, "open")

\* Slip: only chats that are open count.
ClaimOverOpen(a, c) ==
    Claims(a, c, Cardinality({d \in Conversations : owner[d] = a /\ status[d] = "open"})
                    < Capacity[a])

Claim(a, c) == Claims(a, c, Workload(a) < Capacity[a])

Release(a, c) ==
    /\ MayWork(a, c)
    /\ owner' = [owner EXCEPT ![c] = Nobody]
    /\ accepted' = accepted \ {c}
    /\ deadline' = [deadline EXCEPT ![c] = "running"]
    /\ UNCHANGED awaiting
    /\ Worked(c, "queued")

Resolve(a, c) ==
    /\ MayWork(a, c)
    /\ awaiting' = awaiting \ {c}
    /\ UNCHANGED <<owner, accepted, deadline>>
    /\ Worked(c, "resolved")

Spam(a, c) ==
    /\ MayWork(a, c)
    /\ UNCHANGED <<owner, accepted, deadline, awaiting>>
    /\ Worked(c, "spam")

Reopen(a, c) ==
    /\ MayWork(a, c)
    /\ UNCHANGED <<owner, accepted, deadline, awaiting>>
    /\ Worked(c, IF owner[c] = Nobody THEN "queued" ELSE "open")

Snooze(a, c) ==
    /\ MayWork(a, c)
    /\ UNCHANGED <<owner, accepted, deadline, awaiting>>
    /\ Worked(c, "snoozed")

\* POST conversations/:id/accept.
AcceptAssignment(a, c) ==
    /\ status[c] \in Live /\ owner[c] = a
    /\ accepted' = accepted \cup {c}
    /\ Outdates({c})
    /\ UNCHANGED <<status, owner, deadline, napOver, awaiting, followup, log,
                   read, help, available>>

\* POST conversations/:id/transfer.
Transfer(a, c, b) ==
    /\ Visible(a, c) /\ Loaded(a, c)
    /\ owner[c] = a \/ a \in Managers
    /\ status[c] \in Busy
    /\ b # a /\ b \in available
    /\ Workload(b) < Capacity[b] \/ owner[c] = b
    /\ status' = [status EXCEPT ![c] = "open"]
    /\ owner' = [owner EXCEPT ![c] = b]
    /\ accepted' = accepted \ {c}
    /\ deadline' = [deadline EXCEPT ![c] = "running"]
    /\ Outdates({c})
    /\ UNCHANGED <<napOver, awaiting, followup, log, read, help, available>>

\* POST conversations/:id/followup/complete.
CompleteFollowup(a, c) ==
    /\ Visible(a, c)
    /\ followup[c] # "none"
    /\ followup' = [followup EXCEPT ![c] = "completed"]
    /\ Outdates({c})
    /\ UNCHANGED <<status, owner, accepted, deadline, napOver, awaiting, log,
                   read, help, available>>

Availability(a) ==
    /\ available' \in {available \cup {a}, available \ {a}}
    /\ UNCHANGED <<rowVars, log, read, help, screens>>

-----------------------------------------------------------------------------
(* Asking a colleague.                                                     *)

HelpGoes(h, to) ==
    /\ help' = [help EXCEPT ![h] = to]
    /\ UNCHANGED <<rowVars, log, read, available, screens>>

Owned(h) == owner[h[1]] = h[2] /\ status[h[1]] \in Live \ {"resolved", "spam"}

\* One request row per chat and pair of agents; a finished one makes room
\* for another.
AskHelp(h) ==
    /\ Visible(h[2], h[1]) /\ Owned(h)
    /\ h[3] # h[2] /\ HasRoom(h[3])
    /\ \A g \in Requests : (g[1] = h[1] /\ g[3] = h[3]) => help[g] \notin {"requested", "accepted"}
    /\ HelpGoes(h, "requested")

AcceptHelp(h) == help[h] = "requested" /\ Owned(h) /\ HelpGoes(h, "accepted")
FinishHelp(h) == help[h] = "accepted" /\ Owned(h) /\ HelpGoes(h, "finished")
CancelHelp(h) == help[h] \in {"requested", "accepted"} /\ HelpGoes(h, "cancelled")

-----------------------------------------------------------------------------
(* The maintenance worker, every three seconds.                            *)

\* Assignments that nobody accepted in time.
Expired == {c \in Conversations : /\ status[c] = "open" /\ deadline[c] = "past"
                                  /\ c \notin accepted}
Woken == {c \in Conversations : status[c] = "snoozed" /\ c \in napOver}

OwnerLeft(c)  == IF c \in Expired THEN Nobody ELSE owner[c]
StatusLeft(c) == IF c \in Expired \cup Woken THEN "queued" ELSE status[c]

\* Slip: a chat that was assigned before is not waiting.
WaitingUnassigned == {c \in Conversations : /\ OwnerLeft(c) = Nobody
                                            /\ StatusLeft(c) \in {"queued", "open"}
                                            /\ deadline[c] = "none"}

Waiting == {c \in Conversations : /\ OwnerLeft(c) = Nobody
                                  /\ StatusLeft(c) \in {"queued", "open"}}

\* What an agent has when the waiting chats in cs go where to says.
LoadAfter(a, cs, to) ==
    Cardinality({c \in Conversations : OwnerLeft(c) = a /\ StatusLeft(c) \in Busy})
        + Cardinality({c \in cs : to[c] = a})

\* Chats go to agents who are there and have room, and none keeps waiting
\* while such an agent is left.
Routes(to) ==
    LET cs == {c \in Waiting : to[c] # Nobody}
    IN  /\ \A c \in cs : to[c] \in available
        /\ \A a \in Agents : (\E c \in cs : to[c] = a) => LoadAfter(a, cs, to) <= Capacity[a]
        /\ cs = Waiting \/ \A a \in available : LoadAfter(a, cs, to) >= Capacity[a]

Maintenance ==
    \E to \in IF AutoAssign THEN [Waiting -> Agents \cup {Nobody}]
                            ELSE {[c \in Waiting |-> Nobody]} :
        LET cs == {c \in Waiting : to[c] # Nobody}
        IN  /\ AutoAssign => Routes(to)
            /\ owner' = [c \in Conversations |-> IF c \in cs THEN to[c] ELSE OwnerLeft(c)]
            /\ status' = [c \in Conversations |-> IF c \in cs THEN "open" ELSE StatusLeft(c)]
            /\ accepted' = accepted \ cs
            /\ deadline' = [c \in Conversations |->
                               IF c \in cs THEN "running"
                               ELSE IF c \in Expired THEN "none" ELSE deadline[c]]
            /\ napOver' = napOver \ Woken
            /\ Outdates(cs \cup Expired \cup Woken)
            /\ UNCHANGED <<awaiting, followup, log, read, help, available>>

\* Slip: a callback that nobody made goes with its chat.
EligibleAnyway == {c \in Conversations : status[c] \in {"resolved", "spam"}}

Eligible == {c \in Conversations : status[c] \in {"resolved", "spam"}
                                   /\ followup[c] \in {"none", "completed"}}

\* POST retention: closed chats that are old enough are deleted.
Retention(cs) ==
    /\ cs # {} /\ cs \subseteq Eligible
    /\ status' = [c \in Conversations |-> IF c \in cs THEN "deleted" ELSE status[c]]
    /\ owner' = [c \in Conversations |-> IF c \in cs THEN Nobody ELSE owner[c]]
    /\ help' = [h \in Requests |-> IF h[1] \in cs THEN "none" ELSE help[h]]
    /\ Outdates(cs)
    /\ UNCHANGED <<accepted, deadline, napOver, awaiting, followup, log, read,
                   available>>

-----------------------------------------------------------------------------
(* Time.                                                                   *)

MissDeadline(c) ==
    /\ deadline[c] = "running"
    /\ deadline' = [deadline EXCEPT ![c] = "past"]
    /\ UNCHANGED <<status, owner, accepted, napOver, awaiting, followup, log,
                   read, help, available, screens>>

EndNap(c) ==
    /\ status[c] = "snoozed" /\ c \notin napOver
    /\ napOver' = napOver \cup {c}
    /\ UNCHANGED <<status, owner, accepted, deadline, awaiting, followup, log,
                   read, help, available, screens>>

DeskInit ==
    /\ status = [c \in Conversations |-> "none"]
    /\ owner = [c \in Conversations |-> Nobody]
    /\ accepted = {} /\ napOver = {} /\ awaiting = {}
    /\ deadline = [c \in Conversations |-> "none"]
    /\ log = [c \in Conversations |-> <<>>]
    /\ read = [c \in Conversations |-> [side \in Sides |-> 0]]
    /\ followup = [c \in Conversations |-> "none"]
    /\ help = [h \in Requests |-> "none"]
    /\ available = {} /\ screens = {}

Visitor(c) ==
    \/ \E key \in Keys : Start(c, key) \/ SendVisitorMessage(c, key)
    \/ VisitorFollowup(c) \/ EndVisitorChat(c)

Workflow(a, c) ==
    \/ Claim(a, c) \/ Release(a, c) \/ Resolve(a, c) \/ Spam(a, c)
    \/ Reopen(a, c) \/ Snooze(a, c)

Staff(a, c) ==
    \/ \E key \in Keys : SendStaffMessage(a, c, key) \/ WriteNote(a, c, key)
    \/ Load(a, c) \/ Workflow(a, c)
    \/ AcceptAssignment(a, c) \/ CompleteFollowup(a, c)
    \/ \E b \in Agents : Transfer(a, c, b)

Help(h) == AskHelp(h) \/ AcceptHelp(h) \/ FinishHelp(h) \/ CancelHelp(h)

Time == \E c \in Conversations : MissDeadline(c) \/ EndNap(c)

DeskNext ==
    \/ \E c \in Conversations :
          \/ Visitor(c)
          \/ \E a \in Agents : Staff(a, c)
          \/ \E side \in Sides, upTo \in 1 .. Len(log[c]) : Read(c, side, upTo)
    \/ \E a \in Agents : Availability(a)
    \/ \E h \in Requests : Help(h)
    \/ Maintenance
    \/ \E cs \in SUBSET Conversations : Retention(cs)
    \/ Time

DeskSpec == DeskInit /\ [][DeskNext]_deskVars

\* The maintenance loop never stops, and clocks advance.  Visitors and staff
\* owe nothing.
FairDeskSpec ==
    /\ DeskSpec
    /\ WF_deskVars(Maintenance)
    /\ \A c \in Conversations : WF_deskVars(MissDeadline(c)) /\ WF_deskVars(EndNap(c))

-----------------------------------------------------------------------------
(* Properties.                                                             *)

\* No agent is given a chat beyond his capacity, by his own hand, a
\* colleague's or the router's.
AssignmentRespectsCapacity ==
    [][\A a \in Agents :
          (\E c \in Conversations : owner'[c] = a /\ owner[c] # a) =>
              Cardinality({c \in Conversations : owner'[c] = a /\ status'[c] \in Busy})
                  <= Capacity[a]]_deskVars

\* Nobody resolves a chat, or throws it away, over a message that his screen
\* has not shown.
NothingIsBuried ==
    [][\A a \in Agents, c \in Conversations :
          Resolve(a, c) \/ Spam(a, c) => <<a, c, Len(log[c])>> \in screens]_deskVars

\* A callback that a visitor waits for is not deleted.
CallbackSurvives ==
    \A c \in Conversations : status[c] = "deleted" => followup[c] # "requested"

\* While somebody is there and has room, no visitor waits for ever.
QueueMoves ==
    (AutoAssign /\ <>[](\E a \in Agents : HasRoom(a))) =>
        \A c \in Conversations :
            (owner[c] = Nobody /\ status[c] \in {"queued", "open"}) ~>
                (owner[c] # Nobody \/ status[c] \notin {"queued", "open"})

\* An assignment that was not accepted in time does not stay for ever: it is
\* accepted, taken back or given anew, or the chat is over or asleep.
AssignmentIsAnswered ==
    \A c \in Conversations :
        (c \notin accepted /\ deadline[c] = "past" /\ status[c] \in Busy) ~>
            (c \in accepted \/ deadline[c] # "past" \/ status[c] \notin Busy)

=============================================================================
