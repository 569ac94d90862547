------------------------------ MODULE Transfers ------------------------------
(***************************************************************************)
(* Stock transfers between two locations and the manifests (truck runs)    *)
(* they ride on: transfers.controller.ts, transfer-ship.service.ts,        *)
(* transfer-reservations.ts and manifests.controller.ts.                   *)
(*                                                                         *)
(* One lane is modelled, an origin and a destination; other lanes are      *)
(* other rows.  A transfer has at most one line for an item.  A request is *)
(* one READ COMMITTED transaction, as in Reservations: a Begin action is   *)
(* what the handler reads and decides without a lock, every further step   *)
(* takes the row locks of one statement, and Commit publishes the writes.  *)
(***************************************************************************)
EXTENDS Integers, FiniteSets, Functions

CONSTANTS
    Transfers, Items, Manifests, Requests,
    AsIs,          \* the transfers whose type is as_is
    Stock,         \* units of an item at the origin to begin with
    TicketGate,    \* ops.transfers.requireTicketBeforeShip
    MaxUnits,      \* bound: units of an item that a transfer orders
    Handlers,      \* the endpoints an instance calls
    NoTransfer, NoManifest

Endpoints == {"create", "complete", "ship", "receive", "closeShort", "cancel",
              "build", "removeTransfer", "completeManifest", "cancelManifest"}

ASSUME TransfersAssumption ==
    /\ IsFiniteSet(Transfers)
    /\ AsIs \subseteq Transfers
    /\ Stock \in [Items -> Nat]
    /\ TicketGate \in BOOLEAN
    /\ MaxUnits \in Nat
    /\ Handlers \subseteq Endpoints
    /\ NoTransfer \notin Transfers /\ NoManifest \notin Manifests

VARIABLES
    status,      \* stock_transfers.status
    printed,     \* transfers whose ticket is printed
    ride,        \* stock_transfers.manifestId
    shipped,     \* stock_transfer_lines.quantityShipped (0: no line)
    wanted,      \* stock_transfer_lines.quantityOrdered, or quantityShipped
    received,    \* stock_transfer_lines.quantityReceived
    truck,       \* stock_manifests.status
    origin,      \* on_hand of an item at the origin
    held,        \* reserved of an item at the origin
    dest,        \* on_hand of an item at the destination
    staged,      \* As-Is review pieces of an item
    writtenOff,  \* units of an item on the write-off register
    txn          \* the open transaction of each request

docVars   == <<status, printed, ride, shipped, wanted, received, truck>>
levelVars == <<origin, held, dest, staged, writtenOff>>
tables == <<docVars, levelVars>>
vars == <<tables, txn>>

States == {"none", "draft", "in_transit", "received", "closed_short",
           "canceled"}
TruckStates == {"none", "open", "completed", "canceled"}

Clamp(x) == IF x < 0 THEN 0 ELSE x        \* GREATEST(0, x)

NoUnits == [i \in Items |-> 0]
Some(units) == {i \in Items : units[i] > 0}

-----------------------------------------------------------------------------
(* The open transaction of a request.  doc is the transfer it works on,    *)
(* todo the items of it that the step at hand has left and amount their    *)
(* units; queue are the drafts a manifest has yet to ship.  new are the    *)
(* transfers it inserts, with lines and wants.  counted is the received    *)
(* counter it writes on the items in landed.  out, freed, keep, arrive,    *)
(* stage and short are its relative writes; next the statuses it writes;   *)
(* board the transfers it puts onto the manifest onto; run its manifest    *)
(* and runNext the status it writes there.                                 *)

Steps == {"idle", "hold", "ship", "land", "free", "judge", "header", "roll",
          "load", "board", "detach", "truck", "commit"}

Idle ==
    [pc |-> "idle", op |-> "none", doc |-> NoTransfer, todo |-> {},
     amount |-> NoUnits, queue |-> {},
     new |-> {}, lines |-> [x \in Transfers |-> NoUnits],
     wants |-> [x \in Transfers |-> NoUnits],
     counted |-> NoUnits, landed |-> {},
     out |-> NoUnits, freed |-> NoUnits, keep |-> NoUnits,
     arrive |-> NoUnits, stage |-> NoUnits, short |-> NoUnits,
     next |-> [x \in Transfers |-> "keep"],
     board |-> {}, onto |-> NoManifest, run |-> NoManifest, runNext |-> "keep",
     holds |-> {}]

OriginRow(i)  == <<"origin", i>>
DestRow(i)    == <<"dest", i>>
LineRow(x, i) == <<"line", <<x, i>>>>
DocRow(x)     == <<"doc", x>>
TruckRow(m)   == <<"truck", m>>

Rows ==
    {OriginRow(i) : i \in Items} \cup {DestRow(i) : i \in Items}
        \cup {LineRow(x, i) : x \in Transfers, i \in Items}
        \cup {DocRow(x) : x \in Transfers} \cup {TruckRow(m) : m \in Manifests}

Units == [Items -> Nat]

Transactions ==
    [pc : Steps, op : Endpoints \cup {"none"},
     doc : Transfers \cup {NoTransfer}, todo : SUBSET Items, amount : Units,
     queue : SUBSET Transfers,
     new : SUBSET Transfers, lines : [Transfers -> Units],
     wants : [Transfers -> Units], counted : Units, landed : SUBSET Items,
     out : Units, freed : Units, keep : Units, arrive : Units, stage : Units,
     short : Units,
     next : [Transfers -> (States \ {"none"}) \cup {"keep"}],
     board : SUBSET Transfers, onto : Manifests \cup {NoManifest},
     run : Manifests \cup {NoManifest}, runNext : TruckStates \cup {"keep"},
     holds : SUBSET Rows]

\* No line shows more received than shipped, or more shipped than ordered.
TypeOK ==
    /\ status \in [Transfers -> States]
    /\ printed \subseteq Transfers
    /\ ride \in [Transfers -> Manifests \cup {NoManifest}]
    /\ shipped \in [Transfers -> Units] /\ wanted \in [Transfers -> Units]
    /\ received \in [Transfers -> Units]
    /\ \A x \in Transfers, i \in Items :
          received[x][i] <= shipped[x][i] /\ shipped[x][i] <= wanted[x][i]
    /\ truck \in [Manifests -> TruckStates]
    /\ origin \in Units /\ held \in Units /\ dest \in Units
    /\ staged \in Units /\ writtenOff \in Units
    /\ txn \in [Requests -> Transactions]

LockFree(r, rows) == \A s \in Requests \ {r} : txn[s].holds \cap rows = {}

\* The next row to insert.  Numbers are unique and counted from the rows that
\* have committed, so an INSERT waits while another one is open.
Fresh(r, x) ==
    /\ status[x] = "none" /\ x \notin txn[r].new
    /\ \A s \in Requests \ {r} : txn[s].new = {}
FreshTruck(m) == truck[m] = "none" /\ \A s \in Requests : txn[s].runNext # "open"

\* A transaction sees its own writes over what others have committed.
OwnShipped(t, x)  == IF x \in t.new THEN t.lines[x] ELSE shipped[x]
OwnWanted(t, x)   == IF x \in t.new THEN t.wants[x] ELSE wanted[x]
OwnReceived(t, x) == [i \in Items |-> IF x = t.doc /\ i \in t.landed
                                      THEN t.counted[i] ELSE received[x][i]]

Remainder(t, x) == [i \in Items |-> OwnWanted(t, x)[i] - OwnShipped(t, x)[i]]

-----------------------------------------------------------------------------
(* What follows the last item of a step, and the header of a transfer.     *)

\* create with complete receives what it has just shipped; ship flips the
\* status last; receive looks whether everything has arrived.
AfterItems(t) ==
    CASE t.todo # {} -> t
      [] t.todo = {} /\ t.pc = "ship" /\ t.op = "complete"
            -> [t EXCEPT !.pc = "land", !.todo = Some(t.amount)]
      [] t.todo = {} /\ t.pc = "ship" /\ t.op \in {"ship", "completeManifest"}
            -> [t EXCEPT !.pc = "header"]
      [] t.todo = {} /\ t.pc = "land" -> [t EXCEPT !.pc = "judge"]
      [] OTHER -> [t EXCEPT !.pc = "commit"]

\* cancel hands its units back after the status; a received transfer rolls
\* its held remainder over; a manifest ships its next draft.
AfterHeader(t) ==
    CASE t.op = "cancel"
            -> [t EXCEPT !.pc = "free", !.todo = Some(t.amount)]
      [] t.op = "completeManifest"
            -> [t EXCEPT !.pc = IF t.queue = {} THEN "truck" ELSE "load"]
      [] t.op \in {"receive", "complete"} /\ t.next[t.doc] = "received"
            /\ Some(Remainder(t, t.doc)) # {}
            -> [t EXCEPT !.pc = "roll"]
      [] OTHER -> [t EXCEPT !.pc = "commit"]

Begin(r, op, rec) ==
    /\ op \in Handlers
    /\ txn[r] = Idle
    /\ txn' = [txn EXCEPT ![r] = [rec EXCEPT !.op = op]]
    /\ UNCHANGED tables

Goes(r, t) == txn' = [txn EXCEPT ![r] = t] /\ UNCHANGED tables

-----------------------------------------------------------------------------
(* The handlers, up to their first write.                                  *)

\* The transfer create inserts, with lines to ship and what is wanted.
Entered(x, units, wants, state) ==
    [Idle EXCEPT !.doc = x, !.todo = Some(units), !.amount = units,
                 !.new = {x}, !.lines[x] = units, !.wants[x] = wants,
                 !.next[x] = state]

\* A body names units to ship, and may want more of a line than it ships.
Body(units, wants) ==
    /\ Some(units) # {}
    /\ \A i \in Items : /\ units[i] <= wants[i]
                        /\ units[i] = 0 => wants[i] = 0

\* POST stock-transfers: a draft, whose units create holds at the origin.
BeginCreate(r, x, units, wants) ==
    /\ Fresh(r, x)
    /\ Body(units, wants)
    /\ Begin(r, "create", [Entered(x, units, wants, "draft") EXCEPT !.pc = "hold"])

\* The same with ship or complete: nothing is held, and nobody asks whether
\* the origin has the units.  Without complete it needs the gate to be off.
BeginShipped(r, op, x, units, wants) ==
    /\ Fresh(r, x)
    /\ Body(units, wants)
    /\ op \in {"create", "complete"}
    /\ op = "create" => ~TicketGate
    /\ Begin(r, op, [Entered(x, units, wants, "in_transit")
                        EXCEPT !.pc = "ship", !.counted = units])

\* ship refuses anything but a draft whose ticket is printed, and a line
\* that would take the origin below zero.
Shippable(t, x) ==
    /\ status[x] = "draft"
    /\ TicketGate => x \in printed
    /\ \A i \in Items : shipped[x][i] <= Clamp(origin[i] - t.out[i])

ShipPlan(t, x) ==
    [t EXCEPT !.pc = "ship", !.doc = x, !.queue = @ \ {x},
              !.todo = Some(shipped[x]), !.amount = shipped[x],
              !.next[x] = "in_transit"]

\* POST stock-transfers/:id/ship.
BeginShip(r, x) ==
    /\ Shippable(Idle, x)
    /\ ride[x] = NoManifest
    /\ Begin(r, "ship", ShipPlan(Idle, x))

Receive(r, x, units) ==
    /\ status[x] = "in_transit"
    /\ Some(units) # {}
    /\ Begin(r, "receive",
             [Idle EXCEPT !.pc = "land", !.doc = x, !.todo = Some(units),
                          !.amount = units,
                          !.counted = [i \in Items |-> received[x][i] + units[i]]])

\* Slip: what has already arrived is not subtracted.
ReceiveWhole(r, x, units) ==
    /\ \A i \in Items : units[i] <= shipped[x][i]
    /\ Receive(r, x, units)

\* POST stock-transfers/:id/receive.  The new counters are computed here.
BeginReceive(r, x, units) ==
    /\ \A i \in Items : units[i] <= shipped[x][i] - received[x][i]
    /\ Receive(r, x, units)

CloseShort(r, x, short) ==
    /\ status[x] = "in_transit"
    /\ \E i \in Items : received[x][i] < shipped[x][i]
    /\ Begin(r, "closeShort",
             [Idle EXCEPT !.pc = "header", !.doc = x, !.short = short,
                          !.next[x] = "closed_short"])

\* Slip: what has arrived is written off, not what is missing.
CloseShortReceived(r, x) == CloseShort(r, x, received[x])

\* POST stock-transfers/:id/close-short: what is missing is written off.
BeginCloseShort(r, x) ==
    CloseShort(r, x, [i \in Items |-> shipped[x][i] - received[x][i]])

\* POST stock-transfers/:id/cancel, for a draft that is on no manifest.
BeginCancel(r, x) ==
    /\ status[x] = "draft"
    /\ ride[x] = NoManifest
    /\ Begin(r, "cancel",
             [Idle EXCEPT !.pc = "header", !.doc = x, !.amount = shipped[x],
                          !.next[x] = "canceled"])

\* POST stock-manifests: drafts go onto the open manifest, or on a new one.
BeginBuild(r, S, m) ==
    /\ S # {} /\ \A x \in S : status[x] = "draft" /\ ride[x] = NoManifest
    /\ \/ truck[m] = "open"
       \/ FreshTruck(m) /\ \A n \in Manifests : truck[n] # "open"
    /\ Begin(r, "build",
             [Idle EXCEPT !.pc = "board", !.board = S, !.onto = m, !.run = m,
                          !.runNext = IF truck[m] = "open" THEN "keep"
                                                          ELSE "open"])

\* POST stock-manifests/:id/remove-transfer.
BeginRemoveTransfer(r, x) ==
    /\ ride[x] # NoManifest /\ truck[ride[x]] = "open"
    /\ Begin(r, "removeTransfer",
             [Idle EXCEPT !.pc = "board", !.board = {x}])

\* POST stock-manifests/:id/cancel.
BeginCancelManifest(r, m) ==
    /\ truck[m] = "open"
    /\ Begin(r, "cancelManifest",
             [Idle EXCEPT !.pc = "detach", !.run = m, !.runNext = "canceled"])

CompleteManifest(r, m, drafts) ==
    /\ truck[m] = "open"
    /\ \E x \in Transfers : ride[x] = m
    /\ Begin(r, "completeManifest",
             [Idle EXCEPT !.pc = IF drafts = {} THEN "truck" ELSE "load",
                          !.queue = drafts, !.run = m, !.runNext = "completed"])

DraftsOn(m) == {x \in Transfers : ride[x] = m /\ status[x] = "draft"}

\* Slip: a draft that cannot ship is passed over.
CompleteShippable(r, m) ==
    CompleteManifest(r, m, {x \in DraftsOn(m) : Shippable(Idle, x)})

\* POST stock-manifests/:id/complete: every draft on the truck is to ship.
BeginCompleteManifest(r, m) == CompleteManifest(r, m, DraftsOn(m))

-----------------------------------------------------------------------------
(* The statements of a request.                                            *)

\* reserveTransferOrigin for one line.
HoldItem(r, i) ==
    LET t == txn[r]
    IN  /\ t.pc = "hold" /\ i \in t.todo
        /\ LockFree(r, {OriginRow(i)})
        /\ Goes(r, AfterItems([t EXCEPT !.todo = @ \ {i},
                                        !.holds = @ \cup {OriginRow(i)},
                                        !.keep[i] = @ + t.amount[i]]))

ShipAndFree(r, i, hold) ==
    LET t    == txn[r]
        rows == {OriginRow(i), LineRow(t.doc, i)}
    IN  /\ t.pc = "ship" /\ i \in t.todo
        /\ LockFree(r, rows)
        /\ Goes(r, AfterItems([t EXCEPT !.todo = @ \ {i},
                                        !.holds = @ \cup rows,
                                        !.freed[i] = @ + hold,
                                        !.out[i] = @ + t.amount[i]]))

\* Slip: the hold outlives the shipment.
ShipItemStillHeld(r, i) == ShipAndFree(r, i, 0)

\* releaseTransferOrigin and deductOrigin for one line; a transfer that was
\* never a draft holds nothing.
ShipItem(r, i) ==
    ShipAndFree(r, i, IF txn[r].op \in {"create", "complete"} THEN 0
                                                         ELSE txn[r].amount[i])

\* receive for one line: the level, or As-Is pieces, and the counter.
LandItem(r, i) ==
    LET t    == txn[r]
        asIs == t.doc \in AsIs
        rows == {LineRow(t.doc, i)} \cup IF asIs THEN {} ELSE {DestRow(i)}
    IN  /\ t.pc = "land" /\ i \in t.todo
        /\ LockFree(r, rows)
        /\ Goes(r, AfterItems([t EXCEPT
                      !.todo = @ \ {i}, !.holds = @ \cup rows,
                      !.landed = @ \cup {i},
                      !.arrive[i] = IF asIs THEN @ ELSE @ + t.amount[i],
                      !.stage[i]  = IF asIs THEN @ + t.amount[i] ELSE @]))

\* releaseTransferOrigin of cancel, for one line.
FreeItem(r, i) ==
    LET t == txn[r]
    IN  /\ t.pc = "free" /\ i \in t.todo
        /\ LockFree(r, {OriginRow(i)})
        /\ Goes(r, AfterItems([t EXCEPT !.todo = @ \ {i},
                                        !.holds = @ \cup {OriginRow(i)},
                                        !.freed[i] = @ + t.amount[i]]))

JudgeBy(r, arrived) ==
    LET t == txn[r]
    IN  /\ t.pc = "judge"
        /\ Goes(r, [t EXCEPT !.pc = "header",
                      !.next[t.doc] =
                         IF \A i \in Items : arrived[i] >= OwnShipped(t, t.doc)[i]
                         THEN "received" ELSE @])

\* Slip: the lines are judged as they were before this receipt.
JudgeBefore(r) == JudgeBy(r, received[txn[r].doc])

\* receive re-reads the lines, its own writes among them, to see whether
\* everything has arrived.
Judge(r) == JudgeBy(r, OwnReceived(txn[r], txn[r].doc))

\* The UPDATE of the transfer's row.
WriteHeader(r) ==
    LET t == txn[r]
    IN  /\ t.pc = "header"
        /\ LockFree(r, {DocRow(t.doc)})
        /\ Goes(r, AfterHeader([t EXCEPT !.holds = @ \cup {DocRow(t.doc)}]))

NewDraft(r, y, units) ==
    LET t == txn[r]
    IN  /\ t.pc = "roll"
        /\ Fresh(r, y)
        /\ y \in AsIs <=> t.doc \in AsIs
        /\ Goes(r, [t EXCEPT !.pc = "hold", !.todo = Some(units),
                             !.amount = units, !.new = @ \cup {y},
                             !.lines[y] = units, !.wants[y] = units,
                             !.next[y] = "draft"])

\* Slip: the whole order is scheduled again.
RollOverOrdered(r, y) == NewDraft(r, y, OwnWanted(txn[r], txn[r].doc))

\* rollOverHeldQuantities: what was ordered and not shipped is a new draft
\* of the same type, and holds its units.
RollOver(r, y) == NewDraft(r, y, Remainder(txn[r], txn[r].doc))

\* A manifest ships its next draft, which ship reads again.
LoadNext(r, x) ==
    LET t == txn[r]
    IN  /\ t.pc = "load" /\ x \in t.queue
        /\ Shippable(t, x)
        /\ Goes(r, ShipPlan(t, x))

\* The UPDATE of manifestId on the transfers named.
Board(r) ==
    LET t == txn[r]
        rows == {DocRow(x) : x \in t.board}
    IN  /\ t.pc = "board"
        /\ LockFree(r, rows)
        /\ Goes(r, [t EXCEPT !.pc = "commit", !.holds = @ \cup rows])

\* The UPDATE that detaches whatever is on the manifest by now.
DetachAll(r) ==
    LET t == txn[r]
        aboard == {x \in Transfers : ride[x] = t.run}
        rows == {DocRow(x) : x \in aboard}
    IN  /\ t.pc = "detach"
        /\ LockFree(r, rows)
        /\ Goes(r, [t EXCEPT !.pc = "truck", !.board = aboard,
                             !.holds = @ \cup rows])

\* The UPDATE of the manifest's row.
WriteTruck(r) ==
    LET t == txn[r]
    IN  /\ t.pc = "truck"
        /\ LockFree(r, {TruckRow(t.run)})
        /\ Goes(r, [t EXCEPT !.pc = "commit", !.holds = @ \cup {TruckRow(t.run)}])

Commit(r) ==
    LET t == txn[r]
    IN  /\ t.pc = "commit"
        /\ txn' = [txn EXCEPT ![r] = Idle]
        /\ status' = [x \in Transfers |-> IF t.next[x] = "keep" THEN status[x]
                                                               ELSE t.next[x]]
        /\ ride' = [x \in Transfers |-> IF x \in t.board THEN t.onto ELSE ride[x]]
        /\ shipped' = [x \in Transfers |-> OwnShipped(t, x)]
        /\ wanted' = [x \in Transfers |-> OwnWanted(t, x)]
        /\ received' = [x \in Transfers |-> OwnReceived(t, x)]
        /\ truck' = [m \in Manifests |-> IF m = t.run /\ t.runNext # "keep"
                                         THEN t.runNext ELSE truck[m]]
        /\ origin' = [i \in Items |-> Clamp(origin[i] - t.out[i])]
        /\ held' = [i \in Items |-> Clamp(held[i] - t.freed[i]) + t.keep[i]]
        /\ dest' = [i \in Items |-> dest[i] + t.arrive[i]]
        /\ staged' = [i \in Items |-> staged[i] + t.stage[i]]
        /\ writtenOff' = [i \in Items |-> writtenOff[i] + t.short[i]]
        /\ UNCHANGED printed

\* Any error rolls the transaction back.
Abort(r) ==
    /\ txn[r] # Idle
    /\ txn' = [txn EXCEPT ![r] = Idle]
    /\ UNCHANGED tables

\* POST stock-transfers/:id/ticket-printed.
PrintTicket(x) ==
    /\ status[x] \notin {"none", "canceled"}
    /\ \A r \in Requests : DocRow(x) \notin txn[r].holds
    /\ printed' = printed \cup {x}
    /\ UNCHANGED <<status, ride, shipped, wanted, received, truck, levelVars, txn>>

-----------------------------------------------------------------------------
Init ==
    /\ status = [x \in Transfers |-> "none"]
    /\ printed = {}
    /\ ride = [x \in Transfers |-> NoManifest]
    /\ shipped = [x \in Transfers |-> NoUnits]
    /\ wanted = [x \in Transfers |-> NoUnits]
    /\ received = [x \in Transfers |-> NoUnits]
    /\ truck = [m \in Manifests |-> "none"]
    /\ origin = Stock
    /\ held = NoUnits
    /\ dest = NoUnits
    /\ staged = NoUnits
    /\ writtenOff = NoUnits
    /\ txn = [r \in Requests |-> Idle]

Bodies == [Items -> 0 .. MaxUnits]

BeginSome(r) ==
    \/ \E x \in Transfers :
          \/ \E units, wants \in Bodies :
                \/ BeginCreate(r, x, units, wants)
                \/ \E op \in {"create", "complete"} :
                      BeginShipped(r, op, x, units, wants)
          \/ BeginShip(r, x)
          \/ \E units \in Bodies : BeginReceive(r, x, units)
          \/ BeginCloseShort(r, x)
          \/ BeginCancel(r, x)
          \/ BeginRemoveTransfer(r, x)
    \/ \E m \in Manifests :
          \/ \E S \in SUBSET Transfers : BeginBuild(r, S, m)
          \/ BeginCancelManifest(r, m)
          \/ BeginCompleteManifest(r, m)

Advance(r) ==
    \/ \E i \in Items :
          HoldItem(r, i) \/ ShipItem(r, i) \/ LandItem(r, i) \/ FreeItem(r, i)
    \/ Judge(r) \/ WriteHeader(r)
    \/ \E x \in Transfers : RollOver(r, x) \/ LoadNext(r, x)
    \/ Board(r) \/ DetachAll(r) \/ WriteTruck(r)
    \/ Commit(r)

Next ==
    \/ \E r \in Requests : BeginSome(r) \/ Advance(r) \/ Abort(r)
    \/ \E x \in Transfers : PrintTicket(x)

Spec == Init /\ [][Next]_vars

-----------------------------------------------------------------------------
(* Properties.                                                             *)

Quiet == \A r \in Requests : txn[r] = Idle

\* Units of an item that left the origin and are still on the road.
OnTheRoad(i) ==
    SumFunctionOnSet([x \in Transfers |-> shipped[x][i] - received[x][i]],
                     {x \in Transfers : status[x] = "in_transit"})

Accounted(i) == origin[i] + OnTheRoad(i) + dest[i] + staged[i] + writtenOff[i]

\* No unit disappears: shipped units arrive, are staged for As-Is review or
\* are written off, and the rest is where it was.
NoUnitLost == \A i \in Items : Accounted(i) >= Stock[i]

\* No unit comes out of nowhere: nothing ships that the origin did not have.
NoUnitFromNowhere == \A i \in Items : Accounted(i) <= Stock[i]

\* What is reserved at the origin is what the open transfers hold there.
HeldForDrafts ==
    \A i \in Items :
        held[i] = SumFunctionOnSet([x \in Transfers |-> shipped[x][i]],
                                   {x \in Transfers : status[x] = "draft"})

\* A transfer whose units have all arrived is not left on the road: nobody
\* could receive it, and nobody could close it short.
ArrivedIsClosed ==
    Quiet => \A x \in Transfers : status[x] = "in_transit" =>
                \E i \in Items : received[x][i] < shipped[x][i]

\* The truck document agrees with what left: a completed manifest carries no
\* draft, and a canceled one carries nothing.
ManifestHasLeft ==
    \A x \in Transfers : ride[x] # NoManifest =>
        /\ truck[ride[x]] = "completed" => status[x] # "draft"
        /\ truck[ride[x]] # "canceled"

\* On full receipt the held remainder of a transfer becomes a new draft, unit
\* for unit.
RemainderIsScheduled ==
    [][\A x \in Transfers :
          (status[x] = "in_transit" /\ status'[x] = "received") =>
             \A i \in Items :
                SumFunctionOnSet([y \in Transfers |-> shipped'[y][i]],
                                 {y \in Transfers : status[y] = "none"})
                   = wanted[x][i] - shipped[x][i]]_vars
=============================================================================
