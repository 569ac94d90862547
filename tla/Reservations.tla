---------------------------- MODULE Reservations ----------------------------
(***************************************************************************)
(* The stock reservations of customer orders: orders.service.ts,           *)
(* order-math.ts, reservations.controller.ts and the handlers of           *)
(* orders.controller.ts that commit, hand back or ship units.              *)
(*                                                                         *)
(* A bin is one inventory_levels row, a (variant, location) pair.  A line  *)
(* of an order reserves from one bin.  Each HTTP request runs in one       *)
(* READ COMMITTED transaction (tenancy/rls-context.interceptor.ts), so a   *)
(* request is modelled as                                                  *)
(*   - a Begin action: the handler's unlocked reads and its guards, which  *)
(*     fix the plan (txn[r].want, give, out) from what was read;           *)
(*   - one step per order line, which takes the row lock of the line's     *)
(*     bin, or waits for the transaction that holds it;                    *)
(*   - Commit, which publishes every write and drops the locks, or Abort.  *)
(* Writes are relative SQL updates of locked rows, so applying them at the *)
(* commit is what the other requests see of them.  Nothing another request *)
(* does between the read and the lock is excluded.                         *)
(***************************************************************************)
EXTENDS Integers, FiniteSets, Functions

CONSTANTS
    Orders, Lines, Bins,
    Requests,        \* transactions in flight at once (the pool has ten)
    OrderOf, BinOf,  \* the order and the bin of a line
    Quantity,        \* units ordered on a line when it is written
    Later,           \* lines that addLine may write
    FloorSample,     \* display units of a bin, on hand but never sellable
    Handlers,        \* the endpoints an instance calls
    MaxOnHand,       \* bound: sellable units receipts bring a bin to
    MaxHold,         \* bound: units of a bin held by open transfers
    MaxQuantity,     \* bound: units an edit makes of a line
    NoOrder

Endpoints ==
    {"reserve", "confirm", "payment", "release", "releaseLine", "removeLine",
     "addLine", "editLine", "move", "cancel", "fulfill", "complete",
     "allocatePending", "autoRelease", "print", "adjust", "transfer"}

ASSUME ConstantsAssumption ==
    /\ IsFiniteSet(Lines)
    /\ OrderOf \in [Lines -> Orders]
    /\ BinOf \in [Lines -> Bins]
    /\ Quantity \in [Lines -> Nat \ {0}]
    /\ FloorSample \in [Bins -> Nat]
    /\ MaxOnHand \in Nat
    /\ MaxHold \in Nat
    /\ MaxQuantity \in Nat
    /\ Later \subseteq Lines
    /\ Handlers \subseteq Endpoints
    /\ NoOrder \notin Orders
    /\ Bins \cap Orders = {}

VARIABLES
    status,      \* orders.status
    stamped,     \* orders.completedAt or orders.cancelledAt is set
    printed,     \* orders.lockedAt: the delivery ticket is printed
    owed,        \* the balance due is positive
    unwritten,   \* lines that are not there yet
    gone,        \* lines deleted by removeLine
    quantity,    \* order_lines.quantity
    reserved,    \* order_lines.qty_reserved
    fulfilled,   \* order_lines.qty_fulfilled
    onHand,      \* inventory_levels.on_hand
    committed,   \* inventory_levels.reserved
    hold,        \* units of a bin that draft stock transfers hold
    txn          \* the open transaction of each request

orderVars == <<status, stamped, printed, owed>>
lineVars  == <<unwritten, gone, quantity, reserved, fulfilled>>
levelVars == <<onHand, committed, hold>>
tables == <<orderVars, lineVars, levelVars>>
vars == <<tables, txn>>

Statuses == {"draft", "quote", "open", "partially_fulfilled", "fulfilled",
             "completed", "cancelled"}
LiveStatuses == Statuses \ {"completed", "cancelled"}
Unconfirmed  == {"draft", "quote"}
Shipping     == {"open", "partially_fulfilled"}

Least(a, b) == IF a < b THEN a ELSE b
\* Slip: a negative balance is not clamped.
Unclamped(x) == x

Clamp(x)    == IF x < 0 THEN 0 ELSE x        \* GREATEST(0, x)

NoUnits  == [l \in Lines |-> 0]
NoLevels == [b \in Bins |-> 0]

Rows == Lines \ (unwritten \cup gone)
LinesOf(o) == {l \in Rows : OrderOf[l] = o}
LinesIn(b) == {l \in Lines : BinOf[l] = b}

-----------------------------------------------------------------------------
(* The open transaction of a request.  want is the amount the next line    *)
(* step is about; give, take and out are the relative writes of the lines, *)
(* freed, claim and shipped the relative writes of the bins; pool is what  *)
(* planReservations has left of a locked bin; drop and add are the lines   *)
(* it deletes and inserts, size its new quantities (0: none); seen is the  *)
(* order status reserve read; reserves says that reserveOrder follows the  *)
(* lock of the order row; next is the order status the transaction writes  *)
(* ("keep": none) and due what it does to the balance due.                 *)

Steps == {"idle", "lock", "take", "give", "ship", "move", "derive", "settle",
          "commit"}

Idle ==
    [pc |-> "idle", op |-> "none", order |-> NoOrder, seen |-> "none",
     todo |-> {},
     want |-> NoUnits, give |-> NoUnits, take |-> NoUnits, out |-> NoUnits,
     pool |-> NoLevels, freed |-> NoLevels, claim |-> NoLevels,
     shipped |-> NoLevels, drop |-> {}, add |-> {}, size |-> NoUnits,
     reserves |-> FALSE, holds |-> {}, next |-> "keep", due |-> "keep"]

Transactions ==
    [pc : Steps, op : Endpoints \cup {"none"}, order : Orders \cup {NoOrder},
     seen : Statuses \cup {"none"}, todo : SUBSET Lines,
     want : [Lines -> Nat], give : [Lines -> Nat], take : [Lines -> Nat],
     out : [Lines -> Nat],
     pool : [Bins -> Nat], freed : [Bins -> Nat], claim : [Bins -> Nat],
     shipped : [Bins -> Nat], drop : SUBSET Lines, add : SUBSET Lines,
     size : [Lines -> Nat], reserves : BOOLEAN,
     holds : SUBSET (Bins \cup Orders \cup {NoOrder}),
     next : Statuses \cup {"keep"}, due : {"keep", "settled", "raised"}]

TypeOK ==
    /\ status \in [Orders -> Statuses]
    /\ stamped \in [Orders -> BOOLEAN]
    /\ printed \in [Orders -> BOOLEAN]
    /\ owed \in [Orders -> BOOLEAN]
    /\ unwritten \subseteq Lines /\ gone \subseteq Lines
    /\ quantity \in [Lines -> Nat \ {0}]
    /\ \A l \in Lines : /\ reserved[l] \in 0 .. quantity[l]
                        /\ fulfilled[l] \in 0 .. quantity[l]
    /\ DOMAIN reserved = Lines /\ DOMAIN fulfilled = Lines
    /\ onHand \in [Bins -> Int]
    /\ committed \in [Bins -> Nat]
    /\ hold \in [Bins -> Nat]
    /\ txn \in [Requests -> Transactions]

\* Slip: the rows are read without FOR UPDATE.
UnlockedRead(r, row) == TRUE

(* A row lock is free for r when no other transaction holds the row.       *)
LockFree(r, row) == \A s \in Requests \ {r} : row \notin txn[s].holds

Unlocked(row) == \A s \in Requests : row \notin txn[s].holds

\* What follows the last line: fulfill derives the status, a payment tries to
\* complete the order, an edit of the lines reprices it, reserve opens the
\* quote it found stock for.
AfterLines(t) ==
    LET opens == /\ t.op = "reserve" /\ t.seen = "quote"
                 /\ \E l \in Lines : t.take[l] > 0
        step  == CASE t.pc = "ship" -> "derive"
                   [] t.pc = "take" /\ t.op = "payment" -> "settle"
                   [] t.pc = "give" /\ t.op \in {"editLine", "removeLine"} -> "lock"
                   [] OTHER -> "commit"
    IN  IF t.pc \in {"take", "give", "ship"} /\ t.todo = {}
        THEN [t EXCEPT !.pc = step, !.next = IF opens THEN "open" ELSE @]
        ELSE t

Begin(r, op, rec) ==
    /\ op \in Handlers
    /\ txn[r] = Idle
    /\ txn' = [txn EXCEPT ![r] = AfterLines([rec EXCEPT !.op = op])]
    /\ UNCHANGED tables

-----------------------------------------------------------------------------
(* What a handler plans from its unlocked reads.                           *)

\* A transaction sees its own writes over what others have committed.
OwnReserved(t, l)  == Clamp(reserved[l] - t.give[l]) + t.take[l]
OwnFulfilled(t, l) == fulfilled[l] + t.out[l]
OwnQuantity(t, l)  == IF t.size[l] > 0 THEN t.size[l] ELSE quantity[l]

\* planReservations: what a line lacks, the units already shipped included.
Needed(t, l) == Clamp(OwnQuantity(t, l) - OwnReserved(t, l))

\* reserveOrder: t goes on to reserve for every line of its order.
Reserving(t) ==
    LET lines == LinesOf(t.order) \cup t.add
    IN  [t EXCEPT !.pc = "take",
                  !.todo = {l \in lines : Needed(t, l) > 0},
                  !.want = [l \in Lines |-> IF l \in lines THEN Needed(t, l)
                                                           ELSE 0]]

ReservePlan(o) == Reserving([Idle EXCEPT !.order = o])

\* planReleases: everything the lines hold.
ReleasePlan(o, lines) ==
    [Idle EXCEPT !.pc = "give", !.order = o,
                 !.todo = {l \in lines : reserved[l] > 0},
                 !.want = [l \in Lines |-> IF l \in lines THEN reserved[l]
                                                          ELSE 0]]

\* planFulfillment: units leave, the line's own reservation first.
ShipPlan(o, units) ==
    [Idle EXCEPT !.pc = "ship", !.order = o,
                 !.todo = {l \in LinesOf(o) : units[l] > 0},
                 !.out  = units,
                 !.want = [l \in Lines |-> Least(reserved[l], units[l])]]

-----------------------------------------------------------------------------
(* The handlers, up to their first write.                                  *)

\* POST orders/:id/reserve.  A quote opens if anything could be reserved.
BeginReserve(r, o) ==
    /\ status[o] \in LiveStatuses
    /\ Begin(r, "reserve", [ReservePlan(o) EXCEPT !.seen = status[o]])

\* PATCH orders/:id with status open: confirm a draft or a quote.  The patch
\* is written, which locks the order row, before the stock is reserved.
BeginConfirm(r, o) ==
    /\ status[o] \in Unconfirmed
    /\ Begin(r, "confirm",
             [Idle EXCEPT !.pc = "lock", !.order = o, !.reserves = TRUE,
                          !.next = "open"])

\* POST orders/:id/payments.  Money on a draft or a quote confirms it.
BeginPayment(r, o, due) ==
    /\ status[o] \in LiveStatuses
    /\ owed[o]
    /\ Begin(r, "payment",
             IF status[o] \in Unconfirmed
             THEN [ReservePlan(o) EXCEPT !.next = "open", !.due = due]
             ELSE [Idle EXCEPT !.pc = "settle", !.order = o, !.due = due])

\* POST orders/:id/release.
BeginRelease(r, o) ==
    /\ status[o] \in LiveStatuses
    /\ Begin(r, "release", ReleasePlan(o, LinesOf(o)))

\* POST orders/:id/lines/:lineId/release.
BeginReleaseLine(r, l) ==
    /\ l \in Rows
    /\ status[OrderOf[l]] \in LiveStatuses
    /\ ~printed[OrderOf[l]]
    /\ reserved[l] > 0
    /\ Begin(r, "releaseLine", ReleasePlan(OrderOf[l], {l}))

\* Slip: the line is deleted and its units are not handed back.
RemoveLineKeepingUnits(r, l, due) ==
    /\ l \in Rows
    /\ status[OrderOf[l]] \in LiveStatuses
    /\ ~printed[OrderOf[l]]
    /\ fulfilled[l] = 0
    /\ Begin(r, "removeLine",
             [Idle EXCEPT !.pc = "commit", !.order = OrderOf[l], !.drop = {l},
                          !.due = due])

\* DELETE orders/:id/lines/:lineId.  The commit deletes the line; the price
\* that goes with it may settle the balance.
BeginRemoveLine(r, l, due) ==
    /\ l \in Rows
    /\ status[OrderOf[l]] \in LiveStatuses
    /\ ~printed[OrderOf[l]]
    /\ fulfilled[l] = 0
    /\ Begin(r, "removeLine",
             [ReleasePlan(OrderOf[l], {l}) EXCEPT !.drop = {l}, !.due = due])

\* POST orders/:id/lines.  The price of the new line is owed; unless the
\* order is a quote, reserveOrder follows.
BeginAddLine(r, l) ==
    /\ l \in unwritten /\ \A s \in Requests : l \notin txn[s].add
    /\ status[OrderOf[l]] \in LiveStatuses
    /\ ~printed[OrderOf[l]]
    /\ Begin(r, "addLine",
             [Idle EXCEPT !.pc = "lock", !.order = OrderOf[l], !.add = {l},
                          !.reserves = status[OrderOf[l]] # "quote",
                          !.due = "raised"])

\* PATCH orders/:id/lines/:lineId with a quantity.  Units reserved beyond the
\* new quantity go back first; a line that grew on a confirmed order reserves.
BeginEditLine(r, l, q, due) ==
    LET o == OrderOf[l]
    IN  /\ l \in Rows
        /\ status[o] \in LiveStatuses
        /\ ~printed[o]
        /\ q # quantity[l] /\ q >= fulfilled[l]
        /\ due = "raised" <=> q > quantity[l]
        /\ Begin(r, "editLine",
                 [Idle EXCEPT !.pc = "give", !.order = o,
                     !.todo = {m \in {l} : reserved[m] > q},
                     !.want = [m \in Lines |-> IF m = l THEN Clamp(reserved[m] - q)
                                                        ELSE 0],
                     !.size = [m \in Lines |-> IF m = l THEN q ELSE 0],
                     !.reserves = q > quantity[l] /\ status[o] \notin Unconfirmed,
                     !.due = due])

\* POST orders/auto-stock-release, for one stale order.
BeginAutoRelease(r, o) ==
    /\ status[o] \in Shipping
    /\ ~printed[o]
    /\ \E l \in LinesOf(o) : reserved[l] > 0
    /\ Begin(r, "autoRelease", ReleasePlan(o, LinesOf(o)))

\* Slip: the order row is read without FOR UPDATE.
CancelUnlocked(r, o) ==
    /\ status[o] \in LiveStatuses
    /\ ~printed[o]
    /\ Begin(r, "cancel",
             [ReleasePlan(o, LinesOf(o)) EXCEPT !.next = "cancelled"])

\* Slip: the units are not handed back.
CancelKeepingUnits(r, o) ==
    /\ Unlocked(o)
    /\ status[o] \in LiveStatuses
    /\ ~printed[o]
    /\ Begin(r, "cancel",
             [ReleasePlan(o, {}) EXCEPT !.holds = {o}, !.next = "cancelled"])

\* POST orders/:id/cancel.  The order row is read FOR UPDATE.
BeginCancel(r, o) ==
    /\ Unlocked(o)
    /\ status[o] \in LiveStatuses
    /\ ~printed[o]
    /\ Begin(r, "cancel",
             [ReleasePlan(o, LinesOf(o)) EXCEPT !.holds = {o},
                                                !.next = "cancelled"])

\* POST orders/:id/fulfill: hand over units, named or all that are left.
BeginFulfill(r, o, units) ==
    /\ status[o] # "quote"
    /\ ~stamped[o]
    /\ \E l \in Lines : units[l] > 0
    /\ \A l \in Lines : units[l] > 0 =>
          l \in LinesOf(o) /\ units[l] <= quantity[l] - fulfilled[l]
    /\ Begin(r, "fulfill", ShipPlan(o, units))

\* POST orders/:id/complete.  An open order whose goods have all left is
\* taken as fulfilled; a balance due needs a permission, not modelled.
BeginComplete(r, o) ==
    /\ ~stamped[o]
    /\ \/ status[o] = "fulfilled"
       \/ /\ status[o] \in Shipping
          /\ LinesOf(o) # {}
          /\ \A l \in LinesOf(o) : fulfilled[l] = quantity[l]
    /\ Begin(r, "complete", [Idle EXCEPT !.pc = "settle", !.order = o])

\* POST orders/allocate-pending: every order with lines still short.
Pending(l) ==
    /\ l \in Rows
    /\ status[OrderOf[l]] \in Shipping
    /\ ~printed[OrderOf[l]]
    /\ quantity[l] - reserved[l] - fulfilled[l] > 0

BeginAllocatePending(r) ==
    LET short == {l \in Lines : Pending(l)}
    IN  /\ short # {}
        /\ Begin(r, "allocatePending",
                 [Idle EXCEPT !.pc = "take", !.todo = short,
                     !.want = [l \in Lines |-> IF l \in short
                                 THEN quantity[l] - reserved[l] - fulfilled[l]
                                 ELSE 0]])

\* POST reservations/move: take q units from the lines in from (one or none)
\* for the line in to (one or none); assertOrderEditable on both orders.
Editable(l) ==
    /\ l \in Rows
    /\ status[OrderOf[l]] \in LiveStatuses
    /\ ~printed[OrderOf[l]]

BeginMove(r, from, to, q) ==
    LET Of(lines) == [l \in Lines |-> IF l \in lines THEN q ELSE 0]
        At(lines) == [b \in Bins |-> IF \E l \in lines : BinOf[l] = b THEN q
                                                                      ELSE 0]
    IN  /\ from \cup to # {} /\ from \cap to = {}
        /\ \A l, m \in from \cup to : BinOf[l] = BinOf[m]
        /\ \A l \in from \cup to : Editable(l)
        /\ \A l \in from : reserved[l] >= q
        /\ \A l \in to : quantity[l] - fulfilled[l] - reserved[l] >= q
        /\ Begin(r, "move",
                 [Idle EXCEPT !.pc = "move", !.todo = from \cup to,
                              !.give = Of(from), !.freed = At(from),
                              !.take = Of(to), !.claim = At(to)])

-----------------------------------------------------------------------------
(* The line steps.                                                         *)

\* The order row is written: the patch of a confirm, recomputeTotals after an
\* edit of the lines.
LockOrder(r) ==
    LET t == txn[r]
        locked == [t EXCEPT !.holds = @ \cup {t.order}]
    IN  /\ t.pc = "lock"
        /\ LockFree(r, t.order)
        /\ txn' = [txn EXCEPT ![r] =
              IF t.reserves THEN AfterLines(Reserving(locked))
                            ELSE [locked EXCEPT !.pc = "commit"]]
        /\ UNCHANGED tables

\* stockLevels with lock: sellable units of a bin, read under its row lock.
Available(b) == onHand[b] - FloorSample[b] - committed[b]

\* planReservations and applyReservations for one line.
TakeLine(r, l) ==
    LET t    == txn[r]
        b    == BinOf[l]
        pool == IF b \in t.holds THEN t.pool[b] ELSE Clamp(Available(b))
        n    == Least(t.want[l], pool)
    IN  /\ t.pc = "take" /\ l \in t.todo
        /\ LockFree(r, b)
        /\ txn' = [txn EXCEPT ![r] =
              AfterLines([t EXCEPT !.todo = @ \ {l}, !.holds = @ \cup {b},
                                   !.pool[b] = pool - n,
                                   !.take[l] = n, !.claim[b] = @ + n])]
        /\ UNCHANGED tables

\* applyReleases for one line.
GiveLine(r, l) ==
    LET t == txn[r]
        b == BinOf[l]
    IN  /\ t.pc = "give" /\ l \in t.todo
        /\ LockFree(r, b)
        /\ txn' = [txn EXCEPT ![r] =
              AfterLines([t EXCEPT !.todo = @ \ {l}, !.holds = @ \cup {b},
                                   !.give[l] = @ + t.want[l],
                                   !.freed[b] = @ + t.want[l]])]
        /\ UNCHANGED tables

\* applyFulfillment for one line.
ShipLine(r, l) ==
    LET t == txn[r]
        b == BinOf[l]
    IN  /\ t.pc = "ship" /\ l \in t.todo
        /\ LockFree(r, b)
        /\ txn' = [txn EXCEPT ![r] =
              AfterLines([t EXCEPT !.todo = @ \ {l}, !.holds = @ \cup {b},
                                   !.give[l] = @ + t.want[l],
                                   !.freed[b] = @ + t.want[l],
                                   !.shipped[b] = @ + t.out[l]])]
        /\ UNCHANGED tables

\* The level is locked; a reserve goes ahead only if, with the units that
\* come back from the other line, enough are free now.
Enough(t, b) == t.claim[b] > 0 => Available(b) + t.freed[b] >= t.claim[b]

MoveUnits(r) ==
    LET t    == txn[r]
        bins == {BinOf[l] : l \in t.todo}
    IN  /\ t.pc = "move"
        /\ \A b \in bins : LockFree(r, b) /\ Enough(t, b)
        /\ txn' = [txn EXCEPT ![r] =
              [t EXCEPT !.pc = "commit", !.todo = {}, !.holds = @ \cup bins]]
        /\ UNCHANGED tables

-----------------------------------------------------------------------------
(* After the lines: derived status, automatic completion, commit.          *)

\* Slip: one line is enough to call the order fulfilled.
DerivedFromAnyLine(o, f) ==
    IF \E l \in LinesOf(o) : f[l] > 0 THEN "fulfilled" ELSE "open"

\* deriveFulfillmentStatus
DerivedStatus(o, f) ==
    CASE LinesOf(o) = {} -> "open"
      [] LinesOf(o) # {} /\ \A l \in LinesOf(o) : f[l] >= quantity[l]
            -> "fulfilled"
      [] OTHER -> IF \E l \in LinesOf(o) : f[l] > 0
                  THEN "partially_fulfilled" ELSE "open"

\* fulfill re-reads the lines and derives the status, still without a lock
\* on the order row.
DeriveStatus(r) ==
    LET t == txn[r]
    IN  /\ t.pc = "derive"
        /\ txn' = [txn EXCEPT ![r] =
              [t EXCEPT !.pc = "settle",
                        !.next = DerivedStatus(t.order,
                            [l \in Lines |-> OwnFulfilled(t, l)])]]
        /\ UNCHANGED tables

\* The status is written (which locks the order row), then tryAutoComplete:
\* an order handed over and paid releases its residue and completes, as an
\* explicit complete does.
Settle(r) ==
    LET t    == txn[r]
        o    == t.order
        now  == IF t.next = "keep" THEN status[o] ELSE t.next
        done == \/ t.op = "complete"
                \/ /\ now = "fulfilled" /\ ~stamped[o]
                   /\ ~owed[o] \/ t.due = "settled"
        held == [l \in Lines |-> IF l \in LinesOf(o) THEN OwnReserved(t, l)
                                                     ELSE 0]
        locked == [t EXCEPT !.holds = IF t.next = "keep" THEN @
                                                         ELSE @ \cup {o}]
    IN  /\ t.pc = "settle"
        /\ t.next # "keep" => LockFree(r, o)
        /\ txn' = [txn EXCEPT ![r] =
              IF done
              THEN AfterLines([locked EXCEPT !.pc = "give", !.want = held,
                                             !.todo = {l \in Lines : held[l] > 0},
                                             !.next = "completed"])
              ELSE [locked EXCEPT !.pc = "commit"]]
        /\ UNCHANGED tables

\* The CHECK constraints of order_lines hold of what t is about to write.
ChecksHold(t) ==
    \A l \in Lines \ gone : /\ OwnReserved(t, l) <= OwnQuantity(t, l)
                            /\ OwnFulfilled(t, l) <= OwnQuantity(t, l)

CanCommit(r) ==
    /\ txn[r].pc = "commit"
    /\ txn[r].next # "keep" => LockFree(r, txn[r].order)

Commit(r) ==
    LET t == txn[r]
        o == t.order
    IN  /\ CanCommit(r)
        /\ ChecksHold(t)
        /\ txn' = [txn EXCEPT ![r] = Idle]
        /\ unwritten' = unwritten \ t.add
        /\ gone' = gone \cup t.drop
        /\ quantity' = [l \in Lines |-> IF l \in gone' THEN quantity[l]
                                                       ELSE OwnQuantity(t, l)]
        /\ reserved' = [l \in Lines |-> IF l \in gone' THEN 0
                                                       ELSE OwnReserved(t, l)]
        /\ fulfilled' = [l \in Lines |-> IF l \in gone' THEN fulfilled[l]
                                                        ELSE OwnFulfilled(t, l)]
        /\ committed' = [b \in Bins |-> Clamp(committed[b] - t.freed[b])
                                           + t.claim[b]]
        /\ onHand' = [b \in Bins |-> onHand[b] - t.shipped[b]]
        /\ IF t.next = "keep"
           THEN UNCHANGED <<status, stamped>>
           ELSE /\ status' = [status EXCEPT ![o] = t.next]
                /\ stamped' = [stamped EXCEPT
                      ![o] = @ \/ t.next \in {"completed", "cancelled"}]
        /\ owed' = IF t.due = "keep" THEN owed
                   ELSE [owed EXCEPT ![o] = t.due = "raised"]
        /\ UNCHANGED <<printed, hold>>

\* Any error rolls the transaction back: a constraint, a lost connection,
\* a move that finds too little, the victim of a deadlock.
Abort(r) ==
    /\ txn[r] # Idle
    /\ txn' = [txn EXCEPT ![r] = Idle]
    /\ UNCHANGED tables

-----------------------------------------------------------------------------
(* Single-statement transactions of other handlers on the same rows.       *)

\* Printing needs every stock line reserved or shipped; unlock lifts it.
PrintTicket(o) ==
    /\ "print" \in Handlers
    /\ Unlocked(o)
    /\ status[o] \in LiveStatuses
    /\ \A l \in LinesOf(o) : reserved[l] + fulfilled[l] >= quantity[l]
    /\ printed' = [printed EXCEPT ![o] = TRUE]
    /\ UNCHANGED <<status, stamped, owed, lineVars, levelVars, txn>>

Unlock(o) ==
    /\ "print" \in Handlers
    /\ Unlocked(o)
    /\ printed[o]
    /\ printed' = [printed EXCEPT ![o] = FALSE]
    /\ UNCHANGED <<status, stamped, owed, lineVars, levelVars, txn>>

\* A receipt or a manual adjustment of a bin.
Adjust(b, delta) ==
    /\ "adjust" \in Handlers
    /\ Unlocked(b)
    /\ onHand[b] + delta <= FloorSample[b] + MaxOnHand
    /\ onHand' = [onHand EXCEPT ![b] = Clamp(@ + delta)]
    /\ UNCHANGED <<orderVars, lineVars, committed, hold, txn>>

\* reserveTransferOrigin asks for no availability.
HoldForTransfer(b) ==
    /\ "transfer" \in Handlers
    /\ Unlocked(b)
    /\ hold[b] < MaxHold
    /\ hold' = [hold EXCEPT ![b] = @ + 1]
    /\ committed' = [committed EXCEPT ![b] = @ + 1]
    /\ UNCHANGED <<orderVars, lineVars, onHand, txn>>

ReleaseTransferHold(b) ==
    /\ Unlocked(b)
    /\ hold[b] > 0
    /\ hold' = [hold EXCEPT ![b] = @ - 1]
    /\ committed' = [committed EXCEPT ![b] = Clamp(@ - 1)]
    /\ UNCHANGED <<orderVars, lineVars, onHand, txn>>

ShipTransferHold(b) ==
    /\ Unlocked(b)
    /\ hold[b] > 0
    /\ onHand[b] >= 1
    /\ hold' = [hold EXCEPT ![b] = @ - 1]
    /\ committed' = [committed EXCEPT ![b] = Clamp(@ - 1)]
    /\ onHand' = [onHand EXCEPT ![b] = Clamp(@ - 1)]
    /\ UNCHANGED <<orderVars, lineVars, txn>>

-----------------------------------------------------------------------------
\* Orders are written without stock; a display unit is on hand.
Init ==
    /\ status \in [Orders -> Unconfirmed]
    /\ stamped = [o \in Orders |-> FALSE]
    /\ printed = [o \in Orders |-> FALSE]
    /\ owed = [o \in Orders |-> TRUE]
    /\ unwritten = Later
    /\ gone = {}
    /\ quantity = Quantity
    /\ reserved = NoUnits
    /\ fulfilled = NoUnits
    /\ onHand = [b \in Bins |-> FloorSample[b] + MaxOnHand]
    /\ committed = NoLevels
    /\ hold = NoLevels
    /\ txn = [r \in Requests |-> Idle]

\* fulfill's bodies: lines omitted (everything left), or one unit of a line.
Shipments(o) ==
    {[l \in Lines |-> IF l \in LinesOf(o) THEN quantity[l] - fulfilled[l]
                                          ELSE 0]}
    \cup {[l \in Lines |-> IF l = m THEN 1 ELSE 0] : m \in LinesOf(o)}

AtMostOne == {{}} \cup {{l} : l \in Lines}

BeginSome(r) ==
    \/ \E o \in Orders :
          \/ BeginReserve(r, o)
          \/ BeginConfirm(r, o)
          \/ \E due \in {"keep", "settled"} : BeginPayment(r, o, due)
          \/ BeginRelease(r, o)
          \/ BeginAutoRelease(r, o)
          \/ BeginCancel(r, o)
          \/ BeginComplete(r, o)
          \/ \E units \in Shipments(o) : BeginFulfill(r, o, units)
    \/ \E l \in Lines :
          \/ BeginReleaseLine(r, l)
          \/ BeginAddLine(r, l)
          \/ \E due \in {"keep", "settled"} : BeginRemoveLine(r, l, due)
          \/ \E q \in 1 .. MaxQuantity, due \in {"keep", "settled", "raised"} :
                BeginEditLine(r, l, q, due)
    \/ \E from, to \in AtMostOne : \E m \in from \cup to :
          \E q \in 1 .. quantity[m] : BeginMove(r, from, to, q)
    \/ BeginAllocatePending(r)

Advance(r) ==
    \/ LockOrder(r)
    \/ \E l \in Lines : TakeLine(r, l) \/ GiveLine(r, l) \/ ShipLine(r, l)
    \/ MoveUnits(r)
    \/ DeriveStatus(r)
    \/ Settle(r)
    \/ Commit(r)

OtherHandlers ==
    \/ \E o \in Orders : PrintTicket(o) \/ Unlock(o)
    \/ \E b \in Bins : \/ \E delta \in {-1, 1} : Adjust(b, delta)
                       \/ HoldForTransfer(b)
                       \/ ReleaseTransferHold(b)
                       \/ ShipTransferHold(b)

Next ==
    \/ \E r \in Requests : BeginSome(r) \/ Advance(r) \/ Abort(r)
    \/ OtherHandlers

Spec == Init /\ [][Next]_vars

-----------------------------------------------------------------------------
(* Liveness: requests run on, and those that cannot are rolled back.       *)

\* A move that finds too little, or a CHECK constraint that fails.
Refused(r) ==
    \/ /\ txn[r].pc = "move"
       /\ \A l \in txn[r].todo : LockFree(r, BinOf[l])
       /\ \E l \in txn[r].todo : ~Enough(txn[r], BinOf[l])
    \/ CanCommit(r) /\ ~ChecksHold(txn[r])

\* The rows r must lock next, any of them, and the requests it waits for.
WantedRows(t) ==
    CASE t.pc \in {"take", "give", "ship", "move"} -> {BinOf[l] : l \in t.todo}
      [] t.pc = "lock" -> {t.order}
      [] t.pc \in {"settle", "commit"} /\ t.next # "keep" -> {t.order}
      [] OTHER -> {}

WaitsFor(r) ==
    {s \in Requests \ {r} : txn[s].holds \cap WantedRows(txn[r]) # {}}

Blocked(r) ==
    /\ WantedRows(txn[r]) # {}
    /\ IF txn[r].pc = "move"
       THEN \E row \in WantedRows(txn[r]) : ~LockFree(r, row)
       ELSE \A row \in WantedRows(txn[r]) : ~LockFree(r, row)

\* PostgreSQL's deadlock detector: r is on a cycle of waiting requests.
Deadlocked(r) ==
    \E S \in SUBSET Requests :
        /\ r \in S
        /\ \A s \in S : Blocked(s) /\ WaitsFor(s) \cap S # {}

RolledBack(r) == (Refused(r) \/ Deadlocked(r)) /\ Abort(r)

\* The lock queue is first come, first served, hence strong fairness.
Fairness ==
    \A r \in Requests : SF_vars(Advance(r)) /\ SF_vars(RolledBack(r))

FairSpec == Spec /\ Fairness

-----------------------------------------------------------------------------
(* Properties.                                                             *)

\* Endpoints that reserve through planReservations or allocatePending.
Reservers == {"reserve", "confirm", "payment", "addLine", "editLine",
              "allocatePending"}

\* A commit that reserves for an order never promises units the bin does not
\* have: what it added fits in on_hand less the display units, however many
\* requests read the bin at the same time.
NoOversell ==
    [][\A r \in Requests :
          (txn[r].op \in Reservers /\ txn'[r] = Idle) =>
             \A b \in Bins : txn[r].claim[b] > 0 =>
                committed'[b] <= onHand'[b] - FloorSample[b]]_vars

\* inventory_levels.reserved of a bin is what order lines and open transfers
\* hold of it: no unit is reserved for nobody, none is promised twice.
LevelMatchesHolders ==
    \A b \in Bins :
        committed[b] = SumFunctionOnSet(reserved, LinesIn(b)) + hold[b]

\* A completed or cancelled order holds no stock.
ClosedHoldsNothing ==
    \A o \in Orders : stamped[o] => \A l \in LinesOf(o) : reserved[l] = 0

\* No order reads fulfilled or completed while one of its units is still in
\* the building, whichever requests raced to hand units over.
NeverAheadOfGoods ==
    \A o \in Orders : status[o] \in {"fulfilled", "completed"} =>
        \A l \in LinesOf(o) : fulfilled[l] = quantity[l]

\* An order is completed only with every unit of every line handed over.
CompletedIsDelivered ==
    \A o \in Orders : status[o] = "completed" =>
        \A l \in LinesOf(o) : fulfilled[l] = quantity[l]

\* An order that was cancelled stays cancelled, a completed one completed.
ClosedIsFinal ==
    [][\A o \in Orders : status[o] \in {"completed", "cancelled"} =>
          status'[o] = status[o]]_vars

\* A line never holds units it has already shipped.
NeverHoldsShipped ==
    \A l \in Lines : reserved[l] + fulfilled[l] <= quantity[l]

\* While its delivery ticket is printed, an order stays fully covered by
\* reserved or shipped units.
TicketedStaysCovered ==
    \A o \in Orders : printed[o] /\ status[o] \in LiveStatuses =>
        \A l \in LinesOf(o) : reserved[l] + fulfilled[l] >= quantity[l]

\* With no request in flight, an order handed over in full and paid is closed.
HandedOverAndPaidCloses ==
    (\A r \in Requests : txn[r] = Idle) =>
        \A o \in Orders :
            (~owed[o] /\ \A l \in LinesOf(o) : fulfilled[l] = quantity[l]) =>
                stamped[o]

\* Every request ends, in a commit or in a rollback.
EveryRequestEnds == \A r \in Requests : txn[r] # Idle ~> txn[r] = Idle

=============================================================================
