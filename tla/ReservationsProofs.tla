------------------------- MODULE ReservationsProofs -------------------------
(***************************************************************************)
(* Proofs about Reservations, for every set of orders, lines, bins and     *)
(* concurrent requests.                                                    *)
(*                                                                         *)
(* NoOversell rests on the row locks.  LocksExclusive says two open        *)
(* transactions never hold the same row, WritesLocked that a transaction   *)
(* about to commit holds every bin it writes, and PoolSound that what      *)
(* planReservations believes to be free in a locked bin still is.          *)
(* NeverAheadOfGoods rests on GoodsCounted: a transaction about to write   *)
(* fulfilled or completed has seen every unit of the order handed over,    *)
(* and hand-overs are never undone.  It needs LinesFixed: a line added to  *)
(* a fulfilled order is one the status was not derived from.               *)
(*                                                                         *)
(* LevelMatchesHolders, ClosedHoldsNothing and ClosedIsFinal are proved of *)
(* requests that come one at a time (Alone), from SerialInv.  Two requests *)
(* that plan from the same rows break all three: each plan is fixed before *)
(* the locks are taken.                                                    *)
(***************************************************************************)
EXTENDS Reservations, Sums, TLAPS

LocksExclusive ==
    \A r, s \in Requests : r # s => txn[r].holds \cap txn[s].holds = {}

\* The bins a transaction writes are locked, once it is past its planning.
WritesLocked(t) ==
    \A b \in Bins :
        t.freed[b] > 0 \/ t.claim[b] > 0 \/ t.shipped[b] > 0 =>
            IF t.pc = "move" THEN \E l \in t.todo : BinOf[l] = b
                             ELSE b \in t.holds

\* What a reserving transaction has claimed of a bin, and what it still
\* thinks free there, is free.
PoolSound(t) ==
    t.op \in Reservers =>
        /\ t.pc \notin {"move", "ship", "derive"}
        /\ t.pc = "settle" => t.op = "payment"
        /\ t.pc = "lock" \/ (t.pc = "give" /\ t.op = "editLine") =>
              t.pool = NoLevels
        /\ \A b \in Bins :
              /\ t.shipped[b] = 0
              /\ t.claim[b] > 0 =>
                    committed[b] + t.claim[b] <= onHand[b] - FloorSample[b]
              /\ (t.pc = "take" /\ b \in t.holds /\ t.pool[b] > 0) =>
                    committed[b] + t.claim[b] + t.pool[b]
                       <= onHand[b] - FloorSample[b]

StockInv ==
    /\ TypeOK
    /\ LocksExclusive
    /\ \A r \in Requests : WritesLocked(txn[r]) /\ PoolSound(txn[r])

\* The lines of an order and their quantities are not edited.
LinesFixed == {"addLine", "editLine"} \cap Handlers = {}

\* Every unit of t's order is handed over once t has committed.
AllOut(t) == \A l \in LinesOf(t.order) : fulfilled[l] + t.out[l] >= quantity[l]

\* A transaction that writes fulfilled or completed counted every unit.
GoodsCounted(t) ==
    LinesFixed =>
        /\ t.add = {} /\ t.size = NoUnits
        /\ (t.next \in {"fulfilled", "completed"} \/ t.op = "complete") =>
              AllOut(t)

GoodsInv ==
    /\ TypeOK
    /\ LinesFixed => NeverAheadOfGoods
    /\ \A r \in Requests : GoodsCounted(txn[r])

-----------------------------------------------------------------------------
(* Records.                                                                *)

\* Finishing the lines moves only the step and, for reserve, the status to
\* write; it never leads back to taking, moving or shipping units.
LEMMA AfterLinesFacts ==
    ASSUME NEW t \in Transactions
    PROVE  /\ AfterLines(t) \in Transactions
           /\ AfterLines(t) = [t EXCEPT !.pc = AfterLines(t).pc,
                                        !.next = AfterLines(t).next]
           /\ \/ AfterLines(t).pc \in {t.pc, "commit"}
              \/ AfterLines(t).pc = "derive" /\ t.pc = "ship"
              \/ AfterLines(t).pc = "settle" /\ t.op = "payment"
              \/ /\ AfterLines(t).pc = "lock" /\ t.pc = "give"
                 /\ t.op \in {"editLine", "removeLine"}
           /\ AfterLines(t).next \in {t.next, "open"}
           /\ t.pc = "move" => AfterLines(t) = t
<1> DEFINE opens == t.op = "reserve" /\ t.seen = "quote"
                       /\ \E l \in Lines : t.take[l] > 0
           nx == IF opens THEN "open" ELSE t.next
           step == CASE t.pc = "ship" -> "derive"
                     [] t.pc = "take" /\ t.op = "payment" -> "settle"
                     [] t.pc = "give" /\ t.op \in {"editLine", "removeLine"}
                          -> "lock"
                     [] OTHER -> "commit"
<1>1. CASE t.pc \in {"take", "give", "ship"} /\ t.todo = {}
  <2>1. AfterLines(t) = [t EXCEPT !.pc = step, !.next = nx]
    BY <1>1, Zenon DEF AfterLines
  <2>2. \/ step = "commit"
        \/ step = "derive" /\ t.pc = "ship"
        \/ step = "settle" /\ t.op = "payment"
        \/ step = "lock" /\ t.pc = "give" /\ t.op \in {"editLine", "removeLine"}
    OBVIOUS
  <2>5. step \in Steps
    BY <2>2 DEF Steps
  <2>3. nx \in {t.next, "open"} /\ nx \in Statuses \cup {"keep"}
    BY DEF Transactions, Statuses
  <2> HIDE DEF step, nx
  <2>6. AfterLines(t) \in Transactions
    BY <2>1, <2>3, <2>5, ZenonT(40) DEF Transactions
  <2>7. AfterLines(t).pc = step /\ AfterLines(t).next = nx
    BY <2>1 DEF Transactions
  <2>8. t.pc # "move"
    BY <1>1
  <2>4. QED
    BY <2>1, <2>2, <2>3, <2>6, <2>7, <2>8, Zenon
<1>2. CASE ~(t.pc \in {"take", "give", "ship"} /\ t.todo = {})
  <2>1. AfterLines(t) = t
    BY <1>2, Zenon DEF AfterLines
  <2>2. QED
    BY <2>1 DEF Transactions
<1>3. QED
  BY <1>1, <1>2

\* Finishing the lines keeps the writes and locks, and with them the parts of
\* the invariants that speak of one transaction.
LEMMA AfterLinesKeeps ==
    ASSUME NEW t \in Transactions
    PROVE  /\ AfterLines(t).op = t.op /\ AfterLines(t).order = t.order
           /\ AfterLines(t).holds = t.holds
           /\ WritesLocked(t) => WritesLocked(AfterLines(t))
           /\ PoolSound(t) => PoolSound(AfterLines(t))
           /\ GoodsCounted(t) => GoodsCounted(AfterLines(t))
<1> DEFINE u == AfterLines(t)
<1>1. /\ u = [t EXCEPT !.pc = u.pc, !.next = u.next]
      /\ \/ u.pc \in {t.pc, "commit"}
         \/ u.pc = "derive" /\ t.pc = "ship"
         \/ u.pc = "settle" /\ t.op = "payment"
         \/ u.pc = "lock" /\ t.pc = "give" /\ t.op \in {"editLine", "removeLine"}
      /\ u.next \in {t.next, "open"} /\ (t.pc = "move" => u = t)
  BY AfterLinesFacts
<1> HIDE DEF u
<1>2. /\ u.op = t.op /\ u.order = t.order /\ u.holds = t.holds
      /\ u.todo = t.todo /\ u.out = t.out /\ u.pool = t.pool
      /\ u.freed = t.freed /\ u.claim = t.claim /\ u.shipped = t.shipped
      /\ u.add = t.add /\ u.size = t.size
  BY <1>1 DEF Transactions
<1>3. WritesLocked(t) => WritesLocked(u)
  BY <1>1, <1>2 DEF WritesLocked
<1>4. PoolSound(t) => PoolSound(u)
  BY <1>1, <1>2 DEF PoolSound, Reservers
<1>5. GoodsCounted(t) => GoodsCounted(u)
  BY <1>1, <1>2 DEF GoodsCounted, AllOut
<1>6. QED
  BY <1>2, <1>3, <1>4, <1>5 DEF u

LEMMA IdleType == Idle \in Transactions
BY DEF Idle, Transactions, Steps, NoUnits, NoLevels

-----------------------------------------------------------------------------
(* Plans.                                                                  *)

LEMMA OwnTypes ==
    ASSUME TypeOK, NEW t \in Transactions, NEW l \in Lines
    PROVE  /\ OwnReserved(t, l) \in Nat /\ OwnFulfilled(t, l) \in Nat
           /\ OwnQuantity(t, l) \in Nat \ {0}
           /\ Needed(t, l) \in Nat
<1>1. /\ reserved[l] \in Nat /\ fulfilled[l] \in Nat
      /\ quantity[l] \in Nat \ {0}
  BY DEF TypeOK
<1>2. t.give[l] \in Nat /\ t.take[l] \in Nat /\ t.out[l] \in Nat
      /\ t.size[l] \in Nat
  BY DEF Transactions
<1>3. OwnReserved(t, l) \in Nat /\ OwnFulfilled(t, l) \in Nat
  BY <1>1, <1>2 DEF OwnReserved, OwnFulfilled, Clamp
<1>4. OwnQuantity(t, l) \in Nat \ {0}
  BY <1>1, <1>2 DEF OwnQuantity
<1>5. QED
  BY <1>3, <1>4 DEF Needed, Clamp

\* reserveOrder keeps the record but for its step and its lines.
LEMMA ReservingType ==
    ASSUME TypeOK, NEW t \in Transactions
    PROVE  /\ Reserving(t) \in Transactions
           /\ Reserving(t) = [t EXCEPT !.pc = "take", !.todo = Reserving(t).todo,
                                       !.want = Reserving(t).want]
<1> DEFINE lines == LinesOf(t.order) \cup t.add
           todo == {l \in lines : Needed(t, l) > 0}
           want == [l \in Lines |-> IF l \in lines THEN Needed(t, l) ELSE 0]
<1>1. lines \subseteq Lines
  BY DEF LinesOf, Rows, Transactions
<1>2. todo \in SUBSET Lines /\ want \in [Lines -> Nat]
  BY <1>1, OwnTypes
<1>3. Reserving(t) = [t EXCEPT !.pc = "take", !.todo = todo, !.want = want]
  BY Zenon DEF Reserving
<1> HIDE DEF todo, want
<1>4. QED
  BY <1>2, <1>3, ZenonT(40) DEF Transactions, Steps

LEMMA PlanTypes ==
    ASSUME TypeOK, NEW o \in Orders
    PROVE  /\ ReservePlan(o) \in Transactions
           /\ \A lines \in SUBSET Lines : ReleasePlan(o, lines) \in Transactions
           /\ \A units \in [Lines -> Nat] : ShipPlan(o, units) \in Transactions
<1>1. \A l \in Lines : reserved[l] \in Nat
  BY DEF TypeOK
<1>2. LinesOf(o) \subseteq Lines
  BY DEF LinesOf, Rows
<1>3. ReservePlan(o) \in Transactions
  <2>1. [Idle EXCEPT !.order = o] \in Transactions
    BY IdleType DEF Transactions
  <2>2. QED
    BY <2>1, ReservingType DEF ReservePlan
<1>7. "give" \in Steps /\ "ship" \in Steps
  BY DEF Steps
<1>4. ASSUME NEW lines \in SUBSET Lines
      PROVE  ReleasePlan(o, lines) \in Transactions
  <2> DEFINE todo == {l \in lines : reserved[l] > 0}
             want == [l \in Lines |-> IF l \in lines THEN reserved[l] ELSE 0]
  <2>1. todo \in SUBSET Lines
    OBVIOUS
  <2>2. want \in [Lines -> Nat]
    BY <1>1
  <2>3. ReleasePlan(o, lines) = [Idle EXCEPT !.pc = "give", !.order = o,
                                             !.todo = todo, !.want = want]
    BY Zenon DEF ReleasePlan
  <2> HIDE DEF todo, want
  <2>4. QED
    BY <2>1, <2>2, <2>3, <1>7, IdleType, ZenonT(40) DEF Transactions
<1>5. ASSUME NEW units \in [Lines -> Nat]
      PROVE  ShipPlan(o, units) \in Transactions
  <2> DEFINE todo == {l \in LinesOf(o) : units[l] > 0}
             want == [l \in Lines |-> Least(reserved[l], units[l])]
  <2>1. todo \in SUBSET Lines
    BY <1>2
  <2>2. want \in [Lines -> Nat]
    BY <1>1 DEF Least
  <2>3. ShipPlan(o, units) = [Idle EXCEPT !.pc = "ship", !.order = o,
                                          !.todo = todo, !.out = units,
                                          !.want = want]
    BY Zenon DEF ShipPlan
  <2> HIDE DEF todo, want
  <2>4. QED
    BY <2>1, <2>2, <2>3, <1>7, IdleType, ZenonT(40) DEF Transactions
<1>6. QED
  BY <1>3, <1>4, <1>5
\* A plan holds no lock and has no bin to write yet.
Blank(rec) ==
    /\ rec.holds = {} /\ rec.next = "keep"
    /\ rec.freed = NoLevels /\ rec.claim = NoLevels /\ rec.shipped = NoLevels
    /\ rec.add = {} /\ rec.size = NoUnits /\ rec.pool = NoLevels

LEMMA PlansBlank ==
    ASSUME NEW o
    PROVE  /\ Blank(ReservePlan(o)) /\ ReservePlan(o).pc = "take"
           /\ \A lines : /\ Blank(ReleasePlan(o, lines))
                         /\ ReleasePlan(o, lines).pc = "give"
           /\ \A units : /\ Blank(ShipPlan(o, units))
                         /\ ShipPlan(o, units).pc = "ship"
BY DEF Blank, ReservePlan, Reserving, ReleasePlan, ShipPlan, Idle

-----------------------------------------------------------------------------
(* Steps that write no table.                                              *)

\* A request that only plans or locks keeps the invariants, when its new
\* record does and the rows it locked were free.
LEMMA PlanningStock ==
    ASSUME StockInv, NEW r \in Requests, NEW t \in Transactions,
           txn' = [txn EXCEPT ![r] = t], UNCHANGED tables,
           \A row \in t.holds \ txn[r].holds : LockFree(r, row),
           WritesLocked(t), PoolSound(t)
    PROVE  StockInv'
<1>1. TypeOK'
  BY DEF StockInv, TypeOK, tables, orderVars, lineVars, levelVars
<1>2. \A s \in Requests : txn'[s] = IF s = r THEN t ELSE txn[s]
  BY DEF StockInv, TypeOK
<1>3. LocksExclusive'
  BY <1>2 DEF StockInv, LocksExclusive, LockFree
<1>4. \A s \in Requests : WritesLocked(txn'[s])
  BY <1>2, Zenon DEF StockInv
<1>5. \A s \in Requests : PoolSound(txn'[s])
  BY <1>2, Zenon DEF StockInv
<1>6. \A u : PoolSound(u)' = PoolSound(u')
  BY DEF PoolSound, tables, levelVars
<1>7. QED
  BY <1>1, <1>3, <1>4, <1>5, <1>6 DEF StockInv
-----------------------------------------------------------------------------
(* Beginning a request.                                                    *)

\* What every handler's plan has in common: it writes no bin yet, a move
\* excepted, which names the bins it will lock, and it locks at most its
\* order.
PlanOK(r, op, rec) ==
    /\ rec \in Transactions
    /\ rec.holds \cap Bins = {}
    /\ \A row \in rec.holds : LockFree(r, row)
    /\ rec.shipped = NoLevels
    /\ IF rec.pc = "move"
       THEN /\ op = "move"
            /\ \A b \in Bins : rec.freed[b] > 0 \/ rec.claim[b] > 0 =>
                  \E l \in rec.todo : BinOf[l] = b
       ELSE rec.freed = NoLevels /\ rec.claim = NoLevels
    /\ rec.pc = "ship" => op = "fulfill"
    /\ rec.pc = "settle" => op \in {"payment", "complete"}
    /\ rec.pc # "derive"
    /\ rec.pool = NoLevels
    /\ rec.next \in {"keep", "open", "cancelled"}
    /\ op \notin {"addLine", "editLine"} => rec.add = {} /\ rec.size = NoUnits
    /\ LinesFixed /\ op = "complete" => AllOut(rec)

\* r goes on with the record t, which is sound and locks only free rows, and
\* writes no table.
Planned(r, t) ==
    /\ t \in Transactions
    /\ \A row \in t.holds \ txn[r].holds : LockFree(r, row)
    /\ WritesLocked(t) /\ PoolSound(t) /\ GoodsCounted(t)
    /\ txn' = [txn EXCEPT ![r] = t]
    /\ UNCHANGED tables

LEMMA BeginOpens ==
    ASSUME TypeOK, NEW r \in Requests, NEW op, NEW rec,
           PlanOK(r, op, rec), Begin(r, op, rec)
    PROVE  \E t : Planned(r, t)
<1> DEFINE u == [rec EXCEPT !.op = op]
<1>1. op \in Endpoints /\ (LinesFixed => op \notin {"addLine", "editLine"})
  BY ConstantsAssumption DEF Begin, LinesFixed
<1>2. /\ u \in Transactions /\ u.op = op /\ u.holds = rec.holds
      /\ u.pc = rec.pc /\ u.todo = rec.todo /\ u.next = rec.next
      /\ u.order = rec.order /\ u.out = rec.out
      /\ u.freed = rec.freed /\ u.claim = rec.claim /\ u.shipped = rec.shipped
      /\ u.add = rec.add /\ u.size = rec.size /\ u.pool = rec.pool
  BY <1>1 DEF PlanOK, Transactions
<1>3. txn[r] = Idle /\ txn' = [txn EXCEPT ![r] = AfterLines(u)]
      /\ UNCHANGED tables
  BY DEF Begin
<1> HIDE DEF u
<1>4. WritesLocked(u)
  BY <1>2 DEF WritesLocked, PlanOK, NoLevels
<1>5. PoolSound(u)
  <2>1. SUFFICES ASSUME op \in Reservers PROVE PoolSound(u)
    BY <1>2 DEF PoolSound
  <2>2. /\ u.pc \notin {"move", "ship", "derive"} /\ u.claim = NoLevels
        /\ u.shipped = NoLevels /\ u.pool = NoLevels
        /\ u.pc = "settle" => u.op = "payment"
    BY <1>2, <2>1 DEF PlanOK, Reservers
  <2>3. \A b \in Bins : b \notin u.holds
    BY <1>2 DEF PlanOK
  <2>4. QED
    BY <2>2, <2>3 DEF PoolSound, NoLevels
<1>6. GoodsCounted(u)
  BY <1>1, <1>2 DEF GoodsCounted, PlanOK, AllOut
<1>7. \A row \in AfterLines(u).holds \ txn[r].holds : LockFree(r, row)
  BY <1>2, AfterLinesKeeps DEF PlanOK
<1>9. AfterLines(u) \in Transactions
  BY <1>2, AfterLinesFacts
<1>10. WritesLocked(AfterLines(u)) /\ PoolSound(AfterLines(u))
       /\ GoodsCounted(AfterLines(u))
  BY <1>2, <1>4, <1>5, <1>6, AfterLinesKeeps
<1>11. Planned(r, AfterLines(u))
  BY <1>3, <1>7, <1>9, <1>10 DEF Planned
<1>8. QED
  BY <1>11
\* The handlers, one by one.
LEMMA ReserveOpens ==
    ASSUME TypeOK, NEW r \in Requests, NEW o \in Orders, BeginReserve(r, o)
    PROVE  \E t : Planned(r, t)
<1> DEFINE rec == [ReservePlan(o) EXCEPT !.seen = status[o]]
<1>1. PlanOK(r, "reserve", rec)
  <2>1. status[o] \in Statuses
    BY DEF TypeOK
  <2>2. ReservePlan(o) \in Transactions /\ Blank(ReservePlan(o))
        /\ ReservePlan(o).pc = "take"
    BY PlanTypes, PlansBlank
  <2>3. rec \in Transactions /\ Blank(rec) /\ rec.pc = "take"
    BY <2>1, <2>2 DEF Blank, Transactions
  <2>4. QED
    BY <2>3 DEF PlanOK, Blank
<1>2. Begin(r, "reserve", rec)
  BY DEF BeginReserve
<1>3. QED
  BY <1>1, <1>2, BeginOpens

LEMMA ConfirmOpens ==
    ASSUME TypeOK, NEW r \in Requests, NEW o \in Orders, BeginConfirm(r, o)
    PROVE  \E t : Planned(r, t)
<1> DEFINE rec == [Idle EXCEPT !.pc = "lock", !.order = o, !.reserves = TRUE,
                               !.next = "open"]
<1>1. rec \in Transactions
  <2>1. "lock" \in Steps /\ "open" \in Statuses
    BY DEF Steps, Statuses
  <2>2. QED
    BY <2>1, IdleType DEF Transactions
<1>3. PlanOK(r, "confirm", rec)
  BY <1>1 DEF PlanOK, Idle
<1>2. Begin(r, "confirm", rec)
  BY DEF BeginConfirm
<1> HIDE DEF rec
<1>4. QED
  BY <1>2, <1>3, BeginOpens

LEMMA PaymentOpens ==
    ASSUME TypeOK, NEW r \in Requests, NEW o \in Orders,
           NEW due \in {"keep", "settled"}, BeginPayment(r, o, due)
    PROVE  \E t : Planned(r, t)
<1> DEFINE confirming == [ReservePlan(o) EXCEPT !.next = "open", !.due = due]
           settling == [Idle EXCEPT !.pc = "settle", !.order = o, !.due = due]
<1>1. PlanOK(r, "payment", confirming)
  <2>1. ReservePlan(o) \in Transactions /\ Blank(ReservePlan(o))
        /\ ReservePlan(o).pc = "take"
    BY PlanTypes, PlansBlank
  <2>2. confirming \in Transactions
    BY <2>1, ZenonT(40) DEF Transactions, Statuses
  <2>3. QED
    BY <2>1, <2>2 DEF PlanOK, Blank, Transactions
<1>2. PlanOK(r, "payment", settling)
  <2>1. settling \in Transactions
    BY IdleType DEF Transactions, Steps
  <2>2. QED
    BY <2>1 DEF PlanOK, Idle
<1>3. Begin(r, "payment", IF status[o] \in Unconfirmed THEN confirming
                                                       ELSE settling)
  BY DEF BeginPayment
<1>4. QED
  BY <1>1, <1>2, <1>3, BeginOpens

LEMMA ReleaseOpens ==
    ASSUME TypeOK, NEW r \in Requests, NEW o \in Orders, BeginRelease(r, o)
    PROVE  \E t : Planned(r, t)
<1>1. PlanOK(r, "release", ReleasePlan(o, LinesOf(o)))
  BY PlanTypes, PlansBlank DEF PlanOK, Blank, LinesOf, Rows
<1>2. QED
  BY <1>1, BeginOpens DEF BeginRelease

LEMMA AutoReleaseOpens ==
    ASSUME TypeOK, NEW r \in Requests, NEW o \in Orders, BeginAutoRelease(r, o)
    PROVE  \E t : Planned(r, t)
<1>1. PlanOK(r, "autoRelease", ReleasePlan(o, LinesOf(o)))
  BY PlanTypes, PlansBlank DEF PlanOK, Blank, LinesOf, Rows
<1>2. QED
  BY <1>1, BeginOpens DEF BeginAutoRelease

LEMMA ReleaseLineOpens ==
    ASSUME TypeOK, NEW r \in Requests, NEW l \in Lines, BeginReleaseLine(r, l)
    PROVE  \E t : Planned(r, t)
<1>1. PlanOK(r, "releaseLine", ReleasePlan(OrderOf[l], {l}))
  BY ConstantsAssumption, PlanTypes, PlansBlank DEF PlanOK, Blank
<1>2. QED
  BY <1>1, BeginOpens DEF BeginReleaseLine

LEMMA RemoveLineOpens ==
    ASSUME TypeOK, NEW r \in Requests, NEW l \in Lines,
           NEW due \in {"keep", "settled"}, BeginRemoveLine(r, l, due)
    PROVE  \E t : Planned(r, t)
<1> DEFINE rec == [ReleasePlan(OrderOf[l], {l}) EXCEPT !.drop = {l}, !.due = due]
<1>1. PlanOK(r, "removeLine", rec)
  <2> DEFINE base == ReleasePlan(OrderOf[l], {l})
  <2>1. base \in Transactions /\ Blank(base) /\ base.pc = "give"
    BY ConstantsAssumption, PlanTypes, PlansBlank
  <2> HIDE DEF base
  <2>2. [base EXCEPT !.drop = {l}, !.due = due] \in Transactions
    BY <2>1 DEF Transactions
  <2>3. PlanOK(r, "removeLine", [base EXCEPT !.drop = {l}, !.due = due])
    BY <2>1, <2>2 DEF PlanOK, Blank, Transactions
  <2>4. QED
    BY <2>3 DEF base
<1>2. Begin(r, "removeLine", rec)
  BY DEF BeginRemoveLine
<1>3. QED
  BY <1>1, <1>2, BeginOpens

LEMMA AddLineOpens ==
    ASSUME TypeOK, NEW r \in Requests, NEW l \in Lines, BeginAddLine(r, l)
    PROVE  \E t : Planned(r, t)
<1> DEFINE asks == status[OrderOf[l]] # "quote"
           rec == [Idle EXCEPT !.pc = "lock", !.order = OrderOf[l],
                               !.add = {l}, !.reserves = asks, !.due = "raised"]
<1>1. Begin(r, "addLine", rec)
  BY DEF BeginAddLine
<1>2. OrderOf[l] \in Orders
  BY ConstantsAssumption
<1>3. asks \in BOOLEAN
  OBVIOUS
<1> HIDE DEF asks
<1>4. rec \in Transactions
  BY <1>2, <1>3, IdleType, ZenonT(40) DEF Transactions, Steps
<1>5. PlanOK(r, "addLine", rec)
  BY <1>4 DEF PlanOK, Idle
<1> HIDE DEF rec
<1>6. QED
  BY <1>1, <1>5, BeginOpens

LEMMA EditLineOpens ==
    ASSUME TypeOK, NEW r \in Requests, NEW l \in Lines, NEW q \in Nat,
           NEW due \in {"keep", "settled", "raised"}, BeginEditLine(r, l, q, due)
    PROVE  \E t : Planned(r, t)
<1> DEFINE o == OrderOf[l]
           todo == {m \in {l} : reserved[m] > q}
           want == [m \in Lines |-> IF m = l THEN Clamp(reserved[m] - q) ELSE 0]
           size == [m \in Lines |-> IF m = l THEN q ELSE 0]
           grows == q > quantity[l] /\ status[o] \notin Unconfirmed
           rec == [Idle EXCEPT !.pc = "give", !.order = o, !.todo = todo,
                               !.want = want, !.size = size,
                               !.reserves = grows, !.due = due]
<1>1. Begin(r, "editLine", rec)
  BY DEF BeginEditLine
<1>2. o \in Orders /\ todo \in SUBSET Lines /\ grows \in BOOLEAN
  BY ConstantsAssumption
<1>3. want \in [Lines -> Nat] /\ size \in [Lines -> Nat]
  <2>1. \A m \in Lines : Clamp(reserved[m] - q) \in Nat
    BY DEF TypeOK, Clamp
  <2>2. QED
    BY <2>1
<1> HIDE DEF o, todo, want, size, grows
<1>4. rec \in Transactions
  BY <1>2, <1>3, IdleType, ZenonT(40) DEF Transactions, Steps
<1>5. PlanOK(r, "editLine", rec)
  BY <1>4 DEF PlanOK, Idle
<1> HIDE DEF rec
<1>6. QED
  BY <1>1, <1>5, BeginOpens

LEMMA CancelOpens ==
    ASSUME TypeOK, NEW r \in Requests, NEW o \in Orders, BeginCancel(r, o)
    PROVE  \E t : Planned(r, t)
<1> DEFINE rec == [ReleasePlan(o, LinesOf(o)) EXCEPT !.holds = {o},
                                                     !.next = "cancelled"]
<1>1. LockFree(r, o)
  BY DEF BeginCancel, Unlocked, LockFree
<1>2. PlanOK(r, "cancel", rec)
  <2> DEFINE base == ReleasePlan(o, LinesOf(o))
  <2>1. base \in Transactions /\ Blank(base) /\ base.pc = "give"
    BY PlanTypes, PlansBlank DEF LinesOf, Rows
  <2> HIDE DEF base
  <2>2. [base EXCEPT !.holds = {o}, !.next = "cancelled"] \in Transactions
    BY <2>1 DEF Transactions, Statuses
  <2>3. o \notin Bins
    BY ConstantsAssumption
  <2>4. PlanOK(r, "cancel", [base EXCEPT !.holds = {o}, !.next = "cancelled"])
    BY <1>1, <2>1, <2>2, <2>3 DEF PlanOK, Blank, Transactions
  <2>5. QED
    BY <2>4 DEF base
<1>3. Begin(r, "cancel", rec)
  BY DEF BeginCancel
<1>4. QED
  BY <1>2, <1>3, BeginOpens
LEMMA FulfillOpens ==
    ASSUME TypeOK, NEW r \in Requests, NEW o \in Orders,
           NEW units \in Shipments(o), BeginFulfill(r, o, units)
    PROVE  \E t : Planned(r, t)
<1>1. units \in [Lines -> Nat]
  BY DEF Shipments, TypeOK
<1>2. ShipPlan(o, units) \in Transactions /\ Blank(ShipPlan(o, units))
      /\ ShipPlan(o, units).pc = "ship"
  BY <1>1, PlanTypes, PlansBlank
<1>3. PlanOK(r, "fulfill", ShipPlan(o, units))
  BY <1>2 DEF PlanOK, Blank
<1>4. QED
  BY <1>3, BeginOpens DEF BeginFulfill

\* An order is completed when it reads fulfilled, or when its lines do.
LEMMA CompleteOpens ==
    ASSUME TypeOK, LinesFixed => NeverAheadOfGoods,
           NEW r \in Requests, NEW o \in Orders, BeginComplete(r, o)
    PROVE  \E t : Planned(r, t)
<1> DEFINE rec == [Idle EXCEPT !.pc = "settle", !.order = o]
<1>1. LinesFixed =>
         \A l \in LinesOf(o) : fulfilled[l] = quantity[l] /\ quantity[l] \in Nat
  BY DEF BeginComplete, NeverAheadOfGoods, LinesOf, Rows, TypeOK
<1>2. /\ rec \in Transactions /\ rec.pc = "settle" /\ rec.holds = {}
      /\ rec.shipped = NoLevels /\ rec.freed = NoLevels
      /\ rec.claim = NoLevels /\ rec.next = "keep" /\ rec.order = o
      /\ rec.out = NoUnits /\ rec.add = {} /\ rec.size = NoUnits
      /\ rec.pool = NoLevels
  BY IdleType, ZenonT(40) DEF Transactions, Steps, Idle
<1> HIDE DEF rec
<1>3. LinesFixed => AllOut(rec)
  BY <1>1, <1>2 DEF AllOut, NoUnits, LinesOf, Rows
<1>4. PlanOK(r, "complete", rec)
  BY <1>2, <1>3 DEF PlanOK
<1>5. QED
  BY <1>4, BeginOpens DEF BeginComplete, rec

LEMMA AllocatePendingOpens ==
    ASSUME TypeOK, NEW r \in Requests, BeginAllocatePending(r)
    PROVE  \E t : Planned(r, t)
<1> DEFINE short == {l \in Lines : Pending(l)}
           want == [l \in Lines |-> IF l \in short
                                    THEN quantity[l] - reserved[l] - fulfilled[l]
                                    ELSE 0]
           rec == [Idle EXCEPT !.pc = "take", !.todo = short, !.want = want]
<1>1. want \in [Lines -> Nat]
  BY DEF TypeOK, Pending
<1>2. Begin(r, "allocatePending", rec)
  BY DEF BeginAllocatePending
<1>3. short \in SUBSET Lines
  OBVIOUS
<1> HIDE DEF short, want
<1>4. rec \in Transactions
  BY <1>1, <1>3, IdleType DEF Transactions, Steps
<1>5. PlanOK(r, "allocatePending", rec)
  BY <1>4 DEF PlanOK, Idle
<1>6. QED
  BY <1>2, <1>5, BeginOpens

LEMMA MoveOpens ==
    ASSUME TypeOK, NEW r \in Requests, NEW from \in AtMostOne,
           NEW to \in AtMostOne, NEW q \in Nat, BeginMove(r, from, to, q)
    PROVE  \E t : Planned(r, t)
<1> DEFINE Of(lines) == [l \in Lines |-> IF l \in lines THEN q ELSE 0]
           At(lines) == [b \in Bins |-> IF \E l \in lines : BinOf[l] = b
                                        THEN q ELSE 0]
           rec == [Idle EXCEPT !.pc = "move", !.todo = from \cup to,
                               !.give = Of(from), !.freed = At(from),
                               !.take = Of(to), !.claim = At(to)]
<1>1. from \cup to \in SUBSET Lines
  BY DEF AtMostOne
<1>2. \A lines : Of(lines) \in [Lines -> Nat] /\ At(lines) \in [Bins -> Nat]
  OBVIOUS
<1>3. \A lines : \A b \in Bins : At(lines)[b] > 0 =>
         \E l \in lines : BinOf[l] = b
  OBVIOUS
<1>4. Begin(r, "move", rec)
  BY DEF BeginMove
<1> HIDE DEF Of, At
<1>5. rec \in Transactions
  BY <1>1, <1>2, IdleType DEF Transactions, Steps
<1>6. /\ rec.pc = "move" /\ rec.todo = from \cup to /\ rec.holds = {}
      /\ rec.freed = At(from) /\ rec.claim = At(to)
      /\ rec.shipped = NoLevels /\ rec.next = "keep"
      /\ rec.pool = NoLevels /\ rec.add = {} /\ rec.size = NoUnits
  BY DEF Idle
<1> HIDE DEF rec
<1>7. PlanOK(r, "move", rec)
  BY <1>3, <1>5, <1>6 DEF PlanOK
<1>8. QED
  BY <1>4, <1>7, BeginOpens

LEMMA BeginSomeOpens ==
    ASSUME TypeOK, LinesFixed => NeverAheadOfGoods,
           NEW r \in Requests, BeginSome(r)
    PROVE  \E t : Planned(r, t)
<1>1. CASE \E o \in Orders : BeginReserve(r, o)
  BY <1>1, ReserveOpens
<1>2. CASE \E o \in Orders : BeginConfirm(r, o)
  BY <1>2, ConfirmOpens
<1>3. CASE \E o \in Orders : \E due \in {"keep", "settled"} :
              BeginPayment(r, o, due)
  BY <1>3, PaymentOpens
<1>4. CASE \E o \in Orders : BeginRelease(r, o)
  BY <1>4, ReleaseOpens
<1>5. CASE \E o \in Orders : BeginAutoRelease(r, o)
  BY <1>5, AutoReleaseOpens
<1>6. CASE \E o \in Orders : BeginCancel(r, o)
  BY <1>6, CancelOpens
<1>7. CASE \E o \in Orders : BeginComplete(r, o)
  BY <1>7, CompleteOpens
<1>8. CASE \E o \in Orders : \E units \in Shipments(o) :
              BeginFulfill(r, o, units)
  BY <1>8, FulfillOpens
<1>9. CASE \E l \in Lines : BeginReleaseLine(r, l)
  BY <1>9, ReleaseLineOpens
<1>10. CASE \E l \in Lines : \E due \in {"keep", "settled"} :
               BeginRemoveLine(r, l, due)
  BY <1>10, RemoveLineOpens
<1>13. CASE \E l \in Lines : BeginAddLine(r, l)
  BY <1>13, AddLineOpens
<1>14. CASE \E l \in Lines : \E q \in 1 .. MaxQuantity,
               due \in {"keep", "settled", "raised"} : BeginEditLine(r, l, q, due)
  <2>1. 1 .. MaxQuantity \subseteq Nat
    BY ConstantsAssumption
  <2>2. QED
    BY <1>14, <2>1, EditLineOpens
<1>11. CASE \E from, to \in AtMostOne : \E m \in from \cup to :
               \E q \in 1 .. quantity[m] : BeginMove(r, from, to, q)
  <2>1. PICK from \in AtMostOne, to \in AtMostOne : \E m \in from \cup to :
             \E q \in 1 .. quantity[m] : BeginMove(r, from, to, q)
    BY <1>11
  <2>2. PICK m \in from \cup to, q \in Nat : BeginMove(r, from, to, q)
    <3>1. \A m \in from \cup to : 1 .. quantity[m] \subseteq Nat
      BY DEF TypeOK, AtMostOne
    <3>2. QED
      BY <2>1, <3>1
  <2>3. QED
    BY <2>2, MoveOpens
<1>12. CASE BeginAllocatePending(r)
  BY <1>12, AllocatePendingOpens
<1>15. QED
  BY <1>1, <1>2, <1>3, <1>4, <1>5, <1>6, <1>7, <1>8, <1>9, <1>10, <1>11, <1>12,
     <1>13, <1>14
  DEF BeginSome
-----------------------------------------------------------------------------
(* The line steps.                                                         *)

\* A line step goes on with a sound record.
LEMMA LineStepPlans ==
    ASSUME NEW r \in Requests, NEW t \in Transactions,
           \A row \in t.holds \ txn[r].holds : LockFree(r, row),
           WritesLocked(t), PoolSound(t), GoodsCounted(t),
           txn' = [txn EXCEPT ![r] = AfterLines(t)], UNCHANGED tables
    PROVE  \E u : Planned(r, u)
<1>1. Planned(r, AfterLines(t))
  BY AfterLinesFacts, AfterLinesKeeps DEF Planned
<1>2. QED
  BY <1>1

LEMMA TakeLinePlans ==
    ASSUME StockInv, GoodsInv, NEW r \in Requests, NEW l \in Lines,
           TakeLine(r, l)
    PROVE  \E u : Planned(r, u)
<1> DEFINE t == txn[r]
           b == BinOf[l]
           pool == IF b \in t.holds THEN t.pool[b] ELSE Clamp(Available(b))
           n == Least(t.want[l], pool)
           u == [t EXCEPT !.todo = @ \ {l}, !.holds = @ \cup {b},
                          !.pool[b] = pool - n,
                          !.take[l] = n, !.claim[b] = @ + n]
<1>1. /\ t.pc = "take" /\ l \in t.todo /\ LockFree(r, b)
      /\ txn' = [txn EXCEPT ![r] = AfterLines(u)] /\ UNCHANGED tables
  BY DEF TakeLine
<1>2. t \in Transactions /\ b \in Bins /\ WritesLocked(t) /\ PoolSound(t)
      /\ GoodsCounted(t)
  BY ConstantsAssumption DEF StockInv, GoodsInv, TypeOK
<1>3. /\ committed \in [Bins -> Nat] /\ onHand \in [Bins -> Int]
      /\ FloorSample \in [Bins -> Nat]
  BY ConstantsAssumption DEF StockInv, TypeOK
<1>4. pool \in Nat /\ n \in Nat /\ n <= pool
  <2>1. t.pool[b] \in Nat /\ t.want[l] \in Nat
    BY <1>2 DEF Transactions
  <2>2. Clamp(Available(b)) \in Nat
    BY <1>2, <1>3 DEF Clamp, Available
  <2>3. QED
    BY <2>1, <2>2 DEF Least
<1>5. b \notin t.holds => t.claim[b] = 0
  BY <1>1, <1>2 DEF WritesLocked, Transactions
<1> HIDE DEF t, n
<1>6. u \in Transactions
  <2> DEFINE p2 == [t.pool EXCEPT ![b] = pool - n]
             k2 == [t.take EXCEPT ![l] = n]
             c2 == [t.claim EXCEPT ![b] = @ + n]
  <2>1. /\ pool - n \in Nat /\ t.pool \in [Bins -> Nat]
        /\ t.take \in [Lines -> Nat] /\ t.claim \in [Bins -> Nat]
        /\ t.todo \ {l} \in SUBSET Lines
        /\ t.holds \cup {b} \in SUBSET (Bins \cup Orders \cup {NoOrder})
    BY <1>2, <1>4 DEF Transactions
  <2>2. p2 \in [Bins -> Nat] /\ k2 \in [Lines -> Nat] /\ c2 \in [Bins -> Nat]
    BY <1>2, <1>4, <2>1
  <2>3. u = [t EXCEPT !.todo = @ \ {l}, !.holds = @ \cup {b},
                      !.pool = p2, !.take = k2, !.claim = c2]
    OBVIOUS
  <2> HIDE DEF p2, k2, c2, u
  <2>4. QED
    BY <1>2, <2>1, <2>2, <2>3 DEF Transactions
<1>7. /\ u.pc = "take" /\ u.op = t.op /\ u.next = t.next /\ u.order = t.order
      /\ u.holds = t.holds \cup {b} /\ u.out = t.out
      /\ u.freed = t.freed /\ u.shipped = t.shipped
      /\ u.pool = [t.pool EXCEPT ![b] = pool - n]
      /\ u.claim = [t.claim EXCEPT ![b] = @ + n]
      /\ u.add = t.add /\ u.size = t.size
  BY <1>1, <1>2 DEF Transactions
<1>8. /\ t.pool \in [Bins -> Nat] /\ t.claim \in [Bins -> Nat]
      /\ t.freed \in [Bins -> Nat] /\ t.shipped \in [Bins -> Nat]
  BY <1>2 DEF Transactions
<1> HIDE DEF u
<1>9. WritesLocked(u)
  BY <1>1, <1>2, <1>7, <1>8 DEF WritesLocked
<1>10. PoolSound(u)
  <2>1. SUFFICES ASSUME t.op \in Reservers, NEW c \in Bins
                 PROVE  /\ u.shipped[c] = 0
                        /\ u.claim[c] > 0 =>
                              committed[c] + u.claim[c]
                                 <= onHand[c] - FloorSample[c]
                        /\ (c \in u.holds /\ u.pool[c] > 0) =>
                              committed[c] + u.claim[c] + u.pool[c]
                                 <= onHand[c] - FloorSample[c]
    BY <1>7 DEF PoolSound
  <2>2. /\ t.shipped[c] = 0
        /\ t.claim[c] > 0 =>
              committed[c] + t.claim[c] <= onHand[c] - FloorSample[c]
        /\ (c \in t.holds /\ t.pool[c] > 0) =>
              committed[c] + t.claim[c] + t.pool[c]
                 <= onHand[c] - FloorSample[c]
    BY <1>1, <1>2, <2>1 DEF PoolSound
  <2>3. CASE c # b
    BY <1>7, <1>8, <2>2, <2>3
  <2>4. CASE c = b
    <3>1. u.claim[c] = t.claim[c] + n /\ u.pool[c] = pool - n
          /\ u.shipped[c] = t.shipped[c]
      BY <1>7, <1>8, <2>4
    <3>2. t.claim[c] \in Nat /\ committed[c] \in Nat /\ onHand[c] \in Int
          /\ FloorSample[c] \in Nat
      BY <1>3, <1>8
    <3>3. CASE b \in t.holds
      <4>1. pool = t.pool[c] /\ c \in t.holds
        BY <2>4, <3>3
      <4>2. t.pool[c] \in Nat
        BY <1>8
      <4> HIDE DEF pool
      <4>3. /\ t.pool[c] > 0 =>
                  committed[c] + t.claim[c] + t.pool[c]
                     <= onHand[c] - FloorSample[c]
            /\ n <= t.pool[c] /\ n \in Nat
        BY <1>4, <2>2, <4>1
      <4>4. QED
        BY <2>2, <3>1, <3>2, <4>1, <4>2, <4>3
    <3>4. CASE b \notin t.holds
      <4>1. pool = Clamp(onHand[c] - FloorSample[c] - committed[c])
        BY <2>4, <3>4 DEF Available
      <4>2. t.claim[c] = 0
        BY <1>5, <2>4, <3>4
      <4> HIDE DEF pool
      <4>3. QED
        BY <1>4, <2>2, <3>1, <3>2, <4>1, <4>2 DEF Clamp
    <3>5. QED
      BY <3>3, <3>4
  <2>5. QED
    BY <2>3, <2>4
<1>11. GoodsCounted(u)
  BY <1>2, <1>7 DEF GoodsCounted, AllOut
<1>12. \A row \in u.holds \ txn[r].holds : LockFree(r, row)
  BY <1>1, <1>7 DEF t
<1>13. QED
  BY <1>1, <1>6, <1>9, <1>10, <1>11, <1>12, LineStepPlans DEF u
LEMMA GiveLinePlans ==
    ASSUME StockInv, GoodsInv, NEW r \in Requests, NEW l \in Lines,
           GiveLine(r, l)
    PROVE  \E u : Planned(r, u)
<1> DEFINE t == txn[r]
           b == BinOf[l]
           g2 == [t.give EXCEPT ![l] = @ + t.want[l]]
           f2 == [t.freed EXCEPT ![b] = @ + t.want[l]]
           u == [t EXCEPT !.todo = @ \ {l}, !.holds = @ \cup {b},
                          !.give = g2, !.freed = f2]
<1>1. /\ t.pc = "give" /\ l \in t.todo /\ LockFree(r, b)
      /\ txn' = [txn EXCEPT ![r] = AfterLines(u)] /\ UNCHANGED tables
  BY DEF GiveLine
<1>2. t \in Transactions /\ b \in Bins /\ WritesLocked(t) /\ PoolSound(t)
      /\ GoodsCounted(t)
  BY ConstantsAssumption DEF StockInv, GoodsInv, TypeOK
<1> HIDE DEF t
<1>3. g2 \in [Lines -> Nat] /\ f2 \in [Bins -> Nat]
      /\ \A c \in Bins : c # b => f2[c] = t.freed[c]
  BY <1>2 DEF Transactions
<1>4. t.todo \ {l} \in SUBSET Lines
      /\ t.holds \cup {b} \in SUBSET (Bins \cup Orders \cup {NoOrder})
  BY <1>2 DEF Transactions
<1> HIDE DEF g2, f2
<1>5. u \in Transactions
  BY <1>2, <1>3, <1>4 DEF Transactions
<1>6. /\ u.pc = "give" /\ u.op = t.op /\ u.next = t.next /\ u.order = t.order
      /\ u.holds = t.holds \cup {b} /\ u.out = t.out /\ u.freed = f2
      /\ u.claim = t.claim /\ u.shipped = t.shipped /\ u.pool = t.pool
      /\ u.add = t.add /\ u.size = t.size
  BY <1>1, <1>2 DEF Transactions
<1> HIDE DEF u
<1>7. WritesLocked(u)
  BY <1>1, <1>2, <1>3, <1>6 DEF WritesLocked
<1>8. PoolSound(u)
  BY <1>1, <1>2, <1>6 DEF PoolSound
<1>9. GoodsCounted(u)
  BY <1>2, <1>6 DEF GoodsCounted, AllOut
<1>10. \A row \in u.holds \ txn[r].holds : LockFree(r, row)
  BY <1>1, <1>6 DEF t
<1>11. QED
  BY <1>1, <1>5, <1>7, <1>8, <1>9, <1>10, LineStepPlans DEF u

\* Units are shipped by fulfill alone, which reserves nothing.
LEMMA ShipLinePlans ==
    ASSUME StockInv, GoodsInv, NEW r \in Requests, NEW l \in Lines,
           ShipLine(r, l)
    PROVE  \E u : Planned(r, u)
<1> DEFINE t == txn[r]
           b == BinOf[l]
           g2 == [t.give EXCEPT ![l] = @ + t.want[l]]
           f2 == [t.freed EXCEPT ![b] = @ + t.want[l]]
           s2 == [t.shipped EXCEPT ![b] = @ + t.out[l]]
           u == [t EXCEPT !.todo = @ \ {l}, !.holds = @ \cup {b},
                          !.give = g2, !.freed = f2, !.shipped = s2]
<1>1. /\ t.pc = "ship" /\ l \in t.todo /\ LockFree(r, b)
      /\ txn' = [txn EXCEPT ![r] = AfterLines(u)] /\ UNCHANGED tables
  BY DEF ShipLine
<1>2. t \in Transactions /\ b \in Bins /\ WritesLocked(t) /\ PoolSound(t)
      /\ GoodsCounted(t)
  BY ConstantsAssumption DEF StockInv, GoodsInv, TypeOK
<1> HIDE DEF t
<1>3. /\ g2 \in [Lines -> Nat] /\ f2 \in [Bins -> Nat] /\ s2 \in [Bins -> Nat]
      /\ \A c \in Bins : c # b => f2[c] = t.freed[c] /\ s2[c] = t.shipped[c]
  BY <1>2 DEF Transactions
<1>4. t.todo \ {l} \in SUBSET Lines
      /\ t.holds \cup {b} \in SUBSET (Bins \cup Orders \cup {NoOrder})
  BY <1>2 DEF Transactions
<1> HIDE DEF g2, f2, s2
<1>5. u \in Transactions
  BY <1>2, <1>3, <1>4 DEF Transactions
<1>6. /\ u.pc = "ship" /\ u.op = t.op /\ u.next = t.next /\ u.order = t.order
      /\ u.holds = t.holds \cup {b} /\ u.out = t.out /\ u.freed = f2
      /\ u.claim = t.claim /\ u.shipped = s2
      /\ u.add = t.add /\ u.size = t.size
  BY <1>1, <1>2 DEF Transactions
<1> HIDE DEF u
<1>7. WritesLocked(u)
  BY <1>1, <1>2, <1>3, <1>6 DEF WritesLocked
<1>8. PoolSound(u)
  BY <1>1, <1>2, <1>6 DEF PoolSound
<1>9. GoodsCounted(u)
  BY <1>2, <1>6 DEF GoodsCounted, AllOut
<1>10. \A row \in u.holds \ txn[r].holds : LockFree(r, row)
  BY <1>1, <1>6 DEF t
<1>11. QED
  BY <1>1, <1>5, <1>7, <1>8, <1>9, <1>10, LineStepPlans DEF u

LEMMA MoveUnitsPlans ==
    ASSUME StockInv, GoodsInv, NEW r \in Requests, MoveUnits(r)
    PROVE  \E u : Planned(r, u)
<1> DEFINE t == txn[r]
           bins == {BinOf[l] : l \in t.todo}
           u == [t EXCEPT !.pc = "commit", !.todo = {}, !.holds = @ \cup bins]
<1>1. /\ t.pc = "move" /\ \A b \in bins : LockFree(r, b)
      /\ txn' = [txn EXCEPT ![r] = u] /\ UNCHANGED tables
  BY DEF MoveUnits
<1>2. t \in Transactions /\ WritesLocked(t) /\ PoolSound(t) /\ GoodsCounted(t)
  BY DEF StockInv, GoodsInv, TypeOK
<1> HIDE DEF t
<1>3. bins \subseteq Bins /\ t.op \notin Reservers
  BY <1>1, <1>2, ConstantsAssumption DEF PoolSound, Transactions
<1>4. \A b \in Bins : (\E l \in t.todo : BinOf[l] = b) => b \in bins
  OBVIOUS
<1> HIDE DEF bins
<1>5. u \in Transactions
  BY <1>2, <1>3 DEF Transactions, Steps
<1>6. /\ u.pc = "commit" /\ u.op = t.op /\ u.next = t.next
      /\ u.order = t.order /\ u.holds = t.holds \cup bins /\ u.out = t.out
      /\ u.freed = t.freed /\ u.claim = t.claim /\ u.shipped = t.shipped
      /\ u.add = t.add /\ u.size = t.size
  BY <1>2 DEF Transactions
<1> HIDE DEF u
<1>7. WritesLocked(u)
  BY <1>1, <1>2, <1>4, <1>6 DEF WritesLocked
<1>8. PoolSound(u)
  BY <1>3, <1>6 DEF PoolSound
<1>9. GoodsCounted(u)
  BY <1>2, <1>6 DEF GoodsCounted, AllOut
<1>10. \A row \in u.holds \ txn[r].holds : LockFree(r, row)
  BY <1>1, <1>6 DEF t
<1>11. Planned(r, u)
  BY <1>1, <1>5, <1>7, <1>8, <1>9, <1>10 DEF Planned
<1>12. QED
  BY <1>11

\* The order row is locked; a reservation that follows starts with no pool.
LEMMA LockOrderPlans ==
    ASSUME StockInv, GoodsInv, NEW r \in Requests, LockOrder(r)
    PROVE  \E u : Planned(r, u)
<1> DEFINE t == txn[r]
           o == t.order
           hs == t.holds \cup {o}
           locked == [t EXCEPT !.holds = @ \cup {t.order}]
           leaving == [locked EXCEPT !.pc = "commit"]
<1>1. /\ t.pc = "lock" /\ LockFree(r, o)
      /\ txn' = [txn EXCEPT ![r] = IF t.reserves
                                    THEN AfterLines(Reserving(locked))
                                    ELSE leaving]
      /\ UNCHANGED tables
  BY DEF LockOrder
<1>2. t \in Transactions /\ WritesLocked(t) /\ PoolSound(t) /\ GoodsCounted(t)
  BY DEF StockInv, GoodsInv, TypeOK
<1>3. TypeOK
  BY DEF StockInv
<1> HIDE DEF t
<1>4. hs \in SUBSET (Bins \cup Orders \cup {NoOrder})
  BY <1>2 DEF Transactions
<1>5. locked = [t EXCEPT !.holds = hs]
  BY <1>2 DEF Transactions
<1>6. \A row \in hs \ txn[r].holds : LockFree(r, row)
  BY <1>1 DEF t
<1> HIDE DEF hs, locked
<1>7. locked \in Transactions
  BY <1>2, <1>4, <1>5 DEF Transactions
<1>8. "commit" \in Steps
  BY DEF Steps
<1>9. leaving \in Transactions
  BY <1>7, <1>8 DEF Transactions
<1>10. /\ Reserving(locked) \in Transactions
       /\ Reserving(locked) = [locked EXCEPT !.pc = "take",
                                  !.todo = Reserving(locked).todo,
                                  !.want = Reserving(locked).want]
  BY <1>3, <1>7, ReservingType
<1>11. ASSUME NEW u, u = leaving \/ u = Reserving(locked)
       PROVE  /\ u.pc \in {"take", "commit"} /\ u.op = t.op
              /\ u.order = o /\ u.next = t.next
              /\ u.holds = hs /\ u.out = t.out /\ u.freed = t.freed
              /\ u.claim = t.claim /\ u.shipped = t.shipped
              /\ u.pool = t.pool /\ u.add = t.add /\ u.size = t.size
  <2>1. /\ locked.op = t.op /\ locked.order = o /\ locked.next = t.next
        /\ locked.holds = hs /\ locked.out = t.out /\ locked.freed = t.freed
        /\ locked.claim = t.claim /\ locked.shipped = t.shipped
        /\ locked.pool = t.pool /\ locked.add = t.add /\ locked.size = t.size
    BY <1>2, <1>5 DEF Transactions
  <2>2. CASE u = leaving
    BY <1>7, <2>1, <2>2 DEF Transactions
  <2>3. CASE u = Reserving(locked)
    <3> DEFINE a == u.todo
               c == u.want
    <3>1. u = [locked EXCEPT !.pc = "take", !.todo = a, !.want = c]
      BY <1>10, <2>3
    <3> HIDE DEF a, c
    <3>2. QED
      BY <1>7, <2>1, <3>1 DEF Transactions
  <2>4. QED
    BY <1>11, <2>2, <2>3
<1>12. ASSUME NEW u, u = leaving \/ u = Reserving(locked)
       PROVE  WritesLocked(u) /\ PoolSound(u) /\ GoodsCounted(u)
  <2>1. \A b \in t.holds : b \in hs
    BY DEF hs
  <2>2. WritesLocked(u)
    BY <1>1, <1>2, <1>11, <1>12, <2>1 DEF WritesLocked
  <2>3. PoolSound(u)
    BY <1>1, <1>2, <1>11, <1>12 DEF PoolSound, NoLevels
  <2>4. GoodsCounted(u)
    BY <1>2, <1>11, <1>12 DEF GoodsCounted, AllOut
  <2>5. QED
    BY <2>2, <2>3, <2>4
<1>13. CASE t.reserves
  BY <1>1, <1>6, <1>10, <1>11, <1>12, <1>13, LineStepPlans
<1>14. CASE ~t.reserves
  <2>1. Planned(r, leaving)
    BY <1>1, <1>6, <1>9, <1>11, <1>12, <1>14 DEF Planned
  <2>2. QED
    BY <2>1
<1>15. QED
  BY <1>13, <1>14

-----------------------------------------------------------------------------
(* The order's status.                                                     *)

\* fulfill writes fulfilled only when it counts every unit as handed over.
LEMMA DeriveStatusPlans ==
    ASSUME StockInv, GoodsInv, NEW r \in Requests, DeriveStatus(r)
    PROVE  \E u : Planned(r, u)
<1> DEFINE t == txn[r]
           f == [l \in Lines |-> OwnFulfilled(t, l)]
           u == [t EXCEPT !.pc = "settle", !.next = DerivedStatus(t.order, f)]
<1>1. /\ t.pc = "derive"
      /\ txn' = [txn EXCEPT ![r] = u] /\ UNCHANGED tables
  BY DEF DeriveStatus
<1>2. t \in Transactions /\ WritesLocked(t) /\ PoolSound(t) /\ GoodsCounted(t)
  BY DEF StockInv, GoodsInv, TypeOK
<1>3. DerivedStatus(t.order, f) \in {"open", "fulfilled", "partially_fulfilled"}
  BY DEF DerivedStatus
<1>4. DerivedStatus(t.order, f) = "fulfilled" =>
         \A l \in LinesOf(t.order) : fulfilled[l] + t.out[l] >= quantity[l]
  BY DEF DerivedStatus, OwnFulfilled, LinesOf, Rows
<1> HIDE DEF t, f
<1>5. u \in Transactions
  <2>1. "settle" \in Steps /\ DerivedStatus(t.order, f) \in Statuses
    BY <1>3 DEF Steps, Statuses
  <2>2. QED
    BY <1>2, <2>1 DEF Transactions
<1>6. /\ u.pc = "settle" /\ u.op = t.op /\ u.order = t.order
      /\ u.next = DerivedStatus(t.order, f)
      /\ u.holds = t.holds /\ u.out = t.out
      /\ u.freed = t.freed /\ u.claim = t.claim /\ u.shipped = t.shipped
      /\ u.add = t.add /\ u.size = t.size
  BY <1>2 DEF Transactions
<1> HIDE DEF u
<1>7. WritesLocked(u)
  BY <1>1, <1>2, <1>6 DEF WritesLocked
<1>8. PoolSound(u)
  BY <1>1, <1>2, <1>6 DEF PoolSound
<1>9. GoodsCounted(u)
  BY <1>2, <1>3, <1>4, <1>6 DEF GoodsCounted, AllOut
<1>10. Planned(r, u)
  BY <1>1, <1>5, <1>6, <1>7, <1>8, <1>9 DEF Planned, t
<1>11. QED
  BY <1>10
\* tryAutoComplete and complete write completed only over fulfilled goods.
LEMMA SettlePlans ==
    ASSUME StockInv, GoodsInv, NEW r \in Requests, Settle(r)
    PROVE  \E u : Planned(r, u)
<1> DEFINE t == txn[r]
           o == t.order
           now == IF t.next = "keep" THEN status[o] ELSE t.next
           done == \/ t.op = "complete"
                   \/ /\ now = "fulfilled" /\ ~stamped[o]
                      /\ ~owed[o] \/ t.due = "settled"
           held == [l \in Lines |-> IF l \in LinesOf(o) THEN OwnReserved(t, l)
                                                        ELSE 0]
           todo == {l \in Lines : held[l] > 0}
           hs == IF t.next = "keep" THEN t.holds ELSE t.holds \cup {o}
           locked == [t EXCEPT !.holds = IF t.next = "keep" THEN @
                                                            ELSE @ \cup {o}]
           closing == [locked EXCEPT !.pc = "give", !.want = held,
                                     !.todo = {l \in Lines : held[l] > 0},
                                     !.next = "completed"]
           leaving == [locked EXCEPT !.pc = "commit"]
<1>1. /\ t.pc = "settle" /\ (t.next # "keep" => LockFree(r, o))
      /\ txn' = [txn EXCEPT ![r] = IF done THEN AfterLines(closing) ELSE leaving]
      /\ UNCHANGED tables
  BY DEF Settle
<1>2. t \in Transactions /\ WritesLocked(t) /\ PoolSound(t) /\ GoodsCounted(t)
  BY DEF StockInv, GoodsInv, TypeOK
<1>3. held \in [Lines -> Nat]
  <2>1. \A l \in Lines : OwnReserved(t, l) \in Nat
    BY <1>2, OwnTypes DEF StockInv
  <2>2. QED
    BY <2>1
<1>4. LinesFixed /\ done =>
         \A l \in LinesOf(o) : fulfilled[l] + t.out[l] >= quantity[l]
  <2> HAVE LinesFixed /\ done
  <2>1. CASE t.op = "complete" \/ t.next = "fulfilled"
    BY <1>2, <2>1 DEF GoodsCounted, AllOut
  <2>2. CASE t.next = "keep" /\ status[o] = "fulfilled"
    <3>1. CASE o \in Orders
      <4>1. \A l \in LinesOf(o) : /\ fulfilled[l] = quantity[l] /\ t.out[l] \in Nat
                                  /\ quantity[l] \in Nat
        BY <1>2, <2>2, <3>1
        DEF GoodsInv, NeverAheadOfGoods, LinesOf, Rows, Transactions, TypeOK
      <4>2. QED
        BY <4>1
    <3>2. CASE o \notin Orders
      BY <3>2, ConstantsAssumption DEF LinesOf, Rows
    <3>3. QED
      BY <3>1, <3>2
  <2>3. QED
    BY <2>1, <2>2
<1>5. todo \in SUBSET Lines /\ hs \in SUBSET (Bins \cup Orders \cup {NoOrder})
  BY <1>2 DEF Transactions
<1>6. /\ closing = [t EXCEPT !.pc = "give", !.want = held, !.todo = todo,
                             !.next = "completed", !.holds = hs]
      /\ leaving = [t EXCEPT !.pc = "commit", !.holds = hs]
      /\ t.holds \subseteq hs /\ hs \subseteq t.holds \cup {o}
      /\ (t.next = "keep" => hs = t.holds)
  BY <1>2, ZenonT(40) DEF Transactions
<1>7. \A row \in hs \ txn[r].holds : LockFree(r, row)
  BY <1>1, <1>6
<1> HIDE DEF t, held, todo, hs, done, closing, leaving
<1>8. closing \in Transactions /\ leaving \in Transactions
  <2>1. "give" \in Steps /\ "commit" \in Steps /\ "completed" \in Statuses
    BY DEF Steps, Statuses
  <2>2. closing \in Transactions
    BY <1>2, <1>3, <1>5, <1>6, <2>1 DEF Transactions
  <2>3. leaving \in Transactions
    BY <1>2, <1>5, <1>6, <2>1 DEF Transactions
  <2>4. QED
    BY <2>2, <2>3
<1>9. ASSUME NEW u \in {closing, leaving}
      PROVE  /\ u.pc \in {"give", "commit"} /\ u.op = t.op /\ u.order = o
             /\ u.holds = hs /\ u.out = t.out /\ u.freed = t.freed
             /\ u.claim = t.claim /\ u.shipped = t.shipped
             /\ u.add = t.add /\ u.size = t.size
             /\ u.next = IF u = closing THEN "completed" ELSE t.next
  <2>1. CASE u = closing
    BY <1>2, <1>6, <2>1 DEF Transactions
  <2>2. CASE u = leaving
    <3>1. leaving.pc # closing.pc
      BY <1>2, <1>6 DEF Transactions
    <3>2. QED
      BY <1>2, <1>6, <2>2, <3>1 DEF Transactions
  <2>3. QED
    BY <2>1, <2>2
<1>10. ASSUME NEW u \in {closing, leaving}
       PROVE  WritesLocked(u) /\ PoolSound(u)
  BY <1>1, <1>2, <1>6, <1>9 DEF WritesLocked, PoolSound
<1>11. CASE done
  <2>1. GoodsCounted(closing)
    BY <1>2, <1>4, <1>9, <1>11 DEF GoodsCounted, AllOut
  <2>2. QED
    BY <1>1, <1>7, <1>8, <1>9, <1>10, <1>11, <2>1, LineStepPlans
<1>12. CASE ~done
  <2>1. leaving # closing => GoodsCounted(leaving)
    BY <1>2, <1>9 DEF GoodsCounted, AllOut
  <2>2. leaving.pc # closing.pc
    BY <1>2, <1>6 DEF Transactions
  <2>3. Planned(r, leaving)
    BY <1>1, <1>7, <1>8, <1>9, <1>10, <1>12, <2>1, <2>2 DEF Planned
  <2>4. QED
    BY <2>3
<1>13. QED
  BY <1>11, <1>12
-----------------------------------------------------------------------------
(* Steps of the whole system.                                              *)

LEMMA IdleSound == WritesLocked(Idle) /\ PoolSound(Idle) /\ GoodsCounted(Idle)
<1>1. WritesLocked(Idle) /\ PoolSound(Idle)
  BY DEF Idle, WritesLocked, PoolSound, NoLevels, Reservers
<1>2. GoodsCounted(Idle)
  BY DEF Idle, GoodsCounted
<1>3. QED
  BY <1>1, <1>2

\* GoodsInv counterpart of PlanningStock.
LEMMA PlanningGoods ==
    ASSUME GoodsInv, NEW r \in Requests, NEW t \in Transactions,
           txn' = [txn EXCEPT ![r] = t], UNCHANGED tables, GoodsCounted(t)
    PROVE  GoodsInv'
<1>1. TypeOK'
  BY DEF GoodsInv, TypeOK, tables, orderVars, lineVars, levelVars
<1>2. LinesFixed => NeverAheadOfGoods'
  BY DEF GoodsInv, NeverAheadOfGoods, tables, orderVars, lineVars, LinesOf, Rows
<1>3. \A s \in Requests : GoodsCounted(txn'[s])
  BY DEF GoodsInv, TypeOK
<1>4. \A u : GoodsCounted(u)' = GoodsCounted(u')
  BY DEF GoodsCounted, AllOut, tables, lineVars, LinesOf, Rows
<1>5. QED
  BY <1>1, <1>2, <1>3, <1>4 DEF GoodsInv

LEMMA PlannedKeeps ==
    ASSUME StockInv, GoodsInv, NEW r \in Requests, NEW t, Planned(r, t)
    PROVE  StockInv' /\ GoodsInv'
BY PlanningStock, PlanningGoods DEF Planned

LEMMA AbortKeeps ==
    ASSUME StockInv, GoodsInv, NEW r \in Requests, Abort(r)
    PROVE  StockInv' /\ GoodsInv'
<1>1. Idle.holds = {}
  BY DEF Idle
<1>2. Planned(r, Idle)
  BY <1>1, IdleType, IdleSound DEF Abort, Planned
<1>3. QED
  BY <1>2, PlannedKeeps

\* A commit in numbers: what it writes, and that others' bins are untouched.
LEMMA CommitType ==
    ASSUME TypeOK, NEW r \in Requests, Commit(r)
    PROVE  TypeOK'
<1> DEFINE t == txn[r]
<1>1. t \in Transactions
  BY DEF TypeOK
<1>2. \A l \in Lines : /\ OwnReserved(t, l) \in Nat /\ OwnFulfilled(t, l) \in Nat
                       /\ OwnQuantity(t, l) \in Nat \ {0}
  BY <1>1, OwnTypes
<1>3. txn' \in [Requests -> Transactions]
  BY IdleType DEF TypeOK, Commit
<1>4. /\ gone' \subseteq Lines /\ gone \subseteq gone'
      /\ unwritten' \subseteq Lines
  BY <1>1 DEF TypeOK, Commit, Transactions
<1>5. ASSUME NEW l \in Lines
      PROVE  /\ reserved'[l] \in 0 .. quantity'[l]
             /\ fulfilled'[l] \in 0 .. quantity'[l]
             /\ quantity'[l] \in Nat \ {0}
  <2>1. quantity[l] \in Nat \ {0} /\ fulfilled[l] \in 0 .. quantity[l]
    BY DEF TypeOK
  <2>2. /\ reserved'[l] = IF l \in gone' THEN 0 ELSE OwnReserved(t, l)
        /\ fulfilled'[l] = IF l \in gone' THEN fulfilled[l] ELSE OwnFulfilled(t, l)
        /\ quantity'[l] = IF l \in gone' THEN quantity[l] ELSE OwnQuantity(t, l)
    BY DEF Commit
  <2>3. l \notin gone' => /\ OwnReserved(t, l) <= OwnQuantity(t, l)
                         /\ OwnFulfilled(t, l) <= OwnQuantity(t, l)
    BY <1>4 DEF Commit, ChecksHold
  <2>4. QED
    BY <1>2, <2>1, <2>2, <2>3
<1>11. quantity' \in [Lines -> Nat \ {0}]
  BY <1>5 DEF Commit
<1>6. DOMAIN reserved' = Lines /\ DOMAIN fulfilled' = Lines
  BY DEF Commit
<1>7. committed' \in [Bins -> Nat]
  <2>1. \A b \in Bins : Clamp(committed[b] - t.freed[b]) + t.claim[b] \in Nat
    BY <1>1 DEF TypeOK, Transactions, Clamp
  <2>2. QED
    BY <2>1 DEF Commit
<1>8. onHand' \in [Bins -> Int]
  <2>1. \A b \in Bins : onHand[b] - t.shipped[b] \in Int
    BY <1>1 DEF TypeOK, Transactions
  <2>2. QED
    BY <2>1 DEF Commit
<1>9. /\ status' \in [Orders -> Statuses] /\ stamped' \in [Orders -> BOOLEAN]
      /\ owed' \in [Orders -> BOOLEAN] /\ printed' \in [Orders -> BOOLEAN]
      /\ hold' \in [Bins -> Nat]
  <2>1. t.next \in Statuses \cup {"keep"}
    BY <1>1 DEF Transactions
  <2>2. status' \in [Orders -> Statuses]
    BY <2>1 DEF TypeOK, Commit
  <2>3. stamped' \in [Orders -> BOOLEAN]
    BY DEF TypeOK, Commit
  <2>4. owed' \in [Orders -> BOOLEAN]
    BY DEF TypeOK, Commit
  <2>5. QED
    BY <2>2, <2>3, <2>4 DEF TypeOK, Commit
<1>10. QED
  BY <1>3, <1>4, <1>5, <1>6, <1>7, <1>8, <1>9, <1>11 DEF TypeOK
\* A step that ends requests or leaves them alone, and writes only bins that
\* no open transaction has locked, keeps the stock invariant.
LEMMA WriteStock ==
    ASSUME StockInv, TypeOK',
           \A s \in Requests :
              \/ txn'[s] = Idle
              \/ /\ txn'[s] = txn[s]
                 /\ \A b \in Bins : b \in txn[s].holds =>
                       committed'[b] = committed[b] /\ onHand'[b] = onHand[b]
    PROVE  StockInv'
<1>1. LocksExclusive'
  <2>1. Idle.holds = {}
    BY DEF Idle
  <2>2. QED
    BY <2>1 DEF StockInv, LocksExclusive
<1>2. \A s \in Requests : WritesLocked(txn'[s])
  BY IdleSound, Zenon DEF StockInv
<1>3. ASSUME NEW s \in Requests PROVE PoolSound(txn[s])'
  <2>1. CASE txn'[s] = Idle
    BY <2>1 DEF PoolSound, Idle, NoLevels, Reservers
  <2>2. CASE /\ txn'[s] = txn[s]
             /\ \A b \in Bins : b \in txn[s].holds =>
                   committed'[b] = committed[b] /\ onHand'[b] = onHand[b]
    <3>1. PoolSound(txn[s]) /\ WritesLocked(txn[s])
      BY DEF StockInv
    <3>2. QED
      BY <2>2, <3>1 DEF PoolSound, WritesLocked
  <2>3. QED
    BY <2>1, <2>2
<1>4. QED
  BY <1>1, <1>2, <1>3 DEF StockInv, WritesLocked

\* Goods leave and are never taken back, so what was counted stays counted.
LEMMA WriteGoods ==
    ASSUME GoodsInv, TypeOK', LinesFixed => NeverAheadOfGoods',
           gone \subseteq gone',
           LinesFixed => UNCHANGED <<unwritten, quantity>>,
           \A l \in Lines \ gone' : fulfilled'[l] >= fulfilled[l],
           \A s \in Requests : txn'[s] = Idle \/ txn'[s] = txn[s]
    PROVE  GoodsInv'
<1>1. ASSUME NEW s \in Requests PROVE GoodsCounted(txn[s])'
  <2> SUFFICES ASSUME LinesFixed PROVE GoodsCounted(txn[s])'
    BY DEF GoodsCounted
  <2>1. CASE txn'[s] = Idle
    BY <2>1 DEF GoodsCounted, Idle
  <2>2. CASE txn'[s] = txn[s]
    <3> DEFINE u == txn[s]
    <3>1. GoodsCounted(u) /\ u \in Transactions
      BY DEF GoodsInv, TypeOK
    <3>2. ASSUME NEW l \in Rows', OrderOf[l] = u.order
          PROVE  /\ l \in LinesOf(u.order) /\ fulfilled'[l] >= fulfilled[l]
                 /\ fulfilled'[l] \in Int /\ fulfilled[l] \in Int
                 /\ u.out[l] \in Int /\ quantity[l] \in Int
                 /\ quantity'[l] = quantity[l]
      BY <3>1, <3>2 DEF LinesOf, Rows, GoodsInv, TypeOK, Transactions
    <3>3. QED
      BY <2>2, <3>1, <3>2 DEF GoodsCounted, AllOut, LinesOf
  <2>3. QED
    BY <2>1, <2>2
<1>2. QED
  BY <1>1 DEF GoodsInv

LEMMA CommitKeeps ==
    ASSUME StockInv, GoodsInv, NEW r \in Requests, Commit(r)
    PROVE  StockInv' /\ GoodsInv'
<1> DEFINE t == txn[r]
<1>1. TypeOK'
  BY CommitType DEF StockInv
<1>2. t \in Transactions /\ WritesLocked(t) /\ GoodsCounted(t) /\ t.pc = "commit"
  BY DEF StockInv, GoodsInv, TypeOK, Commit, CanCommit
<1>3. \A s \in Requests : txn'[s] = IF s = r THEN Idle ELSE txn[s]
  BY DEF StockInv, TypeOK, Commit
<1>4. ASSUME NEW s \in Requests \ {r}, NEW b \in Bins, b \in txn[s].holds
      PROVE  committed'[b] = committed[b] /\ onHand'[b] = onHand[b]
  <2>1. b \notin t.holds
    BY <1>4 DEF StockInv, LocksExclusive
  <2>2. t.freed[b] = 0 /\ t.claim[b] = 0 /\ t.shipped[b] = 0
    BY <1>2, <2>1 DEF WritesLocked, Transactions
  <2>3. committed[b] \in Nat /\ onHand[b] \in Int
    BY DEF StockInv, TypeOK
  <2>4. QED
    BY <2>2, <2>3 DEF Commit, Clamp
<1>5. StockInv'
  BY <1>1, <1>3, <1>4, WriteStock
<1>6. gone \subseteq gone' /\ gone' \subseteq Lines
  BY <1>1 DEF Commit, TypeOK
<1>11. ASSUME LinesFixed PROVE UNCHANGED <<unwritten, quantity>>
  <2>1. t.add = {} /\ t.size = NoUnits
    BY <1>2, <1>11 DEF GoodsCounted
  <2>2. quantity \in [Lines -> Nat \ {0}]
    BY DEF StockInv, TypeOK
  <2>3. \A l \in Lines : quantity'[l] = quantity[l]
    BY <2>1 DEF Commit, OwnQuantity, NoUnits
  <2>4. quantity' \in [Lines -> Nat \ {0}]
    BY <1>1 DEF TypeOK
  <2>5. QED
    BY <2>1, <2>2, <2>3, <2>4 DEF Commit
<1>7. ASSUME NEW l \in Lines \ gone'
      PROVE  /\ fulfilled'[l] = fulfilled[l] + t.out[l]
             /\ LinesFixed => fulfilled'[l] <= quantity[l]
             /\ fulfilled'[l] \in Nat /\ fulfilled[l] \in Nat /\ t.out[l] \in Nat
             /\ quantity[l] \in Nat
  <2>1. fulfilled'[l] = fulfilled[l] + t.out[l]
    BY DEF Commit, OwnFulfilled
  <2>2. fulfilled'[l] \in 0 .. quantity'[l] /\ fulfilled[l] \in 0 .. quantity[l]
        /\ quantity[l] \in Nat /\ t.out[l] \in Nat /\ quantity'[l] \in Nat
    BY <1>1, <1>2 DEF TypeOK, GoodsInv, Transactions
  <2>3. QED
    BY <1>11, <2>1, <2>2
<1>8. LinesFixed => NeverAheadOfGoods'
  <2>1. SUFFICES ASSUME LinesFixed, NEW o \in Orders, NEW l \in Rows',
                        status'[o] \in {"fulfilled", "completed"},
                        OrderOf[l] = o
                 PROVE  fulfilled'[l] = quantity[l]
    BY <1>11 DEF NeverAheadOfGoods, LinesOf, Rows
  <2>2. l \in LinesOf(o) /\ l \in Lines \ gone'
    BY <1>6, <1>11, <2>1 DEF LinesOf, Rows
  <2>3. CASE t.next # "keep" /\ t.order = o
    <3>1. t.next = status'[o]
      BY <2>3 DEF Commit, GoodsInv, TypeOK
    <3>2. fulfilled[l] + t.out[l] >= quantity[l]
      BY <1>2, <2>1, <2>2, <2>3, <3>1 DEF GoodsCounted, AllOut
    <3>3. QED
      BY <1>7, <2>1, <2>2, <3>2
  <2>4. CASE ~(t.next # "keep" /\ t.order = o)
    <3>1. status'[o] = status[o]
      BY <2>4 DEF Commit, GoodsInv, TypeOK
    <3>2. fulfilled[l] = quantity[l]
      BY <2>1, <2>2, <3>1 DEF GoodsInv, NeverAheadOfGoods
    <3>3. QED
      BY <1>7, <2>1, <2>2, <3>2
  <2>5. QED
    BY <2>3, <2>4
<1>9. GoodsInv'
  <2>1. \A l \in Lines \ gone' : fulfilled'[l] >= fulfilled[l]
    BY <1>7
  <2>2. QED
    BY <1>1, <1>3, <1>6, <1>8, <1>11, <2>1, WriteGoods
<1>10. QED
  BY <1>5, <1>9
\* The single-statement handlers write only rows nobody has locked.
LEMMA OtherHandlersKeep ==
    ASSUME StockInv, GoodsInv, OtherHandlers
    PROVE  StockInv' /\ GoodsInv'
<1>1. txn' = txn /\ UNCHANGED <<status, stamped, owed, lineVars>>
  BY DEF OtherHandlers, PrintTicket, Unlock, Adjust, HoldForTransfer,
         ReleaseTransferHold, ShipTransferHold, orderVars
<1>2. TypeOK'
  <2>1. CASE \E o \in Orders : PrintTicket(o) \/ Unlock(o)
    BY <2>1 DEF StockInv, TypeOK, PrintTicket, Unlock, lineVars, levelVars
  <2>2. CASE \E b \in Bins : \E delta \in {-1, 1} : Adjust(b, delta)
    BY <2>2 DEF StockInv, TypeOK, Adjust, Clamp, orderVars, lineVars
  <2>3. CASE \E b \in Bins : HoldForTransfer(b)
    BY <2>3 DEF StockInv, TypeOK, HoldForTransfer, orderVars, lineVars
  <2>4. CASE \E b \in Bins : ReleaseTransferHold(b)
    BY <2>4 DEF StockInv, TypeOK, ReleaseTransferHold, Clamp, orderVars, lineVars
  <2>5. CASE \E b \in Bins : ShipTransferHold(b)
    BY <2>5 DEF StockInv, TypeOK, ShipTransferHold, Clamp, orderVars, lineVars
  <2>6. QED
    BY <2>1, <2>2, <2>3, <2>4, <2>5 DEF OtherHandlers
<1>3. ASSUME NEW s \in Requests, NEW b \in Bins, b \in txn[s].holds
      PROVE  committed'[b] = committed[b] /\ onHand'[b] = onHand[b]
  BY <1>3 DEF OtherHandlers, PrintTicket, Unlock, Adjust, HoldForTransfer,
              ReleaseTransferHold, ShipTransferHold, Unlocked, levelVars,
              StockInv, TypeOK
<1>4. StockInv'
  BY <1>1, <1>2, <1>3, WriteStock
<1>5. LinesFixed => NeverAheadOfGoods'
  BY <1>1 DEF GoodsInv, NeverAheadOfGoods, LinesOf, Rows, lineVars
<1>6. \A l \in Lines : fulfilled'[l] >= fulfilled[l]
  BY <1>1, ConstantsAssumption DEF lineVars, StockInv, TypeOK
<1>7. GoodsInv'
  BY <1>1, <1>2, <1>5, <1>6, WriteGoods DEF lineVars
<1>8. QED
  BY <1>4, <1>7

LEMMA NextKeeps ==
    ASSUME StockInv, GoodsInv, Next
    PROVE  StockInv' /\ GoodsInv'
<1>1. CASE OtherHandlers
  BY <1>1, OtherHandlersKeep
<1>2. ASSUME NEW r \in Requests, BeginSome(r) PROVE StockInv' /\ GoodsInv'
  BY <1>2, BeginSomeOpens, PlannedKeeps DEF GoodsInv
<1>3. ASSUME NEW r \in Requests, Abort(r) PROVE StockInv' /\ GoodsInv'
  BY <1>3, AbortKeeps
<1>4. ASSUME NEW r \in Requests, Advance(r) PROVE StockInv' /\ GoodsInv'
  <2>1. CASE \E l \in Lines : TakeLine(r, l)
    BY <2>1, TakeLinePlans, PlannedKeeps
  <2>2. CASE \E l \in Lines : GiveLine(r, l)
    BY <2>2, GiveLinePlans, PlannedKeeps
  <2>3. CASE \E l \in Lines : ShipLine(r, l)
    BY <2>3, ShipLinePlans, PlannedKeeps
  <2>4. CASE MoveUnits(r)
    BY <2>4, MoveUnitsPlans, PlannedKeeps
  <2>5. CASE DeriveStatus(r)
    BY <2>5, DeriveStatusPlans, PlannedKeeps
  <2>6. CASE Settle(r)
    BY <2>6, SettlePlans, PlannedKeeps
  <2>7. CASE Commit(r)
    BY <2>7, CommitKeeps
  <2>8. CASE LockOrder(r)
    BY <2>8, LockOrderPlans, PlannedKeeps
  <2>9. QED
    BY <1>4, <2>1, <2>2, <2>3, <2>4, <2>5, <2>6, <2>7, <2>8 DEF Advance
<1>5. QED
  BY <1>1, <1>2, <1>3, <1>4 DEF Next

LEMMA StutterKeeps ==
    ASSUME StockInv, GoodsInv, UNCHANGED vars
    PROVE  StockInv' /\ GoodsInv'
<1>1. TypeOK'
  BY DEF StockInv, TypeOK, vars, tables, orderVars, lineVars, levelVars
<1>2. txn' = txn /\ UNCHANGED <<status, gone, unwritten, quantity, fulfilled,
                           committed, onHand>>
  BY DEF vars, tables, orderVars, lineVars, levelVars
<1>3. StockInv'
  BY <1>1, <1>2, WriteStock
<1>4. /\ LinesFixed => NeverAheadOfGoods'
      /\ \A l \in Lines : fulfilled'[l] >= fulfilled[l]
  BY <1>2 DEF GoodsInv, NeverAheadOfGoods, LinesOf, Rows, TypeOK
<1>5. GoodsInv'
  BY <1>1, <1>2, <1>4, WriteGoods
<1>6. QED
  BY <1>3, <1>5

LEMMA InitKeeps == Init => StockInv /\ GoodsInv
<1> SUFFICES ASSUME Init PROVE StockInv /\ GoodsInv
  OBVIOUS
<1>1. TypeOK
  BY IdleType, ConstantsAssumption
  DEF Init, TypeOK, NoUnits, NoLevels, Unconfirmed, Statuses
<1>2. \A r \in Requests : txn[r] = Idle
  BY DEF Init
<1>3. LocksExclusive
  BY <1>2 DEF LocksExclusive, Idle
<1>4. NeverAheadOfGoods
  BY DEF Init, NeverAheadOfGoods, Unconfirmed
<1>5. QED
  BY <1>1, <1>2, <1>3, <1>4, IdleSound DEF StockInv, GoodsInv

-----------------------------------------------------------------------------
(* The theorems.                                                           *)

\* The two invariants are inductive, whatever the orders, the bins and the
\* number of requests in flight.
THEOREM InvariantsHold == Spec => [](StockInv /\ GoodsInv)
<1>1. Init => StockInv /\ GoodsInv
  BY InitKeeps
<1>2. StockInv /\ GoodsInv /\ [Next]_vars => (StockInv /\ GoodsInv)'
  BY NextKeeps, StutterKeeps
<1>3. QED
  BY <1>1, <1>2, PTL DEF Spec

\* Every reachable state has the types the columns declare, the CHECK
\* constraints of order_lines included.
THEOREM TypeCorrect == Spec => []TypeOK
<1>1. StockInv /\ GoodsInv => TypeOK
  BY DEF StockInv
<1>2. QED
  BY <1>1, InvariantsHold, PTL

\* While no lines are added or resized, no order reads fulfilled or completed
\* with a unit of it in the building, for any number of concurrent requests.
THEOREM NeverAheadHolds == LinesFixed => (Spec => []NeverAheadOfGoods)
<1> SUFFICES ASSUME LinesFixed PROVE Spec => []NeverAheadOfGoods
  OBVIOUS
<1>1. StockInv /\ GoodsInv => NeverAheadOfGoods
  BY DEF GoodsInv
<1>2. QED
  BY <1>1, InvariantsHold, PTL

\* What a step does to the bins a request of r claimed from.
LEMMA StepNeverOversells ==
    ASSUME StockInv, GoodsInv, [Next]_vars, NEW r \in Requests,
           txn[r].op \in Reservers, txn'[r] = Idle,
           NEW b \in Bins, txn[r].claim[b] > 0
    PROVE  committed'[b] <= onHand'[b] - FloorSample[b]
<1> DEFINE t == txn[r]
<1>1. /\ t \in Transactions
      /\ committed[b] + t.claim[b] <= onHand[b] - FloorSample[b]
      /\ t.shipped[b] = 0
  BY DEF StockInv, TypeOK, PoolSound
<1>2. /\ committed[b] \in Nat /\ onHand[b] \in Int /\ FloorSample[b] \in Nat
      /\ t.claim[b] \in Nat /\ t.freed[b] \in Nat
  BY <1>1, ConstantsAssumption DEF StockInv, TypeOK, Transactions
<1>3. t # Idle
  BY DEF Idle, NoLevels
<1>4. CASE committed' = committed /\ onHand' = onHand
  BY <1>1, <1>2, <1>4
<1>5. CASE Commit(r)
  <2>1. committed'[b] = Clamp(committed[b] - t.freed[b]) + t.claim[b]
        /\ onHand'[b] = onHand[b] - t.shipped[b]
    BY <1>5 DEF Commit
  <2>2. QED
    BY <1>1, <1>2, <2>1 DEF Clamp
<1>6. ASSUME NEW s \in Requests \ {r}, Commit(s) PROVE FALSE
  BY <1>3, <1>6 DEF Commit, StockInv, TypeOK
<1>7. CASE OtherHandlers
  <2>1. txn' = txn
    BY <1>7 DEF OtherHandlers, PrintTicket, Unlock, Adjust, HoldForTransfer,
                ReleaseTransferHold, ShipTransferHold
  <2>2. QED
    BY <1>3, <2>1
<1>8. ASSUME NEW s \in Requests, BeginSome(s) \/ Abort(s)
      PROVE  committed' = committed /\ onHand' = onHand
  BY <1>8, BeginSomeOpens DEF GoodsInv, Planned, Abort, tables, levelVars
<1>9. ASSUME NEW s \in Requests, Advance(s), ~Commit(s)
      PROVE  committed' = committed /\ onHand' = onHand
  BY <1>9 DEF Advance, LockOrder, TakeLine, GiveLine, ShipLine, MoveUnits, DeriveStatus,
              Settle, tables, levelVars
<1>10. QED
  BY <1>4, <1>5, <1>6, <1>7, <1>8, <1>9 DEF Next, vars, tables, levelVars

\* Registers that sell the same bin at the same time never promise more than
\* it has: a reservation's commit leaves reserved within the sellable units.
THEOREM NoOversellHolds == Spec => NoOversell
<1>1. StockInv /\ GoodsInv /\ [Next]_vars =>
         [\A r \in Requests :
            (txn[r].op \in Reservers /\ txn'[r] = Idle) =>
               \A b \in Bins : txn[r].claim[b] > 0 =>
                  committed'[b] <= onHand'[b] - FloorSample[b]]_vars
  BY StepNeverOversells
<1>2. QED
  BY <1>1, InvariantsHold, PTL DEF Spec, NoOversell

-----------------------------------------------------------------------------
(***************************************************************************)
(* Requests that come one at a time: the level of a bin is what its lines  *)
(* and the open transfers hold, and a closed order holds nothing and stays *)
(* closed.  The books of the tables are kept because every open plan is    *)
(* balanced (Serial): its bins are written by what its lines are.          *)
(***************************************************************************)
\* Requests come one at a time.
Alone == \A r, s \in Requests : r = s

Closed == {"completed", "cancelled"}

\* The units of a line that t hands back, those it is still to lock included.
Back(t, l) ==
    t.give[l] + IF t.pc \in {"give", "ship"} /\ l \in t.todo THEN t.want[l] ELSE 0

\* The writes of the bins are the sums of the writes of their lines.
BinsMatchLines(t) ==
    \A b \in Bins : /\ t.freed[b] = SumFunctionOnSet(t.give, LinesIn(b))
                    /\ t.claim[b] = SumFunctionOnSet(t.take, LinesIn(b))

\* No line hands back more than it holds.
GivesItsOwn(t) == \A l \in Lines : Back(t, l) <= reserved[l]

\* Units are taken after all others are back, for lines of live orders.
TakesForLive(t) ==
    /\ t.pc \in {"lock", "give", "ship", "derive"} => t.take = NoUnits
    /\ t.pc = "settle" =>
          t.take = NoUnits \/ (t.next = "open" /\ t.op # "complete")
    /\ t.pc = "take" /\ t.op = "payment" => t.next = "open"
    /\ t.pc = "lock" => t.op # "payment"
    /\ \A l \in t.todo : t.pc = "take" => t.take[l] = 0
    /\ \A l \in Lines : t.take[l] > 0 \/ (t.pc = "take" /\ l \in t.todo) =>
          l \notin gone /\ ~stamped[OrderOf[l]]

\* A line is deleted only after it handed back all it held.
DropsEmpty(t) ==
    /\ t.drop \cap unwritten = {}
    /\ t.drop # {} => /\ t.pc \in {"give", "lock", "commit"}
                      /\ ~t.reserves /\ t.take = NoUnits
    /\ \A l \in t.drop : Back(t, l) = reserved[l]

\* An order is closed only after all its lines handed back what they held.
ClosesEmpty(t) ==
    /\ t.order # NoOrder => ~stamped[t.order]
    /\ t.add # {} => t.op = "addLine"
    /\ \A l \in t.add : l \in unwritten /\ OrderOf[l] = t.order
    /\ t.pc \in {"ship", "derive", "settle"} =>
          t.op \in {"payment", "complete", "fulfill"}
    /\ t.next \in Closed =>
          /\ t.op \in {"cancel", "payment", "complete", "fulfill"}
          /\ t.pc \in {"give", "commit"} /\ t.take = NoUnits
          /\ \A l \in LinesOf(t.order) : Back(t, l) = reserved[l]

Serial(t) ==
    /\ BinsMatchLines(t) /\ GivesItsOwn(t) /\ TakesForLive(t)
    /\ DropsEmpty(t) /\ ClosesEmpty(t)

Books ==
    /\ LevelMatchesHolders /\ ClosedHoldsNothing
    /\ \A o \in Orders : stamped[o] <=> status[o] \in Closed
    /\ gone \cap unwritten = {}
    /\ \A l \in gone : reserved[l] = 0

SerialInv == Books /\ \A r \in Requests : Serial(txn[r])

-----------------------------------------------------------------------------
(* Records of a request that runs alone.                                   *)

LEMMA BinLines ==
    ASSUME NEW b \in Bins
    PROVE  IsFiniteSet(LinesIn(b)) /\ LinesIn(b) \subseteq Lines
<1>1. LinesIn(b) \subseteq Lines
  BY DEF LinesIn
<1>2. IsFiniteSet(Lines)
  BY ConstantsAssumption
<1>3. QED
  BY <1>1, <1>2, FS_Subset

LEMMA NothingInBins ==
    ASSUME NEW b \in Bins
    PROVE  SumFunctionOnSet(NoUnits, LinesIn(b)) = 0
<1>1. \A l \in LinesIn(b) : NoUnits[l] = 0
  BY BinLines DEF NoUnits
<1>2. QED
  BY <1>1, BinLines, SumOfZeros

\* What is left of a request once its lines are done.
LEMMA AfterLinesCases ==
    ASSUME NEW t \in Transactions
    PROVE  \/ AfterLines(t) = t
           \/ /\ t.todo = {} /\ t.pc \in {"take", "give", "ship"}
              /\ AfterLines(t).pc =
                    IF t.pc = "ship" THEN "derive"
                    ELSE IF t.pc = "take" /\ t.op = "payment" THEN "settle"
                    ELSE IF t.pc = "give" /\ t.op \in {"editLine", "removeLine"}
                         THEN "lock"
                    ELSE "commit"
              /\ \/ AfterLines(t).next = t.next
                 \/ AfterLines(t).next = "open" /\ t.op = "reserve"
<1> DEFINE opens == t.op = "reserve" /\ t.seen = "quote"
                       /\ \E l \in Lines : t.take[l] > 0
           nx == IF opens THEN "open" ELSE t.next
           step == CASE t.pc = "ship" -> "derive"
                     [] t.pc = "take" /\ t.op = "payment" -> "settle"
                     [] t.pc = "give" /\ t.op \in {"editLine", "removeLine"}
                          -> "lock"
                     [] OTHER -> "commit"
<1>1. CASE t.pc \in {"take", "give", "ship"} /\ t.todo = {}
  <2>1. AfterLines(t) = [t EXCEPT !.pc = step, !.next = nx]
    BY <1>1, Zenon DEF AfterLines
  <2>2. step = IF t.pc = "ship" THEN "derive"
               ELSE IF t.pc = "take" /\ t.op = "payment" THEN "settle"
               ELSE IF t.pc = "give" /\ t.op \in {"editLine", "removeLine"}
                    THEN "lock"
               ELSE "commit"
    BY <1>1
  <2>3. nx = t.next \/ (nx = "open" /\ t.op = "reserve")
    OBVIOUS
  <2> HIDE DEF step, nx
  <2>4. AfterLines(t).pc = step /\ AfterLines(t).next = nx
    BY <2>1 DEF Transactions
  <2>5. QED
    BY <1>1, <2>2, <2>3, <2>4
<1>2. CASE ~(t.pc \in {"take", "give", "ship"} /\ t.todo = {})
  BY <1>2, Zenon DEF AfterLines
<1>3. QED
  BY <1>1, <1>2

\* Finishing the lines keeps what a serial request has planned.
LEMMA AfterLinesSerial ==
    ASSUME NEW t \in Transactions, Serial(t)
    PROVE  Serial(AfterLines(t))
<1> DEFINE u == AfterLines(t)
<1>1. CASE u = t
  BY <1>1
<1>2. CASE u # t
  <2>1. /\ u = [t EXCEPT !.pc = u.pc, !.next = u.next]
        /\ t.todo = {} /\ t.pc \in {"take", "give", "ship"}
        /\ u.pc = IF t.pc = "ship" THEN "derive"
                  ELSE IF t.pc = "take" /\ t.op = "payment" THEN "settle"
                  ELSE IF t.pc = "give" /\ t.op \in {"editLine", "removeLine"}
                       THEN "lock"
                  ELSE "commit"
        /\ u.next = t.next \/ (u.next = "open" /\ t.op = "reserve")
    BY <1>2, AfterLinesFacts, AfterLinesCases
  <2> HIDE DEF u
  <2>2. /\ u.op = t.op /\ u.order = t.order /\ u.todo = t.todo
        /\ u.want = t.want /\ u.give = t.give /\ u.take = t.take
        /\ u.freed = t.freed /\ u.claim = t.claim /\ u.drop = t.drop
        /\ u.add = t.add /\ u.reserves = t.reserves
    BY <2>1 DEF Transactions
  <2>3. \A l \in Lines : Back(u, l) = Back(t, l)
    BY <2>1, <2>2 DEF Back
  <2>4. BinsMatchLines(u)
    BY <2>2 DEF Serial, BinsMatchLines
  <2>5. GivesItsOwn(u)
    BY <2>3 DEF Serial, GivesItsOwn
  <2>6. TakesForLive(u)
    BY <2>1, <2>2 DEF Serial, TakesForLive
  <2>7. DropsEmpty(u)
    <3>1. t.drop \subseteq Lines
      BY DEF Transactions
    <3>2. QED
      BY <2>1, <2>2, <2>3, <3>1 DEF Serial, DropsEmpty
  <2>8. ClosesEmpty(u)
    <3>1. LinesOf(t.order) \subseteq Lines
      BY DEF LinesOf, Rows
    <3>2. QED
      BY <2>1, <2>2, <2>3, <3>1 DEF Serial, ClosesEmpty, Closed
  <2>9. QED
    BY <2>4, <2>5, <2>6, <2>7, <2>8 DEF Serial, u
<1>3. QED
  BY <1>1, <1>2

LEMMA IdleSerial ==
    ASSUME TypeOK
    PROVE  Serial(Idle)
<1>1. /\ Idle.give = NoUnits /\ Idle.take = NoUnits /\ Idle.freed = NoLevels
      /\ Idle.claim = NoLevels /\ Idle.pc = "idle" /\ Idle.drop = {}
      /\ Idle.add = {} /\ Idle.order = NoOrder /\ Idle.next = "keep"
      /\ Idle.todo = {}
  BY DEF Idle
<1>2. BinsMatchLines(Idle)
  BY <1>1, NothingInBins DEF BinsMatchLines, NoLevels
<1>3. GivesItsOwn(Idle)
  BY <1>1 DEF GivesItsOwn, Back, NoUnits, TypeOK
<1>4. TakesForLive(Idle)
  BY <1>1 DEF TakesForLive, NoUnits
<1>5. DropsEmpty(Idle) /\ ClosesEmpty(Idle)
  BY <1>1 DEF DropsEmpty, ClosesEmpty, Closed
<1>6. QED
  BY <1>2, <1>3, <1>4, <1>5 DEF Serial

-----------------------------------------------------------------------------
(* Beginning a request, alone.                                             *)

\* r goes on with the record t and writes no table.
Carries(r, t) ==
    /\ t \in Transactions /\ Serial(t)
    /\ txn' = [txn EXCEPT ![r] = t]
    /\ UNCHANGED tables

\* All that a line holds is what it is about to hand back.
HandsAllBack(t, l) == reserved[l] = IF l \in t.todo THEN t.want[l] ELSE 0

\* What a plan that has written nothing must promise.
Fresh(op, t) ==
    /\ t \in Transactions
    /\ t.give = NoUnits /\ t.take = NoUnits
    /\ t.freed = NoLevels /\ t.claim = NoLevels
    /\ t.pc \in {"take", "lock", "give", "ship", "settle"}
    /\ t.pc \in {"give", "ship"} => \A l \in t.todo : t.want[l] <= reserved[l]
    /\ t.pc = "take" /\ op = "payment" => t.next = "open"
    /\ t.pc = "lock" => op # "payment"
    /\ t.pc = "take" =>
          \A l \in t.todo : l \notin gone /\ ~stamped[OrderOf[l]]
    /\ t.pc \in {"ship", "settle"} => op \in {"payment", "complete", "fulfill"}
    /\ t.drop \cap unwritten = {}
    /\ t.drop # {} => t.pc = "give" /\ ~t.reserves
    /\ \A l \in t.drop : HandsAllBack(t, l)
    /\ t.order # NoOrder => ~stamped[t.order]
    /\ t.add # {} => op = "addLine"
    /\ \A l \in t.add : l \in unwritten /\ OrderOf[l] = t.order
    /\ t.next \in Closed =>
          /\ op = "cancel" /\ t.pc = "give"
          /\ \A l \in LinesOf(t.order) : HandsAllBack(t, l)

LEMMA FreshCarries ==
    ASSUME TypeOK, NEW r \in Requests, NEW op, NEW rec, Fresh(op, rec),
           Begin(r, op, rec)
    PROVE  \E t : Carries(r, t)
<1> DEFINE u == [rec EXCEPT !.op = op]
<1>1. op \in Endpoints
  BY ConstantsAssumption DEF Begin
<1>2. /\ u \in Transactions /\ u.op = op /\ u.pc = rec.pc
      /\ u.todo = rec.todo /\ u.want = rec.want /\ u.give = rec.give
      /\ u.take = rec.take /\ u.freed = rec.freed /\ u.claim = rec.claim
      /\ u.drop = rec.drop /\ u.add = rec.add /\ u.order = rec.order
      /\ u.next = rec.next /\ u.reserves = rec.reserves
  BY <1>1 DEF Fresh, Transactions
<1>3. txn' = [txn EXCEPT ![r] = AfterLines(u)] /\ UNCHANGED tables
  BY DEF Begin
<1> HIDE DEF u
<1>4. BinsMatchLines(u)
  BY <1>2, NothingInBins DEF Fresh, BinsMatchLines, NoLevels
<1>5. \A l \in Lines : reserved[l] \in Nat
  BY DEF TypeOK
<1>6. GivesItsOwn(u)
  BY <1>2, <1>5 DEF Fresh, GivesItsOwn, Back, NoUnits, Transactions
<1>7. TakesForLive(u)
  <2>1. \A l \in Lines : u.take[l] = 0
    BY <1>2 DEF Fresh, NoUnits
  <2>2. \A l \in u.todo : l \in Lines
    BY <1>2 DEF Transactions
  <2>3. QED
    BY <1>2, <2>1, <2>2 DEF Fresh, TakesForLive
<1>8. ASSUME NEW l \in Lines, HandsAllBack(rec, l), u.pc = "give"
      PROVE  Back(u, l) = reserved[l]
  BY <1>2, <1>5, <1>8 DEF Fresh, HandsAllBack, Back, NoUnits
<1>9. DropsEmpty(u)
  <2>1. \A l \in u.drop : l \in Lines
    BY <1>2 DEF Transactions
  <2>2. QED
    BY <1>2, <1>8, <2>1 DEF Fresh, DropsEmpty
<1>10. ClosesEmpty(u)
  <2>1. \A l \in LinesOf(u.order) : l \in Lines
    BY DEF LinesOf, Rows
  <2>2. QED
    BY <1>2, <1>8, <2>1 DEF Fresh, ClosesEmpty
<1>11. Carries(r, AfterLines(u))
  BY <1>2, <1>3, <1>4, <1>6, <1>7, <1>9, <1>10, AfterLinesFacts, AfterLinesSerial
  DEF Carries, Serial
<1>12. QED
  BY <1>11

LEMMA ReservePlanIs ==
    ASSUME TypeOK, NEW o \in Orders
    PROVE  LET p == ReservePlan(o)
           IN  /\ p \in Transactions /\ p.give = NoUnits /\ p.take = NoUnits
               /\ p.freed = NoLevels /\ p.claim = NoLevels /\ p.pc = "take"
               /\ p.todo \subseteq LinesOf(o) /\ p.drop = {} /\ p.add = {}
               /\ p.order = o /\ p.next = "keep"
<1>1. ReservePlan(o) \in Transactions
  BY PlanTypes
<1>2. QED
  BY <1>1 DEF ReservePlan, Reserving, Idle

\* A plan that hands back all that some lines of an order hold.
Releases(p, o, lines) ==
    /\ p \in Transactions /\ p.give = NoUnits /\ p.take = NoUnits
    /\ p.freed = NoLevels /\ p.claim = NoLevels /\ p.pc = "give"
    /\ \A l \in p.todo : p.want[l] = reserved[l]
    /\ \A l \in lines : HandsAllBack(p, l)
    /\ p.drop = {} /\ p.add = {} /\ p.order = o /\ p.next = "keep"
    /\ p.reserves = FALSE

LEMMA ReleasePlanIs ==
    ASSUME TypeOK, NEW o \in Orders, NEW lines \in SUBSET Lines
    PROVE  Releases(ReleasePlan(o, lines), o, lines)
<1> DEFINE p == ReleasePlan(o, lines)
<1>1. p \in Transactions
  BY PlanTypes
<1>2. /\ p.give = NoUnits /\ p.take = NoUnits
      /\ p.freed = NoLevels /\ p.claim = NoLevels /\ p.pc = "give"
      /\ p.todo = {l \in lines : reserved[l] > 0}
      /\ p.want = [l \in Lines |-> IF l \in lines THEN reserved[l] ELSE 0]
      /\ p.drop = {} /\ p.add = {} /\ p.order = o /\ p.next = "keep"
      /\ p.reserves = FALSE
  BY DEF ReleasePlan, Idle
<1> HIDE DEF p
<1>3. \A l \in Lines : reserved[l] \in Nat
  BY DEF TypeOK
<1>4. \A l \in p.todo : p.want[l] = reserved[l]
  BY <1>2
<1>5. \A l \in lines : HandsAllBack(p, l)
  BY <1>2, <1>3 DEF HandsAllBack
<1>6. QED
  BY <1>1, <1>2, <1>4, <1>5 DEF p, Releases

\* The lines of an order that is there are lines, none of them deleted.
LEMMA LinesOfAre ==
    ASSUME NEW o
    PROVE  \A l \in LinesOf(o) : l \in Lines /\ l \notin gone /\ l \notin unwritten
                                 /\ OrderOf[l] = o
BY DEF LinesOf, Rows

\* An order that is not closed is not stamped, and the other way round.
LEMMA LiveIs ==
    ASSUME TypeOK, Books, NEW o \in Orders
    PROVE  status[o] \in LiveStatuses <=> ~stamped[o]
BY DEF TypeOK, Books, Closed, LiveStatuses

LEMMA ReserveCarries ==
    ASSUME TypeOK, Books, NEW r \in Requests, NEW o \in Orders,
           BeginReserve(r, o)
    PROVE  \E t : Carries(r, t)
<1> DEFINE p == ReservePlan(o)
           rec == [p EXCEPT !.seen = status[o]]
<1>1. ~stamped[o] /\ status[o] \in Statuses /\ Begin(r, "reserve", rec)
  BY LiveIs DEF BeginReserve, TypeOK
<1>2. /\ p \in Transactions /\ p.give = NoUnits /\ p.take = NoUnits
      /\ p.freed = NoLevels /\ p.claim = NoLevels /\ p.pc = "take"
      /\ p.todo \subseteq LinesOf(o) /\ p.drop = {} /\ p.add = {}
      /\ p.order = o /\ p.next = "keep"
  BY ReservePlanIs
<1> HIDE DEF p
<1>3. /\ rec \in Transactions /\ rec.give = NoUnits /\ rec.take = NoUnits
      /\ rec.freed = NoLevels /\ rec.claim = NoLevels /\ rec.pc = "take"
      /\ rec.todo \subseteq LinesOf(o) /\ rec.drop = {} /\ rec.add = {}
      /\ rec.order = o /\ rec.next = "keep"
  BY <1>1, <1>2 DEF Transactions
<1>4. Fresh("reserve", rec)
  BY <1>1, <1>3, LinesOfAre DEF Fresh, Closed
<1>5. QED
  BY <1>1, <1>4, FreshCarries

LEMMA ConfirmCarries ==
    ASSUME TypeOK, Books, NEW r \in Requests, NEW o \in Orders,
           BeginConfirm(r, o)
    PROVE  \E t : Carries(r, t)
<1> DEFINE rec == [Idle EXCEPT !.pc = "lock", !.order = o, !.reserves = TRUE,
                               !.next = "open"]
<1>1. ~stamped[o] /\ Begin(r, "confirm", rec)
  BY LiveIs DEF BeginConfirm, Unconfirmed, LiveStatuses, Statuses
<1>2. rec \in Transactions
  BY IdleType DEF Transactions, Steps, Statuses
<1>3. Fresh("confirm", rec)
  BY <1>1, <1>2 DEF Fresh, Closed, Idle
<1>4. QED
  BY <1>1, <1>3, FreshCarries

LEMMA PaymentCarries ==
    ASSUME TypeOK, Books, NEW r \in Requests, NEW o \in Orders,
           NEW due \in {"keep", "settled"}, BeginPayment(r, o, due)
    PROVE  \E t : Carries(r, t)
<1> DEFINE p == ReservePlan(o)
           confirming == [p EXCEPT !.next = "open", !.due = due]
           settling == [Idle EXCEPT !.pc = "settle", !.order = o, !.due = due]
<1>1. ~stamped[o] /\ Begin(r, "payment", IF status[o] \in Unconfirmed
                                          THEN confirming ELSE settling)
  BY LiveIs DEF BeginPayment
<1>2. Fresh("payment", confirming)
  <2>1. /\ p \in Transactions /\ p.give = NoUnits /\ p.take = NoUnits
        /\ p.freed = NoLevels /\ p.claim = NoLevels /\ p.pc = "take"
        /\ p.todo \subseteq LinesOf(o) /\ p.drop = {} /\ p.add = {}
        /\ p.order = o /\ p.next = "keep"
    BY ReservePlanIs
  <2> HIDE DEF p
  <2>2. confirming \in Transactions
    BY <2>1, ZenonT(40) DEF Transactions, Statuses
  <2>3. /\ confirming.give = NoUnits /\ confirming.take = NoUnits
        /\ confirming.freed = NoLevels /\ confirming.claim = NoLevels
        /\ confirming.pc = "take" /\ confirming.todo \subseteq LinesOf(o)
        /\ confirming.drop = {} /\ confirming.add = {}
        /\ confirming.order = o /\ confirming.next = "open"
    BY <2>1 DEF Transactions
  <2> HIDE DEF confirming
  <2>4. QED
    BY <1>1, <2>2, <2>3, LinesOfAre DEF Fresh, Closed
<1>3. Fresh("payment", settling)
  <2>1. settling \in Transactions
    BY IdleType DEF Transactions, Steps
  <2>2. QED
    BY <1>1, <2>1 DEF Fresh, Closed, Idle
<1>4. QED
  BY <1>1, <1>2, <1>3, FreshCarries

LEMMA FreshRelease ==
    ASSUME TypeOK, NEW o \in Orders, ~stamped[o], NEW lines \in SUBSET Lines,
           NEW op
    PROVE  Fresh(op, ReleasePlan(o, lines))
<1> DEFINE p == ReleasePlan(o, lines)
<1>0. Releases(p, o, lines)
  BY ReleasePlanIs
<1> HIDE DEF p
<1>1. /\ p \in Transactions /\ p.give = NoUnits /\ p.take = NoUnits
      /\ p.freed = NoLevels /\ p.claim = NoLevels /\ p.pc = "give"
      /\ \A l \in p.todo : p.want[l] = reserved[l]
      /\ p.drop = {} /\ p.add = {} /\ p.order = o /\ p.next = "keep"
      /\ p.reserves = FALSE
  BY <1>0 DEF Releases
<1>2. \A l \in p.todo : reserved[l] \in Nat
  BY <1>1 DEF Transactions, TypeOK
<1>3. QED
  <2>1. Fresh(op, p)
    BY <1>1, <1>2 DEF Fresh, Closed
  <2>2. QED
    BY <2>1 DEF p

LEMMA ReleasesCarry ==
    ASSUME TypeOK, Books, NEW r \in Requests, NEW o \in Orders,
           BeginRelease(r, o) \/ BeginAutoRelease(r, o)
    PROVE  \E t : Carries(r, t)
<1>1. ~stamped[o]
  BY LiveIs DEF BeginRelease, BeginAutoRelease, Shipping, LiveStatuses, Statuses
<1>2. LinesOf(o) \in SUBSET Lines
  BY LinesOfAre
<1>3. PICK op : Begin(r, op, ReleasePlan(o, LinesOf(o)))
  BY DEF BeginRelease, BeginAutoRelease
<1>4. QED
  BY <1>1, <1>2, <1>3, FreshRelease, FreshCarries

LEMMA ReleaseLineCarries ==
    ASSUME TypeOK, Books, NEW r \in Requests, NEW l \in Lines,
           BeginReleaseLine(r, l)
    PROVE  \E t : Carries(r, t)
<1>1. OrderOf[l] \in Orders /\ ~stamped[OrderOf[l]]
  BY LiveIs, ConstantsAssumption DEF BeginReleaseLine
<1>2. Begin(r, "releaseLine", ReleasePlan(OrderOf[l], {l}))
  BY DEF BeginReleaseLine
<1>3. QED
  BY <1>1, <1>2, FreshRelease, FreshCarries

LEMMA RemoveLineCarries ==
    ASSUME TypeOK, Books, NEW r \in Requests, NEW l \in Lines,
           NEW due \in {"keep", "settled"}, BeginRemoveLine(r, l, due)
    PROVE  \E t : Carries(r, t)
<1> DEFINE o == OrderOf[l]
           p == ReleasePlan(o, {l})
           rec == [p EXCEPT !.drop = {l}, !.due = due]
<1>1. o \in Orders /\ ~stamped[o] /\ l \notin unwritten /\ Begin(r, "removeLine", rec)
  BY LiveIs, ConstantsAssumption DEF BeginRemoveLine, Rows
<1>2. /\ p \in Transactions /\ p.give = NoUnits /\ p.take = NoUnits
      /\ p.freed = NoLevels /\ p.claim = NoLevels /\ p.pc = "give"
      /\ \A m \in p.todo : p.want[m] = reserved[m]
      /\ \A m \in {l} : HandsAllBack(p, m)
      /\ p.drop = {} /\ p.add = {} /\ p.order = o /\ p.next = "keep"
      /\ p.reserves = FALSE
  <2>1. {l} \in SUBSET Lines
    OBVIOUS
  <2>2. Releases(p, o, {l})
    BY <1>1, <2>1, ReleasePlanIs
  <2>3. QED
    BY <2>2 DEF Releases
<1>3. \A m \in p.todo : reserved[m] \in Nat
  BY <1>2 DEF Transactions, TypeOK
<1> HIDE DEF o, p
<1>4. rec \in Transactions
  BY <1>2, ZenonT(40) DEF Transactions
<1>5. /\ rec.give = NoUnits /\ rec.take = NoUnits
      /\ rec.freed = NoLevels /\ rec.claim = NoLevels /\ rec.pc = "give"
      /\ rec.todo = p.todo /\ rec.want = p.want /\ rec.drop = {l}
      /\ rec.add = {} /\ rec.order = o /\ rec.next = "keep"
      /\ rec.reserves = FALSE
  BY <1>2 DEF Transactions
<1> HIDE DEF rec
<1>6. HandsAllBack(rec, l)
  BY <1>2, <1>5 DEF HandsAllBack
<1>7. Fresh("removeLine", rec)
  BY <1>1, <1>2, <1>3, <1>4, <1>5, <1>6 DEF Fresh, Closed
<1>8. QED
  BY <1>1, <1>7, FreshCarries

LEMMA CancelCarries ==
    ASSUME TypeOK, Books, NEW r \in Requests, NEW o \in Orders,
           BeginCancel(r, o)
    PROVE  \E t : Carries(r, t)
<1> DEFINE p == ReleasePlan(o, LinesOf(o))
           rec == [p EXCEPT !.holds = {o}, !.next = "cancelled"]
<1>1. ~stamped[o] /\ Begin(r, "cancel", rec)
  BY LiveIs DEF BeginCancel
<1>2. /\ p \in Transactions /\ p.give = NoUnits /\ p.take = NoUnits
      /\ p.freed = NoLevels /\ p.claim = NoLevels /\ p.pc = "give"
      /\ \A m \in p.todo : p.want[m] = reserved[m]
      /\ \A m \in LinesOf(o) : HandsAllBack(p, m)
      /\ p.drop = {} /\ p.add = {} /\ p.order = o /\ p.next = "keep"
      /\ p.reserves = FALSE
  <2>1. LinesOf(o) \in SUBSET Lines
    BY LinesOfAre
  <2>2. Releases(p, o, LinesOf(o))
    BY <2>1, ReleasePlanIs
  <2>3. QED
    BY <2>2 DEF Releases
<1>3. \A m \in p.todo : reserved[m] \in Nat
  BY <1>2 DEF Transactions, TypeOK
<1> HIDE DEF p
<1>4. rec \in Transactions
  BY <1>2, ZenonT(40) DEF Transactions, Statuses
<1>5. /\ rec.give = NoUnits /\ rec.take = NoUnits
      /\ rec.freed = NoLevels /\ rec.claim = NoLevels /\ rec.pc = "give"
      /\ rec.todo = p.todo /\ rec.want = p.want /\ rec.drop = {}
      /\ rec.add = {} /\ rec.order = o /\ rec.next = "cancelled"
      /\ rec.reserves = FALSE
  BY <1>2 DEF Transactions
<1> HIDE DEF rec
<1>6. \A m \in LinesOf(o) : HandsAllBack(rec, m)
  BY <1>2, <1>5 DEF HandsAllBack
<1>7. Fresh("cancel", rec)
  BY <1>1, <1>2, <1>3, <1>4, <1>5, <1>6 DEF Fresh, Closed
<1>8. QED
  BY <1>1, <1>7, FreshCarries

LEMMA AddLineCarries ==
    ASSUME TypeOK, Books, NEW r \in Requests, NEW l \in Lines,
           BeginAddLine(r, l)
    PROVE  \E t : Carries(r, t)
<1> DEFINE asks == status[OrderOf[l]] # "quote"
           rec == [Idle EXCEPT !.pc = "lock", !.order = OrderOf[l],
                               !.add = {l}, !.reserves = asks, !.due = "raised"]
<1>1. /\ OrderOf[l] \in Orders /\ ~stamped[OrderOf[l]] /\ l \in unwritten
      /\ Begin(r, "addLine", rec)
  BY LiveIs, ConstantsAssumption DEF BeginAddLine
<1>2. asks \in BOOLEAN
  OBVIOUS
<1> HIDE DEF asks
<1>3. rec \in Transactions
  BY <1>1, <1>2, IdleType, ZenonT(40) DEF Transactions, Steps
<1>4. Fresh("addLine", rec)
  BY <1>1, <1>3 DEF Fresh, Closed, Idle
<1> HIDE DEF rec
<1>5. QED
  BY <1>1, <1>4, FreshCarries

LEMMA EditLineCarries ==
    ASSUME TypeOK, Books, NEW r \in Requests, NEW l \in Lines, NEW q \in Nat,
           NEW due \in {"keep", "settled", "raised"}, BeginEditLine(r, l, q, due)
    PROVE  \E t : Carries(r, t)
<1> DEFINE o == OrderOf[l]
           todo == {m \in {l} : reserved[m] > q}
           want == [m \in Lines |-> IF m = l THEN Clamp(reserved[m] - q) ELSE 0]
           size == [m \in Lines |-> IF m = l THEN q ELSE 0]
           grows == q > quantity[l] /\ status[o] \notin Unconfirmed
           rec == [Idle EXCEPT !.pc = "give", !.order = o, !.todo = todo,
                               !.want = want, !.size = size,
                               !.reserves = grows, !.due = due]
<1>1. ~stamped[o] /\ Begin(r, "editLine", rec)
  BY LiveIs, ConstantsAssumption DEF BeginEditLine
<1>2. o \in Orders /\ todo \in SUBSET Lines /\ grows \in BOOLEAN
  BY ConstantsAssumption
<1>3. want \in [Lines -> Nat] /\ size \in [Lines -> Nat]
  <2>1. \A m \in Lines : Clamp(reserved[m] - q) \in Nat
    BY DEF TypeOK, Clamp
  <2>2. QED
    BY <2>1
<1>4. \A m \in todo : want[m] <= reserved[m]
  BY DEF TypeOK, Clamp
<1> HIDE DEF o, todo, want, size, grows
<1>5. rec \in Transactions
  BY <1>2, <1>3, IdleType, ZenonT(40) DEF Transactions, Steps
<1>6. Fresh("editLine", rec)
  BY <1>1, <1>4, <1>5 DEF Fresh, Closed, Idle
<1> HIDE DEF rec
<1>7. QED
  BY <1>1, <1>6, FreshCarries

LEMMA FulfillCarries ==
    ASSUME TypeOK, Books, NEW r \in Requests, NEW o \in Orders,
           NEW units \in Shipments(o), BeginFulfill(r, o, units)
    PROVE  \E t : Carries(r, t)
<1> DEFINE p == ShipPlan(o, units)
<1>1. ~stamped[o] /\ Begin(r, "fulfill", p)
  BY DEF BeginFulfill
<1>2. units \in [Lines -> Nat]
  BY DEF Shipments, TypeOK
<1>3. p \in Transactions
  BY <1>2, PlanTypes
<1>4. /\ p.give = NoUnits /\ p.take = NoUnits /\ p.freed = NoLevels
      /\ p.claim = NoLevels /\ p.pc = "ship" /\ p.drop = {} /\ p.add = {}
      /\ p.order = o /\ p.next = "keep"
      /\ p.todo \subseteq LinesOf(o)
      /\ p.want = [l \in Lines |-> Least(reserved[l], units[l])]
  BY DEF ShipPlan, Idle
<1> HIDE DEF p
<1>5. \A l \in p.todo : p.want[l] <= reserved[l]
  BY <1>2, <1>4, LinesOfAre DEF Least, TypeOK
<1>6. Fresh("fulfill", p)
  BY <1>1, <1>3, <1>4, <1>5 DEF Fresh, Closed
<1>7. QED
  BY <1>1, <1>6, FreshCarries

LEMMA CompleteCarries ==
    ASSUME TypeOK, Books, NEW r \in Requests, NEW o \in Orders,
           BeginComplete(r, o)
    PROVE  \E t : Carries(r, t)
<1> DEFINE rec == [Idle EXCEPT !.pc = "settle", !.order = o]
<1>1. ~stamped[o] /\ Begin(r, "complete", rec)
  BY DEF BeginComplete
<1>2. rec \in Transactions
  BY IdleType, ZenonT(40) DEF Transactions, Steps
<1>3. Fresh("complete", rec)
  BY <1>1, <1>2 DEF Fresh, Closed, Idle
<1>4. QED
  BY <1>1, <1>3, FreshCarries

LEMMA AllocatePendingCarries ==
    ASSUME TypeOK, Books, NEW r \in Requests, BeginAllocatePending(r)
    PROVE  \E t : Carries(r, t)
<1> DEFINE short == {l \in Lines : Pending(l)}
           want == [l \in Lines |-> IF l \in short
                                    THEN quantity[l] - reserved[l] - fulfilled[l]
                                    ELSE 0]
           rec == [Idle EXCEPT !.pc = "take", !.todo = short, !.want = want]
<1>1. want \in [Lines -> Nat]
  BY DEF TypeOK, Pending
<1>2. Begin(r, "allocatePending", rec)
  BY DEF BeginAllocatePending
<1>3. ASSUME NEW l \in short
      PROVE  l \in Lines /\ l \notin gone /\ ~stamped[OrderOf[l]]
  <2>1. l \in Lines /\ OrderOf[l] \in Orders
    BY ConstantsAssumption
  <2>2. l \notin gone /\ status[OrderOf[l]] \in LiveStatuses
    BY DEF Pending, Rows, Shipping, LiveStatuses, Statuses
  <2>3. QED
    BY <2>1, <2>2, LiveIs
<1> HIDE DEF short, want
<1>4. rec \in Transactions
  BY <1>1, <1>3, IdleType DEF Transactions, Steps
<1>5. Fresh("allocatePending", rec)
  BY <1>3, <1>4 DEF Fresh, Closed, Idle
<1> HIDE DEF rec
<1>6. QED
  BY <1>2, <1>5, FreshCarries

\* The bin of one line counts what that line counts.
LEMMA OneLineSum ==
    ASSUME NEW q \in Nat, NEW lines \in AtMostOne, NEW b \in Bins
    PROVE  SumFunctionOnSet([l \in Lines |-> IF l \in lines THEN q ELSE 0],
                            LinesIn(b))
              = IF \E l \in lines : BinOf[l] = b THEN q ELSE 0
<1> DEFINE f == [l \in Lines |-> IF l \in lines THEN q ELSE 0]
           S == LinesIn(b)
<1>1. IsFiniteSet(S) /\ S \subseteq Lines
  BY BinLines
<1>2. CASE \E l \in lines : BinOf[l] = b
  <2>1. PICK m \in Lines : lines = {m} /\ BinOf[m] = b
    BY <1>2 DEF AtMostOne
  <2>2. m \in S
    BY <2>1 DEF LinesIn
  <2>3. f[m] = q /\ f[m] \in Int /\ \A y \in S \ {m} : f[y] = 0
    BY <1>1, <2>1
  <2> HIDE DEF f, S
  <2>4. SumFunctionOnSet(f, S) = f[m]
    BY <1>1, <2>2, <2>3, SumOfOne
  <2>5. QED
    BY <1>2, <2>3, <2>4 DEF f, S
<1>3. CASE ~(\E l \in lines : BinOf[l] = b)
  <2>1. \A y \in S : f[y] = 0
    BY <1>3 DEF LinesIn
  <2> HIDE DEF f, S
  <2>2. SumFunctionOnSet(f, S) = 0
    BY <1>1, <2>1, SumOfZeros
  <2>3. QED
    BY <1>3, <2>2 DEF f, S
<1>4. QED
  BY <1>2, <1>3

LEMMA MoveCarries ==
    ASSUME TypeOK, Books, NEW r \in Requests, NEW from \in AtMostOne,
           NEW to \in AtMostOne, NEW q \in Nat, BeginMove(r, from, to, q)
    PROVE  \E t : Carries(r, t)
<1> DEFINE Of(lines) == [l \in Lines |-> IF l \in lines THEN q ELSE 0]
           At(lines) == [b \in Bins |-> IF \E l \in lines : BinOf[l] = b
                                        THEN q ELSE 0]
           rec == [Idle EXCEPT !.pc = "move", !.todo = from \cup to,
                               !.give = Of(from), !.freed = At(from),
                               !.take = Of(to), !.claim = At(to)]
           u == [rec EXCEPT !.op = "move"]
<1>1. from \cup to \in SUBSET Lines
  BY DEF AtMostOne
<1>2. \A lines : Of(lines) \in [Lines -> Nat] /\ At(lines) \in [Bins -> Nat]
  OBVIOUS
<1>3. \A l \in to : l \notin gone /\ ~stamped[OrderOf[l]]
  <2>1. ASSUME NEW l \in to PROVE l \notin gone /\ ~stamped[OrderOf[l]]
    <3>1. OrderOf[l] \in Orders
      BY <1>1, ConstantsAssumption
    <3>2. Editable(l)
      BY DEF BeginMove
    <3>3. QED
      BY <3>1, <3>2, LiveIs DEF Editable, Rows
  <2>2. QED
    BY <2>1
<1>4. \A l \in from : reserved[l] >= q
  BY DEF BeginMove
<1>5. Begin(r, "move", rec)
  BY DEF BeginMove
<1>6. \A b \in Bins : /\ SumFunctionOnSet(Of(from), LinesIn(b)) = At(from)[b]
                      /\ SumFunctionOnSet(Of(to), LinesIn(b)) = At(to)[b]
  BY OneLineSum
<1>7. \A l \in Lines : /\ Of(from)[l] = IF l \in from THEN q ELSE 0
                       /\ Of(to)[l] = IF l \in to THEN q ELSE 0
  OBVIOUS
<1> HIDE DEF Of, At
<1>8. rec \in Transactions
  BY <1>1, <1>2, IdleType DEF Transactions, Steps
<1>9. /\ rec.pc = "move" /\ rec.todo = from \cup to
      /\ rec.give = Of(from) /\ rec.take = Of(to)
      /\ rec.freed = At(from) /\ rec.claim = At(to)
      /\ rec.next = "keep" /\ rec.order = NoOrder
      /\ rec.drop = {} /\ rec.add = {}
  BY DEF Idle
<1>10. txn' = [txn EXCEPT ![r] = AfterLines(u)] /\ UNCHANGED tables
  BY <1>5 DEF Begin
<1> HIDE DEF rec
<1>11. /\ u \in Transactions /\ u.pc = "move" /\ u.todo = from \cup to
       /\ u.give = Of(from) /\ u.take = Of(to)
       /\ u.freed = At(from) /\ u.claim = At(to)
       /\ u.next = "keep" /\ u.order = NoOrder
       /\ u.drop = {} /\ u.add = {} /\ u.op = "move"
  BY <1>8, <1>9 DEF Transactions, Endpoints
<1> HIDE DEF u
<1>12. BinsMatchLines(u)
  BY <1>6, <1>11 DEF BinsMatchLines
<1>13. GivesItsOwn(u)
  <2>1. \A l \in Lines : reserved[l] \in Nat
    BY DEF TypeOK
  <2>2. QED
    BY <1>4, <1>7, <1>11, <2>1 DEF GivesItsOwn, Back
<1>14. TakesForLive(u)
  BY <1>3, <1>7, <1>11 DEF TakesForLive
<1>15. DropsEmpty(u) /\ ClosesEmpty(u)
  BY <1>11 DEF DropsEmpty, ClosesEmpty, Closed
<1>16. AfterLines(u) = u
  BY <1>11, AfterLinesFacts
<1>17. Carries(r, u)
  BY <1>10, <1>11, <1>12, <1>13, <1>14, <1>15, <1>16 DEF Carries, Serial
<1>18. QED
  BY <1>17

LEMMA BeginSomeCarries ==
    ASSUME TypeOK, Books, NEW r \in Requests, BeginSome(r)
    PROVE  \E t : Carries(r, t)
<1>1. CASE \E o \in Orders : BeginReserve(r, o)
  BY <1>1, ReserveCarries
<1>2. CASE \E o \in Orders : BeginConfirm(r, o)
  BY <1>2, ConfirmCarries
<1>3. CASE \E o \in Orders : \E due \in {"keep", "settled"} :
              BeginPayment(r, o, due)
  BY <1>3, PaymentCarries
<1>4. CASE \E o \in Orders : BeginRelease(r, o) \/ BeginAutoRelease(r, o)
  BY <1>4, ReleasesCarry
<1>5. CASE \E o \in Orders : BeginCancel(r, o)
  BY <1>5, CancelCarries
<1>6. CASE \E o \in Orders : BeginComplete(r, o)
  BY <1>6, CompleteCarries
<1>7. CASE \E o \in Orders : \E units \in Shipments(o) :
              BeginFulfill(r, o, units)
  BY <1>7, FulfillCarries
<1>8. CASE \E l \in Lines : BeginReleaseLine(r, l)
  BY <1>8, ReleaseLineCarries
<1>9. CASE \E l \in Lines : \E due \in {"keep", "settled"} :
               BeginRemoveLine(r, l, due)
  BY <1>9, RemoveLineCarries
<1>10. CASE \E l \in Lines : BeginAddLine(r, l)
  BY <1>10, AddLineCarries
<1>11. CASE \E l \in Lines : \E q \in 1 .. MaxQuantity,
               due \in {"keep", "settled", "raised"} : BeginEditLine(r, l, q, due)
  <2>1. 1 .. MaxQuantity \subseteq Nat
    BY ConstantsAssumption
  <2>2. QED
    BY <1>11, <2>1, EditLineCarries
<1>12. CASE \E from, to \in AtMostOne : \E m \in from \cup to :
               \E q \in 1 .. quantity[m] : BeginMove(r, from, to, q)
  <2>1. PICK from \in AtMostOne, to \in AtMostOne : \E m \in from \cup to :
             \E q \in 1 .. quantity[m] : BeginMove(r, from, to, q)
    BY <1>12
  <2>2. PICK m \in from \cup to, q \in Nat : BeginMove(r, from, to, q)
    <3>1. \A m \in from \cup to : 1 .. quantity[m] \subseteq Nat
      BY DEF TypeOK, AtMostOne
    <3>2. QED
      BY <2>1, <3>1
  <2>3. QED
    BY <2>2, MoveCarries
<1>13. CASE BeginAllocatePending(r)
  BY <1>13, AllocatePendingCarries
<1>14. QED
  BY <1>1, <1>2, <1>3, <1>4, <1>5, <1>6, <1>7, <1>8, <1>9, <1>10, <1>11, <1>12,
     <1>13
  DEF BeginSome

-----------------------------------------------------------------------------
(* The steps of a request that runs alone.                                 *)

LEMMA BinSumChanges ==
    ASSUME NEW f, NEW g, NEW l \in Lines, NEW b \in Bins,
           \A m \in LinesIn(b) : f[m] \in Int, g[l] \in Int, f[l] \in Int,
           \A m \in LinesIn(b) \ {l} : g[m] = f[m]
    PROVE  SumFunctionOnSet(g, LinesIn(b))
              = SumFunctionOnSet(f, LinesIn(b))
                   + IF BinOf[l] = b THEN g[l] - f[l] ELSE 0
<1>1. IsFiniteSet(LinesIn(b))
  BY BinLines
<1>2. l \in LinesIn(b) <=> BinOf[l] = b
  BY DEF LinesIn
<1>3. SumFunctionOnSet(f, LinesIn(b)) \in Int
  BY <1>1, SumIsInt
<1>4. CASE l \in LinesIn(b)
  <2>1. SumFunctionOnSet(g, LinesIn(b))
           = SumFunctionOnSet(f, LinesIn(b)) - f[l] + g[l]
    BY <1>1, <1>4, SumUpdate
  <2>2. QED
    BY <1>2, <1>3, <1>4, <2>1
<1>5. CASE l \notin LinesIn(b)
  <2>1. \A m \in LinesIn(b) : g[m] = f[m]
    BY <1>5
  <2>2. SumFunctionOnSet(g, LinesIn(b)) = SumFunctionOnSet(f, LinesIn(b))
    BY <1>1, <2>1, SumAgrees
  <2>3. QED
    BY <1>2, <1>3, <1>5, <2>2
<1>6. QED
  BY <1>4, <1>5

\* Units written to one line are written to its bin.
Grown(f, g, l, n) ==
    /\ f \in [Lines -> Nat] /\ l \in Lines /\ n \in Nat
    /\ g = [f EXCEPT ![l] = @ + n]

LEMMA BinSumGrows ==
    ASSUME NEW f, NEW g, NEW l, NEW n, Grown(f, g, l, n), NEW b \in Bins
    PROVE  SumFunctionOnSet(g, LinesIn(b))
              = SumFunctionOnSet(f, LinesIn(b)) + IF BinOf[l] = b THEN n ELSE 0
<1>1. /\ l \in Lines /\ g[l] \in Int /\ f[l] \in Int /\ g[l] - f[l] = n
      /\ \A m \in Lines : f[m] \in Int
      /\ \A m \in Lines \ {l} : g[m] = f[m]
  BY DEF Grown
<1>2. /\ \A m \in LinesIn(b) : f[m] \in Int
      /\ \A m \in LinesIn(b) \ {l} : g[m] = f[m]
  BY <1>1, BinLines
<1>3. SumFunctionOnSet(g, LinesIn(b))
         = SumFunctionOnSet(f, LinesIn(b)) + IF BinOf[l] = b THEN g[l] - f[l] ELSE 0
  BY <1>1, <1>2, BinSumChanges
<1>4. QED
  BY <1>1, <1>3

\* Handing back the units of a line, shipped or not, keeps the plan.
LEMMA HandingSerial ==
    ASSUME TypeOK, NEW t \in Transactions, Serial(t), t.pc \in {"give", "ship"},
           NEW l \in t.todo, NEW u \in Transactions,
           u.give = [t.give EXCEPT ![l] = @ + t.want[l]],
           u.freed = [t.freed EXCEPT ![BinOf[l]] = @ + t.want[l]],
           u.todo = t.todo \ {l}, u.pc = t.pc, u.op = t.op, u.order = t.order,
           u.want = t.want, u.take = t.take, u.claim = t.claim,
           u.drop = t.drop, u.add = t.add, u.next = t.next,
           u.reserves = t.reserves
    PROVE  Serial(u)
<1>1. /\ l \in Lines /\ BinOf[l] \in Bins /\ t.want[l] \in Nat
      /\ t.give \in [Lines -> Nat] /\ t.freed \in [Bins -> Nat]
  BY ConstantsAssumption DEF Transactions
<1>2. \A m \in Lines : Back(u, m) = Back(t, m)
  BY <1>1 DEF Back
<1>3. BinsMatchLines(u)
  <2>1. ASSUME NEW b \in Bins
        PROVE  /\ u.freed[b] = SumFunctionOnSet(u.give, LinesIn(b))
               /\ u.claim[b] = SumFunctionOnSet(u.take, LinesIn(b))
    <3>1. SumFunctionOnSet(u.give, LinesIn(b))
             = SumFunctionOnSet(t.give, LinesIn(b))
                  + IF BinOf[l] = b THEN t.want[l] ELSE 0
      <4>1. Grown(t.give, u.give, l, t.want[l])
        BY <1>1 DEF Grown
      <4>2. QED
        BY <4>1, BinSumGrows
    <3>2. /\ t.freed[b] = SumFunctionOnSet(t.give, LinesIn(b))
          /\ t.claim[b] = SumFunctionOnSet(t.take, LinesIn(b))
      BY DEF Serial, BinsMatchLines
    <3>3. u.freed[b] = t.freed[b] + IF BinOf[l] = b THEN t.want[l] ELSE 0
      BY <1>1
    <3>4. QED
      BY <3>1, <3>2, <3>3
  <2>2. QED
    BY <2>1 DEF BinsMatchLines
<1>4. GivesItsOwn(u)
  BY <1>2 DEF Serial, GivesItsOwn
<1>5. TakesForLive(u)
  BY DEF Serial, TakesForLive
<1>6. DropsEmpty(u)
  <2>1. \A m \in t.drop : m \in Lines
    BY DEF Transactions
  <2>2. QED
    BY <1>2, <2>1 DEF Serial, DropsEmpty
<1>7. ClosesEmpty(u)
  BY <1>2, LinesOfAre DEF Serial, ClosesEmpty
<1>8. QED
  BY <1>3, <1>4, <1>5, <1>6, <1>7 DEF Serial

LEMMA LineStepCarries ==
    ASSUME NEW r \in Requests, NEW t \in Transactions, Serial(t),
           txn' = [txn EXCEPT ![r] = AfterLines(t)], UNCHANGED tables
    PROVE  \E u : Carries(r, u)
<1>1. Carries(r, AfterLines(t))
  BY AfterLinesFacts, AfterLinesSerial DEF Carries
<1>2. QED
  BY <1>1

LEMMA GiveLineCarries ==
    ASSUME TypeOK, NEW r \in Requests, Serial(txn[r]), NEW l \in Lines,
           GiveLine(r, l)
    PROVE  \E u : Carries(r, u)
<1> DEFINE t == txn[r]
           b == BinOf[l]
           g2 == [t.give EXCEPT ![l] = @ + t.want[l]]
           f2 == [t.freed EXCEPT ![b] = @ + t.want[l]]
           u == [t EXCEPT !.todo = @ \ {l}, !.holds = @ \cup {b},
                          !.give = g2, !.freed = f2]
<1>1. /\ t.pc = "give" /\ l \in t.todo
      /\ txn' = [txn EXCEPT ![r] = AfterLines(u)] /\ UNCHANGED tables
  BY DEF GiveLine
<1>2. t \in Transactions /\ b \in Bins
  BY ConstantsAssumption DEF TypeOK
<1> HIDE DEF t
<1>3. /\ g2 \in [Lines -> Nat] /\ f2 \in [Bins -> Nat]
      /\ t.todo \ {l} \in SUBSET Lines
      /\ t.holds \cup {b} \in SUBSET (Bins \cup Orders \cup {NoOrder})
  BY <1>2 DEF Transactions
<1>4. g2 = [t.give EXCEPT ![l] = @ + t.want[l]]
      /\ f2 = [t.freed EXCEPT ![BinOf[l]] = @ + t.want[l]]
  OBVIOUS
<1> HIDE DEF g2, f2
<1>5. u \in Transactions
  BY <1>2, <1>3 DEF Transactions
<1>6. /\ u.give = g2 /\ u.freed = f2 /\ u.todo = t.todo \ {l}
      /\ u.pc = t.pc /\ u.op = t.op /\ u.order = t.order
      /\ u.want = t.want /\ u.take = t.take /\ u.claim = t.claim
      /\ u.drop = t.drop /\ u.add = t.add /\ u.next = t.next
      /\ u.reserves = t.reserves
  BY <1>2 DEF Transactions
<1> HIDE DEF u
<1>7. Serial(u)
  BY <1>1, <1>2, <1>4, <1>5, <1>6, HandingSerial DEF t
<1>8. QED
  BY <1>1, <1>5, <1>7, LineStepCarries

LEMMA ShipLineCarries ==
    ASSUME TypeOK, NEW r \in Requests, Serial(txn[r]), NEW l \in Lines,
           ShipLine(r, l)
    PROVE  \E u : Carries(r, u)
<1> DEFINE t == txn[r]
           b == BinOf[l]
           g2 == [t.give EXCEPT ![l] = @ + t.want[l]]
           f2 == [t.freed EXCEPT ![b] = @ + t.want[l]]
           s2 == [t.shipped EXCEPT ![b] = @ + t.out[l]]
           u == [t EXCEPT !.todo = @ \ {l}, !.holds = @ \cup {b},
                          !.give = g2, !.freed = f2, !.shipped = s2]
<1>1. /\ t.pc = "ship" /\ l \in t.todo
      /\ txn' = [txn EXCEPT ![r] = AfterLines(u)] /\ UNCHANGED tables
  BY DEF ShipLine
<1>2. t \in Transactions /\ b \in Bins
  BY ConstantsAssumption DEF TypeOK
<1> HIDE DEF t
<1>3. /\ g2 \in [Lines -> Nat] /\ f2 \in [Bins -> Nat] /\ s2 \in [Bins -> Nat]
      /\ t.todo \ {l} \in SUBSET Lines
      /\ t.holds \cup {b} \in SUBSET (Bins \cup Orders \cup {NoOrder})
  BY <1>2 DEF Transactions
<1>4. g2 = [t.give EXCEPT ![l] = @ + t.want[l]]
      /\ f2 = [t.freed EXCEPT ![BinOf[l]] = @ + t.want[l]]
  OBVIOUS
<1> HIDE DEF g2, f2, s2
<1>5. u \in Transactions
  BY <1>2, <1>3 DEF Transactions
<1>6. /\ u.give = g2 /\ u.freed = f2 /\ u.todo = t.todo \ {l}
      /\ u.pc = t.pc /\ u.op = t.op /\ u.order = t.order
      /\ u.want = t.want /\ u.take = t.take /\ u.claim = t.claim
      /\ u.drop = t.drop /\ u.add = t.add /\ u.next = t.next
      /\ u.reserves = t.reserves
  BY <1>2 DEF Transactions
<1> HIDE DEF u
<1>7. Serial(u)
  BY <1>1, <1>2, <1>4, <1>5, <1>6, HandingSerial DEF t
<1>8. QED
  BY <1>1, <1>5, <1>7, LineStepCarries

LEMMA TakeLineCarries ==
    ASSUME TypeOK, NEW r \in Requests, Serial(txn[r]), NEW l \in Lines,
           TakeLine(r, l)
    PROVE  \E u : Carries(r, u)
<1> DEFINE t == txn[r]
           b == BinOf[l]
           pool == IF b \in t.holds THEN t.pool[b] ELSE Clamp(Available(b))
           n == Least(t.want[l], pool)
           p2 == [t.pool EXCEPT ![b] = pool - n]
           k2 == [t.take EXCEPT ![l] = n]
           c2 == [t.claim EXCEPT ![b] = @ + n]
           u == [t EXCEPT !.todo = @ \ {l}, !.holds = @ \cup {b},
                          !.pool = p2, !.take = k2, !.claim = c2]
<1>1. /\ t.pc = "take" /\ l \in t.todo
      /\ txn' = [txn EXCEPT ![r] = AfterLines(u)] /\ UNCHANGED tables
  BY DEF TakeLine
<1>2. t \in Transactions /\ b \in Bins
  BY ConstantsAssumption DEF TypeOK
<1>3. pool \in Nat /\ n \in Nat /\ n <= pool
  <2>1. t.pool[b] \in Nat /\ t.want[l] \in Nat
    BY <1>2 DEF Transactions
  <2>2. Clamp(Available(b)) \in Nat
    BY <1>2, ConstantsAssumption DEF Clamp, Available, TypeOK
  <2>3. QED
    BY <2>1, <2>2 DEF Least
<1> HIDE DEF t, n, pool
<1>4. /\ pool - n \in Nat /\ t.pool \in [Bins -> Nat]
      /\ t.take \in [Lines -> Nat] /\ t.claim \in [Bins -> Nat]
      /\ t.todo \ {l} \in SUBSET Lines
      /\ t.holds \cup {b} \in SUBSET (Bins \cup Orders \cup {NoOrder})
  BY <1>2, <1>3 DEF Transactions
<1>5. p2 \in [Bins -> Nat] /\ k2 \in [Lines -> Nat] /\ c2 \in [Bins -> Nat]
  BY <1>2, <1>3, <1>4
<1>6. t.take[l] = 0
  BY <1>1 DEF t, Serial, TakesForLive
<1>7. k2 = [t.take EXCEPT ![l] = @ + n]
  BY <1>3, <1>4, <1>6
<1>8. /\ k2[l] = n /\ \A m \in Lines \ {l} : k2[m] = t.take[m]
      /\ \A c \in Bins : c2[c] = t.claim[c] + IF b = c THEN n ELSE 0
  BY <1>2, <1>3, <1>4
<1> HIDE DEF p2, k2, c2
<1>9. u \in Transactions
  BY <1>2, <1>4, <1>5 DEF Transactions
<1>10. /\ u.give = t.give /\ u.freed = t.freed /\ u.todo = t.todo \ {l}
       /\ u.pc = t.pc /\ u.op = t.op /\ u.order = t.order
       /\ u.want = t.want /\ u.take = k2 /\ u.claim = c2
       /\ u.drop = t.drop /\ u.add = t.add /\ u.next = t.next
       /\ u.reserves = t.reserves
  BY <1>2 DEF Transactions
<1> HIDE DEF u
<1>11. Serial(t)
  BY DEF t
<1>12. BinsMatchLines(u)
  <2>1. ASSUME NEW c \in Bins
        PROVE  /\ u.freed[c] = SumFunctionOnSet(u.give, LinesIn(c))
               /\ u.claim[c] = SumFunctionOnSet(u.take, LinesIn(c))
    <3>1. SumFunctionOnSet(k2, LinesIn(c))
             = SumFunctionOnSet(t.take, LinesIn(c)) + IF b = c THEN n ELSE 0
      <4>1. Grown(t.take, k2, l, n)
        BY <1>3, <1>4, <1>7 DEF Grown
      <4>2. QED
        BY <4>1, BinSumGrows
    <3>2. /\ t.freed[c] = SumFunctionOnSet(t.give, LinesIn(c))
          /\ t.claim[c] = SumFunctionOnSet(t.take, LinesIn(c))
      BY <1>11 DEF Serial, BinsMatchLines
    <3>3. QED
      BY <1>8, <1>10, <3>1, <3>2
  <2>2. QED
    BY <2>1 DEF BinsMatchLines
<1>13. \A m \in Lines : Back(u, m) = Back(t, m)
  BY <1>1, <1>10 DEF Back
<1>14. GivesItsOwn(u)
  BY <1>11, <1>13 DEF Serial, GivesItsOwn
<1>15. TakesForLive(u)
  <2>1. \A m \in t.todo : m \in Lines
    BY <1>2 DEF Transactions
  <2>2. QED
    BY <1>1, <1>8, <1>10, <1>11, <2>1 DEF Serial, TakesForLive
<1>16. DropsEmpty(u) /\ ClosesEmpty(u)
  BY <1>1, <1>10, <1>11 DEF Serial, DropsEmpty, ClosesEmpty
<1>17. Serial(u)
  BY <1>12, <1>14, <1>15, <1>16 DEF Serial
<1>18. txn' = [txn EXCEPT ![r] = AfterLines(u)]
  BY <1>1
<1>19. QED
  BY <1>1, <1>9, <1>17, <1>18, LineStepCarries

LEMMA MoveUnitsCarries ==
    ASSUME TypeOK, NEW r \in Requests, Serial(txn[r]), MoveUnits(r)
    PROVE  \E u : Carries(r, u)
<1> DEFINE t == txn[r]
           bins == {BinOf[l] : l \in t.todo}
           u == [t EXCEPT !.pc = "commit", !.todo = {}, !.holds = @ \cup bins]
<1>1. /\ t.pc = "move" /\ txn' = [txn EXCEPT ![r] = u] /\ UNCHANGED tables
  BY DEF MoveUnits
<1>2. t \in Transactions /\ Serial(t)
  BY DEF TypeOK
<1> HIDE DEF t
<1>3. bins \subseteq Bins
  BY <1>2, ConstantsAssumption DEF Transactions
<1> HIDE DEF bins
<1>4. u \in Transactions
  BY <1>2, <1>3 DEF Transactions, Steps
<1>5. /\ u.give = t.give /\ u.freed = t.freed /\ u.todo = {}
      /\ u.pc = "commit" /\ u.op = t.op /\ u.order = t.order
      /\ u.want = t.want /\ u.take = t.take /\ u.claim = t.claim
      /\ u.drop = t.drop /\ u.add = t.add /\ u.next = t.next
      /\ u.reserves = t.reserves
  BY <1>2 DEF Transactions
<1> HIDE DEF u
<1>6. \A m \in Lines : Back(u, m) = Back(t, m)
  BY <1>1, <1>5 DEF Back
<1>7. BinsMatchLines(u)
  BY <1>2, <1>5 DEF Serial, BinsMatchLines
<1>8. GivesItsOwn(u)
  BY <1>2, <1>6 DEF Serial, GivesItsOwn
<1>9. TakesForLive(u)
  BY <1>2, <1>5 DEF Serial, TakesForLive
<1>10. DropsEmpty(u) /\ ClosesEmpty(u)
  BY <1>1, <1>2, <1>5 DEF Serial, DropsEmpty, ClosesEmpty
<1>11. Carries(r, u)
  BY <1>1, <1>4, <1>7, <1>8, <1>9, <1>10 DEF Carries, Serial
<1>12. QED
  BY <1>11

LEMMA DeriveStatusCarries ==
    ASSUME TypeOK, NEW r \in Requests, Serial(txn[r]), DeriveStatus(r)
    PROVE  \E u : Carries(r, u)
<1> DEFINE t == txn[r]
           next == DerivedStatus(t.order, [l \in Lines |-> OwnFulfilled(t, l)])
           u == [t EXCEPT !.pc = "settle", !.next = next]
<1>1. /\ t.pc = "derive" /\ txn' = [txn EXCEPT ![r] = u] /\ UNCHANGED tables
  BY DEF DeriveStatus
<1>2. t \in Transactions /\ Serial(t)
  BY DEF TypeOK
<1>3. next \in {"open", "fulfilled", "partially_fulfilled"}
  BY DEF DerivedStatus
<1> HIDE DEF t, next
<1>4. u \in Transactions
  <2>1. "settle" \in Steps /\ next \in Statuses
    BY <1>3 DEF Steps, Statuses
  <2>2. QED
    BY <1>2, <2>1 DEF Transactions
<1>5. /\ u.give = t.give /\ u.freed = t.freed /\ u.todo = t.todo
      /\ u.pc = "settle" /\ u.op = t.op /\ u.order = t.order
      /\ u.want = t.want /\ u.take = t.take /\ u.claim = t.claim
      /\ u.drop = t.drop /\ u.add = t.add /\ u.next = next
      /\ u.reserves = t.reserves
  BY <1>2 DEF Transactions
<1> HIDE DEF u
<1>6. \A m \in Lines : Back(u, m) = Back(t, m)
  BY <1>1, <1>5 DEF Back
<1>7. BinsMatchLines(u)
  BY <1>2, <1>5 DEF Serial, BinsMatchLines
<1>8. GivesItsOwn(u)
  BY <1>2, <1>6 DEF Serial, GivesItsOwn
<1>9. TakesForLive(u)
  BY <1>1, <1>2, <1>5 DEF Serial, TakesForLive
<1>10. DropsEmpty(u) /\ ClosesEmpty(u)
  BY <1>1, <1>2, <1>3, <1>5 DEF Serial, DropsEmpty, ClosesEmpty, Closed
<1>11. Carries(r, u)
  BY <1>1, <1>4, <1>7, <1>8, <1>9, <1>10 DEF Carries, Serial
<1>12. QED
  BY <1>11

\* The order row is locked, and a reservation that follows takes units for
\* its lines.
LEMMA LockOrderCarries ==
    ASSUME TypeOK, Books, NEW r \in Requests, Serial(txn[r]), LockOrder(r)
    PROVE  \E u : Carries(r, u)
<1> DEFINE t == txn[r]
           hs == t.holds \cup {t.order}
           locked == [t EXCEPT !.holds = @ \cup {t.order}]
           leaving == [locked EXCEPT !.pc = "commit"]
           taking == Reserving(locked)
<1>1. /\ t.pc = "lock"
      /\ txn' = [txn EXCEPT ![r] = IF t.reserves THEN AfterLines(taking)
                                                 ELSE leaving]
      /\ UNCHANGED tables
  BY DEF LockOrder
<1>2. t \in Transactions /\ Serial(t)
  BY DEF TypeOK
<1> HIDE DEF t
<1>3. hs \in SUBSET (Bins \cup Orders \cup {NoOrder}) /\ locked = [t EXCEPT !.holds = hs]
  BY <1>2 DEF Transactions
<1> HIDE DEF hs, locked
<1>4. /\ locked \in Transactions
      /\ locked.give = t.give /\ locked.freed = t.freed /\ locked.todo = t.todo
      /\ locked.pc = t.pc /\ locked.op = t.op /\ locked.order = t.order
      /\ locked.want = t.want /\ locked.take = t.take /\ locked.claim = t.claim
      /\ locked.drop = t.drop /\ locked.add = t.add /\ locked.next = t.next
      /\ locked.reserves = t.reserves
  BY <1>2, <1>3 DEF Transactions
<1>5. /\ leaving \in Transactions
      /\ leaving.give = t.give /\ leaving.freed = t.freed
      /\ leaving.pc = "commit" /\ leaving.op = t.op /\ leaving.order = t.order
      /\ leaving.take = t.take /\ leaving.claim = t.claim
      /\ leaving.drop = t.drop /\ leaving.add = t.add /\ leaving.next = t.next
      /\ leaving.reserves = t.reserves
  BY <1>4 DEF Transactions, Steps
<1>6. /\ taking \in Transactions
      /\ taking.give = t.give /\ taking.freed = t.freed
      /\ taking.pc = "take" /\ taking.op = t.op /\ taking.order = t.order
      /\ taking.take = t.take /\ taking.claim = t.claim
      /\ taking.drop = t.drop /\ taking.add = t.add /\ taking.next = t.next
      /\ taking.reserves = t.reserves
      /\ taking.todo \subseteq LinesOf(t.order) \cup t.add
  <2>1. taking \in Transactions
    BY <1>4, ReservingType
  <2>2. taking.todo \subseteq LinesOf(t.order) \cup t.add
    BY <1>4 DEF Reserving, Transactions
  <2>3. taking = [locked EXCEPT !.pc = "take", !.todo = taking.todo,
                                !.want = taking.want]
    BY <1>4, ReservingType
  <2> DEFINE a == taking.todo
             c == taking.want
  <2>4. taking = [locked EXCEPT !.pc = "take", !.todo = a, !.want = c]
    BY <2>3
  <2> HIDE DEF taking, a, c
  <2>5. /\ taking.give = t.give /\ taking.freed = t.freed
        /\ taking.pc = "take" /\ taking.op = t.op /\ taking.order = t.order
        /\ taking.take = t.take /\ taking.claim = t.claim
        /\ taking.drop = t.drop /\ taking.add = t.add
        /\ taking.next = t.next /\ taking.reserves = t.reserves
    BY <1>4, <2>4 DEF Transactions
  <2>6. QED
    BY <2>1, <2>2, <2>5
<1> HIDE DEF leaving, taking
<1>7. ASSUME NEW u \in {leaving, taking}
      PROVE  /\ BinsMatchLines(u) /\ GivesItsOwn(u) /\ ClosesEmpty(u)
             /\ \A l \in Lines : Back(u, l) = Back(t, l)
  <2>1. /\ u.give = t.give /\ u.freed = t.freed /\ u.pc \in {"take", "commit"}
        /\ u.op = t.op /\ u.order = t.order /\ u.take = t.take
        /\ u.claim = t.claim /\ u.add = t.add /\ u.next = t.next
    BY <1>5, <1>6
  <2>2. \A l \in Lines : Back(u, l) = Back(t, l)
    BY <1>1, <2>1 DEF Back
  <2>3. QED
    BY <1>1, <1>2, <2>1, <2>2
    DEF Serial, BinsMatchLines, GivesItsOwn, ClosesEmpty
<1>8. CASE t.reserves
  <2>1. ASSUME NEW l \in taking.todo
        PROVE  l \in Lines /\ l \notin gone /\ ~stamped[OrderOf[l]]
    <3>1. l \in Lines /\ OrderOf[l] \in Orders
      BY <1>6, ConstantsAssumption DEF Transactions
    <3>2. l \notin gone /\ OrderOf[l] = t.order
      BY <1>2, <1>6, LinesOfAre DEF Serial, ClosesEmpty, Books
    <3>3. QED
      BY <1>2, <3>1, <3>2, ConstantsAssumption DEF Serial, ClosesEmpty
  <2>2. TakesForLive(taking)
    <3>1. \A l \in Lines : t.take[l] = 0
      BY <1>1, <1>2 DEF Serial, TakesForLive, NoUnits
    <3>2. t.op # "payment"
      BY <1>1, <1>2 DEF Serial, TakesForLive
    <3>3. QED
      BY <1>6, <2>1, <3>1, <3>2 DEF TakesForLive
  <2>3. DropsEmpty(taking)
    BY <1>2, <1>6, <1>8 DEF Serial, DropsEmpty
  <2>4. Serial(taking)
    BY <1>7, <2>2, <2>3 DEF Serial
  <2>5. QED
    BY <1>1, <1>6, <1>8, <2>4, LineStepCarries
<1>9. CASE ~t.reserves
  <2>1. TakesForLive(leaving)
    BY <1>1, <1>2, <1>5 DEF Serial, TakesForLive, NoUnits
  <2>2. DropsEmpty(leaving)
    <3>1. \A l \in t.drop : l \in Lines
      BY <1>2 DEF Transactions
    <3>2. QED
      BY <1>2, <1>5, <1>7, <3>1 DEF Serial, DropsEmpty
  <2>3. Carries(r, leaving)
    BY <1>1, <1>5, <1>7, <1>9, <2>1, <2>2 DEF Carries, Serial
  <2>4. QED
    BY <2>3
<1>10. QED
  BY <1>8, <1>9

\* An order that completes hands back whatever its lines still hold.
LEMMA SettleCarries ==
    ASSUME TypeOK, NEW r \in Requests, Serial(txn[r]), Settle(r)
    PROVE  \E u : Carries(r, u)
<1> DEFINE t == txn[r]
           o == t.order
           now == IF t.next = "keep" THEN status[o] ELSE t.next
           done == \/ t.op = "complete"
                   \/ /\ now = "fulfilled" /\ ~stamped[o]
                      /\ ~owed[o] \/ t.due = "settled"
           held == [l \in Lines |-> IF l \in LinesOf(o) THEN OwnReserved(t, l)
                                                        ELSE 0]
           todo == {l \in Lines : held[l] > 0}
           hs == IF t.next = "keep" THEN t.holds ELSE t.holds \cup {o}
           locked == [t EXCEPT !.holds = IF t.next = "keep" THEN @
                                                            ELSE @ \cup {o}]
           closing == [locked EXCEPT !.pc = "give", !.want = held,
                                     !.todo = {l \in Lines : held[l] > 0},
                                     !.next = "completed"]
           leaving == [locked EXCEPT !.pc = "commit"]
<1>1. /\ t.pc = "settle"
      /\ txn' = [txn EXCEPT ![r] = IF done THEN AfterLines(closing) ELSE leaving]
      /\ UNCHANGED tables
  BY DEF Settle
<1>2. t \in Transactions /\ Serial(t)
  BY DEF TypeOK
<1>3. held \in [Lines -> Nat]
  <2>1. \A l \in Lines : OwnReserved(t, l) \in Nat
    BY <1>2, OwnTypes
  <2>2. QED
    BY <2>1
<1>4. done => t.take = NoUnits
  BY <1>1, <1>2 DEF Serial, TakesForLive
<1>5. \A l \in Lines : /\ t.give[l] \in Nat /\ reserved[l] \in Nat
                       /\ t.give[l] <= reserved[l] /\ Back(t, l) = t.give[l]
  BY <1>1, <1>2 DEF Serial, GivesItsOwn, Back, Transactions, TypeOK
<1>6. ASSUME done
      PROVE  \A l \in Lines : held[l] = IF l \in LinesOf(o)
                                        THEN reserved[l] - t.give[l] ELSE 0
  BY <1>4, <1>5, <1>6 DEF OwnReserved, Clamp, NoUnits
<1>7. todo \in SUBSET Lines /\ hs \in SUBSET (Bins \cup Orders \cup {NoOrder})
      /\ \A l \in Lines : l \in todo <=> held[l] > 0
  BY <1>2 DEF Transactions
<1>8. /\ closing = [t EXCEPT !.pc = "give", !.want = held, !.todo = todo,
                             !.next = "completed", !.holds = hs]
      /\ leaving = [t EXCEPT !.pc = "commit", !.holds = hs]
  BY <1>2, ZenonT(40) DEF Transactions
<1> HIDE DEF t, held, todo, hs, done, closing, leaving
<1>9. /\ closing \in Transactions
      /\ closing.give = t.give /\ closing.freed = t.freed
      /\ closing.todo = todo /\ closing.want = held
      /\ closing.pc = "give" /\ closing.op = t.op /\ closing.order = o
      /\ closing.take = t.take /\ closing.claim = t.claim
      /\ closing.drop = t.drop /\ closing.add = t.add
      /\ closing.next = "completed"
  BY <1>2, <1>3, <1>7, <1>8 DEF Transactions, Steps, Statuses
<1>10. /\ leaving \in Transactions
       /\ leaving.give = t.give /\ leaving.freed = t.freed
       /\ leaving.pc = "commit" /\ leaving.op = t.op /\ leaving.order = o
       /\ leaving.take = t.take /\ leaving.claim = t.claim
       /\ leaving.drop = t.drop /\ leaving.add = t.add
       /\ leaving.next = t.next
  BY <1>2, <1>7, <1>8 DEF Transactions, Steps
<1>11. CASE done
  <2>1. \A l \in Lines : Back(closing, l) = IF l \in LinesOf(o) THEN reserved[l]
                                                                ELSE t.give[l]
    BY <1>5, <1>6, <1>7, <1>9, <1>11 DEF Back
  <2>2. BinsMatchLines(closing)
    BY <1>2, <1>9 DEF Serial, BinsMatchLines
  <2>3. GivesItsOwn(closing)
    BY <1>5, <2>1 DEF GivesItsOwn
  <2>4. TakesForLive(closing)
    BY <1>4, <1>9, <1>11 DEF TakesForLive, NoUnits
  <2>5. DropsEmpty(closing)
    BY <1>1, <1>2, <1>9 DEF Serial, DropsEmpty
  <2>6. ClosesEmpty(closing)
    BY <1>1, <1>2, <1>4, <1>9, <1>11, <2>1, LinesOfAre DEF Serial, ClosesEmpty
  <2>7. Serial(closing)
    BY <2>2, <2>3, <2>4, <2>5, <2>6 DEF Serial
  <2>8. QED
    BY <1>1, <1>9, <1>11, <2>7, LineStepCarries
<1>12. CASE ~done
  <2>1. \A l \in Lines : Back(leaving, l) = Back(t, l)
    BY <1>1, <1>10 DEF Back
  <2>2. BinsMatchLines(leaving)
    BY <1>2, <1>10 DEF Serial, BinsMatchLines
  <2>3. GivesItsOwn(leaving)
    BY <1>2, <2>1 DEF Serial, GivesItsOwn
  <2>4. TakesForLive(leaving)
    BY <1>1, <1>2, <1>10 DEF Serial, TakesForLive
  <2>5. DropsEmpty(leaving)
    BY <1>1, <1>2, <1>10 DEF Serial, DropsEmpty
  <2>6. ClosesEmpty(leaving)
    BY <1>1, <1>2, <1>10 DEF Serial, ClosesEmpty
  <2>7. Carries(r, leaving)
    BY <1>1, <1>10, <1>12, <2>2, <2>3, <2>4, <2>5, <2>6 DEF Carries, Serial
  <2>8. QED
    BY <2>7
<1>13. QED
  BY <1>11, <1>12

\* What a commit makes of a line's reservation: what it held, less what it
\* handed back, plus what was taken.
LEMMA CommitLines ==
    ASSUME TypeOK, Books, NEW r \in Requests, Serial(txn[r]), Commit(r),
           NEW l \in Lines
    PROVE  /\ reserved[l] \in Nat /\ txn[r].give[l] \in Nat
           /\ txn[r].take[l] \in Nat
           /\ txn[r].give[l] <= reserved[l]
           /\ reserved'[l] = reserved[l] - txn[r].give[l] + txn[r].take[l]
<1> DEFINE t == txn[r]
<1>1. /\ t \in Transactions /\ t.pc = "commit" /\ gone' = gone \cup t.drop
      /\ reserved'[l] = IF l \in gone' THEN 0 ELSE OwnReserved(t, l)
  BY DEF TypeOK, Commit, CanCommit
<1>2. Serial(t)
  OBVIOUS
<1> HIDE DEF t
<1>3. reserved[l] \in Nat /\ t.give[l] \in Nat /\ t.take[l] \in Nat
  BY <1>1 DEF TypeOK, Transactions
<1>4. Back(t, l) = t.give[l]
  BY <1>1, <1>3 DEF Back
<1>5. t.give[l] <= reserved[l]
  BY <1>2, <1>4 DEF Serial, GivesItsOwn
<1>6. CASE l \in gone
  <2>1. reserved[l] = 0 /\ t.take[l] = 0
    BY <1>2, <1>3, <1>6 DEF Books, Serial, TakesForLive
  <2>2. QED
    BY <1>1, <1>3, <1>5, <1>6, <2>1 DEF t
<1>7. CASE l \in t.drop
  <2>1. t.give[l] = reserved[l] /\ t.take[l] = 0
    BY <1>2, <1>4, <1>7 DEF Serial, DropsEmpty, NoUnits
  <2>2. QED
    BY <1>1, <1>3, <1>5, <1>7, <2>1 DEF t
<1>8. CASE l \notin gone'
  BY <1>1, <1>3, <1>5, <1>8 DEF OwnReserved, Clamp, t
<1>9. QED
  BY <1>1, <1>6, <1>7, <1>8

\* A commit moves a level by what it moved the lines of the bin by.
LEMMA CommitLevels ==
    ASSUME TypeOK, Books, NEW r \in Requests, Serial(txn[r]), Commit(r)
    PROVE  LevelMatchesHolders'
<1> DEFINE t == txn[r]
<1>1. ASSUME NEW b \in Bins
      PROVE  committed'[b] = SumFunctionOnSet(reserved', LinesIn(b)) + hold'[b]
  <2> DEFINE S == LinesIn(b)
             old == reserved
             new == reserved'
             give == t.give
             take == t.take
             both == [l \in Lines |-> old[l] + take[l]]
  <2>1. IsFiniteSet(S) /\ \A l \in S : l \in Lines
    BY BinLines
  <2>2. \A l \in S : /\ old[l] \in Int /\ new[l] \in Int /\ give[l] \in Int
                     /\ take[l] \in Int /\ both[l] \in Int
                     /\ both[l] = old[l] + take[l]
                     /\ both[l] = new[l] + give[l]
                     /\ give[l] <= old[l]
    BY <2>1, CommitLines
  <2>3. /\ t.freed[b] = SumFunctionOnSet(give, S)
        /\ t.claim[b] = SumFunctionOnSet(take, S)
    BY DEF Serial, BinsMatchLines
  <2>4. committed[b] = SumFunctionOnSet(old, S) + hold[b] /\ hold[b] \in Nat
    BY DEF Books, LevelMatchesHolders, TypeOK
  <2>5. /\ committed'[b] = Clamp(committed[b] - t.freed[b]) + t.claim[b]
        /\ hold'[b] = hold[b]
    BY DEF Commit
  <2> HIDE DEF S, old, new, give, take, both
  <2>6. /\ SumFunctionOnSet(old, S) \in Int /\ SumFunctionOnSet(new, S) \in Int
        /\ SumFunctionOnSet(give, S) \in Int /\ SumFunctionOnSet(take, S) \in Int
    BY <2>1, <2>2, SumIsInt
  <2>7. SumFunctionOnSet(both, S)
           = SumFunctionOnSet(old, S) + SumFunctionOnSet(take, S)
    BY <2>1, <2>2, SumPlus
  <2>8. SumFunctionOnSet(both, S)
           = SumFunctionOnSet(new, S) + SumFunctionOnSet(give, S)
    BY <2>1, <2>2, SumPlus
  <2>9. SumFunctionOnSet(give, S) <= SumFunctionOnSet(old, S)
    BY <2>1, <2>2, SumGrows
  <2>10. committed'[b] = SumFunctionOnSet(new, S) + hold'[b]
    BY <2>3, <2>4, <2>5, <2>6, <2>7, <2>8, <2>9 DEF Clamp
  <2>11. QED
    BY <2>10 DEF new, S
<1>2. QED
  BY <1>1 DEF LevelMatchesHolders, LinesIn

\* A commit closes only an order whose lines are empty, and takes nothing
\* for the lines of one that was closed before.
LEMMA CommitCloses ==
    ASSUME TypeOK, Books, NEW r \in Requests, Serial(txn[r]), Commit(r)
    PROVE  /\ ClosedHoldsNothing'
           /\ \A o \in Orders : stamped'[o] <=> status'[o] \in Closed
           /\ \A o \in Orders : stamped[o] => status'[o] = status[o]
<1> DEFINE t == txn[r]
<1>1. /\ t \in Transactions /\ Serial(t) /\ t.pc = "commit"
      /\ unwritten' = unwritten \ t.add /\ gone \subseteq gone'
  BY DEF TypeOK, Commit, CanCommit
<1>2. ASSUME NEW o \in Orders
      PROVE  IF t.next # "keep" /\ o = t.order
             THEN /\ status'[o] = t.next /\ ~stamped[o]
                  /\ stamped'[o] <=> t.next \in Closed
             ELSE status'[o] = status[o] /\ stamped'[o] = stamped[o]
  <2>1. o # NoOrder
    BY ConstantsAssumption
  <2>2. o = t.order => ~stamped[o]
    BY <1>1, <2>1 DEF Serial, ClosesEmpty
  <2>3. CASE t.next = "keep"
    BY <2>3 DEF Commit
  <2>4. CASE t.next # "keep"
    <3>1. /\ status' = [status EXCEPT ![t.order] = t.next]
          /\ stamped' = [stamped EXCEPT
                ![t.order] = @ \/ t.next \in {"completed", "cancelled"}]
      BY <2>4 DEF Commit
    <3>2. QED
      BY <2>2, <2>4, <3>1 DEF TypeOK, Closed
  <2>5. QED
    BY <2>3, <2>4
<1>3. \A o \in Orders : stamped[o] <=> status[o] \in Closed
  BY DEF Books
<1>4. ASSUME NEW o \in Orders
      PROVE  /\ stamped'[o] <=> status'[o] \in Closed
             /\ stamped[o] => status'[o] = status[o]
  BY <1>2, <1>3
<1>5. ASSUME NEW o \in Orders, stamped'[o], NEW l \in Lines,
             OrderOf[l] = o, l \notin unwritten', l \notin gone'
      PROVE  reserved'[l] = 0
  <2>1. reserved'[l] = reserved[l] - t.give[l] + t.take[l]
        /\ reserved[l] \in Nat /\ t.give[l] \in Nat /\ t.take[l] \in Nat
        /\ t.give[l] <= reserved[l]
    BY CommitLines
  <2>2. CASE stamped[o]
    <3>1. o # t.order
      BY <1>2, <2>2, ConstantsAssumption, <1>1 DEF Serial, ClosesEmpty
    <3>2. l \in LinesOf(o)
      BY <1>1, <1>5, <3>1 DEF LinesOf, Rows, Serial, ClosesEmpty
    <3>3. reserved[l] = 0
      BY <2>2, <3>2 DEF Books, ClosedHoldsNothing
    <3>4. t.take[l] = 0
      BY <1>1, <1>5, <2>1, <2>2 DEF Serial, TakesForLive
    <3>5. QED
      BY <2>1, <3>3, <3>4
  <2>3. CASE ~stamped[o]
    <3>1. o = t.order /\ t.next \in Closed
      BY <1>2, <1>5, <2>3
    <3>2. t.add = {} /\ t.take = NoUnits
      BY <1>1, <3>1 DEF Serial, ClosesEmpty
    <3>3. l \in LinesOf(t.order)
      BY <1>1, <1>5, <3>1, <3>2 DEF LinesOf, Rows
    <3>4. Back(t, l) = reserved[l]
      BY <1>1, <3>1, <3>3 DEF Serial, ClosesEmpty
    <3>5. t.give[l] = reserved[l] /\ t.take[l] = 0
      BY <1>1, <2>1, <3>2, <3>4 DEF Back, NoUnits
    <3>6. QED
      BY <2>1, <3>5
  <2>4. QED
    BY <2>2, <2>3
<1>6. QED
  BY <1>4, <1>5 DEF ClosedHoldsNothing, LinesOf, Rows

LEMMA CommitSerial ==
    ASSUME Alone, TypeOK, TypeOK', SerialInv, NEW r \in Requests, Commit(r)
    PROVE  SerialInv'
<1> DEFINE t == txn[r]
<1>1. Books /\ Serial(t) /\ t \in Transactions
  BY DEF SerialInv, TypeOK
<1>2. LevelMatchesHolders'
  BY <1>1, CommitLevels
<1>3. ClosedHoldsNothing' /\ \A o \in Orders : stamped'[o] <=> status'[o] \in Closed
  BY <1>1, CommitCloses
<1>4. gone' = gone \cup t.drop /\ unwritten' = unwritten \ t.add
  BY DEF Commit
<1>5. gone' \cap unwritten' = {}
  BY <1>1, <1>4 DEF Books, Serial, DropsEmpty
<1>6. \A l \in gone' : reserved'[l] = 0
  BY DEF Commit, TypeOK
<1>7. Books'
  BY <1>2, <1>3, <1>5, <1>6 DEF Books
<1>8. \A s \in Requests : txn'[s] = Idle
  BY DEF Alone, Commit, TypeOK
<1>9. Serial(Idle)'
  BY IdleSerial, PTL
<1>10. \A s \in Requests : Serial(txn[s])'
  BY <1>8, <1>9 DEF Serial, BinsMatchLines, GivesItsOwn, TakesForLive,
     DropsEmpty, ClosesEmpty, Back, LinesOf, Rows, LinesIn
<1>11. QED
  BY <1>7, <1>10 DEF SerialInv

\* The plans and the books speak of the tables only.
LEMMA TablesCarry ==
    ASSUME UNCHANGED <<status, stamped, unwritten, gone, reserved>>
    PROVE  /\ \A t : Serial(t)' = Serial(t')
           /\ Books /\ LevelMatchesHolders' => Books'
<1>1. \A t : Serial(t)' = Serial(t')
  BY DEF Serial, BinsMatchLines, GivesItsOwn, TakesForLive, DropsEmpty,
         ClosesEmpty, Back, LinesOf, Rows, LinesIn
<1>2. Books /\ LevelMatchesHolders' => Books'
  BY DEF Books, ClosedHoldsNothing, LinesOf, Rows
<1>3. QED
  BY <1>1, <1>2

LEMMA SameLevels ==
    ASSUME LevelMatchesHolders, UNCHANGED <<reserved, committed, hold>>
    PROVE  LevelMatchesHolders'
BY DEF LevelMatchesHolders, LinesIn

LEMMA CarriesSerial ==
    ASSUME Alone, TypeOK, SerialInv, NEW r \in Requests, NEW t, Carries(r, t)
    PROVE  SerialInv'
<1>1. UNCHANGED <<status, stamped, unwritten, gone, reserved, committed, hold>>
  BY DEF Carries, tables, orderVars, lineVars, levelVars
<1>2. Books'
  BY <1>1, TablesCarry, SameLevels DEF SerialInv, Books
<1>3. \A s \in Requests : txn'[s] = t
  BY DEF Alone, Carries, TypeOK
<1>4. \A s \in Requests : Serial(txn'[s])
  BY <1>3, Zenon DEF Carries
<1>5. QED
  BY <1>1, <1>2, <1>4, TablesCarry DEF SerialInv

\* Moving units into or out of a transfer's hold moves the level with it.
LEMMA OtherHandlersSerial ==
    ASSUME TypeOK, SerialInv, OtherHandlers
    PROVE  SerialInv'
<1>1. txn' = txn /\ UNCHANGED <<status, stamped, unwritten, gone, reserved>>
  BY DEF OtherHandlers, PrintTicket, Unlock, Adjust, HoldForTransfer,
         ReleaseTransferHold, ShipTransferHold, orderVars, lineVars
<1>2. ASSUME NEW b \in Bins
      PROVE  committed'[b] - hold'[b] = committed[b] - hold[b]
             /\ committed'[b] \in Int /\ hold'[b] \in Int
  <2>1. SumFunctionOnSet(reserved, LinesIn(b)) \in Nat
    <3>1. \A l \in LinesIn(b) : reserved[l] \in Nat
      BY BinLines DEF TypeOK
    <3>2. QED
      BY <3>1, BinLines, SumIsNat
  <2>2. /\ committed[b] \in Nat /\ hold[b] \in Nat /\ committed[b] >= hold[b]
        /\ committed \in [Bins -> Nat] /\ hold \in [Bins -> Nat]
    BY <2>1 DEF SerialInv, Books, LevelMatchesHolders, TypeOK
  <2>3. CASE UNCHANGED <<committed, hold>>
    BY <2>2, <2>3
  <2>4. CASE \E c \in Bins : HoldForTransfer(c)
    BY <2>2, <2>4 DEF HoldForTransfer
  <2>5. CASE \E c \in Bins : ReleaseTransferHold(c) \/ ShipTransferHold(c)
    BY <2>2, <2>5 DEF ReleaseTransferHold, ShipTransferHold, Clamp
  <2>6. QED
    BY <2>3, <2>4, <2>5
    DEF OtherHandlers, PrintTicket, Unlock, Adjust, levelVars
<1>3. LevelMatchesHolders'
  <2>1. ASSUME NEW b \in Bins
        PROVE  committed'[b] = SumFunctionOnSet(reserved, LinesIn(b)) + hold'[b]
    <3>1. committed[b] = SumFunctionOnSet(reserved, LinesIn(b)) + hold[b]
          /\ committed[b] \in Int /\ hold[b] \in Int
      BY DEF SerialInv, Books, LevelMatchesHolders, TypeOK
    <3>2. SumFunctionOnSet(reserved, LinesIn(b)) \in Int
      <4>1. \A l \in LinesIn(b) : reserved[l] \in Int
        BY BinLines DEF TypeOK
      <4>2. QED
        BY <4>1, BinLines, SumIsInt
    <3>3. QED
      BY <1>2, <3>1, <3>2
  <2>2. QED
    BY <1>1, <2>1 DEF LevelMatchesHolders, LinesIn
<1>4. QED
  BY <1>1, <1>3, TablesCarry DEF SerialInv

LEMMA NextSerial ==
    ASSUME Alone, TypeOK, TypeOK', SerialInv, [Next]_vars
    PROVE  SerialInv'
<1>1. CASE UNCHANGED vars
  BY <1>1, TablesCarry, SameLevels
  DEF SerialInv, Books, vars, tables, orderVars, lineVars, levelVars
<1>2. CASE OtherHandlers
  BY <1>2, OtherHandlersSerial
<1>3. ASSUME NEW r \in Requests, BeginSome(r) PROVE SerialInv'
  BY <1>3, BeginSomeCarries, CarriesSerial DEF SerialInv
<1>4. ASSUME NEW r \in Requests, Abort(r) PROVE SerialInv'
  <2>1. Carries(r, Idle)
    BY <1>4, IdleType, IdleSerial DEF Abort, Carries
  <2>2. QED
    BY <2>1, CarriesSerial
<1>5. ASSUME NEW r \in Requests, Advance(r) PROVE SerialInv'
  <2>1. Books /\ Serial(txn[r])
    BY DEF SerialInv
  <2>2. CASE Commit(r)
    BY <2>2, CommitSerial
  <2>3. CASE ~Commit(r)
    <3>1. \E u : Carries(r, u)
      BY <1>5, <2>1, <2>3, LockOrderCarries, TakeLineCarries, GiveLineCarries,
         ShipLineCarries, MoveUnitsCarries, DeriveStatusCarries, SettleCarries
      DEF Advance
    <3>2. QED
      BY <3>1, CarriesSerial
  <2>4. QED
    BY <2>2, <2>3
<1>6. QED
  BY <1>1, <1>2, <1>3, <1>4, <1>5 DEF Next

LEMMA InitSerial ==
    ASSUME TypeOK, Init
    PROVE  SerialInv
<1>1. LevelMatchesHolders
  BY NothingInBins DEF Init, LevelMatchesHolders, NoLevels
<1>2. Books
  BY <1>1 DEF Init, Books, ClosedHoldsNothing, Closed, Unconfirmed, NoUnits
<1>3. \A r \in Requests : Serial(txn[r])
  BY IdleSerial DEF Init
<1>4. QED
  BY <1>2, <1>3 DEF SerialInv

\* With one request at a time, the plans and the books agree in every
\* reachable state.
THEOREM SerialHolds == Alone => (Spec => []SerialInv)
<1> SUFFICES ASSUME Alone PROVE Spec => []SerialInv
  OBVIOUS
<1>1. StockInv /\ GoodsInv => TypeOK
  BY DEF StockInv
<1>2. TypeOK /\ Init => SerialInv
  BY InitSerial
<1>3. TypeOK /\ TypeOK' /\ SerialInv /\ [Next]_vars => SerialInv'
  BY NextSerial
<1>4. QED
  BY <1>1, <1>2, <1>3, InvariantsHold, PTL DEF Spec

\* With one request at a time, inventory_levels.reserved of a bin is what the
\* order lines and the open transfers hold of it, whatever handlers run.
THEOREM LevelsMatch == Alone => (Spec => []LevelMatchesHolders)
<1> SUFFICES ASSUME Alone PROVE Spec => []LevelMatchesHolders
  OBVIOUS
<1>1. SerialInv => LevelMatchesHolders
  BY DEF SerialInv, Books
<1>2. QED
  BY <1>1, SerialHolds, PTL

\* With one request at a time, an order that is stamped completed or cancelled
\* holds no stock, then or later.
THEOREM ClosedAreEmpty == Alone => (Spec => []ClosedHoldsNothing)
<1> SUFFICES ASSUME Alone PROVE Spec => []ClosedHoldsNothing
  OBVIOUS
<1>1. SerialInv => ClosedHoldsNothing
  BY DEF SerialInv, Books
<1>2. QED
  BY <1>1, SerialHolds, PTL

\* No step of any handler moves an order out of completed or cancelled.
LEMMA StepKeepsClosed ==
    ASSUME TypeOK, SerialInv, [Next]_vars, NEW o \in Orders,
           status[o] \in {"completed", "cancelled"}
    PROVE  status'[o] = status[o]
<1>1. stamped[o]
  BY DEF SerialInv, Books, Closed
<1>2. ASSUME NEW r \in Requests, Commit(r) PROVE status'[o] = status[o]
  BY <1>1, <1>2, CommitCloses DEF SerialInv
<1>3. CASE UNCHANGED vars \/ OtherHandlers
  BY <1>3 DEF vars, tables, orderVars, OtherHandlers, PrintTicket, Unlock, Adjust,
              HoldForTransfer, ReleaseTransferHold, ShipTransferHold
<1>4. ASSUME NEW r \in Requests, BeginSome(r) \/ Abort(r)
      PROVE  status' = status
  BY <1>4, BeginSomeCarries
  DEF SerialInv, Carries, Abort, tables, orderVars
<1>5. ASSUME NEW r \in Requests, Advance(r), ~Commit(r)
      PROVE  status' = status
  BY <1>5 DEF Advance, LockOrder, TakeLine, GiveLine, ShipLine, MoveUnits,
              DeriveStatus, Settle, tables, orderVars
<1>6. QED
  BY <1>2, <1>3, <1>4, <1>5 DEF Next

\* With one request at a time, a cancelled order stays cancelled and a
\* completed one completed, through every handler.
THEOREM ClosedStay == Alone => (Spec => ClosedIsFinal)
<1> SUFFICES ASSUME Alone PROVE Spec => ClosedIsFinal
  OBVIOUS
<1>1. StockInv /\ GoodsInv => TypeOK
  BY DEF StockInv
<1>2. TypeOK /\ SerialInv /\ [Next]_vars =>
         [\A o \in Orders : status[o] \in {"completed", "cancelled"} =>
             status'[o] = status[o]]_vars
  BY StepKeepsClosed
<1>3. QED
  BY <1>1, <1>2, InvariantsHold, SerialHolds, PTL DEF Spec, ClosedIsFinal

=============================================================================
