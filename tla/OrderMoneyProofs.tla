--------------------------- MODULE OrderMoneyProofs ---------------------------
(***************************************************************************)
(* Proofs about OrderMoney, for every set of orders, customers, returns    *)
(* and concurrent requests.                                                *)
(*                                                                         *)
(* NeverOverdrawn rests on the row lock of the customer.  Exclusive says   *)
(* that a row held FOR UPDATE is held by nobody else, and Covered that a   *)
(* transaction whose debit was checked holds its customer's row and finds  *)
(* the credit still there: another transaction that commits meanwhile may  *)
(* only have debited another customer, or granted more.                    *)
(*                                                                         *)
(* VoidTakesCreditBack rests on the row lock of the document: Filed says   *)
(* that a void past its lock is about to take back exactly what is issued, *)
(* Apart that a document being written is known to no other transaction.   *)
(*                                                                         *)
(* The two properties of an order's money need a hypothesis, because the   *)
(* code keeps them only without concurrent refunds: Quiet leaves out the   *)
(* three handlers that pay out what they read without a lock, Alone runs   *)
(* one request at a time.  Collected says that under either a transaction  *)
(* pays out no more than the order still holds when it commits.            *)
(*                                                                         *)
(* ReceivingKeepsBalance needs none.  RepayInv says that a receipt takes   *)
(* the amount of its return out of the order, or books it as store credit, *)
(* and that only the latter makes the return settle less.                  *)
(***************************************************************************)
EXTENDS OrderMoney, Sums, TLAPS

Checked(t) == t.debit > 0 /\ t.pc \in {"settle", "commit"}

\* What is true of one transaction whatever the tables hold.
Sound(t) ==
    /\ t \in Transactions
    /\ t.draft.order \in Orders => t.draft.line \in Lines
    /\ t.line \in Lines => t.back \in 0 .. Delivered[t.line]
    /\ t.debit > 0 => t.pc \in {"insert", "redeem", "settle", "commit"}
    /\ t.debit > 0 /\ t.pc = "insert" => t.op = "payment"
    /\ t.pc = "void" => t.doc \in Returns

\* A checked debit is covered, and the customer's row is held FOR UPDATE.
Covered(t) ==
    Checked(t) => \A c \in Customers : t.customer = c =>
        <<<<"customer", c>>, "full">> \in t.holds /\ credit[c] >= t.debit

Exclusive ==
    \A r, s \in Requests : r # s =>
        \A row \in AllRows, m \in Modes :
            <<row, "full">> \in txn[r].holds => <<row, m>> \notin txn[s].holds

\* A return on an order names a line.
DocsNameLines == \A i \in Returns : doc[i].order \in Orders => doc[i].line \in Lines

\* What a document has issued, by its state.
DocsSettled ==
    \A i \in Returns :
        /\ doc[i].state = "none" => issued[i] = 0
        /\ doc[i].order = NoOrder => doc[i].state # "authorized" /\ issued[i] >= 0

\* A transaction that inserts a document, one that changes a return of an
\* order, or a void.
Filed(t) ==
    t.doc \in Returns =>
        /\ t.draft # NotWritten =>
              /\ doc[t.doc].state = "none" /\ t.debit = 0
              /\ t.outcome \in {"authorized", "completed"}
              /\ t.draft.order = NoOrder => t.outcome = "completed"
        /\ t.draft = NotWritten =>
              /\ doc[t.doc].state # "none"
              /\ doc[t.doc].order = NoOrder \/ t.pc = "void" =>
                    /\ doc[t.doc].order = NoOrder
                    /\ t.outcome = "cancelled" /\ t.grant = 0
                    /\ t.pc # "void" =>
                          /\ <<<<"return", t.doc>>, "full">> \in t.holds
                          /\ doc[t.doc].state = "completed"
                          /\ t.debit = issued[t.doc]

Apart ==
    \A r, s \in Requests :
        r # s /\ txn[r].doc \in Returns /\ txn[r].draft # NotWritten =>
            txn[s].doc # txn[r].doc

\* The handlers that pay out of an order what they read without a lock are
\* not called, or requests follow one another.
Quiet == Handlers \cap {"adjust", "receive", "dropOff"} = {}
Alone == \A r, s \in Requests : r = s

Moved(t) == t.change["money"] + t.change["store_credit"]

Placed(t) ==
    /\ t.op \in Handlers \cup {"none"}
    /\ t.pc = "receive" => t.op = "dropOff"
    /\ t.pc = "settle" => t.op = "payment"
    /\ t.op = "dropOff" /\ t.pc \in {"insert", "receive"} => Moved(t) = 0
    /\ t.op = "payment" => t.grant = 0 /\ Moved(t) >= 0
    /\ t.result = "cancelled" <=> t.op = "cancel"
    /\ t.op = "cancel" => <<<<"order", t.order>>, "full">> \in t.holds

\* What the order is left with once the transaction has committed.
Collected(t) ==
    (Quiet \/ Alone) /\ t.order \in Orders =>
        /\ Paid(t.order) + Moved(t) >= 0
        /\ t.op = "cancel" => Paid(t.order) + Moved(t) = 0
        /\ Alone /\ status[t.order] = "cancelled" => Paid(t.order) + Moved(t) = 0
        /\ Quiet =>
              /\ t.op = "payment" /\ t.pc # "insert" =>
                    <<<<"order", t.order>>, "share">> \in t.holds
              /\ t.op \notin {"payment", "cancel"} => Moved(t) = 0

OrdersKept ==
    /\ Quiet \/ Alone => RefundsWithinCollected
    /\ Alone => CancelledKeepsNoMoney

Proper(t) == Sound(t) /\ Covered(t) /\ Filed(t) /\ Placed(t) /\ Collected(t)

MoneyInv ==
    /\ TypeOK
    /\ NeverOverdrawn
    /\ DocsNameLines
    /\ Exclusive
    /\ DocsSettled
    /\ VoidTakesCreditBack
    /\ Apart
    /\ OrdersKept
    /\ \A r \in Requests : Proper(txn[r])

-----------------------------------------------------------------------------
(* Records.                                                                *)

LEMMA NothingType == Nothing \in [Tenders -> Int]
BY DEF Nothing

LEMMA NotWrittenType == NotWritten \in Documents
BY DEF NotWritten, Documents

LEMMA IdleFields ==
    /\ Idle.op = "none" /\ Idle.line = NoLine /\ Idle.debit = 0 /\ Idle.grant = 0
    /\ Idle.draft = NotWritten /\ Idle.holds = {} /\ Idle.change = Nothing
    /\ Idle.pc = "idle" /\ Idle.order = NoOrder /\ Idle.doc = NoReturn
    /\ Idle.outcome = "keep" /\ Idle.result = "keep"
    /\ NotWritten.order = NoOrder /\ NotWritten.state = "none"
    /\ Nothing["money"] + Nothing["store_credit"] = 0
BY DEF Idle, NotWritten, Nothing, Tenders

LEMMA IdleType == Idle \in Transactions /\ Proper(Idle)
<1>1. Idle \in Transactions
  BY NothingType, NotWrittenType DEF Idle, Transactions, Steps
<1>2. Moved(Idle) = 0
  BY IdleFields DEF Moved
<1>3. Sound(Idle) /\ Covered(Idle) /\ Filed(Idle)
  BY <1>1, IdleFields, MoneyAssumption DEF Sound, Covered, Checked, Filed
<1>4. Placed(Idle) /\ Collected(Idle)
  BY <1>2, IdleFields, MoneyAssumption DEF Placed, Collected
<1>5. QED
  BY <1>1, <1>3, <1>4 DEF Proper

LEMMA LockType ==
    ASSUME NEW t \in Transactions, NEW row \in AllRows, NEW mode \in Modes
    PROVE  /\ Lock(t, row, mode) \in Transactions
           /\ Lock(t, row, mode) = [t EXCEPT !.holds = Lock(t, row, mode).holds]
           /\ Lock(t, row, mode).holds = t.holds \cup {<<row, mode>>}
BY SMTT(30) DEF Lock, Transactions

\* A transaction that takes a lock and turns to another step.
LEMMA LockAt ==
    ASSUME NEW t \in Transactions, NEW row \in AllRows, NEW mode \in Modes,
           NEW pc \in Steps
    PROVE  LET u == [Lock(t, row, mode) EXCEPT !.pc = pc]
           IN  /\ u \in Transactions
               /\ u.pc = pc /\ u.debit = t.debit /\ u.draft = t.draft
               /\ u.line = t.line /\ u.back = t.back /\ u.customer = t.customer
               /\ u.doc = t.doc /\ u.op = t.op /\ u.order = t.order
               /\ u.change = t.change /\ u.grant = t.grant
               /\ u.outcome = t.outcome /\ u.result = t.result
               /\ u.holds = t.holds \cup {<<row, mode>>}
<1> DEFINE k == Lock(t, row, mode)
           held == t.holds \cup {<<row, mode>>}
<1>1. k \in Transactions /\ k.holds = held
  BY LockType
<1>2. /\ k.debit = t.debit /\ k.draft = t.draft /\ k.line = t.line
      /\ k.back = t.back /\ k.customer = t.customer /\ k.doc = t.doc /\ k.op = t.op
      /\ k.order = t.order /\ k.change = t.change /\ k.grant = t.grant
      /\ k.outcome = t.outcome /\ k.result = t.result
  BY DEF Lock, Transactions
<1> HIDE DEF k, held
<1> DEFINE u == [k EXCEPT !.pc = pc]
<1>3. u \in Transactions
  BY <1>1, ZenonT(40) DEF Transactions
<1>4. /\ u.pc = pc /\ u.debit = k.debit /\ u.draft = k.draft /\ u.line = k.line
      /\ u.back = k.back /\ u.customer = k.customer /\ u.holds = k.holds
      /\ u.doc = k.doc /\ u.op = k.op /\ u.order = k.order
      /\ u.change = k.change /\ u.grant = k.grant
      /\ u.outcome = k.outcome /\ u.result = k.result
  BY <1>1 DEF Transactions
<1> HIDE DEF u
<1>5. u \in Transactions /\ u.pc = pc /\ u.debit = t.debit /\ u.draft = t.draft
      /\ u.line = t.line /\ u.back = t.back /\ u.customer = t.customer
      /\ u.holds = held /\ u.doc = t.doc /\ u.op = t.op /\ u.order = t.order
      /\ u.change = t.change /\ u.grant = t.grant
      /\ u.outcome = t.outcome /\ u.result = t.result
  BY <1>1, <1>2, <1>3, <1>4
<1>6. QED
  BY <1>5 DEF u, k, held

LEMMA RowTypes ==
    ASSUME NEW t \in Transactions
    PROVE  /\ <<"order", t.order>> \in AllRows
           /\ <<"customer", t.customer>> \in AllRows
           /\ <<"line", t.line>> \in AllRows
           /\ <<"return", t.doc>> \in AllRows
BY DEF Transactions, AllRows, Rows

LEMMA RefundType ==
    ASSUME NEW cents \in Int, NEW slice \in 0 .. cents
    PROVE  /\ Refund(cents, slice) \in [Tenders -> Int]
           /\ Refund(cents, slice)["money"] + Refund(cents, slice)["store_credit"]
                 = -cents
BY DEF Refund, Tenders

LEMMA PaidType ==
    ASSUME TypeOK, NEW o \in Orders
    PROVE  Paid(o) \in Int
BY DEF TypeOK, Paid, Tenders

LEMMA MovedType ==
    ASSUME NEW t \in Transactions
    PROVE  Moved(t) \in Int
BY DEF Transactions, Moved, Tenders

\* A transaction that holds its plan and moves to its next step.
LEMMA CarriesOn ==
    ASSUME NEW t \in Transactions, NEW u \in Transactions,
           Filed(t), Placed(t), Collected(t),
           u.doc = t.doc, u.draft = t.draft, u.op = t.op, u.order = t.order,
           u.change = t.change, u.grant = t.grant, u.outcome = t.outcome,
           u.debit = t.debit, u.result = "cancelled" <=> t.result = "cancelled",
           t.holds \subseteq u.holds, t.pc # "void", u.pc # "void", u.pc # "insert",
           u.pc = "receive" => t.op = "dropOff" /\ t.pc = "insert",
           u.pc = "settle" => t.op = "payment",
           t.op = "payment" /\ t.pc = "insert" =>
               <<<<"order", t.order>>, "share">> \in u.holds
    PROVE  Filed(u) /\ Placed(u) /\ Collected(u)
<1>1. Moved(u) = Moved(t)
  BY DEF Moved
<1>2. Filed(u)
  BY DEF Filed
<1>3. Placed(u)
  BY <1>1 DEF Placed
<1>4. Collected(u)
  BY <1>1 DEF Collected
<1>5. QED
  BY <1>2, <1>3, <1>4

-----------------------------------------------------------------------------
(* A step that only moves one transaction on.                              *)

LEMMA MovesOn ==
    ASSUME MoneyInv, NEW r \in Requests, NEW t,
           Proper(t),
           t.draft # NotWritten =>
               (t.doc = txn[r].doc /\ t.draft = txn[r].draft) \/ Fresh(t.doc),
           txn' = [txn EXCEPT ![r] = t], UNCHANGED tables,
           \A row \in AllRows, m \in Modes : <<row, m>> \in t.holds =>
               <<row, m>> \in txn[r].holds \/ Free(r, row, m)
    PROVE  MoneyInv'
<1>1. /\ txn \in [Requests -> Transactions]
      /\ status' = status /\ takings' = takings /\ net' = net
      /\ returned' = returned /\ doc' = doc /\ issued' = issued
      /\ credit' = credit
  BY DEF MoneyInv, TypeOK, tables
<1>2. txn' \in [Requests -> Transactions]
  BY <1>1 DEF Proper, Sound
<1>3. /\ txn'[r] = t
      /\ \A s \in Requests \ {r} : txn'[s] = txn[s]
  BY <1>1
<1>4. TypeOK'
  BY <1>1, <1>2 DEF MoneyInv, TypeOK
<1>5. /\ NeverOverdrawn' /\ DocsNameLines' /\ DocsSettled'
      /\ VoidTakesCreditBack' /\ OrdersKept'
  BY <1>1 DEF MoneyInv, NeverOverdrawn, DocsNameLines, DocsSettled,
     VoidTakesCreditBack, OrdersKept, RefundsWithinCollected,
     CancelledKeepsNoMoney, Paid
<1>6. Exclusive'
  <2> SUFFICES ASSUME NEW p \in Requests, NEW q \in Requests, p # q,
                      NEW row \in AllRows, NEW m \in Modes,
                      <<row, "full">> \in txn'[p].holds, <<row, m>> \in txn'[q].holds
               PROVE  FALSE
    BY DEF Exclusive
  <2>1. "full" \in Modes
    BY DEF Modes
  <2>2. CASE p # r /\ q # r
    BY <1>3, <2>2 DEF MoneyInv, Exclusive
  <2>3. CASE p = r
    <3>1. <<row, m>> \in txn[q].holds /\ q \in Requests \ {r}
      BY <1>3, <2>3
    <3>2. <<row, "full">> \in txn[r].holds \/ Free(r, row, "full")
      BY <1>3, <2>1, <2>3
    <3>3. CASE <<row, "full">> \in txn[r].holds
      BY <3>1, <3>3 DEF MoneyInv, Exclusive
    <3>4. CASE Free(r, row, "full")
      BY <3>1, <3>4 DEF Free, Conflict
    <3>5. QED
      BY <3>2, <3>3, <3>4
  <2>4. CASE q = r
    <3>1. <<row, "full">> \in txn[p].holds /\ p \in Requests \ {r}
      BY <1>3, <2>4
    <3>2. <<row, m>> \in txn[r].holds \/ Free(r, row, m)
      BY <1>3, <2>4
    <3>3. CASE <<row, m>> \in txn[r].holds
      BY <3>1, <3>3 DEF MoneyInv, Exclusive
    <3>4. CASE Free(r, row, m)
      BY <2>1, <3>1, <3>4 DEF Free, Conflict
    <3>5. QED
      BY <3>2, <3>3, <3>4
  <2>5. QED
    BY <2>2, <2>3, <2>4
<1>7. Apart'
  <2> SUFFICES ASSUME NEW p \in Requests, NEW q \in Requests, p # q,
                      txn'[p].doc \in Returns, txn'[p].draft # NotWritten,
                      txn'[q].doc = txn'[p].doc
               PROVE  FALSE
    BY DEF Apart
  <2>1. CASE p # r /\ q # r
    BY <1>3, <2>1 DEF MoneyInv, Apart
  <2>2. CASE p = r
    BY <1>3, <2>2 DEF MoneyInv, Apart, Fresh
  <2>3. CASE q = r
    <3>1. p \in Requests \ {r} /\ txn'[p] = txn[p] /\ txn'[r] = t
      BY <1>3, <2>3
    <3>2. doc[t.doc].state = "none" /\ t.doc \in Returns
      BY <2>3, <3>1 DEF MoneyInv, Proper, Filed
    <3>3. t.draft # NotWritten
      BY <3>2 DEF Proper, Filed
    <3>4. QED
      BY <2>3, <3>1, <3>2, <3>3 DEF MoneyInv, Apart, Fresh
  <2>4. QED
    BY <2>1, <2>2, <2>3
<1>8. \A s \in Requests : Proper(txn[s])'
  BY <1>1, <1>3 DEF MoneyInv, Proper, Sound, Covered, Checked, Filed, Placed,
     Collected, Paid, Moved
<1>9. QED
  BY <1>4, <1>5, <1>6, <1>7, <1>8 DEF MoneyInv

LEMMA Begins ==
    ASSUME MoneyInv, NEW r \in Requests, NEW op \in Endpoints,
           NEW rec \in Transactions, Begin(r, op, rec),
           rec.draft.order \in Orders => rec.draft.line \in Lines,
           rec.line \in Lines => rec.back \in 0 .. Delivered[rec.line],
           rec.debit > 0 => rec.pc = "insert" /\ op = "payment",
           rec.pc = "void" => rec.doc \in Returns,
           Filed(rec), Placed([rec EXCEPT !.op = op]),
           Collected([rec EXCEPT !.op = op]),
           rec.draft # NotWritten => Fresh(rec.doc),
           \A row \in AllRows, m \in Modes :
               <<row, m>> \in rec.holds => Free(r, row, m)
    PROVE  MoneyInv'
<1> DEFINE t == [rec EXCEPT !.op = op]
<1>1. /\ t \in Transactions /\ t.op = op
      /\ t.pc = rec.pc /\ t.debit = rec.debit /\ t.draft = rec.draft
      /\ t.line = rec.line /\ t.back = rec.back /\ t.holds = rec.holds
      /\ t.doc = rec.doc /\ t.outcome = rec.outcome /\ t.grant = rec.grant
  BY DEF Transactions
<1>2. txn' = [txn EXCEPT ![r] = t] /\ UNCHANGED tables
  BY DEF Begin
<1> HIDE DEF t
<1>3. Proper(t)
  <2>1. Sound(t) /\ Covered(t)
    BY <1>1 DEF Sound, Covered, Checked
  <2>2. Filed(t)
    BY <1>1 DEF Filed
  <2>3. Placed(t) /\ Collected(t)
    BY DEF t
  <2>4. QED
    BY <2>1, <2>2, <2>3 DEF Proper
<1>4. \A row \in AllRows, m \in Modes : <<row, m>> \in t.holds =>
          <<row, m>> \in txn[r].holds \/ Free(r, row, m)
  BY <1>1
<1>5. t.draft # NotWritten =>
          (t.doc = txn[r].doc /\ t.draft = txn[r].draft) \/ Fresh(t.doc)
  BY <1>1
<1>6. QED
  BY <1>2, <1>3, <1>4, <1>5, MovesOn

\* A transaction that leaves the money of its order alone, or pays out of what
\* it has read.
LEMMA PaysNothing ==
    ASSUME MoneyInv, NEW u \in Transactions, Moved(u) = 0, u.op \in Handlers,
           u.op \notin {"payment", "cancel"}, u.result # "cancelled",
           u.pc \notin {"receive", "settle"}
    PROVE  Placed(u) /\ Collected(u)
<1>1. Placed(u)
  BY DEF Placed
<1>2. ASSUME u.order \in Orders, Quiet \/ Alone
      PROVE  /\ Paid(u.order) \in Int /\ Paid(u.order) >= 0
             /\ Alone /\ status[u.order] = "cancelled" => Paid(u.order) = 0
  BY <1>2, PaidType DEF MoneyInv, OrdersKept, RefundsWithinCollected,
     CancelledKeepsNoMoney
<1>3. Collected(u)
  BY <1>2 DEF Collected
<1>4. QED
  BY <1>1, <1>3

LEMMA PaysOut ==
    ASSUME MoneyInv, NEW u \in Transactions, NEW n \in Nat, Moved(u) = -n,
           u.order \in Orders, n <= Paid(u.order),
           u.op \in Handlers, u.op \in {"adjust", "receive", "dropOff"},
           u.result # "cancelled", u.pc \notin {"receive", "settle"},
           u.op = "dropOff" => u.pc # "insert"
    PROVE  Placed(u) /\ Collected(u)
<1>1. Placed(u)
  BY DEF Placed
<1>2. /\ Paid(u.order) \in Int
      /\ Alone /\ status[u.order] = "cancelled" => Paid(u.order) = 0
  BY PaidType DEF MoneyInv, OrdersKept, CancelledKeepsNoMoney
<1>3. ~Quiet
  BY DEF Quiet
<1>4. Collected(u)
  BY <1>2, <1>3 DEF Collected
<1>5. QED
  BY <1>1, <1>4

-----------------------------------------------------------------------------
(* The handlers.                                                           *)

LEMMA PaymentBegins ==
    ASSUME MoneyInv, NEW r \in Requests, NEW o \in Orders, NEW tender \in Tenders,
           NEW cents \in 1 .. Total[o], BeginPayment(r, o, tender, cents)
    PROVE  MoneyInv'
<1> DEFINE debit == IF tender = "store_credit" THEN cents ELSE 0
           took == <<[tender |-> tender, cents |-> cents]>>
           change == [Nothing EXCEPT ![tender] = cents]
           rec == [Idle EXCEPT !.pc = "insert", !.order = o,
                      !.customer = CustomerOf[o], !.took = took,
                      !.change[tender] = cents, !.debit = debit]
           new == [Idle EXCEPT !.pc = "insert", !.order = o,
                      !.customer = CustomerOf[o], !.took = took,
                      !.change = change, !.debit = debit]
<1>1. cents \in Nat
  OBVIOUS
<1>2. CustomerOf[o] \in Customers
  BY MoneyAssumption
<1>3. debit \in Nat /\ took \in Seq(Payments)
  BY <1>1 DEF Payments
<1>4. change \in [Tenders -> Int]
  BY <1>1, NothingType
<1>5. rec = new
  BY IdleType, IdleFields DEF Transactions
<1>6. Begin(r, "payment", new)
  BY <1>5 DEF BeginPayment
<1>7. change["money"] + change["store_credit"] = cents
  BY <1>1 DEF Nothing, Tenders
<1> HIDE DEF debit, took, change
<1>8. /\ new \in Transactions /\ new.pc = "insert" /\ new.line = NoLine
      /\ new.draft = NotWritten /\ new.holds = {}
  BY <1>2, <1>3, <1>4, IdleType, IdleFields, ZenonT(40) DEF Transactions, Steps
<1> DEFINE u == [new EXCEPT !.op = "payment"]
<1>9. /\ new.doc = NoReturn /\ new.grant = 0 /\ new.result = "keep"
      /\ new.order = o /\ new.change = change
  BY IdleType, IdleFields DEF Transactions
<1> HIDE DEF new, rec
<1>10. /\ u.pc = "insert" /\ u.op = "payment" /\ u.grant = 0 /\ u.result = "keep"
       /\ u.order = o /\ Moved(u) = cents
  BY <1>7, <1>8, <1>9 DEF Transactions, Moved
<1> HIDE DEF u
<1>11. Placed(u)
  BY <1>1, <1>6, <1>10 DEF Placed, Begin
<1>12. Collected(u)
  <2>1. status[o] # "cancelled" /\ Paid(o) \in Int
    BY PaidType DEF BeginPayment, Live, MoneyInv
  <2>2. Quiet \/ Alone => Paid(o) >= 0
    BY DEF MoneyInv, OrdersKept, RefundsWithinCollected
  <2>3. QED
    BY <1>1, <1>10, <2>1, <2>2 DEF Collected
<1>13. Filed(new)
  BY <1>9, MoneyAssumption DEF Filed
<1>14. QED
  BY <1>6, <1>8, <1>11, <1>12, <1>13, IdleFields, Begins, MoneyAssumption
     DEF Endpoints, u

LEMMA CancelBegins ==
    ASSUME MoneyInv, NEW r \in Requests, NEW o \in Orders, NEW to \in Refunds,
           BeginCancel(r, o, to)
    PROVE  MoneyInv'
<1>1. PICK slice \in 0 .. Clamp(Paid(o)) :
          Begin(r, "cancel", Lock(CancelPlan(o, to, slice), <<"order", o>>, "full"))
  BY DEF BeginCancel
<1>2. Paid(o) \in Int
  BY PaidType DEF MoneyInv
<1> DEFINE plan == CancelPlan(o, to, slice)
           change == IF Paid(o) > 0 THEN Refund(Paid(o), slice) ELSE Nothing
           grant == IF Paid(o) > 0 /\ to = "store_credit" THEN Paid(o) ELSE 0
           pc == IF Paid(o) > 0 THEN "insert" ELSE "commit"
<1>3. change \in [Tenders -> Int]
  BY <1>2, RefundType, NothingType DEF Clamp
<1>3a. change["money"] + change["store_credit"] = IF Paid(o) > 0 THEN -Paid(o) ELSE 0
  BY <1>2, RefundType, IdleFields DEF Clamp
<1>4. grant \in Nat /\ pc \in Steps /\ pc # "void"
  BY <1>2 DEF Steps
<1>5. plan = [Idle EXCEPT !.pc = pc, !.order = o, !.customer = CustomerOf[o],
                          !.result = "cancelled", !.change = change,
                          !.grant = grant]
  BY IdleType, IdleFields DEF CancelPlan, Transactions
<1> HIDE DEF change, grant, pc, plan
<1>5a. /\ plan.doc = NoReturn /\ plan.order = o /\ plan.result = "cancelled"
       /\ plan.change = change /\ plan.pc # "receive" /\ plan.pc # "settle"
  BY <1>4, <1>5, IdleType, IdleFields DEF Transactions, pc
<1>6. /\ plan \in Transactions /\ plan.line = NoLine
      /\ plan.draft = NotWritten /\ plan.debit = 0 /\ plan.holds = {}
      /\ plan.pc # "void"
  BY <1>3, <1>4, <1>5, IdleType, IdleFields, MoneyAssumption, ZenonT(40) DEF Transactions
<1> DEFINE rec == Lock(plan, <<"order", o>>, "full")
<1>8. <<"order", o>> \in AllRows /\ "full" \in Modes
  BY DEF AllRows, Rows, Modes
<1>9. /\ rec \in Transactions /\ rec = [plan EXCEPT !.holds = rec.holds]
      /\ rec.holds = plan.holds \cup {<<<<"order", o>>, "full">>}
  BY <1>6, <1>8, LockType
<1>10. Begin(r, "cancel", rec)
  BY <1>1 DEF plan
<1> HIDE DEF rec
<1>11. /\ rec.line = NoLine /\ rec.draft = NotWritten /\ rec.debit = 0
       /\ rec.holds = {<<<<"order", o>>, "full">>} /\ rec.pc # "void"
       /\ rec.doc = NoReturn /\ rec.order = o /\ rec.result = "cancelled"
       /\ rec.change = change /\ rec.pc # "receive" /\ rec.pc # "settle"
  BY <1>5a, <1>6, <1>9 DEF Transactions
<1>12. Free(r, <<"order", o>>, "full")
  BY DEF BeginCancel
<1> DEFINE u == [rec EXCEPT !.op = "cancel"]
<1>13. /\ u.op = "cancel" /\ u.result = "cancelled" /\ u.order = o
       /\ u.holds = rec.holds /\ u.pc = rec.pc /\ u.change = change
  BY <1>9, <1>11 DEF Transactions
<1> HIDE DEF u
<1>14. Moved(u) = IF Paid(o) > 0 THEN -Paid(o) ELSE 0
  BY <1>3a, <1>13 DEF Moved
<1>15. Placed(u)
  BY <1>10, <1>11, <1>13 DEF Placed, Begin
<1>16. Collected(u)
  <2>1. Quiet \/ Alone => Paid(o) >= 0
    BY DEF MoneyInv, OrdersKept, RefundsWithinCollected
  <2>2. QED
    BY <1>2, <1>13, <1>14, <2>1 DEF Collected
<1>17. Filed(rec)
  BY <1>11, MoneyAssumption DEF Filed
<1>18. QED
  BY <1>9, <1>10, <1>11, <1>12, <1>15, <1>16, <1>17, IdleFields, Begins,
     MoneyAssumption DEF Endpoints, u

LEMMA AuthorizeBegins ==
    ASSUME MoneyInv, NEW r \in Requests, NEW op \in {"authorize", "dropOff"},
           NEW i \in Returns, NEW l \in Lines, NEW units \in 1 .. Delivered[l],
           NEW method \in Refunds, BeginAuthorize(r, op, i, l, units, method)
    PROVE  MoneyInv'
<1> DEFINE o == OrderOf[l]
           draft == [state |-> "authorized", order |-> o,
                     customer |-> NoCustomer, line |-> l,
                     units |-> units, amount |-> Price[l] * units,
                     method |-> method, received |-> FALSE]
           rec == [Idle EXCEPT !.pc = "insert", !.order = o, !.doc = i,
                     !.outcome = "authorized", !.draft = draft]
<1>1. o \in Orders /\ Price[l] \in Nat /\ units \in Nat
  BY MoneyAssumption
<1>2. Price[l] * units \in Nat
  BY <1>1
<1>3. draft \in Documents
  BY <1>1, <1>2 DEF Documents, Refunds
<1>4. draft.order = o /\ draft.line = l
  OBVIOUS
<1>5. Begin(r, op, rec)
  BY DEF BeginAuthorize
<1> HIDE DEF draft, o
<1>6. /\ rec \in Transactions /\ rec.line = NoLine /\ rec.draft = draft
      /\ rec.debit = 0 /\ rec.holds = {} /\ rec.pc = "insert"
      /\ rec.doc = i /\ rec.outcome = "authorized" /\ rec.change = Nothing
      /\ rec.result = "keep"
  BY <1>1, <1>3, IdleType, IdleFields, ZenonT(40) DEF Transactions, Steps
<1> HIDE DEF rec
<1> DEFINE u == [rec EXCEPT !.op = op]
<1>7. /\ u \in Transactions /\ u.op = op /\ u.pc = "insert" /\ u.result = "keep"
      /\ u.change = Nothing
  BY <1>6, MoneyAssumption DEF Transactions, Endpoints
<1> HIDE DEF u
<1>8. Placed(u) /\ Collected(u)
  BY <1>5, <1>7, IdleFields, PaysNothing DEF Moved, Begin
<1>9. Fresh(i)
  BY DEF BeginAuthorize
<1>10. Filed(rec)
  BY <1>1, <1>4, <1>6, <1>9, IdleFields, MoneyAssumption DEF Filed, Fresh
<1>11. QED
  BY <1>4, <1>5, <1>6, <1>8, <1>9, <1>10, Begins, MoneyAssumption
     DEF Endpoints, u

\* What receiveGoods plans from a return on an order.
LEMMA ReceivePlanType ==
    ASSUME TypeOK, NEW t \in Transactions, NEW d \in Documents,
           d.order \in Orders => d.line \in Lines,
           Receivable(d), NEW slice \in 0 .. d.amount
    PROVE  /\ ReceivePlan(t, d, slice) \in Transactions
           /\ ReceivePlan(t, d, slice).draft = t.draft
           /\ ReceivePlan(t, d, slice).debit = t.debit
           /\ ReceivePlan(t, d, slice).holds = t.holds
           /\ ReceivePlan(t, d, slice).pc = "line"
           /\ ReceivePlan(t, d, slice).order = d.order /\ d.order \in Orders
           /\ ReceivePlan(t, d, slice).outcome = "completed"
           /\ ReceivePlan(t, d, slice).doc = t.doc
           /\ ReceivePlan(t, d, slice).op = t.op
           /\ ReceivePlan(t, d, slice).result = t.result
           /\ Moved(ReceivePlan(t, d, slice)) =
                 IF d.method = "original" THEN -d.amount ELSE Moved(t)
           /\ ReceivePlan(t, d, slice).line \in Lines
           /\ ReceivePlan(t, d, slice).back \in
                 0 .. Delivered[ReceivePlan(t, d, slice).line]
<1> DEFINE back == returned[d.line] + d.units
           change == IF d.method = "original" THEN Refund(d.amount, slice) ELSE t.change
           grant == IF d.method = "original" THEN 0 ELSE d.amount
           u == [t EXCEPT !.pc = "line", !.order = d.order,
                    !.customer = CustomerOf[d.order], !.line = d.line, !.back = back,
                    !.outcome = "completed", !.change = change, !.grant = grant]
<1>1. d.order \in Orders /\ d.units \in Nat /\ d.amount \in Nat
  BY DEF Receivable, Documents
<1>2. d.line \in Lines
  BY <1>1
<1>3. returned[d.line] \in 0 .. Delivered[d.line] /\ Delivered[d.line] \in Nat
  BY <1>2, MoneyAssumption DEF TypeOK
<1>4. back \in 0 .. Delivered[d.line]
  BY <1>1, <1>3 DEF Receivable
<1>5. change \in [Tenders -> Int]
  BY <1>1, RefundType, SMTT(30) DEF Transactions
<1>6. grant \in Nat /\ CustomerOf[d.order] \in Customers
  BY <1>1, MoneyAssumption
<1>7. ReceivePlan(t, d, slice) = u
  BY DEF ReceivePlan, Transactions
<1>7a. change["money"] + change["store_credit"] =
           IF d.method = "original" THEN -d.amount ELSE Moved(t)
  BY <1>1, RefundType DEF Moved
<1>8. back \in Int
  BY <1>3, <1>4
<1> HIDE DEF back, change, grant
<1>9. u \in Transactions
  BY <1>1, <1>2, <1>5, <1>6, <1>8, ZenonT(40) DEF Transactions, Steps
<1>10. /\ u.draft = t.draft /\ u.debit = t.debit /\ u.holds = t.holds
       /\ u.pc = "line" /\ u.line = d.line /\ u.back = back
       /\ u.order = d.order /\ u.outcome = "completed" /\ u.doc = t.doc
       /\ u.op = t.op /\ u.result = t.result /\ u.change = change
  BY DEF Transactions
<1> HIDE DEF u
<1>11. Moved(u) = IF d.method = "original" THEN -d.amount ELSE Moved(t)
  BY <1>7a, <1>10 DEF Moved
<1>12. QED
  BY <1>1, <1>2, <1>4, <1>7, <1>9, <1>10, <1>11

LEMMA ReceiveBegins ==
    ASSUME MoneyInv, NEW r \in Requests, NEW i \in Returns, BeginReceive(r, i)
    PROVE  MoneyInv'
<1>1. Receivable(doc[i])
  BY DEF BeginReceive
<1> DEFINE t == [Idle EXCEPT !.doc = i]
<1>2. PICK slice \in 0 .. doc[i].amount :
          Begin(r, "receive", ReceivePlan(t, doc[i], slice))
  BY DEF BeginReceive
<1>3. /\ t \in Transactions /\ t.draft = NotWritten /\ t.debit = 0 /\ t.holds = {}
      /\ t.doc = i /\ t.result = "keep" /\ Moved(t) = 0
  BY IdleType, IdleFields DEF Transactions, Moved
<1> HIDE DEF t
<1>4. doc[i] \in Documents /\ (doc[i].order \in Orders => doc[i].line \in Lines)
      /\ TypeOK
  BY DEF MoneyInv, TypeOK, DocsNameLines
<1> DEFINE rec == ReceivePlan(t, doc[i], slice)
<1>5. /\ rec \in Transactions /\ rec.draft = NotWritten /\ rec.debit = 0
      /\ rec.holds = {} /\ rec.back \in 0 .. Delivered[rec.line]
      /\ rec.pc = "line" /\ rec.order = doc[i].order /\ rec.doc = i
      /\ rec.result = "keep" /\ doc[i].order \in Orders
      /\ Moved(rec) = IF doc[i].method = "original" THEN -doc[i].amount ELSE 0
  BY <1>1, <1>3, <1>4, ReceivePlanType
<1>6. Begin(r, "receive", rec)
  BY <1>2
<1> HIDE DEF rec
<1> DEFINE u == [rec EXCEPT !.op = "receive"]
<1>7. /\ u \in Transactions /\ u.op = "receive" /\ u.pc = "line"
      /\ u.result = "keep" /\ u.order = doc[i].order /\ u.change = rec.change
  BY <1>5 DEF Transactions, Endpoints
<1>8. Moved(u) = Moved(rec)
  BY <1>7 DEF Moved
<1> HIDE DEF u
<1>9. Placed(u) /\ Collected(u)
  <2>1. u.op \in Handlers
    BY <1>6, <1>7 DEF Begin
  <2>2. CASE doc[i].method = "original"
    <3>1. doc[i].amount \in Nat /\ doc[i].amount <= Paid(u.order)
      BY <1>1, <1>4, <1>7, <2>2 DEF Receivable, Documents
    <3>2. QED
      BY <1>5, <1>7, <1>8, <2>1, <2>2, <3>1, PaysOut
  <2>3. CASE doc[i].method # "original"
    BY <1>5, <1>7, <1>8, <2>1, <2>3, PaysNothing
  <2>4. QED
    BY <2>2, <2>3
<1>10. Filed(rec)
  BY <1>1, <1>5, MoneyAssumption DEF Filed, Receivable
<1>11. QED
  BY <1>5, <1>6, <1>9, <1>10, IdleFields, Begins, MoneyAssumption DEF Endpoints, u

LEMMA CancelReturnBegins ==
    ASSUME MoneyInv, NEW r \in Requests, NEW i \in Returns, BeginCancelReturn(r, i)
    PROVE  MoneyInv'
<1> DEFINE rec == [Idle EXCEPT !.pc = "finish", !.doc = i, !.outcome = "cancelled"]
<1>1. Begin(r, "cancelReturn", rec)
  BY DEF BeginCancelReturn
<1>2. /\ rec \in Transactions /\ rec.draft = NotWritten /\ rec.debit = 0
      /\ rec.holds = {} /\ rec.line = NoLine /\ rec.pc = "finish"
      /\ rec.doc = i /\ rec.change = Nothing /\ rec.result = "keep"
  BY IdleType, IdleFields, ZenonT(40) DEF Transactions, Steps
<1> HIDE DEF rec
<1> DEFINE u == [rec EXCEPT !.op = "cancelReturn"]
<1>3. /\ u \in Transactions /\ u.op = "cancelReturn" /\ u.pc = "finish"
      /\ u.result = "keep" /\ u.change = Nothing
  BY <1>2 DEF Transactions, Endpoints
<1> HIDE DEF u
<1>4. Placed(u) /\ Collected(u)
  BY <1>1, <1>3, IdleFields, PaysNothing DEF Moved, Begin
<1>5. Filed(rec)
  BY <1>2 DEF Filed, BeginCancelReturn, MoneyInv, DocsSettled
<1>6. QED
  BY <1>1, <1>2, <1>4, <1>5, IdleFields, Begins, MoneyAssumption DEF Endpoints, u

LEMMA AdjustBegins ==
    ASSUME MoneyInv, NEW r \in Requests, NEW o \in Orders, NEW cents \in Nat,
           NEW to \in Refunds, BeginAdjust(r, o, cents, to)
    PROVE  MoneyInv'
<1>1. PICK slice \in 0 .. cents :
          Begin(r, "adjust",
                [Idle EXCEPT !.pc = "insert", !.order = o,
                    !.customer = CustomerOf[o],
                    !.change = IF to = "store_credit" THEN @
                                                      ELSE Refund(cents, slice),
                    !.grant = IF to = "store_credit" THEN cents ELSE 0])
  BY DEF BeginAdjust
<1> DEFINE change == IF to = "store_credit" THEN Nothing ELSE Refund(cents, slice)
           grant == IF to = "store_credit" THEN cents ELSE 0
           rec == [Idle EXCEPT !.pc = "insert", !.order = o,
                      !.customer = CustomerOf[o], !.change = change, !.grant = grant]
<1>2. Begin(r, "adjust", rec)
  BY <1>1, IdleFields, IdleType DEF Transactions
<1>3. change \in [Tenders -> Int] /\ grant \in Nat /\ CustomerOf[o] \in Customers
  BY RefundType, NothingType, MoneyAssumption
<1>3a. /\ to = "store_credit" => change["money"] + change["store_credit"] = 0
       /\ to # "store_credit" => /\ change["money"] + change["store_credit"] = -cents
                                  /\ cents <= Paid(o)
  BY RefundType, IdleFields DEF BeginAdjust
<1> HIDE DEF change, grant
<1>4. /\ rec \in Transactions /\ rec.draft = NotWritten /\ rec.debit = 0
      /\ rec.holds = {} /\ rec.line = NoLine /\ rec.pc = "insert"
      /\ rec.doc = NoReturn /\ rec.change = change /\ rec.result = "keep"
      /\ rec.order = o
  BY <1>3, IdleType, IdleFields, ZenonT(40) DEF Transactions, Steps
<1> HIDE DEF rec
<1> DEFINE u == [rec EXCEPT !.op = "adjust"]
<1>5. /\ u \in Transactions /\ u.op = "adjust" /\ u.pc = "insert"
      /\ u.result = "keep" /\ u.change = change /\ u.order = o
  BY <1>4 DEF Transactions, Endpoints
<1> HIDE DEF u
<1>6. Placed(u) /\ Collected(u)
  <2>1. u.op \in Handlers
    BY <1>2, <1>5 DEF Begin
  <2>2. CASE to = "store_credit"
    BY <1>3a, <1>5, <2>1, <2>2, PaysNothing DEF Moved
  <2>3. CASE to # "store_credit"
    BY <1>3a, <1>5, <2>1, <2>3, PaysOut DEF Moved
  <2>4. QED
    BY <2>2, <2>3
<1>7. Filed(rec)
  BY <1>4, MoneyAssumption DEF Filed
<1>8. QED
  BY <1>2, <1>4, <1>6, <1>7, IdleFields, Begins, MoneyAssumption DEF Endpoints, u

LEMMA NoOriginalBegins ==
    ASSUME MoneyInv, NEW r \in Requests, NEW i \in Returns, NEW c \in Customers,
           NEW cents \in Nat, BeginNoOriginal(r, i, c, cents)
    PROVE  MoneyInv'
<1> DEFINE draft == [NotWritten EXCEPT !.state = "completed",
                        !.customer = c, !.amount = cents,
                        !.method = "store_credit", !.received = TRUE]
           rec == [Idle EXCEPT !.pc = "insert", !.customer = c, !.doc = i,
                      !.grant = cents, !.outcome = "completed", !.draft = draft]
<1>1. Begin(r, "noOriginal", rec)
  BY DEF BeginNoOriginal
<1>2. draft \in Documents /\ draft.order = NoOrder
  BY NotWrittenType, IdleFields DEF Documents
<1>2a. draft # NotWritten
  BY NotWrittenType, IdleFields DEF Documents
<1> HIDE DEF draft
<1>3. /\ rec \in Transactions /\ rec.draft = draft /\ rec.debit = 0
      /\ rec.holds = {} /\ rec.line = NoLine /\ rec.pc = "insert"
      /\ rec.doc = i /\ rec.outcome = "completed" /\ rec.change = Nothing
      /\ rec.result = "keep"
  BY <1>2, IdleType, IdleFields, ZenonT(40) DEF Transactions, Steps
<1> HIDE DEF rec
<1> DEFINE u == [rec EXCEPT !.op = "noOriginal"]
<1>4. /\ u \in Transactions /\ u.op = "noOriginal" /\ u.pc = "insert"
      /\ u.result = "keep" /\ u.change = Nothing
  BY <1>3 DEF Transactions, Endpoints
<1> HIDE DEF u
<1>5. Placed(u) /\ Collected(u)
  BY <1>1, <1>4, IdleFields, PaysNothing DEF Moved, Begin
<1>6. Fresh(i)
  BY DEF BeginNoOriginal
<1>7. Filed(rec)
  BY <1>2, <1>2a, <1>3, <1>6, IdleFields DEF Filed, Fresh
<1>8. QED
  BY <1>1, <1>2, <1>3, <1>5, <1>6, <1>7, Begins, MoneyAssumption DEF Endpoints, u

LEMMA VoidBegins ==
    ASSUME MoneyInv, NEW r \in Requests, NEW i \in Returns, BeginVoid(r, i)
    PROVE  MoneyInv'
<1> DEFINE rec == [Idle EXCEPT !.pc = "void", !.doc = i, !.customer = doc[i].customer,
                      !.outcome = "cancelled"]
<1>1. Begin(r, "void", rec)
  BY DEF BeginVoid
<1>2. doc[i].customer \in Customers \cup {NoCustomer}
  BY DEF MoneyInv, TypeOK, Documents
<1>3. /\ rec \in Transactions /\ rec.draft = NotWritten /\ rec.debit = 0
      /\ rec.holds = {} /\ rec.line = NoLine /\ rec.doc = i
      /\ rec.pc = "void" /\ rec.outcome = "cancelled" /\ rec.grant = 0
      /\ rec.change = Nothing /\ rec.result = "keep"
  BY <1>2, IdleType, IdleFields, ZenonT(40) DEF Transactions, Steps
<1> HIDE DEF rec
<1> DEFINE u == [rec EXCEPT !.op = "void"]
<1>4. /\ u \in Transactions /\ u.op = "void" /\ u.pc = "void"
      /\ u.result = "keep" /\ u.change = Nothing
  BY <1>3 DEF Transactions, Endpoints
<1> HIDE DEF u
<1>5. Placed(u) /\ Collected(u)
  BY <1>1, <1>4, IdleFields, PaysNothing DEF Moved, Begin
<1>6. Filed(rec)
  BY <1>3 DEF Filed, BeginVoid
<1>7. QED
  BY <1>1, <1>3, <1>5, <1>6, IdleFields, Begins, MoneyAssumption DEF Endpoints, u

-----------------------------------------------------------------------------
(* The steps of an open transaction.                                       *)

\* A transaction takes a lock and changes what else it likes but its debit,
\* its draft and its line.
LEMMA LockMoves ==
    ASSUME MoneyInv, NEW r \in Requests, NEW row \in AllRows, NEW mode \in Modes,
           Free(r, row, mode), NEW u \in Transactions,
           Proper(u), u.doc = txn[r].doc, u.draft = txn[r].draft,
           u.holds = txn[r].holds \cup {<<row, mode>>}, Goes(r, u)
    PROVE  MoneyInv'
BY MovesOn DEF Goes

LEMMA InsertKeeps ==
    ASSUME MoneyInv, NEW r \in Requests, Insert(r)
    PROVE  MoneyInv'
<1> DEFINE t == txn[r]
           row == IF t.grant > 0 THEN <<"customer", t.customer>>
                                 ELSE <<"order", t.order>>
           next == IF t.pc = "post" THEN "finish"
                   ELSE CASE t.op = "payment" -> IF t.debit > 0 THEN "redeem" ELSE "settle"
                          [] t.op = "dropOff" -> "receive"
                          [] OTHER -> "commit"
           u == [Lock(t, row, "share") EXCEPT !.pc = next]
<1>1. Free(r, row, "share") /\ Goes(r, u) /\ t.pc \in {"insert", "post"}
  BY DEF Insert
<1>2. Proper(t) /\ Sound(t) /\ t \in Transactions
  BY DEF MoneyInv, Proper, Sound
<1>3. row \in AllRows /\ "share" \in Modes
  BY <1>2, RowTypes DEF Modes
<1>4. t.debit \in Nat
  BY <1>2 DEF Transactions
<1>5. /\ next \in Steps /\ next # "void"
      /\ t.debit > 0 => next = "redeem"
  BY <1>1, <1>2, <1>4 DEF Steps, Sound
<1>5b. /\ next # "insert"
       /\ next = "receive" => t.op = "dropOff" /\ t.pc = "insert"
       /\ next = "settle" => t.op = "payment"
  BY <1>1
<1>5a. t.op = "payment" => row = <<"order", t.order>>
  BY <1>2 DEF Proper, Placed
<1> HIDE DEF row, next
<1>6. /\ u \in Transactions /\ u.pc = next /\ u.debit = t.debit
      /\ u.draft = t.draft /\ u.line = t.line /\ u.back = t.back
      /\ u.doc = t.doc /\ u.op = t.op /\ u.order = t.order
      /\ u.change = t.change /\ u.grant = t.grant
      /\ u.outcome = t.outcome /\ u.result = t.result
      /\ u.holds = t.holds \cup {<<row, "share">>}
  BY <1>2, <1>3, <1>5, LockAt
<1> HIDE DEF u
<1>7. Sound(u) /\ Covered(u)
  BY <1>2, <1>5, <1>6 DEF Sound, Covered, Checked
<1>8. Filed(u) /\ Placed(u) /\ Collected(u)
  BY <1>1, <1>2, <1>5, <1>5a, <1>5b, <1>6, CarriesOn DEF Proper
<1>9. QED
  BY <1>1, <1>3, <1>6, <1>7, <1>8, LockMoves DEF Proper

LEMMA ReceiveOwnKeeps ==
    ASSUME MoneyInv, NEW r \in Requests, ReceiveOwn(r)
    PROVE  MoneyInv'
<1> DEFINE t == txn[r]
<1>1. t.pc = "receive" /\ Receivable(t.draft)
  BY DEF ReceiveOwn
<1>2. PICK slice \in 0 .. t.draft.amount : Goes(r, ReceivePlan(t, t.draft, slice))
  BY DEF ReceiveOwn
<1>3. Proper(t) /\ Sound(t) /\ t \in Transactions /\ TypeOK
  BY DEF MoneyInv, Proper, Sound
<1>4. t.draft \in Documents /\ t.debit \in Nat
  BY <1>3 DEF Transactions
<1> DEFINE u == ReceivePlan(t, t.draft, slice)
<1>5. /\ u \in Transactions /\ u.draft = t.draft /\ u.debit = t.debit
      /\ u.holds = t.holds /\ u.pc = "line" /\ u.back \in 0 .. Delivered[u.line]
      /\ u.doc = t.doc /\ u.op = t.op /\ u.result = t.result
      /\ u.order = t.draft.order /\ u.order \in Orders /\ u.outcome = "completed"
      /\ Moved(u) = IF t.draft.method = "original" THEN -t.draft.amount
                                                    ELSE Moved(t)
  BY <1>1, <1>3, <1>4, ReceivePlanType DEF Sound
<1>6. Goes(r, u)
  BY <1>2
<1> HIDE DEF u
<1>7. ~(t.debit > 0)
  BY <1>1, <1>3 DEF Sound
<1>8. Sound(u) /\ Covered(u)
  BY <1>3, <1>5, <1>7 DEF Sound, Covered, Checked
<1>9. Filed(u)
  BY <1>1, <1>3, <1>5, IdleFields, MoneyAssumption DEF Proper, Filed
<1>10. Placed(u) /\ Collected(u)
  <2>1. u.op = "dropOff" /\ u.op \in Handlers /\ u.result # "cancelled"
        /\ Moved(t) = 0
    BY <1>1, <1>3, <1>5 DEF Proper, Placed
  <2>2. CASE t.draft.method = "original"
    <3>1. t.draft.amount \in Nat /\ t.draft.amount <= Paid(u.order)
      BY <1>1, <1>4, <1>5, <2>2 DEF Receivable, Documents
    <3>2. QED
      BY <1>5, <2>1, <2>2, <3>1, PaysOut
  <2>3. CASE t.draft.method # "original"
    BY <1>5, <2>1, <2>3, PaysNothing
  <2>4. QED
    BY <2>2, <2>3
<1>11. QED
  BY <1>5, <1>6, <1>8, <1>9, <1>10, MovesOn DEF Goes, Proper

\* A lock taken on the way to a step that pays nothing out.
LEMMA PlainMove ==
    ASSUME MoneyInv, NEW r \in Requests, NEW row \in AllRows, NEW mode \in Modes,
           NEW pc \in {"post", "commit"}, Free(r, row, mode), ~(txn[r].debit > 0),
           txn[r].pc \in {"line", "finish"},
           Goes(r, [Lock(txn[r], row, mode) EXCEPT !.pc = pc])
    PROVE  MoneyInv'
<1> DEFINE t == txn[r]
           u == [Lock(t, row, mode) EXCEPT !.pc = pc]
<1>1. Proper(t) /\ Sound(t) /\ t \in Transactions /\ pc \in Steps
  BY DEF MoneyInv, Proper, Sound, Steps
<1>2. /\ u \in Transactions /\ u.pc = pc /\ u.debit = t.debit
      /\ u.draft = t.draft /\ u.line = t.line /\ u.back = t.back
      /\ u.doc = t.doc /\ u.op = t.op /\ u.order = t.order
      /\ u.change = t.change /\ u.grant = t.grant
      /\ u.outcome = t.outcome /\ u.result = t.result
      /\ u.holds = t.holds \cup {<<row, mode>>}
  BY <1>1, LockAt
<1> HIDE DEF u
<1>3. Sound(u) /\ Covered(u)
  BY <1>1, <1>2 DEF Sound, Covered, Checked
<1>4. Goes(r, u)
  BY DEF u
<1>5. Filed(u) /\ Placed(u) /\ Collected(u)
  BY <1>1, <1>2, CarriesOn DEF Proper
<1>6. QED
  BY <1>2, <1>3, <1>4, <1>5, LockMoves DEF Proper

LEMMA WriteLineKeeps ==
    ASSUME MoneyInv, NEW r \in Requests, WriteLine(r)
    PROVE  MoneyInv'
<1>1. Sound(txn[r]) /\ txn[r] \in Transactions
  BY DEF MoneyInv, Proper, Sound
<1>2. ~(txn[r].debit > 0)
  BY <1>1 DEF WriteLine, Sound
<1>3. <<"line", txn[r].line>> \in AllRows /\ "write" \in Modes
  BY <1>1, RowTypes DEF Modes
<1>4. QED
  BY <1>2, <1>3, PlainMove DEF WriteLine

LEMMA WriteReturnKeeps ==
    ASSUME MoneyInv, NEW r \in Requests, WriteReturn(r)
    PROVE  MoneyInv'
<1>1. Sound(txn[r]) /\ txn[r] \in Transactions
  BY DEF MoneyInv, Proper, Sound
<1>2. ~(txn[r].debit > 0)
  BY <1>1 DEF WriteReturn, Sound
<1>3. <<"return", txn[r].doc>> \in AllRows /\ "write" \in Modes
  BY <1>1, RowTypes DEF Modes
<1>4. QED
  BY <1>2, <1>3, PlainMove DEF WriteReturn

LEMMA VoidReturnKeeps ==
    ASSUME MoneyInv, NEW r \in Requests, VoidReturn(r)
    PROVE  MoneyInv'
<1> DEFINE t == txn[r]
           row == <<"return", t.doc>>
           pc == IF issued[t.doc] > 0 THEN "redeem" ELSE "commit"
           debit == Clamp(issued[t.doc])
           k == [Lock(t, row, "full") EXCEPT !.pc = pc]
           u == [k EXCEPT !.debit = debit]
<1>1. t \in Transactions /\ Proper(t) /\ Sound(t) /\ t.pc = "void"
  BY DEF VoidReturn, MoneyInv, Proper, Sound
<1>2. issued[t.doc] \in Int
  BY <1>1 DEF Sound, MoneyInv, TypeOK
<1>3. /\ debit \in Nat /\ pc \in Steps \ {"void"}
      /\ debit > 0 => pc = "redeem"
      /\ pc \in {"redeem", "commit"}
      /\ issued[t.doc] >= 0 => debit = issued[t.doc]
  BY <1>2 DEF Clamp, Steps
<1>4. Free(r, row, "full") /\ row \in AllRows /\ "full" \in Modes
  BY <1>1, RowTypes DEF VoidReturn, Modes
<1>5. Goes(r, [Lock(t, row, "full") EXCEPT !.pc = pc, !.debit = debit])
  BY DEF VoidReturn
<1> HIDE DEF row, pc, debit
<1>6. /\ k \in Transactions /\ k.pc = pc /\ k.draft = t.draft /\ k.line = t.line
      /\ k.back = t.back /\ k.doc = t.doc /\ k.op = t.op /\ k.order = t.order
      /\ k.change = t.change /\ k.grant = t.grant
      /\ k.outcome = t.outcome /\ k.result = t.result
      /\ k.holds = t.holds \cup {<<row, "full">>}
  BY <1>1, <1>3, <1>4, LockAt
<1>7. Goes(r, u)
  BY <1>5
<1> HIDE DEF k
<1>8. /\ u \in Transactions /\ u.pc = pc /\ u.draft = t.draft /\ u.line = t.line
      /\ u.back = t.back /\ u.debit = debit
      /\ u.doc = t.doc /\ u.op = t.op /\ u.order = t.order
      /\ u.change = t.change /\ u.grant = t.grant
      /\ u.outcome = t.outcome /\ u.result = t.result
      /\ u.holds = t.holds \cup {<<row, "full">>}
  BY <1>3, <1>6 DEF Transactions
<1> HIDE DEF u
<1>9. Sound(u) /\ Covered(u)
  BY <1>1, <1>3, <1>8 DEF Sound, Covered, Checked
<1>10. Filed(u)
  <2>1. /\ t.doc \in Returns /\ doc[t.doc].state = "completed"
        /\ t.draft = NotWritten => doc[t.doc].order = NoOrder
    BY <1>1 DEF Sound, Proper, Filed, VoidReturn
  <2>2. t.draft = NotWritten
    BY <1>1, <2>1 DEF Proper, Filed
  <2>3. issued[t.doc] >= 0
    BY <2>1, <2>2 DEF MoneyInv, DocsSettled
  <2>4. QED
    BY <1>1, <1>3, <1>8, <2>1, <2>2, <2>3 DEF Proper, Filed, row
<1>11. Placed(u) /\ Collected(u)
  <2>1. Moved(u) = Moved(t)
    BY <1>8 DEF Moved
  <2>2. Placed(u)
    BY <1>1, <1>3, <1>8, <2>1 DEF Proper, Placed
  <2>3. Collected(u)
    BY <1>1, <1>3, <1>8, <2>1 DEF Proper, Collected
  <2>4. QED
    BY <2>2, <2>3
<1>12. QED
  BY <1>4, <1>7, <1>8, <1>9, <1>10, <1>11, LockMoves DEF Proper

\* redeem checks the balance under the lock that it keeps to the commit.
LEMMA RedeemKeeps ==
    ASSUME MoneyInv, NEW r \in Requests, Redeem(r)
    PROVE  MoneyInv'
<1> DEFINE t == txn[r]
           row == <<"customer", t.customer>>
           pc == AfterRedeem(t)
           u == [Lock(t, row, "full") EXCEPT !.pc = pc]
<1>1. t \in Transactions /\ Proper(t) /\ Sound(t) /\ t.pc = "redeem"
  BY DEF Redeem, MoneyInv, Proper, Sound
<1>2. pc \in {"settle", "commit"} /\ pc \in Steps
      /\ (pc = "settle" => t.op = "payment")
  BY DEF AfterRedeem, Steps
<1>3. Free(r, row, "full") /\ row \in AllRows /\ "full" \in Modes
      /\ credit[t.customer] >= t.debit /\ Goes(r, u)
  BY <1>1, RowTypes DEF Redeem, Modes
<1> HIDE DEF pc
<1>4. /\ u \in Transactions /\ u.pc = pc /\ u.debit = t.debit
      /\ u.draft = t.draft /\ u.line = t.line /\ u.back = t.back
      /\ u.customer = t.customer /\ u.doc = t.doc /\ u.op = t.op
      /\ u.order = t.order /\ u.change = t.change /\ u.grant = t.grant
      /\ u.outcome = t.outcome /\ u.result = t.result
      /\ u.holds = t.holds \cup {<<row, "full">>}
  BY <1>1, <1>2, <1>3, LockAt
<1> HIDE DEF u
<1>5. Sound(u)
  BY <1>1, <1>2, <1>4 DEF Sound
<1>6. Covered(u)
  BY <1>3, <1>4 DEF Covered
<1>7. Filed(u) /\ Placed(u) /\ Collected(u)
  BY <1>1, <1>2, <1>4, CarriesOn DEF Proper
<1>8. QED
  BY <1>3, <1>4, <1>5, <1>6, <1>7, LockMoves DEF Proper

LEMMA SettleKeeps ==
    ASSUME MoneyInv, NEW r \in Requests, Settle(r)
    PROVE  MoneyInv'
<1> DEFINE t == txn[r]
           row == <<"order", t.order>>
           k == [Lock(t, row, "write") EXCEPT !.pc = "commit"]
           closing == [k EXCEPT !.result = "completed"]
           plain == [t EXCEPT !.pc = "commit"]
<1>1. t \in Transactions /\ Proper(t) /\ Sound(t) /\ Covered(t)
      /\ t.pc = "settle"
  BY DEF Settle, MoneyInv, Proper, Sound
<1>2. row \in AllRows /\ "write" \in Modes /\ "commit" \in Steps
  BY <1>1, RowTypes DEF Modes, Steps
<1>3. CASE Free(r, row, "write") /\ Goes(r, closing)
  <2>1. /\ k \in Transactions /\ k.pc = "commit" /\ k.debit = t.debit
        /\ k.draft = t.draft /\ k.line = t.line /\ k.back = t.back
        /\ k.customer = t.customer /\ k.doc = t.doc /\ k.op = t.op
        /\ k.order = t.order /\ k.change = t.change /\ k.grant = t.grant
        /\ k.outcome = t.outcome
        /\ k.holds = t.holds \cup {<<row, "write">>}
    BY <1>1, <1>2, LockAt
  <2> HIDE DEF k
  <2>2. /\ closing \in Transactions /\ closing.pc = "commit"
        /\ closing.debit = t.debit /\ closing.draft = t.draft
        /\ closing.line = t.line /\ closing.back = t.back
        /\ closing.customer = t.customer /\ closing.doc = t.doc
        /\ closing.op = t.op /\ closing.order = t.order
        /\ closing.change = t.change /\ closing.grant = t.grant
        /\ closing.outcome = t.outcome /\ closing.result = "completed"
        /\ closing.holds = t.holds \cup {<<row, "write">>}
    BY <2>1 DEF Transactions
  <2> HIDE DEF closing
  <2>3. Sound(closing) /\ Covered(closing)
    BY <1>1, <2>2 DEF Sound, Covered, Checked
  <2>4. t.op = "payment" /\ t.result # "cancelled"
    BY <1>1 DEF Proper, Placed
  <2>5. Filed(closing) /\ Placed(closing) /\ Collected(closing)
    BY <1>1, <2>2, <2>4, CarriesOn DEF Proper
  <2>6. QED
    BY <1>2, <1>3, <2>2, <2>3, <2>5, LockMoves DEF Proper
<1>4. CASE Goes(r, plain)
  <2>1. /\ plain \in Transactions /\ plain.pc = "commit" /\ plain.debit = t.debit
        /\ plain.draft = t.draft /\ plain.line = t.line /\ plain.back = t.back
        /\ plain.customer = t.customer /\ plain.doc = t.doc /\ plain.op = t.op
        /\ plain.order = t.order /\ plain.change = t.change
        /\ plain.grant = t.grant /\ plain.outcome = t.outcome
        /\ plain.result = t.result /\ plain.holds = t.holds
    BY <1>1, <1>2 DEF Transactions
  <2> HIDE DEF plain
  <2>2. Sound(plain) /\ Covered(plain)
    BY <1>1, <2>1 DEF Sound, Covered, Checked
  <2>3. Filed(plain) /\ Placed(plain) /\ Collected(plain)
    BY <1>1, <2>1, CarriesOn DEF Proper
  <2>4. QED
    BY <1>4, <2>1, <2>2, <2>3, MovesOn DEF Goes, Proper
<1>5. QED
  BY <1>3, <1>4 DEF Settle

LEMMA AbortKeeps ==
    ASSUME MoneyInv, NEW r \in Requests, Abort(r)
    PROVE  MoneyInv'
BY IdleType, IdleFields, MovesOn DEF Abort, Goes

-----------------------------------------------------------------------------
(* The commit.                                                             *)

LEMMA WrittenType ==
    ASSUME NEW d \in Documents, NEW outcome \in {"authorized", "completed", "cancelled"}
    PROVE  /\ Written(d, outcome) \in Documents
           /\ Written(d, outcome).order = d.order
           /\ Written(d, outcome).line = d.line
           /\ Written(d, outcome).state = outcome
<1> DEFINE got == d.received \/ outcome = "completed"
<1>1. got \in BOOLEAN
  OBVIOUS
<1>2. Written(d, outcome) = [d EXCEPT !.state = outcome, !.received = got]
  BY DEF Written
<1> HIDE DEF got
<1>3. QED
  BY <1>1, <1>2 DEF Documents

\* What a commit makes of the credit of each customer.
LEMMA CommitCredit ==
    ASSUME MoneyInv, NEW r \in Requests, Commit(r)
    PROVE  LET t == txn[r]
           IN  /\ t.grant \in Nat /\ t.debit \in Nat /\ credit \in [Customers -> Int]
               /\ credit' \in [Customers -> Int]
               /\ \A c \in Customers \ {t.customer} : credit'[c] = credit[c]
               /\ t.customer \in Customers =>
                     /\ credit'[t.customer] = credit[t.customer] + t.grant - t.debit
                     /\ t.debit > 0 => credit[t.customer] >= t.debit
<1> DEFINE t == txn[r]
<1>1. t \in Transactions /\ Covered(t) /\ t.pc = "commit"
  BY DEF Commit, MoneyInv, Proper, Sound
<1>2. t.grant \in Nat /\ t.debit \in Nat /\ credit \in [Customers -> Int]
  BY <1>1 DEF Transactions, MoneyInv, TypeOK
<1>3. credit' = [c \in Customers |-> IF c = t.customer
                    THEN credit[c] + t.grant - t.debit ELSE credit[c]]
  BY DEF Commit
<1>4. t.customer \in Customers /\ t.debit > 0 => credit[t.customer] >= t.debit
  BY <1>1 DEF Covered, Checked
<1> HIDE DEF t
<1>5. credit' \in [Customers -> Int]
  BY <1>2, <1>3
<1>6. QED
  BY <1>2, <1>3, <1>4, <1>5 DEF t

LEMMA CommitType ==
    ASSUME MoneyInv, NEW r \in Requests, Commit(r)
    PROVE  TypeOK'
<1> DEFINE t == txn[r]
<1>1. t \in Transactions /\ Sound(t) /\ TypeOK
  BY DEF Commit, MoneyInv, Proper, Sound
<1>2. status' \in [Orders -> Statuses]
  <2>1. t.result \in {"keep", "completed", "cancelled"}
    BY <1>1 DEF Transactions
  <2>2. QED
    BY <1>1, <2>1 DEF Commit, TypeOK, Statuses
<1>3. takings' \in [Orders -> Seq(Payments)]
  <2>1. t.took \in Seq(Payments)
    BY <1>1 DEF Transactions
  <2>2. \A o \in Orders : takings[o] \o t.took \in Seq(Payments)
    BY <1>1, <2>1 DEF TypeOK
  <2>3. QED
    BY <1>1, <2>2 DEF Commit, TypeOK
<1>4. net' \in [Orders -> [Tenders -> Int]]
  <2>1. t.change \in [Tenders -> Int]
    BY <1>1 DEF Transactions
  <2> DEFINE sum(o) == [p \in Tenders |-> net[o][p] + t.change[p]]
  <2>2. \A o \in Orders : sum(o) \in [Tenders -> Int]
    BY <1>1, <2>1 DEF TypeOK
  <2>3. net' = [o \in Orders |-> IF o = t.order THEN sum(o) ELSE net[o]]
    BY DEF Commit
  <2> HIDE DEF sum
  <2>4. QED
    BY <1>1, <2>2, <2>3 DEF TypeOK
<1>5. DOMAIN returned' = Lines /\ \A l \in Lines : returned'[l] \in 0 .. Delivered[l]
  BY <1>1 DEF Commit, TypeOK, Sound
<1>6. doc' \in [Returns -> Documents]
  <2>1. t.draft \in Documents
        /\ t.outcome \in {"keep", "authorized", "completed", "cancelled"}
    BY <1>1 DEF Transactions
  <2>2. CASE t.outcome = "keep"
    BY <1>1, <2>2 DEF Commit, TypeOK
  <2>3. CASE t.outcome # "keep"
    <3> DEFINE d == IF t.draft = NotWritten THEN doc[t.doc] ELSE t.draft
    <3>1. doc' = [doc EXCEPT ![t.doc] = Written(d, t.outcome)]
      BY <2>3 DEF Commit
    <3>2. t.doc \in Returns => Written(d, t.outcome) \in Documents
      BY <1>1, <2>1, <2>3, WrittenType DEF TypeOK
    <3> HIDE DEF d
    <3>3. QED
      BY <1>1, <3>1, <3>2 DEF TypeOK
  <2>4. QED
    BY <2>2, <2>3
<1>7. issued' \in [Returns -> Int]
  <2>1. t.grant \in Nat /\ t.debit \in Nat
    BY <1>1 DEF Transactions
  <2>2. issued' = [i \in Returns |-> IF i = t.doc
                      THEN issued[i] + t.grant - t.debit ELSE issued[i]]
    BY DEF Commit
  <2> HIDE DEF t
  <2>3. QED
    BY <1>1, <2>1, <2>2 DEF TypeOK
<1>8. credit' \in [Customers -> Int]
  BY CommitCredit
<1>9. txn' \in [Requests -> Transactions]
  BY <1>1, IdleType DEF Commit, TypeOK
<1>10. QED
  BY <1>2, <1>3, <1>4, <1>5, <1>6, <1>7, <1>8, <1>9 DEF TypeOK

\* What a commit makes of a document: nothing, or the document its own
\* transaction was filed with.
LEMMA CommitDocument ==
    ASSUME MoneyInv, NEW r \in Requests, Commit(r), NEW i \in Returns
    PROVE  LET t == txn[r]
           IN  /\ i # t.doc => doc'[i] = doc[i] /\ issued'[i] = issued[i]
               /\ i = t.doc => issued'[i] = issued[i] + t.grant - t.debit
               /\ i = t.doc /\ t.draft # NotWritten =>
                     doc'[i].state = t.outcome /\ doc'[i].order = t.draft.order
               /\ i = t.doc /\ t.draft = NotWritten =>
                     /\ doc'[i].order = doc[i].order
                     /\ doc'[i].state =
                           IF t.outcome = "keep" THEN doc[i].state ELSE t.outcome
<1> DEFINE t == txn[r]
<1>1. t \in Transactions /\ Proper(t) /\ TypeOK
  BY DEF Commit, MoneyInv, Proper, Sound
<1>2. t.draft \in Documents /\ doc \in [Returns -> Documents]
      /\ t.outcome \in {"keep", "authorized", "completed", "cancelled"}
  BY <1>1 DEF Transactions, TypeOK
<1>3. /\ i # t.doc => doc'[i] = doc[i] /\ issued'[i] = issued[i]
      /\ i = t.doc => issued'[i] = issued[i] + t.grant - t.debit
  BY <1>1 DEF Commit, TypeOK
<1>4. CASE i = t.doc /\ t.outcome = "keep"
  <2>1. doc'[i] = doc[i] /\ t.draft = NotWritten
    BY <1>1, <1>4 DEF Commit, Proper, Filed
  <2>2. QED
    BY <1>3, <1>4, <2>1
<1>5. CASE i = t.doc /\ t.outcome # "keep"
  <2> DEFINE d == IF t.draft = NotWritten THEN doc[i] ELSE t.draft
  <2>1. d \in Documents
    BY <1>2
  <2>2. doc'[i] = Written(d, t.outcome)
    BY <1>2, <1>5 DEF Commit
  <2>3. doc'[i].order = d.order /\ doc'[i].state = t.outcome
    BY <1>2, <1>5, <2>1, <2>2, WrittenType
  <2>4. QED
    BY <1>3, <1>5, <2>3
<1>6. QED
  BY <1>3, <1>4, <1>5

LEMMA CommitDocs ==
    ASSUME MoneyInv, NEW r \in Requests, Commit(r)
    PROVE  DocsSettled' /\ VoidTakesCreditBack'
<1> DEFINE t == txn[r]
<1>1. t \in Transactions /\ Filed(t) /\ t.pc = "commit"
  BY DEF Commit, MoneyInv, Proper, Sound
<1>2. t.grant \in Nat /\ t.debit \in Nat
      /\ t.outcome \in {"keep", "authorized", "completed", "cancelled"}
  BY <1>1 DEF Transactions
<1> SUFFICES ASSUME NEW i \in Returns
             PROVE  /\ doc'[i].state = "none" => issued'[i] = 0
                    /\ doc'[i].order = NoOrder =>
                          /\ doc'[i].state # "authorized" /\ issued'[i] >= 0
                          /\ doc'[i].state = "cancelled" => issued'[i] = 0
  BY DEF DocsSettled, VoidTakesCreditBack
<1>3. /\ doc[i].state = "none" => issued[i] = 0
      /\ doc[i].order = NoOrder =>
            /\ doc[i].state # "authorized" /\ issued[i] >= 0
            /\ doc[i].state = "cancelled" => issued[i] = 0
      /\ issued[i] \in Int
  BY DEF MoneyInv, DocsSettled, VoidTakesCreditBack, TypeOK
<1>4. CASE i # t.doc
  BY <1>3, <1>4, CommitDocument
<1>5. CASE i = t.doc /\ t.draft # NotWritten
  <2>1. /\ issued[i] = 0 /\ t.debit = 0
        /\ t.outcome \in {"authorized", "completed"}
        /\ t.draft.order = NoOrder => t.outcome = "completed"
    BY <1>1, <1>3, <1>5 DEF Filed
  <2>2. doc'[i].state = t.outcome /\ doc'[i].order = t.draft.order
        /\ issued'[i] = issued[i] + t.grant - t.debit
    BY <1>5, CommitDocument
  <2> HIDE DEF t
  <2>3. QED
    BY <1>2, <2>1, <2>2
<1>6. CASE i = t.doc /\ t.draft = NotWritten
  <2>1. /\ doc[i].state # "none"
        /\ doc[i].order = NoOrder =>
              t.outcome = "cancelled" /\ t.grant = 0 /\ t.debit = issued[i]
    BY <1>1, <1>6 DEF Filed
  <2>2. /\ doc'[i].order = doc[i].order
        /\ doc'[i].state = IF t.outcome = "keep" THEN doc[i].state ELSE t.outcome
        /\ issued'[i] = issued[i] + t.grant - t.debit
    BY <1>6, CommitDocument
  <2> HIDE DEF t
  <2>3. QED
    BY <1>2, <1>3, <2>1, <2>2
<1>7. QED
  BY <1>4, <1>5, <1>6

\* A commit leaves the documents of other transactions as they were filed:
\* the only writer of a no-original return is a void that holds its row.
LEMMA CommitFiles ==
    ASSUME MoneyInv, NEW r \in Requests, Commit(r)
    PROVE  \A s \in Requests : Filed(txn[s])' /\ Placed(txn[s])'
<1>1. /\ txn'[r] = Idle
      /\ \A s \in Requests \ {r} : txn'[s] = txn[s]
  BY DEF Commit, MoneyInv, TypeOK
<1>2. \A s \in Requests : Placed(txn[s])'
  BY <1>1, IdleType DEF MoneyInv, Proper, Placed, Moved
<1>3. Filed(txn[r])'
  BY <1>1, IdleFields, MoneyAssumption DEF Filed
<1>4. ASSUME NEW s \in Requests \ {r} PROVE Filed(txn[s])'
  <2> DEFINE t == txn[r]
             u == txn[s]
             i == u.doc
  <2>1. Filed(t) /\ Filed(u) /\ t.pc = "commit"
    BY DEF Commit, MoneyInv, Proper
  <2>2. CASE i \notin Returns
    BY <1>1, <2>2 DEF Filed
  <2>3. CASE i \in Returns /\ i # t.doc
    <3>1. doc'[i] = doc[i] /\ issued'[i] = issued[i]
      BY <2>3, CommitDocument
    <3>2. QED
      BY <1>1, <2>1, <3>1 DEF Filed
  <2>4. CASE i \in Returns /\ i = t.doc
    <3>1. t.draft = NotWritten /\ u.draft = NotWritten
      BY <2>4 DEF MoneyInv, Apart
    <3>2. /\ doc'[i].order = doc[i].order /\ doc'[i].state # "none"
      <4>1. t.outcome \in {"keep", "authorized", "completed", "cancelled"}
        BY DEF MoneyInv, Proper, Sound, Transactions
      <4>2. doc[i].state # "none"
        BY <2>1, <2>4, <3>1 DEF Filed
      <4>3. QED
        BY <2>4, <3>1, <4>1, <4>2, CommitDocument
    <3>3. CASE doc[i].order # NoOrder /\ u.pc # "void"
      BY <1>1, <3>1, <3>2, <3>3 DEF Filed
    <3>4. CASE doc[i].order = NoOrder \/ u.pc = "void"
      <4>1. /\ doc[i].order = NoOrder /\ u.outcome = "cancelled" /\ u.grant = 0
            /\ u.pc # "void" => <<<<"return", i>>, "full">> \in u.holds
        BY <2>1, <2>4, <3>1, <3>4 DEF Filed
      <4>2. <<<<"return", i>>, "full">> \in t.holds
        BY <2>1, <2>4, <3>1, <4>1 DEF Filed
      <4>3. <<"return", i>> \in AllRows /\ "full" \in Modes
        BY <2>4 DEF AllRows, Rows, Modes
      <4>4. u.pc = "void"
        BY <4>1, <4>2, <4>3 DEF MoneyInv, Exclusive
      <4>5. QED
        BY <1>1, <3>1, <3>2, <4>1, <4>4 DEF Filed
    <3>5. QED
      BY <3>3, <3>4
  <2>5. QED
    BY <2>2, <2>3, <2>4
<1>5. QED
  BY <1>2, <1>3, <1>4

LEMMA CommitPaid ==
    ASSUME MoneyInv, NEW r \in Requests, Commit(r), NEW o \in Orders
    PROVE  /\ o # txn[r].order => Paid(o)' = Paid(o) /\ status'[o] = status[o]
           /\ o = txn[r].order =>
                 /\ Paid(o)' = Paid(o) + Moved(txn[r])
                 /\ status'[o] = IF txn[r].result = "keep" THEN status[o]
                                                           ELSE txn[r].result
<1> DEFINE t == txn[r]
<1>1. t \in Transactions /\ TypeOK
  BY DEF MoneyInv, Proper, Sound
<1>2. o # t.order => net'[o] = net[o] /\ status'[o] = status[o]
  BY <1>1 DEF Commit, TypeOK
<1>3. o = t.order =>
          /\ net'[o] = [p \in Tenders |-> net[o][p] + t.change[p]]
          /\ status'[o] = IF t.result = "keep" THEN status[o] ELSE t.result
  BY <1>1 DEF Commit, TypeOK
<1>4. /\ net[o]["money"] \in Int /\ net[o]["store_credit"] \in Int
      /\ t.change["money"] \in Int /\ t.change["store_credit"] \in Int
  BY <1>1 DEF TypeOK, Transactions, Tenders
<1> HIDE DEF t
<1>5. o = t.order => Paid(o)' = Paid(o) + Moved(t)
  BY <1>3, <1>4 DEF Paid, Moved, Tenders
<1>6. QED
  BY <1>2, <1>3, <1>5 DEF t, Paid

\* No commit pays out what another transaction still counts on, as long as
\* nobody pays out of an unlocked order.
LEMMA CommitOrders ==
    ASSUME MoneyInv, NEW r \in Requests, Commit(r)
    PROVE  OrdersKept' /\ \A s \in Requests : Collected(txn[s])'
<1> DEFINE t == txn[r]
<1>1. t \in Transactions /\ Placed(t) /\ Collected(t) /\ t.pc = "commit"
  BY DEF Commit, MoneyInv, Proper, Sound
<1>2. Moved(t) \in Int /\ \A o \in Orders : Paid(o) \in Int
  BY <1>1, MovedType, PaidType DEF MoneyInv
<1>3. /\ txn'[r] = Idle
      /\ \A s \in Requests \ {r} : txn'[s] = txn[s]
  BY DEF Commit, MoneyInv, TypeOK
<1>4. ASSUME NEW o \in Orders, Quiet \/ Alone
      PROVE  /\ Paid(o)' >= 0
             /\ Alone /\ status'[o] = "cancelled" => Paid(o)' = 0
  <2>1. /\ Paid(o) >= 0
        /\ Alone /\ status[o] = "cancelled" => Paid(o) = 0
    BY <1>4 DEF MoneyInv, OrdersKept, RefundsWithinCollected, CancelledKeepsNoMoney
  <2>2. CASE o # t.order
    BY <2>1, <2>2, CommitPaid
  <2>3. CASE o = t.order
    <3>1. /\ Paid(o) + Moved(t) >= 0
          /\ t.result = "cancelled" => Paid(o) + Moved(t) = 0
          /\ Alone /\ status[o] = "cancelled" => Paid(o) + Moved(t) = 0
      BY <1>1, <1>4, <2>3 DEF Collected, Placed
    <3>2. /\ Paid(o)' = Paid(o) + Moved(t)
          /\ status'[o] = IF t.result = "keep" THEN status[o] ELSE t.result
      BY <2>3, CommitPaid
    <3>3. QED
      BY <3>1, <3>2
  <2>4. QED
    BY <2>2, <2>3
<1>5. OrdersKept'
  BY <1>4 DEF OrdersKept, RefundsWithinCollected, CancelledKeepsNoMoney, Quiet, Alone
<1>6. Collected(txn[r])'
  BY <1>3, IdleFields, MoneyAssumption DEF Collected
<1>7. ASSUME NEW s \in Requests \ {r} PROVE Collected(txn[s])'
  <2> DEFINE u == txn[s]
  <2>1. u \in Transactions /\ Placed(u) /\ Collected(u) /\ ~Alone
    BY DEF MoneyInv, Proper, Sound, Alone
  <2>2. CASE u.order \notin Orders \/ ~Quiet
    BY <1>3, <2>1, <2>2 DEF Collected, Quiet, Alone
  <2>3. ASSUME NEW o \in Orders, o = u.order, o # t.order PROVE Collected(txn[s])'
    <3>1. Paid(o)' = Paid(o) /\ status'[o] = status[o]
      BY <2>3, CommitPaid
    <3>2. QED
      BY <1>3, <2>1, <2>3, <3>1 DEF Collected, Moved, Quiet, Alone
  <2>4. ASSUME NEW o \in Orders, o = u.order, o = t.order, Quiet
        PROVE  Collected(txn[s])'
    <3>1. Paid(o)' = Paid(o) + Moved(t) /\ Moved(u) \in Int /\ Paid(o) \in Int
      BY <1>2, <2>1, <2>4, CommitPaid, MovedType
    <3>2. /\ Paid(o) + Moved(u) >= 0 /\ Paid(o) + Moved(t) >= 0
          /\ u.op = "cancel" => Paid(o) + Moved(u) = 0
          /\ u.op = "payment" /\ u.pc # "insert" =>
                <<<<"order", o>>, "share">> \in u.holds
          /\ u.op \notin {"payment", "cancel"} => Moved(u) = 0
          /\ t.op = "payment" => <<<<"order", o>>, "share">> \in t.holds
          /\ t.op \notin {"payment", "cancel"} => Moved(t) = 0
      BY <1>1, <2>1, <2>4 DEF Collected
    <3>3. <<"order", o>> \in AllRows /\ "full" \in Modes /\ "share" \in Modes
      BY <2>4 DEF AllRows, Rows, Modes
    <3>4. /\ u.op = "payment" => Moved(u) >= 0
          /\ t.op = "payment" => Moved(t) >= 0
      BY <1>1, <2>1 DEF Placed
    <3>5. u.op = "cancel" => Moved(t) = 0
      <4> SUFFICES ASSUME u.op = "cancel" PROVE Moved(t) = 0
        OBVIOUS
      <4>1. <<<<"order", o>>, "full">> \in u.holds
        BY <2>1, <2>4 DEF Placed
      <4>2. t.op # "payment"
        BY <3>2, <3>3, <4>1 DEF MoneyInv, Exclusive
      <4>3. t.op # "cancel"
        BY <1>1, <2>4, <3>3, <4>1 DEF Placed, MoneyInv, Exclusive
      <4>4. QED
        BY <3>2, <4>2, <4>3
    <3>6. Paid(o)' + Moved(u) >= 0
          /\ (u.op = "cancel" => Paid(o)' + Moved(u) = 0)
      <4> HIDE DEF t, u
      <4>1. QED
        BY <1>2, <3>1, <3>2, <3>4, <3>5
    <3>7. QED
      BY <1>3, <2>1, <2>4, <3>2, <3>6 DEF Collected, Moved, Alone, Quiet
  <2>5. QED
    BY <2>2, <2>3, <2>4
<1>8. QED
  BY <1>5, <1>6, <1>7

LEMMA CommitKeeps ==
    ASSUME MoneyInv, NEW r \in Requests, Commit(r)
    PROVE  MoneyInv'
<1> DEFINE t == txn[r]
<1>1. t \in Transactions /\ Proper(t) /\ Sound(t) /\ Covered(t) /\ t.pc = "commit"
  BY DEF Commit, MoneyInv, Proper, Sound
<1>2. /\ txn'[r] = Idle
      /\ \A s \in Requests \ {r} : txn'[s] = txn[s]
  BY DEF Commit, MoneyInv, TypeOK
<1>3. NeverOverdrawn'
  BY CommitCredit DEF MoneyInv, NeverOverdrawn
<1>4. DocsNameLines'
  <2> SUFFICES ASSUME NEW i \in Returns, doc'[i].order \in Orders
               PROVE  doc'[i].line \in Lines
    BY DEF DocsNameLines
  <2>1. doc[i].order \in Orders => doc[i].line \in Lines
    BY DEF MoneyInv, DocsNameLines
  <2>2. CASE t.outcome = "keep" \/ i # t.doc
    <3>1. doc'[i] = doc[i]
      BY <2>2 DEF Commit, MoneyInv, TypeOK
    <3>2. QED
      BY <2>1, <3>1
  <2>3. CASE t.outcome # "keep" /\ i = t.doc
    <3> DEFINE d == IF t.draft = NotWritten THEN doc[i] ELSE t.draft
    <3>1. d \in Documents /\ (d.order \in Orders => d.line \in Lines)
      BY <1>1, <2>1 DEF Sound, Transactions, MoneyInv, TypeOK
    <3>2. doc'[i] = Written(d, t.outcome)
      BY <2>3 DEF Commit, MoneyInv, TypeOK
    <3> HIDE DEF d
    <3>3. doc'[i].order = d.order /\ doc'[i].line = d.line
      BY <3>1, <3>2, WrittenType, <2>3, <1>1 DEF Transactions
    <3>4. QED
      BY <3>1, <3>3
  <2>4. QED
    BY <2>2, <2>3
<1>5. Exclusive'
  BY <1>2, IdleFields DEF MoneyInv, Exclusive
<1>6. \A s \in Requests : Sound(txn'[s])
  BY <1>2, IdleType DEF MoneyInv, Proper
<1>7. \A s \in Requests : Covered(txn[s])'
  <2> SUFFICES ASSUME NEW s \in Requests, s # r, Checked(txn[s]),
                      NEW c \in Customers, txn[s].customer = c
               PROVE  /\ <<<<"customer", c>>, "full">> \in txn[s].holds
                      /\ credit'[c] >= txn[s].debit
    BY <1>2, IdleFields DEF Covered, Checked
  <2>1. /\ <<<<"customer", c>>, "full">> \in txn[s].holds
        /\ credit[c] >= txn[s].debit
    BY DEF MoneyInv, Proper, Covered
  <2>2. CASE t.customer = c /\ t.debit > 0
    <3>1. <<<<"customer", c>>, "full">> \in t.holds
      BY <1>1, <2>2 DEF Covered, Checked
    <3>2. <<"customer", c>> \in AllRows /\ "full" \in Modes
      BY DEF AllRows, Rows, Modes
    <3>3. QED
      BY <2>1, <3>1, <3>2 DEF MoneyInv, Exclusive
  <2>3. CASE t.customer # c \/ ~(t.debit > 0)
    <3>1. credit'[c] >= credit[c] /\ credit'[c] \in Int /\ credit[c] \in Int
      BY <2>3, CommitCredit
    <3>2. txn[s].debit \in Nat
      BY DEF MoneyInv, Proper, Sound, Transactions
    <3>3. QED
      BY <2>1, <3>1, <3>2
  <2>4. QED
    BY <2>2, <2>3
<1>8. Apart'
  BY <1>2, IdleFields, MoneyAssumption DEF MoneyInv, Apart
<1>9. QED
  BY <1>3, <1>4, <1>5, <1>6, <1>7, <1>8, CommitDocs, CommitFiles, CommitOrders,
     CommitType DEF MoneyInv, Proper

-----------------------------------------------------------------------------
(* Theorems.                                                               *)

LEMMA MoneyInit == Init => MoneyInv
<1> SUFFICES ASSUME Init PROVE MoneyInv
  OBVIOUS
<1>1. TypeOK
  BY NothingType, NotWrittenType, IdleType, MoneyAssumption
     DEF Init, TypeOK, Statuses, Live
<1>2. NeverOverdrawn /\ DocsNameLines
  BY IdleFields, MoneyAssumption DEF Init, NeverOverdrawn, DocsNameLines
<1>3. Exclusive
  BY IdleFields DEF Init, Exclusive
<1>4. \A r \in Requests : Proper(txn[r])
  BY IdleType DEF Init
<1>5. DocsSettled /\ VoidTakesCreditBack
  BY IdleFields DEF Init, DocsSettled, VoidTakesCreditBack
<1>6. Apart
  BY IdleFields DEF Init, Apart
<1>7. OrdersKept
  BY IdleFields DEF Init, OrdersKept, RefundsWithinCollected,
     CancelledKeepsNoMoney, Paid, Live
<1>8. QED
  BY <1>1, <1>2, <1>3, <1>4, <1>5, <1>6, <1>7 DEF MoneyInv

LEMMA MoneyStep == MoneyInv /\ [Next]_vars => MoneyInv'
<1> SUFFICES ASSUME MoneyInv, [Next]_vars PROVE MoneyInv'
  OBVIOUS
<1>1. CASE UNCHANGED vars
  <2>1. /\ status' = status /\ takings' = takings /\ net' = net
        /\ returned' = returned /\ doc' = doc /\ issued' = issued
        /\ credit' = credit /\ txn' = txn
    BY <1>1 DEF vars, tables
  <2>2. /\ TypeOK' /\ NeverOverdrawn' /\ DocsNameLines' /\ Exclusive'
        /\ DocsSettled' /\ VoidTakesCreditBack' /\ Apart'
    BY <2>1 DEF MoneyInv, TypeOK, NeverOverdrawn, DocsNameLines, Exclusive,
       DocsSettled, VoidTakesCreditBack, Apart
  <2>3. OrdersKept'
    BY <2>1 DEF MoneyInv, OrdersKept, RefundsWithinCollected,
       CancelledKeepsNoMoney, Paid, Quiet, Alone
  <2>4. \A r \in Requests : Proper(txn[r])'
    BY <2>1 DEF MoneyInv, Proper, Sound, Covered, Checked, Filed, Placed,
       Moved, Collected, Paid, Quiet, Alone
  <2>5. QED
    BY <2>2, <2>3, <2>4 DEF MoneyInv
<1>2. ASSUME NEW r \in Requests, BeginSome(r) PROVE MoneyInv'
  <2>1. ASSUME NEW o \in Orders, NEW to \in Refunds,
               NEW cents \in 1 .. Total[o] + MaxCredit, BeginAdjust(r, o, cents, to)
        PROVE  MoneyInv'
    <3>1. cents \in Nat
      OBVIOUS
    <3>2. QED
      BY <2>1, <3>1, AdjustBegins
  <2>2. ASSUME NEW i \in Returns, NEW c \in Customers, NEW cents \in 1 .. MaxCredit,
               BeginNoOriginal(r, i, c, cents)
        PROVE  MoneyInv'
    <3>1. cents \in Nat
      OBVIOUS
    <3>2. QED
      BY <2>2, <3>1, NoOriginalBegins
  <2>3. QED
    BY <1>2, <2>1, <2>2, PaymentBegins, CancelBegins, AuthorizeBegins, ReceiveBegins,
       CancelReturnBegins, VoidBegins DEF BeginSome
<1>3. ASSUME NEW r \in Requests, Advance(r) PROVE MoneyInv'
  BY <1>3, InsertKeeps, ReceiveOwnKeeps, WriteLineKeeps, WriteReturnKeeps,
     VoidReturnKeeps, RedeemKeeps, SettleKeeps, CommitKeeps DEF Advance
<1>4. QED
  BY <1>1, <1>2, <1>3, AbortKeeps DEF Next

\* The invariant holds in every reachable state.
THEOREM MoneyInvHolds == Spec => []MoneyInv
BY MoneyInit, MoneyStep, PTL DEF Spec

\* Every variable keeps its type: in particular a line never has more units
\* returned than were delivered, whatever returns are received at once.
THEOREM MoneyTypeCorrect == Spec => []TypeOK
<1>1. MoneyInv => TypeOK
  BY DEF MoneyInv
<1>2. QED
  BY <1>1, MoneyInvHolds, PTL

\* No customer's store credit is ever below zero (redeem and void of
\* store-credit.service.ts and order-returns.controller.ts).
THEOREM NeverOverdrawnHolds == Spec => []NeverOverdrawn
<1>1. MoneyInv => NeverOverdrawn
  BY DEF MoneyInv
<1>2. QED
  BY <1>1, MoneyInvHolds, PTL

\* A no-original return that was voided has left the customer nothing
\* (order-returns.controller.ts: the void re-reads the document it has locked).
THEOREM VoidTakesCreditBackHolds == Spec => []VoidTakesCreditBack
<1>1. MoneyInv => VoidTakesCreditBack
  BY DEF MoneyInv
<1>2. QED
  BY <1>1, MoneyInvHolds, PTL

\* Payments, deposits of cancelled orders, returns that are only announced and
\* the returns without an order never pay out more than was collected, in any
\* interleaving: the cancellation holds the order's row while it pays out.
THEOREM RefundsWithinCollectedHolds ==
    Quiet => (Spec => []RefundsWithinCollected)
<1> SUFFICES ASSUME Quiet PROVE Spec => []RefundsWithinCollected
  OBVIOUS
<1>1. MoneyInv => RefundsWithinCollected
  BY DEF MoneyInv, OrdersKept
<1>2. QED
  BY <1>1, MoneyInvHolds, PTL

\* With all the handlers, requests that follow one another keep both: refunds
\* stay within what was collected and a cancelled order keeps no money.
THEOREM CancelledKeepsNoMoneyHolds ==
    Alone => (Spec => [](RefundsWithinCollected /\ CancelledKeepsNoMoney))
<1> SUFFICES ASSUME Alone
             PROVE  Spec => [](RefundsWithinCollected /\ CancelledKeepsNoMoney)
  OBVIOUS
<1>1. MoneyInv => RefundsWithinCollected /\ CancelledKeepsNoMoney
  BY DEF MoneyInv, OrdersKept
<1>2. QED
  BY <1>1, MoneyInvHolds, PTL

\* The requests implement the ledger: every step issues credit to one
\* customer, debits one from a balance that covers it, or leaves it alone.
THEOREM LedgerHolds == Spec => LedgerKeepsItsPromise
<1>1. Init => Ledger!Init
  BY DEF Init, Ledger!Init
<1>2. MoneyInv /\ [Next]_vars => [Ledger!Next]_credit
  <2> SUFFICES ASSUME MoneyInv, [Next]_vars PROVE [Ledger!Next]_credit
    OBVIOUS
  <2>1. ASSUME NEW r \in Requests, Commit(r) PROVE [Ledger!Next]_credit
    <3> DEFINE t == txn[r]
    <3>1. CASE t.customer \in Customers
      BY <2>1, <3>1, CommitCredit DEF Ledger!Next, Ledger!Issue, Ledger!Debit
    <3>2. CASE t.customer \notin Customers
      BY <2>1, <3>2, CommitCredit
    <3>3. QED
      BY <3>1, <3>2
  <2>2. ASSUME NEW r \in Requests, BeginSome(r) PROVE UNCHANGED tables
    <3>1. \A op, rec : Begin(r, op, rec) => UNCHANGED tables
      BY DEF Begin
    <3>2. /\ \A o, x, y : BeginPayment(r, o, x, y) => UNCHANGED tables
          /\ \A o, x : BeginCancel(r, o, x) => UNCHANGED tables
          /\ \A o, x, y : BeginAdjust(r, o, x, y) => UNCHANGED tables
      <4>1. \A o, x, y : BeginPayment(r, o, x, y) => UNCHANGED tables
        BY <3>1, Zenon DEF BeginPayment
      <4>2. \A o, x : BeginCancel(r, o, x) => UNCHANGED tables
        BY <3>1, Zenon DEF BeginCancel
      <4>3. \A o, x, y : BeginAdjust(r, o, x, y) => UNCHANGED tables
        BY <3>1, Zenon DEF BeginAdjust
      <4>4. QED
        BY <4>1, <4>2, <4>3
    <3>3. \A op, i, l, x, y : BeginAuthorize(r, op, i, l, x, y) => UNCHANGED tables
      BY <3>1 DEF BeginAuthorize
    <3>4. \A i, x, y : BeginReceive(r, i) \/ BeginCancelReturn(r, i)
                          \/ BeginNoOriginal(r, i, x, y) \/ BeginVoid(r, i)
                       => UNCHANGED tables
      BY <3>1 DEF BeginReceive, BeginCancelReturn, BeginNoOriginal, BeginVoid
    <3>5. QED
      BY <2>2, <3>2, <3>3, <3>4 DEF BeginSome
  <2>3. ASSUME NEW r \in Requests, Advance(r) \/ Abort(r) PROVE Commit(r) \/ UNCHANGED tables
    BY <2>3 DEF Advance, Abort, Goes, Insert, ReceiveOwn, WriteLine, WriteReturn,
       VoidReturn, Redeem, Settle
  <2>4. UNCHANGED tables \/ UNCHANGED vars => UNCHANGED credit
    BY DEF tables, vars
  <2>5. QED
    BY <2>1, <2>2, <2>3, <2>4 DEF Next
<1>3. QED
  BY <1>1, <1>2, MoneyInvHolds, PTL DEF Spec, LedgerKeepsItsPromise, Ledger!Spec

-----------------------------------------------------------------------------
(* Receiving a return.                                                     *)

\* The document a transaction is about, as it inserts it or finds it.
Paper(t) == IF t.draft = NotWritten THEN doc[t.doc] ELSE t.draft

Receives(t) ==
    t.op \in {"receive", "dropOff"} /\ t.pc \in {"line", "post", "finish", "commit"}

\* What becomes of the return a transaction is about.  Only a receipt pays it
\* out: all of it to the original tender, or all of it as store credit.
Repays(t) ==
    /\ t.op \in {"receive", "dropOff"} => t.doc \in Returns
    /\ t.op = "receive" => Receives(t)
    /\ t.op = "dropOff" => t.pc \in {"insert", "receive"} \/ Receives(t)
    /\ t.doc \in Returns /\ Paper(t).order # NoOrder =>
          /\ t.debit = 0
          /\ Paper(t).method = "original" => t.grant = 0
    /\ Receives(t) =>
          /\ t.order \in Orders /\ Paper(t).order = t.order /\ t.outcome = "completed"
          /\ Paper(t).method = "original" => Moved(t) = -Paper(t).amount
          /\ Paper(t).method # "original" => Moved(t) = 0 /\ t.grant = Paper(t).amount

\* A return of an order to the original tender has issued no store credit, and
\* what is completed has been received.
ReturnsFiled ==
    \A i \in Returns :
        /\ doc[i].order # NoOrder =>
              issued[i] >= 0 /\ (doc[i].method = "original" => issued[i] = 0)
        /\ doc[i].state = "completed" => doc[i].received

RepayInv == ReturnsFiled /\ \A r \in Requests : Repays(txn[r])

LEMMA RepaysMoves ==
    ASSUME RepayInv, NEW r \in Requests, NEW t, Repays(t),
           txn' = [txn EXCEPT ![r] = t], UNCHANGED tables
    PROVE  RepayInv'
<1>1. doc' = doc /\ issued' = issued
  BY DEF tables
<1>2. \A s \in Requests : txn'[s] = txn[s] \/ txn'[s] = t
  OBVIOUS
<1>3. \A s \in Requests : Repays(txn[s])'
  BY <1>1, <1>2 DEF RepayInv, Repays, Receives, Paper, Moved
<1>4. ReturnsFiled'
  BY <1>1 DEF RepayInv, ReturnsFiled
<1>5. QED
  BY <1>3, <1>4 DEF RepayInv

\* A transaction that is about no return.
LEMMA RepaysNone ==
    ASSUME NEW t, t.doc = NoReturn, t.op \notin {"receive", "dropOff"}
    PROVE  Repays(t)
BY MoneyAssumption DEF Repays, Receives

LEMMA RepaysIdle == Repays(Idle)
BY RepaysNone, IdleFields

LEMMA RepaysBegins ==
    ASSUME RepayInv, NEW r \in Requests, NEW op, NEW rec, Begin(r, op, rec),
           Repays([rec EXCEPT !.op = op])
    PROVE  RepayInv'
BY RepaysMoves DEF Begin

\* A step that keeps the plan.
LEMMA RepaysOn ==
    ASSUME NEW t, NEW u, Repays(t), u.doc = t.doc, u.draft = t.draft, u.op = t.op,
           u.order = t.order, u.change = t.change, u.grant = t.grant,
           u.outcome = t.outcome, u.debit = t.debit,
           t.op \in {"receive", "dropOff"} =>
               /\ Receives(u) <=> Receives(t)
               /\ Receives(u) \/ u.pc = "receive"
    PROVE  Repays(u)
<1>1. Moved(u) = Moved(t) /\ Paper(u) = Paper(t)
  BY DEF Moved, Paper
<1>2. t.op \notin {"receive", "dropOff"} => ~Receives(u) /\ ~Receives(t)
  BY DEF Receives
<1>3. QED
  BY <1>1, <1>2 DEF Repays

-----------------------------------------------------------------------------
(* The handlers.                                                           *)

LEMMA RepaysOrder ==
    ASSUME MoneyInv, RepayInv, NEW r \in Requests, NEW o \in Orders,
           \/ \E tender \in Tenders, cents \in 1 .. Total[o] : BeginPayment(r, o, tender, cents)
           \/ \E to \in Refunds :
                 \/ BeginCancel(r, o, to)
                 \/ \E cents \in 1 .. Total[o] + MaxCredit : BeginAdjust(r, o, cents, to)
    PROVE  RepayInv'
<1>1. ASSUME NEW tender \in Tenders, NEW cents \in 1 .. Total[o], BeginPayment(r, o, tender, cents)
      PROVE  RepayInv'
  <2> DEFINE rec == [Idle EXCEPT !.pc = "insert", !.order = o, !.customer = CustomerOf[o],
                          !.took = <<[tender |-> tender, cents |-> cents]>>,
                          !.change[tender] = cents,
                          !.debit = IF tender = "store_credit" THEN cents ELSE 0]
             u == [rec EXCEPT !.op = "payment"]
  <2>1. Begin(r, "payment", rec)
    BY <1>1 DEF BeginPayment
  <2>2. u.doc = NoReturn /\ u.op = "payment"
    BY DEF Idle
  <2> HIDE DEF rec
  <2>3. QED
    BY <2>1, <2>2, RepaysNone, RepaysBegins
<1>2. ASSUME NEW to \in Refunds, BeginCancel(r, o, to) PROVE RepayInv'
  <2>1. PICK slice : Begin(r, "cancel", Lock(CancelPlan(o, to, slice), <<"order", o>>, "full"))
    BY <1>2 DEF BeginCancel
  <2> DEFINE rec == Lock(CancelPlan(o, to, slice), <<"order", o>>, "full")
             u == [rec EXCEPT !.op = "cancel"]
  <2>2. u.doc = NoReturn /\ u.op = "cancel"
    BY DEF CancelPlan, Lock, Idle
  <2> HIDE DEF rec
  <2>3. QED
    BY <2>1, <2>2, RepaysNone, RepaysBegins DEF rec
<1>3. ASSUME NEW to \in Refunds, NEW cents \in 1 .. Total[o] + MaxCredit,
             BeginAdjust(r, o, cents, to)
      PROVE  RepayInv'
  <2> DEFINE rec(slice) ==
                 [Idle EXCEPT !.pc = "insert", !.order = o,
                       !.customer = CustomerOf[o],
                       !.change = IF to = "store_credit" THEN @
                                                         ELSE Refund(cents, slice),
                       !.grant = IF to = "store_credit" THEN cents ELSE 0]
             u(slice) == [rec(slice) EXCEPT !.op = "adjust"]
  <2>1. PICK slice : Begin(r, "adjust", rec(slice))
    BY <1>3 DEF BeginAdjust
  <2>2. u(slice).doc = NoReturn /\ u(slice).op = "adjust"
    BY DEF Idle
  <2> HIDE DEF rec
  <2>3. QED
    BY <2>1, <2>2, RepaysNone, RepaysBegins
<1>4. QED
  BY <1>1, <1>2, <1>3

LEMMA RepaysAuthorize ==
    ASSUME MoneyInv, RepayInv, NEW r \in Requests, NEW op \in {"authorize", "dropOff"},
           NEW i \in Returns, NEW l \in Lines, NEW units \in 1 .. Delivered[l],
           NEW method \in Refunds, BeginAuthorize(r, op, i, l, units, method)
    PROVE  RepayInv'
<1> DEFINE o == OrderOf[l]
           draft == [state |-> "authorized", order |-> o,
                     customer |-> NoCustomer, line |-> l,
                     units |-> units, amount |-> Price[l] * units,
                     method |-> method, received |-> FALSE]
           rec == [Idle EXCEPT !.pc = "insert", !.order = o, !.doc = i,
                     !.outcome = "authorized", !.draft = draft]
           u == [rec EXCEPT !.op = op]
<1>1. Begin(r, op, rec)
  BY DEF BeginAuthorize
<1>2. u.doc = i /\ u.op = op /\ u.pc = "insert" /\ u.debit = 0 /\ u.grant = 0
  BY DEF Idle
<1> HIDE DEF rec
<1>3. Repays(u)
  BY <1>2 DEF Repays, Receives
<1>4. QED
  BY <1>1, <1>3, RepaysBegins

\* What a receipt plans for the return it has read.
LEMMA ReceiptRepays ==
    ASSUME MoneyInv, NEW t \in Transactions, NEW d \in Documents, Receivable(d),
           d.order \in Orders => d.line \in Lines,
           NEW slice \in 0 .. d.amount, Moved(t) = 0, t.debit = 0, t.doc \in Returns,
           Paper(t) = d,
           NEW op \in {"receive", "dropOff"}
    PROVE  Repays([ReceivePlan(t, d, slice) EXCEPT !.op = op])
<1> DEFINE p == ReceivePlan(t, d, slice)
           u == [p EXCEPT !.op = op]
<1>1. /\ p \in Transactions /\ p.draft = t.draft /\ p.debit = 0 /\ p.pc = "line"
      /\ p.order = d.order /\ d.order \in Orders /\ p.outcome = "completed" /\ p.doc = t.doc
      /\ Moved(p) = IF d.method = "original" THEN -d.amount ELSE 0
  BY ReceivePlanType DEF MoneyInv
<1>2. p.grant = IF d.method = "original" THEN 0 ELSE d.amount
  BY DEF ReceivePlan, Transactions
<1> HIDE DEF p
<1>3. /\ u.draft = p.draft /\ u.debit = p.debit /\ u.pc = "line" /\ u.order = p.order
      /\ u.outcome = p.outcome /\ u.doc = p.doc /\ u.change = p.change /\ u.grant = p.grant
      /\ u.op = op
  BY <1>1 DEF Transactions
<1> HIDE DEF u
<1>4. Moved(u) = Moved(p) /\ Paper(u) = d
  BY <1>1, <1>3 DEF Moved, Paper
<1>5. Repays(u)
  BY <1>1, <1>2, <1>3, <1>4 DEF Repays, Receives
<1>6. QED
  BY <1>5 DEF u, p

LEMMA RepaysReceive ==
    ASSUME MoneyInv, RepayInv, NEW r \in Requests, NEW i \in Returns, BeginReceive(r, i)
    PROVE  RepayInv'
<1> DEFINE t == [Idle EXCEPT !.doc = i]
<1>1. Receivable(doc[i])
  BY DEF BeginReceive
<1>2. PICK slice \in 0 .. doc[i].amount : Begin(r, "receive", ReceivePlan(t, doc[i], slice))
  BY DEF BeginReceive
<1>3. t \in Transactions /\ t.draft = NotWritten /\ t.debit = 0 /\ t.doc = i /\ Moved(t) = 0
  BY IdleType, IdleFields DEF Transactions, Moved
<1> HIDE DEF t
<1>4. doc[i] \in Documents /\ (doc[i].order \in Orders => doc[i].line \in Lines) /\ Paper(t) = doc[i]
  BY <1>3 DEF MoneyInv, TypeOK, DocsNameLines, Paper
<1>5. Repays([ReceivePlan(t, doc[i], slice) EXCEPT !.op = "receive"])
  BY <1>1, <1>3, <1>4, ReceiptRepays
<1>6. QED
  BY <1>2, <1>5, RepaysBegins

LEMMA RepaysReturn ==
    ASSUME MoneyInv, RepayInv, NEW r \in Requests, NEW i \in Returns,
           \/ BeginCancelReturn(r, i)
           \/ \E c \in Customers, cents \in 1 .. MaxCredit : BeginNoOriginal(r, i, c, cents)
           \/ BeginVoid(r, i)
    PROVE  RepayInv'
<1>1. CASE BeginCancelReturn(r, i)
  <2> DEFINE rec == [Idle EXCEPT !.pc = "finish", !.doc = i, !.outcome = "cancelled"]
             u == [rec EXCEPT !.op = "cancelReturn"]
  <2>1. Begin(r, "cancelReturn", rec)
    BY <1>1 DEF BeginCancelReturn
  <2>2. u.op = "cancelReturn" /\ u.debit = 0 /\ u.grant = 0
    BY DEF Idle
  <2> HIDE DEF rec
  <2>3. Repays(u)
    BY <2>2 DEF Repays, Receives
  <2>4. QED
    BY <2>1, <2>3, RepaysBegins
<1>2. ASSUME NEW c \in Customers, NEW cents \in 1 .. MaxCredit, BeginNoOriginal(r, i, c, cents)
      PROVE  RepayInv'
  <2> DEFINE draft == [NotWritten EXCEPT !.state = "completed",
                               !.customer = c, !.amount = cents,
                               !.method = "store_credit", !.received = TRUE]
             rec == [Idle EXCEPT !.pc = "insert", !.customer = c, !.doc = i,
                 !.grant = cents, !.outcome = "completed", !.draft = draft]
             u == [rec EXCEPT !.op = "noOriginal"]
  <2>1. Begin(r, "noOriginal", rec)
    BY <1>2 DEF BeginNoOriginal
  <2>2. u.op = "noOriginal" /\ u.draft = draft
    BY DEF Idle
  <2>3. draft.order = NoOrder /\ draft # NotWritten
    BY DEF NotWritten
  <2> HIDE DEF rec, draft
  <2>4. Repays(u)
    BY <2>2, <2>3 DEF Repays, Receives, Paper
  <2>5. QED
    BY <2>1, <2>4, RepaysBegins
<1>3. CASE BeginVoid(r, i)
  <2> DEFINE rec == [Idle EXCEPT !.pc = "void", !.doc = i, !.customer = doc[i].customer,
                          !.outcome = "cancelled"]
             u == [rec EXCEPT !.op = "void"]
  <2>1. Begin(r, "void", rec) /\ doc[i].order = NoOrder
    BY <1>3 DEF BeginVoid
  <2>2. u.op = "void" /\ u.draft = NotWritten /\ u.doc = i
    BY DEF Idle
  <2> HIDE DEF rec
  <2>3. Repays(u)
    BY <2>1, <2>2 DEF Repays, Receives, Paper
  <2>4. QED
    BY <2>1, <2>3, RepaysBegins
<1>4. QED
  BY <1>1, <1>2, <1>3

-----------------------------------------------------------------------------
(* The steps.                                                              *)

\* A step that takes a lock.
LEMMA RepaysLocks ==
    ASSUME MoneyInv, RepayInv, NEW r \in Requests, NEW row \in AllRows, NEW mode \in Modes,
           NEW pc \in Steps, Goes(r, [Lock(txn[r], row, mode) EXCEPT !.pc = pc]),
           txn[r].op \in {"receive", "dropOff"} =>
               \/ txn[r].pc = "insert" /\ pc = "receive"
               \/ txn[r].pc \in {"line", "post", "finish"} /\ pc \in {"post", "finish", "commit"}
    PROVE  RepayInv'
<1> DEFINE t == txn[r]
           u == [Lock(t, row, mode) EXCEPT !.pc = pc]
<1>1. t \in Transactions /\ Repays(t)
  BY DEF MoneyInv, Proper, Sound, RepayInv
<1>2. /\ u.pc = pc /\ u.debit = t.debit /\ u.draft = t.draft /\ u.doc = t.doc
      /\ u.op = t.op /\ u.order = t.order /\ u.change = t.change /\ u.grant = t.grant
      /\ u.outcome = t.outcome
  BY <1>1, LockAt
<1> HIDE DEF u
<1>3. Repays(u)
  BY <1>1, <1>2, RepaysOn DEF Receives
<1>4. QED
  BY <1>3, RepaysMoves DEF Goes, u

LEMMA RepaysInsert ==
    ASSUME MoneyInv, RepayInv, NEW r \in Requests, Insert(r)
    PROVE  RepayInv'
<1> DEFINE t == txn[r]
           row == IF t.grant > 0 THEN <<"customer", t.customer>>
                                 ELSE <<"order", t.order>>
           next == IF t.pc = "post" THEN "finish"
                   ELSE CASE t.op = "payment" -> IF t.debit > 0 THEN "redeem" ELSE "settle"
                          [] t.op = "dropOff" -> "receive"
                          [] OTHER -> "commit"
<1>1. t.pc \in {"insert", "post"} /\ Goes(r, [Lock(t, row, "share") EXCEPT !.pc = next])
  BY DEF Insert
<1>2. t \in Transactions /\ Repays(t)
  BY DEF MoneyInv, Proper, Sound, RepayInv
<1>3. row \in AllRows /\ "share" \in Modes
  BY <1>2, RowTypes DEF Modes
<1>4. next \in Steps
  BY DEF Steps
<1>5. t.op \in {"receive", "dropOff"} =>
          \/ t.pc = "insert" /\ next = "receive"
          \/ t.pc = "post" /\ next = "finish"
  BY <1>1, <1>2 DEF Repays, Receives
<1> HIDE DEF row, next
<1>6. QED
  BY <1>1, <1>3, <1>4, <1>5, RepaysLocks

LEMMA RepaysReceiveOwn ==
    ASSUME MoneyInv, RepayInv, NEW r \in Requests, ReceiveOwn(r)
    PROVE  RepayInv'
<1> DEFINE t == txn[r]
<1>1. t.pc = "receive" /\ Receivable(t.draft)
  BY DEF ReceiveOwn
<1>2. PICK slice \in 0 .. t.draft.amount : Goes(r, ReceivePlan(t, t.draft, slice))
  BY DEF ReceiveOwn
<1>3. /\ t \in Transactions /\ Repays(t) /\ Sound(t) /\ Placed(t) /\ Filed(t)
  BY DEF MoneyInv, Proper, Sound, RepayInv
<1>4. t.op = "dropOff" /\ Moved(t) = 0 /\ t.doc \in Returns
  BY <1>1, <1>3 DEF Placed, Repays
<1>5. t.draft \in Documents /\ t.draft # NotWritten
  BY <1>1, <1>3, IdleFields DEF Transactions, Receivable
<1>6. t.debit = 0 /\ Paper(t) = t.draft
  BY <1>3, <1>4, <1>5 DEF Filed, Paper
<1> DEFINE p == ReceivePlan(t, t.draft, slice)
<1>7. Repays([p EXCEPT !.op = "dropOff"])
  BY <1>1, <1>3, <1>4, <1>5, <1>6, ReceiptRepays DEF Sound
<1>8. p = [p EXCEPT !.op = "dropOff"]
  <2>1. p \in Transactions /\ p.op = "dropOff"
    BY <1>1, <1>3, <1>4, <1>5, ReceivePlanType DEF MoneyInv, Sound
  <2> HIDE DEF p
  <2>2. QED
    BY <2>1 DEF Transactions
<1>9. QED
  BY <1>2, <1>7, <1>8, RepaysMoves DEF Goes

LEMMA RepaysWrites ==
    ASSUME MoneyInv, RepayInv, NEW r \in Requests, WriteLine(r) \/ WriteReturn(r)
    PROVE  RepayInv'
<1>1. <<"line", txn[r].line>> \in AllRows /\ <<"return", txn[r].doc>> \in AllRows
      /\ "write" \in Modes /\ {"post", "commit"} \subseteq Steps
  BY RowTypes DEF MoneyInv, Proper, Sound, Modes, Steps
<1>2. QED
  BY <1>1, RepaysLocks DEF WriteLine, WriteReturn

LEMMA RepaysVoid ==
    ASSUME MoneyInv, RepayInv, NEW r \in Requests, VoidReturn(r)
    PROVE  RepayInv'
<1> DEFINE t == txn[r]
           pc == IF issued[t.doc] > 0 THEN "redeem" ELSE "commit"
           debit == Clamp(issued[t.doc])
           k == Lock(t, <<"return", t.doc>>, "full")
           u == [k EXCEPT !.pc = pc, !.debit = debit]
<1>1. t.pc = "void" /\ doc[t.doc].state = "completed" /\ Goes(r, u)
  BY DEF VoidReturn
<1>2. t \in Transactions /\ Repays(t) /\ Filed(t) /\ Sound(t)
  BY DEF MoneyInv, Proper, Sound, RepayInv
<1>3. t.doc \in Returns /\ t.draft = NotWritten /\ doc[t.doc].order = NoOrder
  BY <1>1, <1>2 DEF Sound, Filed
<1>4. t.op \notin {"receive", "dropOff"}
  BY <1>1, <1>2 DEF Repays, Receives
<1>5. u.doc = t.doc /\ u.op = t.op /\ u.draft = t.draft
  BY <1>2 DEF Lock, Transactions
<1> HIDE DEF u
<1>6. Repays(u)
  BY <1>3, <1>4, <1>5 DEF Repays, Receives, Paper
<1>7. QED
  BY <1>1, <1>6, RepaysMoves DEF Goes

LEMMA RepaysRedeem ==
    ASSUME MoneyInv, RepayInv, NEW r \in Requests, Redeem(r)
    PROVE  RepayInv'
<1> DEFINE t == txn[r]
<1>1. t.pc = "redeem"
      /\ Goes(r, [Lock(t, <<"customer", t.customer>>, "full") EXCEPT !.pc = AfterRedeem(t)])
  BY DEF Redeem
<1>2. t \in Transactions /\ Repays(t)
  BY DEF MoneyInv, Proper, Sound, RepayInv
<1>3. t.op \notin {"receive", "dropOff"}
  BY <1>1, <1>2 DEF Repays, Receives
<1>4. <<"customer", t.customer>> \in AllRows /\ "full" \in Modes /\ AfterRedeem(t) \in Steps
  BY <1>2, RowTypes DEF Modes, Steps, AfterRedeem
<1>5. QED
  BY <1>1, <1>3, <1>4, RepaysLocks

LEMMA RepaysSettle ==
    ASSUME MoneyInv, RepayInv, NEW r \in Requests, Settle(r)
    PROVE  RepayInv'
<1> DEFINE t == txn[r]
           k == Lock(t, <<"order", t.order>>, "write")
<1>1. t \in Transactions /\ Repays(t) /\ t.pc = "settle"
  BY DEF MoneyInv, Proper, Sound, RepayInv, Settle
<1>2. t.op \notin {"receive", "dropOff"}
  BY <1>1 DEF Repays, Receives
<1>3. PICK u \in {[k EXCEPT !.pc = "commit", !.result = "completed"], [t EXCEPT !.pc = "commit"]} :
          Goes(r, u)
  BY DEF Settle
<1>4. /\ u.debit = t.debit /\ u.draft = t.draft /\ u.doc = t.doc
      /\ u.op = t.op /\ u.order = t.order /\ u.change = t.change /\ u.grant = t.grant
      /\ u.outcome = t.outcome
  BY <1>1 DEF Lock, Transactions
<1>5. Repays(u)
  BY <1>1, <1>2, <1>4, RepaysOn
<1>6. QED
  BY <1>3, <1>5, RepaysMoves DEF Goes

\* What a commit writes of its document.
LEMMA CommitPaper ==
    ASSUME MoneyInv, NEW r \in Requests, Commit(r), NEW i \in Returns, i = txn[r].doc
    PROVE  LET t == txn[r]
           IN  /\ Paper(t) \in Documents
               /\ doc'[i] = IF t.outcome = "keep" THEN doc[i] ELSE Written(Paper(t), t.outcome)
               /\ doc'[i].order = Paper(t).order /\ doc'[i].method = Paper(t).method
               /\ doc'[i].amount = Paper(t).amount
               /\ t.outcome = "keep" => t.draft = NotWritten
<1> DEFINE t == txn[r]
           p == Paper(t)
<1>1. t \in Transactions /\ Filed(t) /\ TypeOK
  BY DEF MoneyInv, Proper, Sound
<1>2. p \in Documents
  BY <1>1 DEF Paper, Transactions, TypeOK
<1>3. t.outcome = "keep" => t.draft = NotWritten
  BY <1>1 DEF Filed
<1>4. doc'[i] = IF t.outcome = "keep" THEN doc[i] ELSE Written(p, t.outcome)
  BY <1>1 DEF Commit, Paper, TypeOK
<1>5. t.outcome = "keep" => doc[i] = p
  BY <1>3 DEF Paper
<1> HIDE DEF p, t
<1>6. /\ Written(p, t.outcome).order = p.order /\ Written(p, t.outcome).method = p.method
      /\ Written(p, t.outcome).amount = p.amount
  BY <1>2 DEF Written, Documents
<1>7. /\ doc'[i].order = p.order /\ doc'[i].method = p.method /\ doc'[i].amount = p.amount
  BY <1>4, <1>5, <1>6
<1>8. QED
  BY <1>2, <1>3, <1>4, <1>7 DEF p, t

LEMMA RepaysCommit ==
    ASSUME MoneyInv, RepayInv, NEW r \in Requests, Commit(r)
    PROVE  RepayInv'
<1> DEFINE t == txn[r]
<1>1. t \in Transactions /\ Filed(t) /\ TypeOK /\ Repays(t)
  BY DEF MoneyInv, Proper, Sound, RepayInv
<1>2. txn'[r] = Idle /\ \A s \in Requests \ {r} : txn'[s] = txn[s]
  BY <1>1 DEF Commit, TypeOK
<1>3. Repays(txn[r])'
  BY <1>2, IdleFields, MoneyAssumption DEF Repays, Receives
<1>4. ASSUME NEW s \in Requests \ {r} PROVE Repays(txn[s])'
  <2> DEFINE u == txn[s]
  <2>1. Repays(u)
    BY DEF RepayInv
  <2>2. CASE u.draft # NotWritten
    <3>1. Paper(u)' = Paper(u)
      BY <1>2, <2>2 DEF Paper
    <3>2. QED
      BY <1>2, <2>1, <3>1 DEF Repays, Receives, Moved
  <2>3. CASE u.draft = NotWritten /\ u.doc \in Returns
    <3>1. Paper(u) = doc[u.doc] /\ Paper(u)' = doc'[u.doc]
      BY <1>2, <2>3 DEF Paper
    <3>2. CASE u.doc # t.doc
      <4>1. Paper(u)' = Paper(u)
        BY <2>3, <3>1, <3>2, CommitDocument
      <4>2. QED
        BY <1>2, <2>1, <4>1 DEF Repays, Receives, Moved
    <3>3. CASE u.doc = t.doc
      <4>1. t.draft = NotWritten
        BY <2>3, <3>3 DEF MoneyInv, Apart
      <4>2. Paper(t) = doc[u.doc]
        BY <3>3, <4>1 DEF Paper
      <4>3. /\ Paper(u)'.order = Paper(u).order /\ Paper(u)'.method = Paper(u).method
            /\ Paper(u)'.amount = Paper(u).amount
        BY <2>3, <3>1, <3>3, <4>2, CommitPaper
      <4>4. QED
        BY <1>2, <2>1, <4>3 DEF Repays, Receives, Moved
    <3>4. QED
      BY <3>2, <3>3
  <2>4. CASE u.doc \notin Returns
    BY <1>2, <2>1, <2>4 DEF Repays, Receives, Moved
  <2>5. QED
    BY <2>2, <2>3, <2>4
<1>5. ReturnsFiled'
  <2> SUFFICES ASSUME NEW i \in Returns
               PROVE  /\ doc'[i].order # NoOrder =>
                            issued'[i] >= 0 /\ (doc'[i].method = "original" => issued'[i] = 0)
                      /\ doc'[i].state = "completed" => doc'[i].received
    BY DEF ReturnsFiled
  <2>1. /\ doc[i].order # NoOrder =>
              issued[i] >= 0 /\ (doc[i].method = "original" => issued[i] = 0)
        /\ doc[i].state = "completed" => doc[i].received
        /\ doc[i].state = "none" => issued[i] = 0
        /\ issued[i] \in Int
    BY <1>1 DEF RepayInv, ReturnsFiled, MoneyInv, DocsSettled, TypeOK
  <2>2. CASE i # t.doc
    BY <2>1, <2>2, CommitDocument
  <2>3. CASE i = t.doc
    <3> DEFINE p == Paper(t)
    <3>1. /\ p \in Documents
          /\ doc'[i] = IF t.outcome = "keep" THEN doc[i] ELSE Written(p, t.outcome)
          /\ doc'[i].order = p.order /\ doc'[i].method = p.method
      BY <2>3, CommitPaper
    <3>2. issued'[i] = issued[i] + t.grant - t.debit /\ t.grant \in Nat
      BY <1>1, <2>3, CommitDocument DEF Transactions
    <3>3. p.order # NoOrder => t.debit = 0 /\ (p.method = "original" => t.grant = 0)
      BY <1>1, <2>3 DEF Repays
    <3>4. p.order # NoOrder => issued[i] >= 0 /\ (p.method = "original" => issued[i] = 0)
      BY <1>1, <2>1, <2>3 DEF Paper, Filed
    <3>5. doc'[i].order # NoOrder =>
              issued'[i] >= 0 /\ (doc'[i].method = "original" => issued'[i] = 0)
      <4> HIDE DEF p
      <4>1. QED
        BY <2>1, <3>1, <3>2, <3>3, <3>4
    <3>6. doc'[i].state = "completed" => doc'[i].received
      <4>1. Written(p, t.outcome).state = t.outcome
            /\ (t.outcome = "completed" => Written(p, t.outcome).received)
        BY <3>1 DEF Written, Documents
      <4>2. QED
        BY <2>1, <3>1, <4>1
    <3>7. QED
      BY <3>5, <3>6
  <2>4. QED
    BY <2>2, <2>3
<1>6. QED
  BY <1>3, <1>4, <1>5 DEF RepayInv

LEMMA RepaysStep == ASSUME MoneyInv, RepayInv, [Next]_vars PROVE RepayInv'
<1>1. CASE UNCHANGED vars
  BY <1>1 DEF vars, tables, RepayInv, ReturnsFiled, Repays, Receives, Paper, Moved
<1>2. ASSUME NEW r \in Requests, BeginSome(r) PROVE RepayInv'
  BY <1>2, RepaysOrder, RepaysAuthorize, RepaysReceive, RepaysReturn DEF BeginSome
<1>3. ASSUME NEW r \in Requests, Advance(r) PROVE RepayInv'
  BY <1>3, RepaysInsert, RepaysReceiveOwn, RepaysWrites, RepaysVoid, RepaysRedeem,
     RepaysSettle, RepaysCommit DEF Advance
<1>4. ASSUME NEW r \in Requests, Abort(r) PROVE RepayInv'
  BY <1>4, RepaysIdle, RepaysMoves DEF Abort, Goes
<1>5. QED
  BY <1>1, <1>2, <1>3, <1>4 DEF Next

LEMMA RepaysInit == Init => RepayInv
BY RepaysIdle, IdleFields DEF Init, RepayInv, ReturnsFiled

LEMMA RepayInvHolds == Spec => [](MoneyInv /\ RepayInv)
<1>1. MoneyInv /\ RepayInv /\ [Next]_vars => (MoneyInv /\ RepayInv)'
  BY MoneyStep, RepaysStep
<1>2. QED
  BY <1>1, MoneyInit, RepaysInit, PTL DEF Spec

-----------------------------------------------------------------------------
(* What an order owes.                                                     *)

\* What the return i settles of the order o.
Settles(o, i) == IF i \in CompletedOf(o) THEN Clamp(doc[i].amount - issued[i]) ELSE 0

LEMMA SettledIs ==
    ASSUME MoneyInv, NEW o \in Orders
    PROVE  /\ Settled(o) = SumFunctionOnSet([i \in Returns |-> Settles(o, i)], Returns)
           /\ \A i \in Returns : Settles(o, i) \in Int
<1> DEFINE f == [i \in Returns |-> Clamp(doc[i].amount - issued[i])]
           g == [i \in Returns |-> Settles(o, i)]
           T == CompletedOf(o)
<1>1. \A i \in Returns : doc[i].amount \in Int /\ issued[i] \in Int
  BY DEF MoneyInv, TypeOK, Documents
<1>2. \A i \in Returns : Clamp(doc[i].amount - issued[i]) \in Int
  BY <1>1 DEF Clamp
<1>3. T \in SUBSET Returns /\ IsFiniteSet(Returns)
  BY MoneyAssumption DEF CompletedOf
<1>4. (\A i \in T : f[i] \in Int /\ g[i] = f[i]) /\ (\A i \in Returns \ T : g[i] = 0)
  BY <1>2, <1>3 DEF Settles
<1>5. SumFunctionOnSet(f, T) = SumFunctionOnSet(g, Returns)
  <2> HIDE DEF f, g, T
  <2>1. QED
    BY <1>3, <1>4, SumWithin
<1>6. \A i \in Returns : Settles(o, i) \in Int
  BY <1>2 DEF Settles
<1>7. QED
  BY <1>5, <1>6 DEF Settled

\* ... and after the step.
LEMMA SettledIsNext ==
    ASSUME MoneyInv', NEW o \in Orders
    PROVE  /\ Settled(o)' = SumFunctionOnSet([i \in Returns |-> Settles(o, i)'], Returns)
           /\ \A i \in Returns : Settles(o, i)' \in Int
<1> DEFINE f == [i \in Returns |-> Clamp(doc'[i].amount - issued'[i])]
           g == [i \in Returns |-> Settles(o, i)']
           T == {i \in Returns : doc'[i].order = o /\ doc'[i].state = "completed"}
<1>1. \A i \in Returns : doc'[i].amount \in Int /\ issued'[i] \in Int
  BY DEF MoneyInv, TypeOK, Documents
<1>2. \A i \in Returns : Clamp(doc'[i].amount - issued'[i]) \in Int
  BY <1>1 DEF Clamp
<1>3. T \in SUBSET Returns /\ IsFiniteSet(Returns) /\ CompletedOf(o)' = T
  BY MoneyAssumption DEF CompletedOf
<1>4. (\A i \in T : f[i] \in Int /\ g[i] = f[i]) /\ (\A i \in Returns \ T : g[i] = 0)
  BY <1>2, <1>3 DEF Settles
<1>5. SumFunctionOnSet(f, T) = SumFunctionOnSet(g, Returns)
  <2> HIDE DEF f, g, T
  <2>1. QED
    BY <1>3, <1>4, SumWithin
<1>6. \A i \in Returns : Settles(o, i)' \in Int
  BY <1>2, <1>3 DEF Settles
<1>7. Settled(o)' = SumFunctionOnSet(f, T)
  BY <1>3 DEF Settled
<1>8. QED
  BY <1>5, <1>6, <1>7

\* A sum of which one term moves.
LEMMA OneSettles ==
    ASSUME NEW f, NEW g, NEW i \in Returns, \A j \in Returns : f[j] \in Int /\ g[j] \in Int,
           \A j \in Returns \ {i} : g[j] = f[j]
    PROVE  SumFunctionOnSet(g, Returns) = SumFunctionOnSet(f, Returns) - f[i] + g[i]
BY SumUpdate, MoneyAssumption

\* A receipt that finds the return not yet received pays out what it then
\* settles.
LEMMA ReceiptSettles ==
    ASSUME MoneyInv, RepayInv, MoneyInv', NEW r \in Requests, Commit(r), Receives(txn[r]),
           doc' # doc, NEW o \in Orders
    PROVE  Settled(o)' = Settled(o) - (IF o = txn[r].order THEN Moved(txn[r]) ELSE 0)
<1> DEFINE t == txn[r]
           p == Paper(t)
<1>1. t \in Transactions /\ Repays(t) /\ Filed(t) /\ TypeOK
  BY DEF MoneyInv, Proper, Sound, RepayInv
<1>2. /\ t.doc \in Returns /\ t.outcome = "completed" /\ p.order = t.order /\ t.order \in Orders
      /\ t.debit = 0
      /\ p.method = "original" => t.grant = 0 /\ Moved(t) = -p.amount
      /\ p.method # "original" => Moved(t) = 0 /\ t.grant = p.amount
  BY <1>1, MoneyAssumption DEF Repays, Receives
<1> PICK i \in Returns : i = t.doc
  BY <1>2
<1>3. /\ p \in Documents /\ doc'[i] = Written(p, "completed")
      /\ doc'[i].order = t.order /\ doc'[i].amount = p.amount
  BY <1>2, CommitPaper
<1>4. doc'[i].state = "completed"
  BY <1>3 DEF Written, Documents
<1>5. issued'[i] = issued[i] + t.grant
  <2>1. t.grant \in Nat /\ issued[i] \in Int
    BY <1>1, <1>2 DEF Transactions, TypeOK
  <2>2. QED
    BY <1>2, <2>1, CommitDocument
<1>6. \A j \in Returns \ {i} : doc'[j] = doc[j] /\ issued'[j] = issued[j]
  BY CommitDocument
<1>7. i \notin CompletedOf(o)
  <2> SUFFICES ASSUME doc[i].state = "completed" PROVE FALSE
    BY DEF CompletedOf
  <2>1. t.draft = NotWritten
    BY <1>1, <1>2 DEF Filed
  <2>2. p = doc[i] /\ doc[i].received
    BY <1>2, <2>1 DEF Paper, RepayInv, ReturnsFiled
  <2>3. Written(p, "completed") = p
    BY <1>3, <2>2 DEF Written, Documents
  <2>4. doc' = doc
    BY <1>1, <1>2, <1>3, <1>6, <2>2, <2>3 DEF MoneyInv, TypeOK
  <2>5. QED
    BY <2>4
<1>8. \A j \in Returns \ {i} : Settles(o, j)' = Settles(o, j)
  BY <1>6 DEF Settles, CompletedOf
<1>9. /\ issued[i] \in Int /\ p.amount \in Nat
      /\ issued[i] >= 0 /\ (p.method = "original" => issued[i] = 0)
  <2>1. p.order # NoOrder
    BY <1>2, MoneyAssumption
  <2>2. t.draft # NotWritten => issued[i] = 0
    BY <1>1, <1>2 DEF Filed, MoneyInv, DocsSettled
  <2>3. t.draft = NotWritten => p = doc[i]
    BY DEF Paper
  <2>4. QED
    BY <1>1, <1>2, <1>3, <2>1, <2>2, <2>3 DEF RepayInv, ReturnsFiled, TypeOK, Documents
<1>10. Clamp(doc[i].amount - issued[i])' = -Moved(t)
  <2> DEFINE a == doc'[i].amount - issued'[i]
             m == Moved(t)
             q == p.amount
             h == issued[i]
  <2>1. a = q - (h + t.grant)
    BY <1>3, <1>5
  <2>2. Clamp(doc[i].amount - issued[i])' = Clamp(a)
    OBVIOUS
  <2>3. /\ p.method = "original" => t.grant = 0 /\ m = -q /\ h = 0
        /\ p.method # "original" => t.grant = q /\ m = 0
        /\ q \in Nat /\ h \in Int /\ h >= 0
    BY <1>2, <1>9
  <2> HIDE DEF t, p, a, m, q, h
  <2>4. Clamp(a) = -m
    BY <2>1, <2>3 DEF Clamp
  <2>5. QED
    BY <2>2, <2>4 DEF m
<1>11. Settles(o, i) = 0 /\ Settles(o, i)' = IF o = t.order THEN -Moved(t) ELSE 0
  BY <1>2, <1>3, <1>4, <1>7, <1>10 DEF Settles, CompletedOf
<1> DEFINE f == [j \in Returns |-> Settles(o, j)]
           g == [j \in Returns |-> Settles(o, j)']
<1>12. /\ Settled(o) = SumFunctionOnSet(f, Returns)
       /\ Settled(o)' = SumFunctionOnSet(g, Returns)
       /\ \A j \in Returns : f[j] \in Int /\ g[j] \in Int
  BY SettledIs, SettledIsNext
<1>13. /\ f[i] = 0 /\ g[i] = IF o = t.order THEN -Moved(t) ELSE 0
       /\ \A j \in Returns \ {i} : g[j] = f[j]
  BY <1>2, <1>8, <1>11
<1>14. SumFunctionOnSet(g, Returns) = SumFunctionOnSet(f, Returns) - f[i] + g[i]
  <2> HIDE DEF f, g
  <2>1. QED
    BY <1>12, <1>13, OneSettles
<1>15. SumFunctionOnSet(f, Returns) \in Int /\ Moved(t) \in Int
  BY <1>1, <1>12, SumIsInt, MovedType, MoneyAssumption
<1> HIDE DEF f, g, t
<1>16. QED
  BY <1>12, <1>13, <1>14, <1>15 DEF t

\* Whatever runs beside it, a receipt that takes effect leaves the balance of
\* every order as it was: what it pays out of the order, or books as store
\* credit, is what the return then settles of it (receiveGoods and
\* order-balance.ts).
THEOREM ReceivingKeepsBalanceHolds == Spec => ReceivingKeepsBalance
<1>1. ASSUME MoneyInv, RepayInv, MoneyInv', [Next]_vars, NEW r \in Requests,
             txn[r].op \in {"receive", "dropOff"}, txn[r].pc = "commit", txn'[r] = Idle,
             doc' # doc, NEW o \in Orders
      PROVE  Due(o)' = Due(o)
  <2> DEFINE t == txn[r]
  <2>1. Commit(r)
    <3>1. ~(UNCHANGED vars)
      BY <1>1 DEF vars, tables
    <3>2. PICK s \in Requests : BeginSome(s) \/ Advance(s) \/ Abort(s)
      BY <1>1, <3>1 DEF Next
    <3>3. Commit(s)
      <4>1. BeginSome(s) => doc' = doc
        <5>1. \A op, rec : Begin(s, op, rec) => doc' = doc
          BY DEF Begin, tables
        <5>2. QED
          BY <5>1 DEF BeginSome, BeginPayment, BeginCancel, BeginAuthorize, BeginReceive,
             BeginCancelReturn, BeginAdjust, BeginNoOriginal, BeginVoid
      <4>2. Insert(s) \/ ReceiveOwn(s) \/ WriteLine(s) \/ WriteReturn(s) => doc' = doc
        BY DEF Insert, ReceiveOwn, WriteLine, WriteReturn, Goes, tables
      <4>3. VoidReturn(s) \/ Redeem(s) \/ Settle(s) \/ Abort(s) => doc' = doc
        BY DEF VoidReturn, Redeem, Settle, Abort, Goes, tables
      <4>4. QED
        BY <1>1, <3>2, <4>1, <4>2, <4>3 DEF Advance
    <3>4. s = r
      <4>1. txn[r] # Idle
        BY <1>1, IdleFields
      <4>2. s # r => txn'[r] = txn[r]
        BY <1>1, <3>3 DEF Commit, MoneyInv, TypeOK
      <4>3. QED
        BY <1>1, <4>1, <4>2
    <3>5. QED
      BY <1>1, <3>3, <3>4
  <2>2. Receives(t)
    BY <1>1 DEF Receives
  <2>3. Settled(o)' = Settled(o) - (IF o = t.order THEN Moved(t) ELSE 0)
    BY <1>1, <2>1, <2>2, ReceiptSettles
  <2>4. Paid(o)' = Paid(o) + (IF o = t.order THEN Moved(t) ELSE 0)
    <3>1. Paid(o) \in Int
      BY <1>1, PaidType DEF MoneyInv
    <3>2. QED
      BY <1>1, <2>1, <3>1, CommitPaid
  <2>5. Paid(o) \in Int /\ Moved(t) \in Int /\ Settled(o) \in Int /\ Total[o] \in Int
    <3>1. Settled(o) \in Int
      <4> DEFINE f == [i \in Returns |-> Settles(o, i)]
      <4>1. Settled(o) = SumFunctionOnSet(f, Returns) /\ \A i \in Returns : f[i] \in Int
        BY <1>1, SettledIs
      <4> HIDE DEF f
      <4>2. QED
        BY <4>1, SumIsInt, MoneyAssumption
    <3>2. t \in Transactions
      BY <1>1 DEF MoneyInv, Proper, Sound
    <3>3. QED
      BY <1>1, <3>1, <3>2, PaidType, MovedType, MoneyAssumption DEF MoneyInv
  <2> HIDE DEF t
  <2>6. QED
    BY <2>3, <2>4, <2>5 DEF Due
<1>2. MoneyInv /\ RepayInv /\ MoneyInv' /\ [Next]_vars =>
          \A r \in Requests :
              (txn[r].op \in {"receive", "dropOff"} /\ txn[r].pc = "commit"
                 /\ txn'[r] = Idle /\ doc' # doc) =>
                    \A o \in Orders : Due(o)' = Due(o)
  BY <1>1
<1>3. QED
  BY <1>2, RepayInvHolds, PTL DEF Spec, ReceivingKeepsBalance

=============================================================================
