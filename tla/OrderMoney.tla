------------------------------ MODULE OrderMoney ------------------------------
(***************************************************************************)
(* The money of customer orders: payments and deposits, returns and their  *)
(* refunds, price adjustments, the deposit of a cancelled order, and the   *)
(* store-credit ledger of the customer (orders.controller.ts, the returns  *)
(* directory, order-math.ts, order-balance.ts).                            *)
(*                                                                         *)
(* A request is one READ COMMITTED transaction.  Its Begin action is the   *)
(* handler's unlocked reads and guards; it then takes the row locks its    *)
(* statements need, in their order, and commits.  A lock is <<row, mode>>: *)
(*   "share"  FOR KEY SHARE, what an INSERT takes on a row it refers to    *)
(*   "write"  FOR NO KEY UPDATE, what an UPDATE takes                      *)
(*   "full"   SELECT ... FOR UPDATE                                        *)
(***************************************************************************)
EXTENDS Integers, Sequences, SequencesExt, FiniteSetsExt

CONSTANTS
    Orders, Customers, Lines,
    Returns,         \* return documents, named before they are written
    Requests,        \* transactions in flight at once
    CustomerOf,      \* the customer of an order
    OrderOf,         \* the order of a line
    Total,           \* orders.totalCents
    Delivered,       \* order_lines.qtyFulfilled
    Price,           \* what the customer paid for a unit of a line, tax included
    Handlers,        \* the endpoints an instance calls
    MaxTakings,      \* bound: payments taken on an order
    MaxCredit,       \* bound: the balance goodwill brings a customer to
    NoOrder, NoLine, NoCustomer, NoReturn

Endpoints == {"payment", "cancel", "authorize", "dropOff", "receive",
              "cancelReturn", "adjust", "noOriginal", "void"}
Tenders == {"money", "store_credit"}

ASSUME MoneyAssumption ==
    /\ CustomerOf \in [Orders -> Customers]
    /\ OrderOf \in [Lines -> Orders]
    /\ Total \in [Orders -> Nat]
    /\ Delivered \in [Lines -> Nat]
    /\ Price \in [Lines -> Nat \ {0}]
    /\ Handlers \subseteq Endpoints
    /\ MaxTakings \in Nat /\ MaxCredit \in Nat /\ IsFiniteSet(Returns)
    /\ NoOrder \notin Orders /\ NoLine \notin Lines
    /\ NoCustomer \notin Customers /\ NoReturn \notin Returns

VARIABLES
    status,      \* orders.status; open stands for every live status but fulfilled
    takings,     \* the positive payment rows of an order, oldest first
    net,         \* the sum of an order's payment rows, by tender
    returned,    \* order_lines.qtyReturned
    doc,         \* order_returns with its one line
    issued,      \* credit entries that refer to a return, summed
    credit,      \* the sum of a customer's store_credit_entries
    txn          \* the open transaction of each request

tables == <<status, takings, net, returned, doc, issued, credit>>
vars == <<tables, txn>>

Live == {"open", "fulfilled"}
Statuses == Live \cup {"completed", "cancelled"}

NotWritten == [state |-> "none", order |-> NoOrder, customer |-> NoCustomer,
               line |-> NoLine, units |-> 0, amount |-> 0, method |-> "original",
               received |-> FALSE]

Documents ==
    [state : {"none", "authorized", "completed", "cancelled"},
     order : Orders \cup {NoOrder}, customer : Customers \cup {NoCustomer},
     line : Lines \cup {NoLine}, units : Nat, amount : Nat,
     method : {"original", "store_credit"}, received : BOOLEAN]

Nothing == [t \in Tenders |-> 0]

-----------------------------------------------------------------------------
(* Balances (order-math.ts, order-balance.ts).                             *)

Clamp(x) == IF x < 0 THEN 0 ELSE x

Paid(o) == net[o]["money"] + net[o]["store_credit"]

\* Completed returns settle what did not leave as store credit.
CompletedOf(o) == {i \in Returns : doc[i].order = o /\ doc[i].state = "completed"}

Settled(o) ==
    SumFunctionOnSet([i \in Returns |-> Clamp(doc[i].amount - issued[i])], CompletedOf(o))

\* Slip: a completed return settles nothing.
DueUnsettled(o) == Clamp(Total[o] - Paid(o))

Due(o) == Clamp(Total[o] - Paid(o) - Settled(o))

\* A refund walks the payment rows newest first and slices what each took,
\* whatever was refunded before; this is the part that falls on store credit.
CreditSlice(rows, cents) ==
    LET step(left, row) ==
            LET n == IF row.cents < left.rest THEN row.cents ELSE left.rest
            IN  [rest |-> left.rest - n,
                 credit |-> left.credit + IF row.tender = "store_credit"
                                          THEN n ELSE 0]
    IN  FoldLeft(step, [rest |-> cents, credit |-> 0], Reverse(rows)).credit

Refund(cents, slice) ==
    [t \in Tenders |-> IF t = "money" THEN slice - cents ELSE -slice]

\* Units of a line that open returns have spoken for.
Pending(l) ==
    MapThenSumSet(LAMBDA i : doc[i].units,
        {i \in Returns : doc[i].line = l /\ doc[i].state = "authorized"})

Returnable(l) == Delivered[l] - returned[l] - Pending(l)

-----------------------------------------------------------------------------
(* The open transaction of a request.  change is what its payment rows add *)
(* to the order by tender, took the positive row among them; grant and     *)
(* debit are its entries in the ledger of customer; back is the absolute   *)
(* qtyReturned it writes; draft is the document it inserts and outcome the *)
(* state of that document or of an older one; result is the order status   *)
(* it writes.                                                              *)

Steps == {"idle", "insert", "receive", "line", "post", "finish", "redeem",
          "settle", "void", "commit"}

Idle ==
    [pc |-> "idle", op |-> "none", order |-> NoOrder, customer |-> NoCustomer,
     took |-> <<>>, change |-> Nothing, grant |-> 0, debit |-> 0,
     line |-> NoLine, back |-> 0,
     doc |-> NoReturn, draft |-> NotWritten, outcome |-> "keep",
     result |-> "keep", holds |-> {}]

Rows(kind, ids) == {<<kind, id>> : id \in ids}
AllRows == Rows("order", Orders \cup {NoOrder})
           \cup Rows("customer", Customers \cup {NoCustomer})
           \cup Rows("line", Lines \cup {NoLine})
           \cup Rows("return", Returns \cup {NoReturn})
Modes == {"share", "write", "full"}

Payments == [tender : Tenders, cents : Nat]

Transactions ==
    [pc : Steps, op : Endpoints \cup {"none"}, order : Orders \cup {NoOrder},
     customer : Customers \cup {NoCustomer}, took : Seq(Payments),
     change : [Tenders -> Int], grant : Nat, debit : Nat,
     line : Lines \cup {NoLine}, back : Int, doc : Returns \cup {NoReturn},
     draft : Documents, outcome : {"keep", "authorized", "completed", "cancelled"},
     result : {"keep", "completed", "cancelled"}, holds : SUBSET (AllRows \X Modes)]

TypeOK ==
    /\ status \in [Orders -> Statuses]
    /\ takings \in [Orders -> Seq(Payments)]
    /\ net \in [Orders -> [Tenders -> Int]]
    /\ DOMAIN returned = Lines
    /\ \A l \in Lines : returned[l] \in 0 .. Delivered[l]
    /\ doc \in [Returns -> Documents]
    /\ issued \in [Returns -> Int]
    /\ credit \in [Customers -> Int]
    /\ txn \in [Requests -> Transactions]

Conflict(m, n) == m = "full" \/ n = "full" \/ (m = "write" /\ n = "write")

\* No other transaction holds the row in a mode that conflicts.
Free(r, row, mode) ==
    \A s \in Requests \ {r} : \A m \in Modes :
        <<row, m>> \in txn[s].holds => ~Conflict(mode, m)

Lock(t, row, mode) == [t EXCEPT !.holds = @ \cup {<<row, mode>>}]

\* A document number that nobody has used.
Fresh(i) == doc[i].state = "none" /\ \A s \in Requests : txn[s].doc # i

Begin(r, op, rec) ==
    /\ op \in Handlers
    /\ txn[r] = Idle
    /\ txn' = [txn EXCEPT ![r] = [rec EXCEPT !.op = op]]
    /\ UNCHANGED tables

-----------------------------------------------------------------------------
(* The handlers, up to their first lock.                                   *)

\* Slip: money is taken on an order in any state.
PaymentOnAny(r, o, tender, cents) ==
    /\ cents \in 1 .. Due(o)
    /\ Len(takings[o]) < MaxTakings
    /\ Begin(r, "payment",
             [Idle EXCEPT !.pc = "insert", !.order = o, !.customer = CustomerOf[o],
                          !.took = <<[tender |-> tender, cents |-> cents]>>,
                          !.change[tender] = cents,
                          !.debit = IF tender = "store_credit" THEN cents ELSE 0])

\* POST orders/:id/payments; the money of a split family is not modelled.
BeginPayment(r, o, tender, cents) ==
    /\ status[o] \in Live
    /\ cents \in 1 .. Due(o)
    /\ Len(takings[o]) < MaxTakings
    /\ Begin(r, "payment",
             [Idle EXCEPT !.pc = "insert", !.order = o, !.customer = CustomerOf[o],
                          !.took = <<[tender |-> tender, cents |-> cents]>>,
                          !.change[tender] = cents,
                          !.debit = IF tender = "store_credit" THEN cents ELSE 0])

\* A cancellation hands back all that was collected, slice of it on the
\* store-credit tender, or books it to the customer's ledger.
CancelPlan(o, to, slice) ==
    [Idle EXCEPT !.pc = IF Paid(o) > 0 THEN "insert" ELSE "commit",
                 !.order = o, !.customer = CustomerOf[o], !.result = "cancelled",
                 !.change = IF Paid(o) > 0 THEN Refund(Paid(o), slice) ELSE @,
                 !.grant = IF Paid(o) > 0 /\ to = "store_credit" THEN Paid(o) ELSE 0]

DepositSlice(o, to) ==
    IF to = "store_credit" THEN Clamp(Paid(o))
                           ELSE CreditSlice(takings[o], Clamp(Paid(o)))

\* Slip: the order row is read without FOR UPDATE.
CancelUnlocked(r, o, to) ==
    /\ status[o] \in Live
    /\ \E slice \in 0 .. Clamp(Paid(o)) :
          /\ slice = DepositSlice(o, to)
          /\ Begin(r, "cancel", CancelPlan(o, to, slice))

\* POST orders/:id/cancel reads the order FOR UPDATE.
BeginCancel(r, o, to) ==
    /\ Free(r, <<"order", o>>, "full")
    /\ status[o] \in Live
    /\ \E slice \in 0 .. Clamp(Paid(o)) :
          /\ slice = DepositSlice(o, to)
          /\ Begin(r, "cancel",
                   Lock(CancelPlan(o, to, slice), <<"order", o>>, "full"))

\* POST orders/:id/return, for a truck pickup or for goods in hand; a return
\* names one line, fees are not withheld.
BeginAuthorize(r, op, i, l, units, method) ==
    LET o == OrderOf[l]
    IN  /\ Fresh(i)
        /\ status[o] # "cancelled"
        /\ units \in 1 .. Returnable(l)
        /\ method = "original" => Price[l] * units <= Paid(o)
        /\ Begin(r, op,
                 [Idle EXCEPT !.pc = "insert", !.order = o, !.doc = i,
                     !.outcome = "authorized",
                     !.draft = [state |-> "authorized", order |-> o,
                                customer |-> NoCustomer, line |-> l,
                                units |-> units, amount |-> Price[l] * units,
                                method |-> method, received |-> FALSE]])

\* receiveGoods, its unlocked reads: the return d, the payments, the line.
Receivable(d) ==
    /\ d.state = "authorized" /\ d.order # NoOrder
    /\ d.method = "original" => d.amount <= Paid(d.order)
    /\ Delivered[d.line] - returned[d.line] >= d.units

ReceivePlan(t, d, slice) ==
    [t EXCEPT !.pc = "line", !.order = d.order, !.customer = CustomerOf[d.order],
              !.line = d.line, !.back = returned[d.line] + d.units,
              !.outcome = "completed",
              !.change = IF d.method = "original" THEN Refund(d.amount, slice) ELSE @,
              !.grant = IF d.method = "original" THEN 0 ELSE d.amount]

ReturnSlice(d) ==
    IF d.method = "original" THEN CreditSlice(takings[d.order], d.amount) ELSE 0

\* POST order-returns/:id/receive.
BeginReceive(r, i) ==
    /\ Receivable(doc[i])
    /\ \E slice \in 0 .. doc[i].amount :
          /\ slice = ReturnSlice(doc[i])
          /\ Begin(r, "receive", ReceivePlan([Idle EXCEPT !.doc = i], doc[i], slice))

\* POST order-returns/:id/cancel.
BeginCancelReturn(r, i) ==
    /\ doc[i].state = "authorized"
    /\ Begin(r, "cancelReturn",
             [Idle EXCEPT !.pc = "finish", !.doc = i, !.outcome = "cancelled"])

\* POST orders/:id/price-adjustment.
BeginAdjust(r, o, cents, to) ==
    /\ IF to = "store_credit"
       THEN cents \in 1 .. MaxCredit - credit[CustomerOf[o]]
       ELSE cents \in 1 .. Paid(o)
    /\ \E slice \in 0 .. cents :
          /\ slice = CreditSlice(takings[o], cents)
          /\ Begin(r, "adjust",
                   [Idle EXCEPT !.pc = "insert", !.order = o,
                       !.customer = CustomerOf[o],
                       !.change = IF to = "store_credit" THEN @
                                                         ELSE Refund(cents, slice),
                       !.grant = IF to = "store_credit" THEN cents ELSE 0])

\* POST order-returns/no-original: goods without an order, for store credit.
BeginNoOriginal(r, i, c, cents) ==
    /\ Fresh(i)
    /\ cents \in 1 .. MaxCredit - credit[c]
    /\ Begin(r, "noOriginal",
             [Idle EXCEPT !.pc = "insert", !.customer = c, !.doc = i,
                 !.grant = cents, !.outcome = "completed",
                 !.draft = [NotWritten EXCEPT !.state = "completed",
                               !.customer = c, !.amount = cents,
                               !.method = "store_credit", !.received = TRUE]])

\* POST order-returns/:id/void.
BeginVoid(r, i) ==
    /\ doc[i].state = "completed" /\ doc[i].order = NoOrder
    /\ Begin(r, "void",
             [Idle EXCEPT !.pc = "void", !.doc = i, !.customer = doc[i].customer,
                          !.outcome = "cancelled"])

-----------------------------------------------------------------------------
(* The steps of an open transaction.                                       *)

Goes(r, t) == txn' = [txn EXCEPT ![r] = t] /\ UNCHANGED tables

\* A payment row or a document refers to its order, a ledger entry to its
\* customer.
Insert(r) ==
    LET t    == txn[r]
        row  == IF t.grant > 0 THEN <<"customer", t.customer>>
                               ELSE <<"order", t.order>>
        next == IF t.pc = "post" THEN "finish"
                ELSE CASE t.op = "payment" -> IF t.debit > 0 THEN "redeem" ELSE "settle"
                       [] t.op = "dropOff" -> "receive"
                       [] OTHER -> "commit"
    IN  /\ t.pc \in {"insert", "post"}
        /\ Free(r, row, "share")
        /\ Goes(r, [Lock(t, row, "share") EXCEPT !.pc = next])

\* Goods in hand: receiveGoods follows the authorization.
ReceiveOwn(r) ==
    LET t == txn[r]
    IN  /\ t.pc = "receive"
        /\ Receivable(t.draft)
        /\ \E slice \in 0 .. t.draft.amount :
              /\ slice = ReturnSlice(t.draft)
              /\ Goes(r, ReceivePlan(t, t.draft, slice))

\* The counter is written as an absolute value.
WriteLine(r) ==
    LET t == txn[r]
    IN  /\ t.pc = "line"
        /\ Free(r, <<"line", t.line>>, "write")
        /\ Goes(r, [Lock(t, <<"line", t.line>>, "write") EXCEPT !.pc = "post"])

\* The document is written whatever its state has become.
WriteReturn(r) ==
    LET t == txn[r]
    IN  /\ t.pc = "finish"
        /\ Free(r, <<"return", t.doc>>, "write")
        /\ Goes(r, [Lock(t, <<"return", t.doc>>, "write") EXCEPT !.pc = "commit"])

\* Slip: a void takes back what is left of the credit.
VoidWhatIsLeft(r) ==
    LET t    == txn[r]
        left == credit[doc[t.doc].customer]
    IN  /\ t.pc = "void"
        /\ Free(r, <<"return", t.doc>>, "full")
        /\ doc[t.doc].state = "completed"
        /\ Goes(r, [Lock(t, <<"return", t.doc>>, "full") EXCEPT
                       !.pc = IF issued[t.doc] > 0 THEN "redeem" ELSE "commit",
                       !.debit = IF issued[t.doc] < left THEN issued[t.doc] ELSE left])

\* voidNoOriginal re-reads the document under its lock.
VoidReturn(r) ==
    LET t == txn[r]
    IN  /\ t.pc = "void"
        /\ Free(r, <<"return", t.doc>>, "full")
        /\ doc[t.doc].state = "completed"
        /\ Goes(r, [Lock(t, <<"return", t.doc>>, "full") EXCEPT
                       !.pc = IF issued[t.doc] > 0 THEN "redeem" ELSE "commit",
                       !.debit = Clamp(issued[t.doc])])

AfterRedeem(t) == IF t.op = "payment" THEN "settle" ELSE "commit"

\* Slip: the balance is read without the customer's lock.
RedeemUnlocked(r) ==
    LET t == txn[r]
    IN  /\ t.pc = "redeem"
        /\ credit[t.customer] >= t.debit
        /\ Goes(r, [t EXCEPT !.pc = AfterRedeem(t)])

\* lockCustomer, then the balance, then the debit.
Redeem(r) ==
    LET t == txn[r]
    IN  /\ t.pc = "redeem"
        /\ Free(r, <<"customer", t.customer>>, "full")
        /\ credit[t.customer] >= t.debit
        /\ Goes(r, [Lock(t, <<"customer", t.customer>>, "full") EXCEPT
                       !.pc = AfterRedeem(t)])

\* tryAutoComplete: an order handed over and paid is completed.
Settle(r) ==
    LET t    == txn[r]
        o    == t.order
        owes == Due(o) - t.change["money"] - t.change["store_credit"]
    IN  /\ t.pc = "settle"
        /\ IF status[o] = "fulfilled" /\ owes <= 0
           THEN /\ Free(r, <<"order", o>>, "write")
                /\ Goes(r, [Lock(t, <<"order", o>>, "write") EXCEPT
                               !.pc = "commit", !.result = "completed"])
           ELSE Goes(r, [t EXCEPT !.pc = "commit"])

\* The document d in its new state.
Written(d, outcome) ==
    [d EXCEPT !.state = outcome, !.received = @ \/ outcome = "completed"]

Commit(r) ==
    LET t == txn[r]
    IN  /\ t.pc = "commit"
        /\ txn' = [txn EXCEPT ![r] = Idle]
        /\ status' = IF t.result = "keep" THEN status
                     ELSE [status EXCEPT ![t.order] = t.result]
        /\ takings' = IF t.took = <<>> THEN takings
                      ELSE [takings EXCEPT ![t.order] = @ \o t.took]
        /\ net' = [o \in Orders |-> IF o = t.order
                      THEN [p \in Tenders |-> net[o][p] + t.change[p]] ELSE net[o]]
        /\ returned' = [l \in Lines |-> IF l = t.line THEN t.back ELSE returned[l]]
        /\ doc' = IF t.outcome = "keep" THEN doc
                  ELSE [doc EXCEPT ![t.doc] =
                          Written(IF t.draft = NotWritten THEN @ ELSE t.draft,
                                  t.outcome)]
        /\ issued' = [i \in Returns |-> IF i = t.doc
                         THEN issued[i] + t.grant - t.debit ELSE issued[i]]
        /\ credit' = [c \in Customers |-> IF c = t.customer
                         THEN credit[c] + t.grant - t.debit ELSE credit[c]]

\* Any error rolls the transaction back: a refused debit, a return that is no
\* longer there to void, a lost connection, the victim of a deadlock.
Abort(r) ==
    /\ txn[r] # Idle
    /\ Goes(r, Idle)

-----------------------------------------------------------------------------
Init ==
    /\ status \in [Orders -> Live]
    /\ takings = [o \in Orders |-> <<>>]
    /\ net = [o \in Orders |-> Nothing]
    /\ returned = [l \in Lines |-> 0]
    /\ doc = [i \in Returns |-> NotWritten]
    /\ issued = [i \in Returns |-> 0]
    /\ credit = [c \in Customers |-> 0]
    /\ txn = [r \in Requests |-> Idle]

Refunds == {"original", "store_credit"}

BeginSome(r) ==
    \/ \E o \in Orders :
          \/ \E tender \in Tenders, cents \in 1 .. Total[o] :
                BeginPayment(r, o, tender, cents)
          \/ \E to \in Refunds :
                \/ BeginCancel(r, o, to)
                \/ \E cents \in 1 .. Total[o] + MaxCredit : BeginAdjust(r, o, cents, to)
    \/ \E i \in Returns :
          \/ \E op \in {"authorize", "dropOff"}, l \in Lines, method \in Refunds :
                \E units \in 1 .. Delivered[l] :
                    BeginAuthorize(r, op, i, l, units, method)
          \/ BeginReceive(r, i)
          \/ BeginCancelReturn(r, i)
          \/ \E c \in Customers, cents \in 1 .. MaxCredit : BeginNoOriginal(r, i, c, cents)
          \/ BeginVoid(r, i)

Advance(r) ==
    \/ Insert(r)
    \/ ReceiveOwn(r)
    \/ WriteLine(r)
    \/ WriteReturn(r)
    \/ VoidReturn(r)
    \/ Redeem(r)
    \/ Settle(r)
    \/ Commit(r)

Next == \E r \in Requests : BeginSome(r) \/ Advance(r) \/ Abort(r)

Spec == Init /\ [][Next]_vars

-----------------------------------------------------------------------------
(* Properties.                                                             *)

\* No interleaving of tenders, voids and grants takes a customer's store
\* credit below zero: redeem and void check it under the customer's lock.
NeverOverdrawn == \A c \in Customers : credit[c] >= 0

\* What the ledger promises: credit issued at any time, debits in one step
\* from a balance that covers them.
Ledger == INSTANCE CreditLedger WITH Customers <- Customers, credit <- credit
LedgerKeepsItsPromise == Ledger!Spec

\* A no-original return that was voided has left the customer nothing.
VoidTakesCreditBack ==
    \A i \in Returns :
        (doc[i].state = "cancelled" /\ doc[i].order = NoOrder) => issued[i] = 0

\* Refunds, adjustments and cancelled deposits never pay out more than was
\* collected on the order.
RefundsWithinCollected == \A o \in Orders : Paid(o) >= 0

\* A cancelled order keeps none of the customer's money.
CancelledKeepsNoMoney ==
    \A o \in Orders : status[o] = "cancelled" => Paid(o) = 0

\* Receiving a return leaves what its order owes as it was: the customer is
\* not asked again for what has just been refunded.
ReceivingKeepsBalance ==
    [][\A r \in Requests :
          (txn[r].op \in {"receive", "dropOff"} /\ txn[r].pc = "commit"
             /\ txn'[r] = Idle /\ doc' # doc) =>
                \A o \in Orders : Due(o)' = Due(o)]_vars

\* Store credit a customer holds or has spent on orders does not vanish: only
\* voiding a no-original return takes it away.
Held(c) ==
    credit[c] + MapThenSumSet(LAMBDA o : net[o]["store_credit"],
                              {o \in Orders : CustomerOf[o] = c})

CreditNeverVanishes ==
    [][(\A r \in Requests : txn[r].op = "void" => txn'[r] = txn[r]) =>
          \A c \in Customers : Held(c)' >= Held(c)]_vars

=============================================================================
