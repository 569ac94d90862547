---------------------------- MODULE RegisterProofs ----------------------------
(***************************************************************************)
(* That the money of gift cards stays in order, for any number of cards,   *)
(* sales and registers; and that a request which a client repeats under an *)
(* idempotency key takes effect once.                                      *)
(*                                                                         *)
(* Cards.  A request that is about to write a card carries the account it  *)
(* will write.  That this account is in order follows from what it read;   *)
(* that it is still the balance that the ledger row leads to holds only    *)
(* while no other request is under way, and this is what calm says.        *)
(*                                                                         *)
(* Keys.  As long as nothing has failed, a key admits one commit, however  *)
(* many attempts race; and whatever fails, the answers are true.  LockInv  *)
(* says why: the pending row is the lock.  While it is there, one attempt  *)
(* is at work, the one whose fingerprint the row carries; a completed row  *)
(* names the one attempt that committed, and a row is only dropped by an   *)
(* attempt that has not.  It holds until the first fault.  Truth holds     *)
(* with faults: a response is stored by who committed.                     *)
(***************************************************************************)
EXTENDS Register, Idempotency, TLAPS

Account == [status : {"none", "active", "redeemed", "cancelled"}, balance : Nat]

Tender == [status : {"none", "completed", "partially_refunded", "refunded"},
           units : Nat, gift : Nat, stripe : Nat, card : Cards \cup {NoCard}]

\* An account that is empty exactly when it is redeemed.
Settled(a) ==
    a.status \in {"active", "redeemed"} => (a.status = "redeemed" <=> a.balance = 0)

Typed ==
    /\ card \in [Cards -> Account] /\ booked \in [Cards -> Int]
    /\ sale \in [Sales -> Tender]
    /\ req = [r \in Registers |-> req[r]]

\* What a request knows of its sale or its refund.
Shape(q) ==
    /\ q.pc \in {"stripe", "redeem", "sell"} =>
           q.basket \in Basket /\ (q.basket.gift > 0 => q.basket.card \in Cards)
    /\ q.pc \in {"reverse", "credit", "refund"} => q.sale \in Sales /\ q.units \in Nat
    /\ q.pc \in {"reverse", "credit"} => q.gift = 0

\* A request that is about to write a card, the card, and its ledger row.
Writing(q) ==
    \/ q.pc = "write"
    \/ q.pc = "sell" /\ q.basket.gift > 0
    \/ q.pc = "refund" /\ q.gift # 0

Target(q) == IF q.pc = "write" THEN q.card
             ELSE IF q.pc = "sell" THEN q.basket.card ELSE sale[q.sale].card

By(q) == IF q.pc = "write" THEN q.by
         ELSE IF q.pc = "sell" THEN -q.basket.gift ELSE q.gift

\* What it will write is an account in order.
Good(q) ==
    Writing(q) => /\ q.to \in Account /\ Settled(q.to) /\ q.to.status # "none"
                  /\ By(q) \in Int

\* And the row leads to it.
Fresh(q) ==
    Writing(q) => /\ Target(q) \in Cards /\ card[Target(q)].status # "none"
                  /\ q.to.balance = card[Target(q)].balance + By(q)

\* The card that paid for a sale has been issued.
PaidByKnown ==
    \A s \in Sales :
        sale[s].gift > 0 => sale[s].card \in Cards /\ card[sale[s].card].status # "none"

OneAtATime == \A q, r \in Registers : req[q] # Idle /\ req[r] # Idle => q = r

\* An inductive invariant of the cards.
IInv ==
    /\ Typed /\ EmptyIsRedeemed /\ PaidByKnown /\ LedgerReplays
    /\ \A r \in Registers : Shape(req[r]) /\ Good(req[r])
    /\ calm => OneAtATime /\ \A r \in Registers : Fresh(req[r])

-----------------------------------------------------------------------------
LEMMA IInvInit == ASSUME Init PROVE IInv
<1>1. Typed
    <2>1. card \in [Cards -> Account] /\ booked \in [Cards -> Int]
        BY DEF Init, Account
    <2>2. NoSale \in Tender
        BY DEF NoSale, Tender
    <2>3. sale \in [Sales -> Tender]
        BY <2>2 DEF Init
    <2>4. req = [r \in Registers |-> req[r]]
        BY DEF Init
    <2> QED  BY <2>1, <2>3, <2>4 DEF Typed
<1>2. EmptyIsRedeemed /\ PaidByKnown /\ LedgerReplays /\ OneAtATime
    BY DEF Init, EmptyIsRedeemed, PaidByKnown, LedgerReplays, NoSale, OneAtATime
<1>3. \A r \in Registers : Shape(req[r]) /\ Good(req[r]) /\ Fresh(req[r])
    BY DEF Init, Idle, Shape, Good, Fresh, Writing
<1> QED  BY <1>1, <1>2, <1>3 DEF IInv

\* What a request that goes to t leaves of the others: as long as it is calm
\* there are none.
LEMMA Alone1 ==
    ASSUME IInv, NEW r \in Registers, NEW t, Goes(r, t)
    PROVE  /\ req' = [q \in Registers |-> req'[q]]
           /\ req'[r] = t
           /\ \A q \in Registers : q # r => req'[q] = req[q]
           /\ calm' => calm /\ \A q \in Registers : q # r => req'[q] = Idle
<1>1. req' = [req EXCEPT ![r] = t] /\ DOMAIN req = Registers
    BY DEF Goes, IInv, Typed
<1> QED  BY <1>1 DEF Goes, Alone

\* An idle request writes nothing.
LEMMA IdleIsFine == Shape(Idle) /\ Good(Idle) /\ ~Writing(Idle) /\ Fresh(Idle)
    BY DEF Shape, Good, Writing, Fresh, Idle

\* A request moves on and touches no card.
LEMMA ReqKeeps ==
    ASSUME IInv, NEW r \in Registers, NEW t, Goes(r, t),
           Shape(t), Good(t), calm => Fresh(t), UNCHANGED <<card, booked, sale>>
    PROVE  IInv'
<1>1. Typed' /\ EmptyIsRedeemed' /\ PaidByKnown'
    BY Alone1 DEF IInv, Typed, EmptyIsRedeemed, PaidByKnown
<1>2. LedgerReplays'
    BY Alone1 DEF IInv, LedgerReplays
<1>3. \A q \in Registers : Shape(req'[q]) /\ Good(req'[q])
    BY Alone1 DEF IInv
<1>4. calm' => OneAtATime'
    BY Alone1 DEF OneAtATime
<1>5. calm' => \A q \in Registers : Fresh(req'[q])
    BY Alone1, IdleIsFine DEF IInv
<1>6. \A q \in Registers : (Shape(req[q]) /\ Good(req[q]))'
    BY <1>3 DEF Shape, Good, Writing, By
<1>7. calm' => \A q \in Registers : Fresh(req[q])'
    BY <1>5 DEF Fresh, Writing, Target, By
<1> QED  BY <1>1, <1>2, <1>4, <1>6, <1>7 DEF IInv

\* A write of a card that leads where its ledger row does.
LEMMA WriteKeeps ==
    ASSUME IInv, NEW r \in Registers, Goes(r, Idle),
           NEW c, NEW to \in Account, NEW by \in Int, Writes(c, to, by),
           Settled(to), to.status # "none",
           calm => c \in Cards /\ to.balance = card[c].balance + by,
           sale' \in [Sales -> Tender],
           \A s \in Sales : sale'[s].gift > 0 =>
               sale'[s].card \in Cards
                   /\ (sale'[s].card = c \/ card[sale'[s].card].status # "none")
    PROVE  IInv'
<1>1. /\ card' = [card EXCEPT ![c] = to]
      /\ booked' = [booked EXCEPT ![c] = @ + by]
      /\ card \in [Cards -> Account] /\ booked \in [Cards -> Int]
    BY DEF Writes, IInv, Typed
<1>2. card' \in [Cards -> Account] /\ booked' \in [Cards -> Int]
    <2>1. card' \in [Cards -> Account]
        BY <1>1
    <2>2. CASE c \in Cards
        <3>1. booked[c] + by \in Int
            BY <1>1, <2>2
        <3> QED  BY <1>1, <2>1, <3>1
    <2>3. CASE c \notin Cards
        BY <1>1, <2>1, <2>3
    <2> QED  BY <2>2, <2>3
<1>3. Typed'
    BY <1>2, Alone1 DEF Typed
<1>4. EmptyIsRedeemed'
    BY <1>1 DEF IInv, EmptyIsRedeemed, Settled
<1>5. PaidByKnown'
    BY <1>1 DEF IInv, PaidByKnown
<1>6. LedgerReplays'
    <2> SUFFICES ASSUME calm' PROVE \A d \in Cards : card'[d].balance = booked'[d]
        BY DEF LedgerReplays
    <2>1. calm /\ c \in Cards /\ to.balance = card[c].balance + by
        BY Alone1
    <2>2. \A d \in Cards : card[d].balance = booked[d]
        BY <2>1 DEF IInv, LedgerReplays
    <2> QED  BY <1>1, <2>1, <2>2
<1>7. \A q \in Registers : Shape(req'[q]) /\ Good(req'[q])
    BY Alone1, IdleIsFine DEF IInv
<1>8. \A q \in Registers : (Shape(req[q]) /\ Good(req[q]))'
    BY <1>7 DEF Shape, Good, Writing, By
<1>9. calm' => OneAtATime' /\ \A q \in Registers : Fresh(req[q])'
    <2> SUFFICES ASSUME calm' PROVE OneAtATime' /\ \A q \in Registers : Fresh(req[q])'
        OBVIOUS
    <2>1. \A q \in Registers : req'[q] = Idle
        BY Alone1
    <2>2. \A q \in Registers : ~Writing(req'[q])
        BY <2>1, IdleIsFine
    <2> QED  BY <2>1, <2>2 DEF OneAtATime, Fresh, Writing
<1> QED  BY <1>3, <1>4, <1>5, <1>6, <1>8, <1>9 DEF IInv

\* A request ends, and a sale has another status or another tender.
LEMMA SaleKeeps ==
    ASSUME IInv, NEW r \in Registers, Goes(r, Idle), UNCHANGED <<card, booked>>,
           sale' \in [Sales -> Tender],
           \A s \in Sales : sale'[s].gift > 0 =>
               sale'[s].card \in Cards /\ card[sale'[s].card].status # "none"
    PROVE  IInv'
<1>1. Typed' /\ EmptyIsRedeemed' /\ PaidByKnown'
    BY Alone1 DEF IInv, Typed, EmptyIsRedeemed, PaidByKnown
<1>2. LedgerReplays'
    BY Alone1 DEF IInv, LedgerReplays
<1>3. \A q \in Registers : Shape(req'[q]) /\ Good(req'[q])
    BY Alone1, IdleIsFine DEF IInv
<1>4. \A q \in Registers : (Shape(req[q]) /\ Good(req[q]))'
    BY <1>3 DEF Shape, Good, Writing, By
<1>5. calm' => OneAtATime' /\ \A q \in Registers : Fresh(req[q])'
    <2> SUFFICES ASSUME calm' PROVE OneAtATime' /\ \A q \in Registers : Fresh(req[q])'
        OBVIOUS
    <2>1. \A q \in Registers : req'[q] = Idle
        BY Alone1
    <2>2. \A q \in Registers : ~Writing(req'[q])
        BY <2>1, IdleIsFine
    <2> QED  BY <2>1, <2>2 DEF OneAtATime, Fresh, Writing
<1> QED  BY <1>1, <1>2, <1>4, <1>5 DEF IInv

-----------------------------------------------------------------------------
(* The handlers.                                                           *)

\* What the operations make of an account in order is an account in order.
LEMMA AdjustedIsGood ==
    ASSUME NEW a \in Account, a.status \in {"active", "redeemed"}, Settled(a),
           NEW delta \in Int, a.balance + delta >= 0
    PROVE  /\ Adjusted(a, delta) \in Account /\ Settled(Adjusted(a, delta))
           /\ Adjusted(a, delta).status # "none"
           /\ Adjusted(a, delta).balance = a.balance + delta
<1>1. a.balance \in Nat /\ a.balance + delta \in Nat
    BY DEF Account
<1>2. CASE a.balance + delta = 0
    <2>1. Adjusted(a, delta) = [status |-> "redeemed", balance |-> a.balance + delta]
        BY <1>2 DEF Adjusted
    <2> QED  BY <1>1, <1>2, <2>1 DEF Account, Settled
<1>3. CASE a.balance + delta # 0
    <2>1. Adjusted(a, delta) = [status |-> "active", balance |-> a.balance + delta]
        BY <1>3 DEF Adjusted
    <2> QED  BY <1>1, <1>3, <2>1 DEF Account, Settled
<1> QED  BY <1>2, <1>3

LEMMA ChargedIsGood ==
    ASSUME NEW a \in Account, a.status = "active", Settled(a),
           NEW amount \in Nat, a.balance >= amount
    PROVE  /\ Charged(a, amount) \in Account /\ Settled(Charged(a, amount))
           /\ Charged(a, amount).status # "none"
           /\ Charged(a, amount).balance = a.balance - amount
    BY DEF Charged, Account, Settled

LEMMA CreditedIsGood ==
    ASSUME NEW a \in Account, a.status # "none", Settled(a), NEW amount \in Nat \ {0}
    PROVE  /\ Credited(a, amount) \in Account /\ Settled(Credited(a, amount))
           /\ Credited(a, amount).status # "none"
           /\ Credited(a, amount).balance = a.balance + amount
    BY DEF Credited, Account, Settled

LEMMA CardsSettled ==
    ASSUME IInv, NEW c \in Cards
    PROVE  card[c] \in Account /\ Settled(card[c]) /\ card[c].balance \in Nat
    BY DEF IInv, Typed, EmptyIsRedeemed, Settled, Account

LEMMA AdjustKeeps ==
    ASSUME IInv, NEW r \in Registers, NEW c \in Cards,
           NEW delta \in -MaxAmount .. MaxAmount, Adjust(r, c, delta)
    PROVE  IInv'
<1> DEFINE t == [pc |-> "write", card |-> c, to |-> Adjusted(card[c], delta), by |-> delta]
<1>1. /\ card[c].status \in {"active", "redeemed"} /\ card[c].balance + delta >= 0
      /\ Goes(r, t) /\ UNCHANGED <<card, booked, sale>>
    BY DEF Adjust, saleVars
<1>2. delta \in Int
    BY RegisterAssumption
<1>3. Shape(t) /\ Good(t) /\ Fresh(t)
    BY <1>1, <1>2, CardsSettled, AdjustedIsGood DEF Shape, Good, Fresh, Writing, By, Target
<1> HIDE DEF t
<1> QED  BY <1>1, <1>3, ReqKeeps

LEMMA CancelKeeps ==
    ASSUME IInv, NEW r \in Registers, NEW c \in Cards, Cancel(r, c)
    PROVE  IInv'
<1> DEFINE t == [pc |-> "write", card |-> c, by |-> -card[c].balance,
                 to |-> [status |-> "cancelled", balance |-> 0]]
<1>1. /\ card[c].status \in {"active", "redeemed"}
      /\ Goes(r, t) /\ UNCHANGED <<card, booked, sale>>
    BY DEF Cancel, saleVars
<1>2. t.to \in Account /\ Settled(t.to) /\ t.to.status # "none"
    BY DEF Account, Settled
<1>3. Shape(t) /\ Good(t) /\ Fresh(t)
    BY <1>1, <1>2, CardsSettled DEF Shape, Good, Fresh, Writing, By, Target
<1> HIDE DEF t
<1> QED  BY <1>1, <1>3, ReqKeeps

LEMMA WriteCardKeeps ==
    ASSUME IInv, NEW r \in Registers, WriteCard(r)
    PROVE  IInv'
<1>1. /\ req[r].pc = "write" /\ Goes(r, Idle) /\ sale' = sale
      /\ Writes(req[r].card, req[r].to, req[r].by)
    BY DEF WriteCard, saleVars
<1>2. /\ req[r].to \in Account /\ Settled(req[r].to) /\ req[r].to.status # "none"
      /\ req[r].by \in Int
    BY <1>1 DEF IInv, Good, Writing, By
<1>3. calm => req[r].card \in Cards /\ req[r].to.balance = card[req[r].card].balance + req[r].by
    BY <1>1 DEF IInv, Fresh, Writing, By, Target
<1>4. sale' \in [Sales -> Tender] /\ \A s \in Sales : sale'[s].gift > 0 =>
          sale'[s].card \in Cards /\ card[sale'[s].card].status # "none"
    BY <1>1 DEF IInv, Typed, PaidByKnown
<1> QED  BY <1>1, <1>2, <1>3, <1>4, WriteKeeps

LEMMA OpenSaleKeeps ==
    ASSUME IInv, NEW r \in Registers, NEW b \in Basket, OpenSale(r, b)
    PROVE  IInv'
<1> DEFINE t == [pc |-> IF b.stripe > 0 THEN "stripe" ELSE "redeem", basket |-> b]
<1>1. Goes(r, t) /\ UNCHANGED <<card, booked, sale>> /\ (b.gift > 0 <=> b.card # NoCard)
    BY DEF OpenSale, Opens, saleVars
<1>2. b.gift > 0 => b.card \in Cards
    BY <1>1 DEF Basket
<1>3. Shape(t) /\ ~Writing(t)
    BY <1>2 DEF Shape, Writing
<1>4. Good(t) /\ Fresh(t)
    BY <1>3 DEF Good, Fresh
<1> HIDE DEF t
<1> QED  BY <1>1, <1>3, <1>4, ReqKeeps

LEMMA StripeKeeps ==
    ASSUME IInv, NEW r \in Registers, ChargeStripe(r)
    PROVE  IInv'
<1>1. PICK t \in {[req[r] EXCEPT !.pc = "redeem"], Idle} : Goes(r, t)
    BY DEF ChargeStripe
<1>2. req[r].pc = "stripe" /\ UNCHANGED <<card, booked, sale>>
    BY DEF ChargeStripe, saleVars
<1>3. CASE t = Idle
    BY <1>1, <1>2, <1>3, IdleIsFine, ReqKeeps
<1>4. CASE t = [req[r] EXCEPT !.pc = "redeem"]
    <2>1. Shape(req[r])
        BY DEF IInv
    <2>2. t.basket = req[r].basket /\ t.pc = "redeem"
        BY <1>2, <1>4
    <2>3. Shape(t) /\ ~Writing(t)
        BY <1>2, <2>1, <2>2 DEF Shape, Writing
    <2>4. Good(t) /\ Fresh(t)
        BY <2>3 DEF Good, Fresh
    <2> QED  BY <1>1, <1>2, <2>3, <2>4, ReqKeeps
<1> QED  BY <1>1, <1>3, <1>4

LEMMA RedeemKeeps ==
    ASSUME IInv, NEW r \in Registers, Redeem(r)
    PROVE  IInv'
<1> DEFINE b == req[r].basket
           t == [pc |-> "sell", basket |-> b]
           u == [pc |-> "sell", basket |-> b, to |-> Charged(card[b.card], b.gift)]
<1>1. req[r].pc = "redeem" /\ UNCHANGED <<card, booked, sale>>
    BY DEF Redeem, saleVars
<1>2. b \in Basket /\ b.gift \in Nat /\ (b.gift > 0 => b.card \in Cards)
    BY <1>1, RegisterAssumption DEF IInv, Shape, Basket, Amounts
<1>3. CASE b.gift = 0 /\ Goes(r, t)
    <2>1. Shape(t) /\ ~Writing(t)
        BY <1>2, <1>3 DEF Shape, Writing
    <2>2. Good(t) /\ Fresh(t)
        BY <2>1 DEF Good, Fresh
    <2> HIDE DEF t
    <2> QED  BY <1>1, <1>3, <2>1, <2>2, ReqKeeps
<1>4. CASE b.gift # 0 /\ Spendable(b.card, b.gift) /\ Goes(r, u)
    <2>1. b.card \in Cards /\ card[b.card].status = "active" /\ card[b.card].balance >= b.gift
        BY <1>2, <1>4 DEF Spendable
    <2> DEFINE to == Charged(card[b.card], b.gift)
    <2>2. /\ to \in Account /\ Settled(to) /\ to.status # "none"
          /\ to.balance = card[b.card].balance - b.gift
          /\ card[b.card].balance \in Nat
        BY <1>2, <2>1, CardsSettled, ChargedIsGood
    <2>3. u.pc = "sell" /\ u.basket = b /\ u.to = to
        OBVIOUS
    <2> HIDE DEF u, to
    <2>4. Target(u) = b.card /\ By(u) = -b.gift
        BY <2>3 DEF Target, By
    <2> HIDE DEF b
    <2>5. Shape(u)
        BY <1>2, <2>3 DEF Shape
    <2>6. Good(u)
        BY <1>2, <2>2, <2>3, <2>4 DEF Good
    <2>7. Fresh(u)
        BY <1>2, <2>1, <2>2, <2>3, <2>4 DEF Fresh
    <2> QED  BY <1>1, <1>4, <2>5, <2>6, <2>7, ReqKeeps
<1>5. CASE Goes(r, Idle)
    BY <1>1, <1>5, IdleIsFine, ReqKeeps
<1> QED  BY <1>3, <1>4, <1>5 DEF Redeem

LEMMA CommitSaleKeeps ==
    ASSUME IInv, NEW r \in Registers, CommitSale(r)
    PROVE  IInv'
<1> DEFINE b == req[r].basket
           new == [status |-> "completed", units |-> b.units, gift |-> b.gift,
                   stripe |-> b.stripe, card |-> b.card]
<1>1. req[r].pc = "sell" /\ Goes(r, Idle) /\ sale' = [sale EXCEPT ![b.sale] = new]
    BY DEF CommitSale
<1>2. /\ b \in Basket /\ b.gift \in Nat /\ b.units \in Nat /\ b.stripe \in Nat
      /\ b.sale \in Sales /\ b.card \in Cards \cup {NoCard}
      /\ (b.gift > 0 => b.card \in Cards)
    BY <1>1, RegisterAssumption DEF IInv, Shape, Basket, Amounts
<1>3. new \in Tender /\ new.gift = b.gift /\ new.card = b.card
    BY <1>2 DEF Tender
<1>4. /\ sale' \in [Sales -> Tender]
      /\ \A s \in Sales : sale'[s] = IF s = b.sale THEN new ELSE sale[s]
    <2> HIDE DEF new, b
    <2> QED  BY <1>1, <1>2, <1>3 DEF IInv, Typed
<1>5. CASE b.gift = 0
    <2>1. UNCHANGED <<card, booked>>
        BY <1>5 DEF CommitSale
    <2>2. \A s \in Sales : sale'[s].gift > 0 =>
              sale'[s].card \in Cards /\ card[sale'[s].card].status # "none"
        <3> HIDE DEF new
        <3> QED  BY <1>3, <1>4, <1>5 DEF IInv, PaidByKnown
    <2> QED  BY <1>1, <1>4, <2>1, <2>2, SaleKeeps
<1>6. CASE b.gift # 0
    <2>1. Writes(b.card, req[r].to, -b.gift)
        BY <1>6 DEF CommitSale
    <2>2. /\ req[r].to \in Account /\ Settled(req[r].to) /\ req[r].to.status # "none"
          /\ -b.gift \in Int
        BY <1>1, <1>2, <1>6 DEF IInv, Good, Writing
    <2>3. calm => /\ b.card \in Cards
                  /\ req[r].to.balance = card[b.card].balance + -b.gift
        BY <1>1, <1>2, <1>6 DEF IInv, Fresh, Writing, By, Target
    <2>4. \A s \in Sales : sale'[s].gift > 0 =>
              sale'[s].card \in Cards
                  /\ (sale'[s].card = b.card \/ card[sale'[s].card].status # "none")
        <3> HIDE DEF new
        <3> QED  BY <1>2, <1>3, <1>4, <1>6 DEF IInv, PaidByKnown
    <2> HIDE DEF b, new
    <2> QED  BY <1>1, <1>4, <2>1, <2>2, <2>3, <2>4, WriteKeeps
<1> QED  BY <1>5, <1>6

LEMMA OpenRefundKeeps ==
    ASSUME IInv, NEW r \in Registers, NEW s \in Sales, NEW units \in 1 .. MaxAmount,
           NEW toCredit \in BOOLEAN, OpenRefund(r, s, units, toCredit)
    PROVE  IInv'
<1> DEFINE t == [pc |-> IF toCredit THEN "refund" ELSE "reverse", sale |-> s,
                 units |-> units, before |-> refunded[s], gift |-> 0]
<1>1. Goes(r, t) /\ UNCHANGED <<card, booked, sale>>
    BY DEF OpenRefund, saleVars
<1>2. units \in Nat
    BY RegisterAssumption
<1>3. Shape(t) /\ ~Writing(t)
    BY <1>2 DEF Shape, Writing
<1>4. Good(t) /\ Fresh(t)
    BY <1>3 DEF Good, Fresh
<1> HIDE DEF t
<1> QED  BY <1>1, <1>3, <1>4, ReqKeeps

LEMMA ReverseKeeps ==
    ASSUME IInv, NEW r \in Registers, ReverseStripe(r)
    PROVE  IInv'
<1> DEFINE t == [req[r] EXCEPT !.pc = "credit"]
<1>1. req[r].pc = "reverse" /\ UNCHANGED <<card, booked, sale>>
    BY DEF ReverseStripe
<1>2. CASE Goes(r, Idle)
    BY <1>1, <1>2, IdleIsFine, ReqKeeps
<1>3. CASE Goes(r, t)
    <2>1. Shape(req[r])
        BY DEF IInv
    <2>2. t.sale = req[r].sale /\ t.units = req[r].units /\ t.gift = req[r].gift /\ t.pc = "credit"
        BY <1>1
    <2> HIDE DEF t
    <2>3. Shape(t) /\ ~Writing(t)
        BY <1>1, <2>1, <2>2 DEF Shape, Writing
    <2>4. Good(t) /\ Fresh(t)
        BY <2>3 DEF Good, Fresh
    <2> QED  BY <1>1, <1>3, <2>3, <2>4, ReqKeeps
<1> QED  BY <1>2, <1>3 DEF ReverseStripe

LEMMA CreditCardKeeps ==
    ASSUME IInv, NEW r \in Registers, CreditCard(r)
    PROVE  IInv'
<1> DEFINE s == req[r].sale
           amount == ByGift(s, req[r].units)
           c == sale[s].card
           t == [req[r] EXCEPT !.pc = "refund"]
           u == [pc |-> "refund", sale |-> s, units |-> req[r].units,
                 before |-> req[r].before, gift |-> amount,
                 to |-> Credited(card[c], amount)]
<1>1. req[r].pc = "credit" /\ UNCHANGED <<card, booked, sale>>
    BY DEF CreditCard, saleVars
<1>2. s \in Sales /\ req[r].units \in Nat
    BY <1>1 DEF IInv, Shape
<1>3. sale[s].gift \in Nat /\ sale[s].stripe \in Nat
    BY <1>2 DEF IInv, Typed, Tender
<1>4. amount \in Nat /\ amount <= sale[s].gift
    BY <1>2, <1>3 DEF ByGift, ByStripe, Smaller
<1>5. CASE Goes(r, Idle)
    BY <1>1, <1>5, IdleIsFine, ReqKeeps
<1>6. CASE amount # 0 /\ card[c].status # "cancelled" /\ Goes(r, u)
    <2>1. c \in Cards /\ card[c].status # "none"
        BY <1>2, <1>3, <1>4, <1>6 DEF IInv, PaidByKnown
    <2> DEFINE to == Credited(card[c], amount)
    <2>2. /\ to \in Account /\ Settled(to) /\ to.status # "none"
          /\ to.balance = card[c].balance + amount
        BY <1>4, <1>6, <2>1, CardsSettled, CreditedIsGood
    <2>3. u.pc = "refund" /\ u.sale = s /\ u.units = req[r].units /\ u.gift = amount /\ u.to = to
        OBVIOUS
    <2> HIDE DEF u, to, amount
    <2>4. Target(u) = c /\ By(u) = amount
        BY <2>3 DEF Target, By
    <2>5. Shape(u)
        BY <1>2, <2>3 DEF Shape
    <2> HIDE DEF c, s
    <2>6. Good(u)
        BY <1>4, <2>2, <2>3, <2>4 DEF Good
    <2>7. Fresh(u)
        BY <2>1, <2>2, <2>3, <2>4 DEF Fresh
    <2> QED  BY <1>1, <1>6, <2>5, <2>6, <2>7, ReqKeeps
<1>7. CASE Goes(r, t)
    <2>1. Shape(req[r])
        BY DEF IInv
    <2>2. t.sale = req[r].sale /\ t.units = req[r].units /\ t.gift = req[r].gift /\ t.pc = "refund"
        BY <1>1
    <2> HIDE DEF t
    <2>3. Shape(t) /\ ~Writing(t)
        BY <1>1, <2>1, <2>2 DEF Shape, Writing
    <2>4. Good(t) /\ Fresh(t)
        BY <2>3 DEF Good, Fresh
    <2> QED  BY <1>1, <1>7, <2>3, <2>4, ReqKeeps
<1> QED  BY <1>5, <1>6, <1>7 DEF CreditCard

LEMMA CommitRefundKeeps ==
    ASSUME IInv, NEW r \in Registers, CommitRefund(r)
    PROVE  IInv'
<1> DEFINE s == req[r].sale
           all == req[r].before + req[r].units >= sale[s].units
           status == IF all THEN "refunded" ELSE "partially_refunded"
<1>1. /\ req[r].pc = "refund" /\ Goes(r, Idle)
      /\ sale' = [sale EXCEPT ![s].status = status]
    BY DEF CommitRefund
<1>2. s \in Sales
    BY <1>1 DEF IInv, Shape
<1>3. /\ sale' \in [Sales -> Tender]
      /\ \A x \in Sales : sale'[x].gift = sale[x].gift /\ sale'[x].card = sale[x].card
    <2>1. status \in {"none", "completed", "partially_refunded", "refunded"}
        OBVIOUS
    <2> HIDE DEF status
    <2> QED  BY <1>1, <1>2, <2>1 DEF IInv, Typed, Tender
<1>4. \A x \in Sales : sale'[x].gift > 0 =>
          sale'[x].card \in Cards /\ card[sale'[x].card].status # "none"
    BY <1>3 DEF IInv, PaidByKnown
<1>5. CASE req[r].gift = 0
    <2>1. UNCHANGED <<card, booked>>
        BY <1>5 DEF CommitRefund
    <2> QED  BY <1>1, <1>3, <1>4, <2>1, SaleKeeps
<1>6. CASE req[r].gift # 0
    <2>1. Writes(sale[s].card, req[r].to, req[r].gift)
        BY <1>6 DEF CommitRefund
    <2>2. /\ req[r].to \in Account /\ Settled(req[r].to) /\ req[r].to.status # "none"
          /\ req[r].gift \in Int
        BY <1>1, <1>6 DEF IInv, Good, Writing, By
    <2>3. calm => /\ sale[s].card \in Cards
                  /\ req[r].to.balance = card[sale[s].card].balance + req[r].gift
        BY <1>1, <1>6 DEF IInv, Fresh, Writing, By, Target
    <2> HIDE DEF s, status
    <2> QED  BY <1>1, <1>3, <1>4, <2>1, <2>2, <2>3, WriteKeeps
<1> QED  BY <1>5, <1>6

LEMMA FailKeeps ==
    ASSUME IInv, NEW r \in Registers, Fail(r)
    PROVE  IInv'
<1>1. /\ req' = [req EXCEPT ![r] = Idle] /\ calm' = FALSE
      /\ UNCHANGED <<card, booked, sale>>
    BY DEF Fail, saleVars
<1>2. /\ req' = [q \in Registers |-> req'[q]]
      /\ \A q \in Registers : req'[q] = req[q] \/ req'[q] = Idle
    BY <1>1 DEF IInv, Typed
<1>3. Typed' /\ EmptyIsRedeemed' /\ PaidByKnown' /\ LedgerReplays'
    BY <1>1, <1>2 DEF IInv, Typed, EmptyIsRedeemed, PaidByKnown, LedgerReplays
<1>4. \A q \in Registers : Shape(req'[q]) /\ Good(req'[q])
    BY <1>2, IdleIsFine DEF IInv
<1>5. \A q \in Registers : (Shape(req[q]) /\ Good(req[q]))'
    BY <1>4 DEF Shape, Good, Writing, By
<1> QED  BY <1>1, <1>3, <1>5 DEF IInv

\* A card that is issued is one that no sale and no request knew.
LEMMA IssueKeeps ==
    ASSUME IInv, NEW c \in Cards, NEW amount \in 1 .. MaxAmount, Issue(c, amount)
    PROVE  IInv'
<1> DEFINE new == [status |-> "active", balance |-> amount]
<1>1. /\ card[c].status = "none" /\ card' = [card EXCEPT ![c] = new]
      /\ booked' = [booked EXCEPT ![c] = amount]
      /\ UNCHANGED <<sale, req, calm>>
    BY DEF Issue, saleVars
<1>2. amount \in Nat \ {0} /\ new \in Account
    BY RegisterAssumption DEF Account
<1>3. /\ card' \in [Cards -> Account] /\ booked' \in [Cards -> Int]
      /\ card'[c] = new /\ booked'[c] = amount
      /\ \A d \in Cards : d # c => card'[d] = card[d] /\ booked'[d] = booked[d]
    <2> HIDE DEF new
    <2> QED  BY <1>1, <1>2 DEF IInv, Typed
<1>4. Typed' /\ EmptyIsRedeemed' /\ LedgerReplays'
    BY <1>1, <1>2, <1>3 DEF IInv, Typed, EmptyIsRedeemed, LedgerReplays
<1>5. PaidByKnown'
    BY <1>1, <1>3 DEF IInv, PaidByKnown
<1>6. \A q \in Registers : (Shape(req[q]) /\ Good(req[q]))'
    BY <1>1 DEF IInv, Shape, Good, Writing, By
<1>7. calm' => OneAtATime' /\ \A q \in Registers : Fresh(req[q])'
    <2> SUFFICES ASSUME calm' PROVE OneAtATime' /\ \A q \in Registers : Fresh(req[q])'
        OBVIOUS
    <2>1. OneAtATime'
        BY <1>1 DEF IInv, OneAtATime
    <2>2. ASSUME NEW q \in Registers, Writing(req[q])
          PROVE  /\ Target(req[q]) \in Cards
                 /\ card'[Target(req[q])] = card[Target(req[q])]
                 /\ card[Target(req[q])].status # "none"
                 /\ req[q].to.balance = card[Target(req[q])].balance + By(req[q])
        BY <1>1, <1>3, <2>2 DEF IInv, Fresh
    <2>3. ASSUME NEW q \in Registers PROVE Fresh(req[q])'
        BY <1>1, <2>2 DEF Fresh, Writing, Target, By
    <2> QED  BY <2>1, <2>3
<1> QED  BY <1>4, <1>5, <1>6, <1>7 DEF IInv

\* A card expires, or nothing happens.
LEMMA StillKeeps ==
    ASSUME IInv, UNCHANGED <<card, booked, sale, req>>, calm' => calm
    PROVE  IInv'
<1>1. Typed' /\ EmptyIsRedeemed' /\ PaidByKnown' /\ LedgerReplays'
    BY DEF IInv, Typed, EmptyIsRedeemed, PaidByKnown, LedgerReplays
<1>2. \A q \in Registers : (Shape(req[q]) /\ Good(req[q]))'
    BY DEF IInv, Shape, Good, Writing, By
<1>3. calm' => OneAtATime' /\ \A q \in Registers : Fresh(req[q])'
    BY DEF IInv, OneAtATime, Fresh, Writing, Target, By
<1> QED  BY <1>1, <1>2, <1>3 DEF IInv

-----------------------------------------------------------------------------
LEMMA IInvStep == ASSUME IInv, [Next]_vars PROVE IInv'
<1>1. ASSUME NEW c \in Cards, Expire(c) PROVE IInv'
    <2>1. UNCHANGED <<card, booked, sale, req>> /\ (calm' => calm)
        BY <1>1 DEF Expire, saleVars
    <2> QED  BY <2>1, StillKeeps
<1>2. ASSUME NEW r \in Registers, GiftCards(r) PROVE IInv'
    BY <1>2, AdjustKeeps, CancelKeeps, WriteCardKeeps DEF GiftCards
<1>3. ASSUME NEW r \in Registers, Sell(r) PROVE IInv'
    BY <1>3, OpenSaleKeeps, StripeKeeps, RedeemKeeps, CommitSaleKeeps DEF Sell
<1>4. ASSUME NEW r \in Registers, Refund(r) PROVE IInv'
    BY <1>4, OpenRefundKeeps, ReverseKeeps, CreditCardKeeps, CommitRefundKeeps DEF Refund
<1>5. CASE UNCHANGED vars
    BY <1>5, StillKeeps DEF vars, saleVars
<1> QED  BY <1>1, <1>2, <1>3, <1>4, <1>5, IssueKeeps, FailKeeps DEF Next

\* The money of gift cards, whatever the requests do and however they overlap:
\* the status of a card and its balance are written together by every handler
\* of gift-cards.service.ts, so that no card has money that cannot be spent
\* and no empty one is taken for payment.
THEOREM EmptyIsRedeemedHolds == Spec => []EmptyIsRedeemed
<1>1. IInv => EmptyIsRedeemed
    BY DEF IInv
<1> QED  BY <1>1, IInvInit, IInvStep, PTL DEF Spec

\* The ledger of every card sums to its balance as long as no two requests
\* have overlapped and none has failed: every write of a balance is
\* accompanied by its row.
THEOREM LedgerReplaysHolds == Spec => []LedgerReplays
<1>1. IInv => LedgerReplays
    BY DEF IInv
<1> QED  BY <1>1, IInvInit, IInvStep, PTL DEF Spec

-----------------------------------------------------------------------------
(* What Stripe takes.                                                      *)

Paying(q) == q.pc \in {"stripe", "redeem"}

\* The card of a sale that Stripe may be asked to pay the rest of will do.
WillDo(q) ==
    Paying(q) /\ q.basket.gift > 0 => Spendable(q.basket.card, q.basket.gift)

StripeInv == NoStrayCharge /\ (calm => \A r \in Registers : WillDo(req[r]))

LEMMA MovesOn ==
    ASSUME IInv, StripeInv, NEW r \in Registers, NEW t, Goes(r, t),
           calm => stray' = stray,
           calm' => ~Paying(t) \/ (WillDo(t) /\ UNCHANGED <<card, expired>>)
    PROVE  StripeInv'
<1>1. NoStrayCharge'
    BY Alone1 DEF StripeInv, NoStrayCharge
<1>2. ASSUME calm', NEW q \in Registers PROVE WillDo(req[q])'
    <2>1. CASE q # r
        BY <1>2, <2>1, Alone1 DEF WillDo, Paying, Idle
    <2>2. CASE q = r
        <3>1. req'[q] = t
            BY <2>2, Alone1
        <3>2. CASE ~Paying(t)
            BY <3>1, <3>2 DEF WillDo, Paying
        <3>3. CASE WillDo(t) /\ UNCHANGED <<card, expired>>
            BY <3>1, <3>3 DEF WillDo, Paying, Spendable
        <3> QED  BY <1>2, <3>2, <3>3
    <2> QED  BY <2>1, <2>2
<1> QED  BY <1>1, <1>2 DEF StripeInv

LEMMA IdleIsNotPaying == ~Paying(Idle)
    BY DEF Paying, Idle

LEMMA GiftCardsStripe ==
    ASSUME IInv, StripeInv, NEW r \in Registers, GiftCards(r)
    PROVE  StripeInv'
<1>1. PICK t : Goes(r, t) /\ ~Paying(t) /\ stray' = stray
    <2>1. CASE WriteCard(r)
        BY <2>1, IdleIsNotPaying DEF WriteCard
    <2>2. ASSUME NEW c \in Cards, Cancel(r, c)
          PROVE  \E t : Goes(r, t) /\ ~Paying(t) /\ stray' = stray
        BY <2>2 DEF Cancel, Paying
    <2>3. ASSUME NEW c \in Cards, NEW delta \in -MaxAmount .. MaxAmount, Adjust(r, c, delta)
          PROVE  \E t : Goes(r, t) /\ ~Paying(t) /\ stray' = stray
        BY <2>3 DEF Adjust, Paying
    <2> QED  BY <2>1, <2>2, <2>3 DEF GiftCards
<1> QED  BY <1>1, MovesOn

LEMMA RefundStripe ==
    ASSUME IInv, StripeInv, NEW r \in Registers, Refund(r)
    PROVE  StripeInv'
<1>1. PICK t : Goes(r, t) /\ ~Paying(t) /\ stray' = stray
    <2>1. ASSUME NEW s \in Sales, NEW units \in 1 .. MaxAmount, NEW toCredit \in BOOLEAN,
                 OpenRefund(r, s, units, toCredit)
          PROVE  \E t : Goes(r, t) /\ ~Paying(t) /\ stray' = stray
        BY <2>1 DEF OpenRefund, Paying
    <2>2. CASE ReverseStripe(r)
        <3> DEFINE u == [req[r] EXCEPT !.pc = "credit"]
        <3>1. ~Paying(u)
            BY <2>2 DEF ReverseStripe, Paying
        <3> QED  BY <2>2, <3>1, IdleIsNotPaying DEF ReverseStripe
    <2>3. CASE CreditCard(r)
        <3> DEFINE u == [req[r] EXCEPT !.pc = "refund"]
        <3>1. ~Paying(u)
            BY <2>3 DEF CreditCard, Paying
        <3> QED  BY <2>3, <3>1, IdleIsNotPaying DEF CreditCard, Paying
    <2>4. CASE CommitRefund(r)
        BY <2>4, IdleIsNotPaying DEF CommitRefund
    <2> QED  BY <2>1, <2>2, <2>3, <2>4 DEF Refund
<1> QED  BY <1>1, MovesOn

LEMMA SellStripe ==
    ASSUME IInv, StripeInv, NEW r \in Registers, Sell(r)
    PROVE  StripeInv'
<1>1. ASSUME NEW b \in Basket, OpenSale(r, b) PROVE StripeInv'
    <2> DEFINE t == [pc |-> IF b.stripe > 0 THEN "stripe" ELSE "redeem", basket |-> b]
    <2>1. WillDo(t)
        BY <1>1 DEF OpenSale, Opens, CardWillDo, WillDo
    <2>2. Goes(r, t) /\ UNCHANGED <<card, expired, stray>>
        BY <1>1 DEF OpenSale, Opens
    <2> QED  BY <2>1, <2>2, MovesOn
<1>2. CASE ChargeStripe(r)
    <2>1. PICK t \in {[req[r] EXCEPT !.pc = "redeem"], Idle} : Goes(r, t)
        BY <1>2 DEF ChargeStripe
    <2>2. req[r].pc = "stripe" /\ UNCHANGED <<card, expired, stray>>
        BY <1>2 DEF ChargeStripe
    <2>3. CASE t = Idle
        BY <2>1, <2>2, <2>3, IdleIsNotPaying, MovesOn
    <2>4. CASE t = [req[r] EXCEPT !.pc = "redeem"]
        <3>1. t.basket = req[r].basket
            BY <2>2, <2>4
        <3>2. calm => WillDo(t)
            BY <2>2, <3>1 DEF StripeInv, WillDo, Paying
        <3>3. calm' => calm
            BY <2>1 DEF Goes
        <3> QED  BY <2>1, <2>2, <3>2, <3>3, MovesOn
    <2> QED  BY <2>1, <2>3, <2>4
<1>3. CASE Redeem(r)
    <2> DEFINE b == req[r].basket
    <2>1. req[r].pc = "redeem"
        BY <1>3 DEF Redeem
    <2>2. b.gift \in Nat
        BY <2>1, RegisterAssumption DEF IInv, Shape, Basket, Amounts
    <2>3. calm => b.gift = 0 \/ Spendable(b.card, b.gift)
        BY <2>1, <2>2 DEF StripeInv, WillDo, Paying
    <2>4. PICK t : Goes(r, t) /\ ~Paying(t)
        BY <1>3, IdleIsNotPaying DEF Redeem, Paying
    <2>5. calm => stray' = stray
        BY <1>3, <2>3 DEF Redeem
    <2> QED  BY <2>4, <2>5, MovesOn
<1>4. CASE CommitSale(r)
    <2>1. Goes(r, Idle) /\ stray' = stray
        BY <1>4 DEF CommitSale
    <2> QED  BY <2>1, IdleIsNotPaying, MovesOn
<1> QED  BY <1>1, <1>2, <1>3, <1>4 DEF Sell

LEMMA StripeInvStep == ASSUME IInv, StripeInv, [Next]_vars PROVE StripeInv'
<1>1. ASSUME NEW c \in Cards, NEW amount \in 1 .. MaxAmount, Issue(c, amount)
      PROVE  StripeInv'
    <2>1. /\ card[c].status = "none" /\ UNCHANGED <<expired, stray, req, calm>>
          /\ \A d : d # c => card'[d] = card[d]
        BY <1>1 DEF Issue, IInv, Typed
    <2>2. ASSUME NEW d, NEW cents, Spendable(d, cents) PROVE Spendable(d, cents)'
        BY <2>1, <2>2 DEF Spendable
    <2> QED  BY <2>1, <2>2 DEF StripeInv, NoStrayCharge, WillDo, Paying
<1>2. ASSUME NEW c \in Cards, Expire(c) PROVE StripeInv'
    <2>1. stray' = stray /\ req' = req /\ (calm' => calm /\ \A r \in Registers : req[r] = Idle)
        BY <1>2 DEF Expire
    <2> QED  BY <2>1 DEF StripeInv, NoStrayCharge, WillDo, Paying, Idle
<1>3. ASSUME NEW r \in Registers, Fail(r) PROVE StripeInv'
    BY <1>3 DEF Fail, StripeInv, NoStrayCharge
<1>4. CASE UNCHANGED vars
    BY <1>4 DEF vars, StripeInv, NoStrayCharge, WillDo, Paying, Spendable
<1> QED  BY <1>1, <1>2, <1>3, <1>4, GiftCardsStripe, SellStripe, RefundStripe DEF Next

\* As long as no two requests have overlapped and none has failed, Stripe has
\* taken no money for a sale that was not recorded: every check of
\* sales.controller.ts, create, that can refuse the sale comes first.
THEOREM NoStrayChargeHolds == Spec => []NoStrayCharge
<1>1. Init => StripeInv
    BY DEF Init, StripeInv, NoStrayCharge, WillDo, Paying, Idle
<1>2. StripeInv => NoStrayCharge
    BY DEF StripeInv
<1> QED  BY <1>1, <1>2, IInvInit, IInvStep, StripeInvStep, PTL DEF Spec

-----------------------------------------------------------------------------
(* Keys: requests that are repeated.                                       *)

Busy == {"run", "complete", "release"}

NeverStale == ~row.stale /\ \A a \in Attempts : pc[a] # "takeover"

\* Whoever works holds the pending row, and is alone; a pending row is held.
RowIsLock ==
    /\ row.status = "pending" => \E a \in Attempts : pc[a] \in Busy
    /\ \A a \in Attempts : pc[a] \in Busy =>
          row.status = "pending" /\ row.print = BodyOf[a]
    /\ \A a, b \in Attempts : pc[a] \in Busy /\ pc[b] \in Busy => a = b

\* What the row says of the commits.
RowTellsCommits ==
    /\ row.status = "completed" =>
          /\ row.response \in Attempts
          /\ done = {row.response}
          /\ row.print = BodyOf[row.response]
    /\ row.status # "completed" => \A a \in done : pc[a] = "complete"
    /\ \A a \in Attempts : pc[a] = "complete" => a \in done

ReplaysTrue ==
    \A a \in Attempts : answer[a] \in Attempts =>
        answer[a] \in done /\ BodyOf[answer[a]] = BodyOf[a]

LockInv == KeyTypeOK /\ NeverStale /\ RowIsLock /\ RowTellsCommits /\ ReplaysTrue

\* What holds of every attempt, whatever has failed.
Truth ==
    /\ row.status = "completed" => row.response \in done
    /\ \A a \in Attempts : pc[a] = "complete" => a \in done
    /\ \A a \in Attempts :
          pc[a] \in {"new", "takeover", "insert", "run"} => a \notin done
    /\ \A a \in Attempts : pc[a] # "over" => answer[a] = "none"
    /\ AnswersAreTrue

KeyInv == KeyTypeOK /\ Truth /\ (faulted = {} => LockInv)

LEMMA InitKey == KeyInit => KeyInv
BY AttemptsAssumption
DEF KeyInit, KeyInv, LockInv, Truth, AnswersAreTrue, KeyTypeOK, Rows, Absent, Steps,
    Answers, Replies, NeverStale, RowIsLock, Busy, RowTellsCommits, ReplaysTrue

LEMMA TypeKeeps ==
    ASSUME KeyTypeOK, [KeyNext]_keyVars,
           row.status = "completed" => row.response \in Attempts
    PROVE  KeyTypeOK'
<1> USE AttemptsAssumption
<1>1. row' \in Rows
  <2>1. Absent \in Rows
    BY DEF Absent, Rows
  <2>2. ASSUME NEW a \in Attempts, Insert(a) PROVE row' \in Rows
    BY <2>2 DEF Insert, Absent, Rows
  <2>3. ASSUME NEW a \in Attempts, Complete(a) PROVE row' \in Rows
    BY <2>3 DEF Complete, KeyTypeOK, Rows
  <2>4. CASE GrowStale
    BY <2>4 DEF GrowStale, KeyTypeOK, Rows
  <2>5. ASSUME NEW a \in Attempts, Acquire(a) \/ Run(a) \/ Dies(a),
               ~Insert(a), ~Complete(a)
        PROVE  row' \in {row, Absent}
    BY <2>5 DEF Acquire, Run, LookupFindsNothing, LookupConflicts,
                LookupReplays, LookupFindsStale, TakeOver, InsertRaced,
                HandlerCommits, HandlerFails, CompleteFails, Release,
                ReleaseFails, Dies
  <2>6. QED
    BY <2>1, <2>2, <2>3, <2>4, <2>5 DEF KeyNext, keyVars, KeyTypeOK
<1>2. pc' \in [Attempts -> Steps]
  BY DEF KeyTypeOK, Steps, KeyNext, keyVars, Acquire, Run, LookupFindsNothing,
         LookupConflicts, LookupReplays, LookupFindsStale, TakeOver, Insert,
         InsertRaced, HandlerCommits, HandlerFails, Complete, CompleteFails,
         Release, ReleaseFails, Dies, GrowStale, Advances, Ends
<1>3. answer' \in [Attempts -> Answers] /\ done' \subseteq Attempts
  BY DEF KeyTypeOK, Answers, Replies, KeyNext, keyVars, Acquire, Run, LookupFindsNothing,
         LookupConflicts, LookupReplays, LookupFindsStale, TakeOver, Insert,
         InsertRaced, HandlerCommits, HandlerFails, Complete, CompleteFails,
         Release, ReleaseFails, Dies, GrowStale, Ends
<1>4. faulted' \subseteq Faults
  <2>1. faulted' = faulted \/ \E kind : Fault(kind)
    BY DEF KeyNext, keyVars, Acquire, Run, LookupFindsNothing,
         LookupConflicts, LookupReplays, LookupFindsStale, TakeOver, Insert,
         InsertRaced, HandlerCommits, HandlerFails, Complete, CompleteFails,
         Release, ReleaseFails, Dies, GrowStale
  <2>2. QED
    BY <2>1 DEF Fault, KeyTypeOK
<1>5. QED
  BY <1>1, <1>2, <1>3, <1>4 DEF KeyTypeOK

LEMMA NextKeeps ==
    ASSUME LockInv, [KeyNext]_keyVars, faulted' = {}
    PROVE  LockInv'
<1>0. KeyTypeOK'
  BY TypeKeeps DEF LockInv, RowTellsCommits
<1> USE AttemptsAssumption
    DEF LockInv, KeyTypeOK, Rows, Absent, NeverStale,
        RowIsLock, Busy, RowTellsCommits, ReplaysTrue, Advances, Ends
<1>1. ASSUME NEW a \in Attempts, LookupFindsNothing(a) PROVE LockInv'
  <2>1. NeverStale'
    BY <1>1 DEF LookupFindsNothing
  <2>2. RowIsLock'
    BY <1>1 DEF LookupFindsNothing
  <2>3. RowTellsCommits'
    BY <1>1 DEF LookupFindsNothing
  <2>4. ReplaysTrue'
    BY <1>1, <1>0 DEF LookupFindsNothing, Answers, Replies
  <2>5. QED
    BY <1>0, <2>1, <2>2, <2>3, <2>4
<1>2. ASSUME NEW a \in Attempts, LookupConflicts(a) PROVE LockInv'
  <2>1. NeverStale'
    BY <1>2 DEF LookupConflicts
  <2>2. RowIsLock'
    BY <1>2 DEF LookupConflicts
  <2>3. RowTellsCommits'
    BY <1>2 DEF LookupConflicts
  <2>4. ReplaysTrue'
    BY <1>2, <1>0 DEF LookupConflicts, Answers, Replies
  <2>5. QED
    BY <1>0, <2>1, <2>2, <2>3, <2>4
<1>3. ASSUME NEW a \in Attempts, LookupReplays(a) PROVE LockInv'
  <2>1. NeverStale'
    BY <1>3 DEF LookupReplays
  <2>2. RowIsLock'
    BY <1>3 DEF LookupReplays
  <2>3. RowTellsCommits'
    BY <1>3 DEF LookupReplays
  <2>4. ReplaysTrue'
    BY <1>3, <1>0 DEF LookupReplays, Answers, Replies
  <2>5. QED
    BY <1>0, <2>1, <2>2, <2>3, <2>4
<1>4. ASSUME NEW a \in Attempts, LookupFindsStale(a) PROVE LockInv'
  BY <1>4 DEF LookupFindsStale
<1>5. ASSUME NEW a \in Attempts, TakeOver(a) PROVE LockInv'
  BY <1>5 DEF TakeOver
<1>6. ASSUME NEW a \in Attempts, Insert(a) PROVE LockInv'
  <2>1. NeverStale'
    BY <1>6 DEF Insert
  <2>2. RowIsLock'
    BY <1>6 DEF Insert
  <2>3. RowTellsCommits'
    BY <1>6 DEF Insert
  <2>4. ReplaysTrue'
    BY <1>6, <1>0 DEF Insert, Answers, Replies
  <2>5. QED
    BY <1>0, <2>1, <2>2, <2>3, <2>4
<1>7. ASSUME NEW a \in Attempts, InsertRaced(a) PROVE LockInv'
  <2>1. NeverStale'
    BY <1>7 DEF InsertRaced
  <2>2. RowIsLock'
    BY <1>7 DEF InsertRaced
  <2>3. RowTellsCommits'
    BY <1>7 DEF InsertRaced
  <2>4. ReplaysTrue'
    BY <1>7, <1>0 DEF InsertRaced, Answers, Replies
  <2>5. QED
    BY <1>0, <2>1, <2>2, <2>3, <2>4
<1>8. ASSUME NEW a \in Attempts, HandlerCommits(a) PROVE LockInv'
  <2>1. NeverStale'
    BY <1>8 DEF HandlerCommits
  <2>2. RowIsLock'
    BY <1>8 DEF HandlerCommits
  <2>3. RowTellsCommits'
    BY <1>8 DEF HandlerCommits
  <2>4. ReplaysTrue'
    BY <1>8, <1>0 DEF HandlerCommits, Answers, Replies
  <2>5. QED
    BY <1>0, <2>1, <2>2, <2>3, <2>4
<1>9. ASSUME NEW a \in Attempts, HandlerFails(a) PROVE LockInv'
  <2>1. NeverStale'
    BY <1>9 DEF HandlerFails
  <2>2. RowIsLock'
    BY <1>9 DEF HandlerFails
  <2>3. RowTellsCommits'
    BY <1>9 DEF HandlerFails
  <2>4. ReplaysTrue'
    BY <1>9, <1>0 DEF HandlerFails, Answers, Replies
  <2>5. QED
    BY <1>0, <2>1, <2>2, <2>3, <2>4
<1>10. ASSUME NEW a \in Attempts, Complete(a) PROVE LockInv'
  <2>1. NeverStale'
    BY <1>10 DEF Complete
  <2>2. RowIsLock'
    BY <1>10 DEF Complete
  <2>3. RowTellsCommits'
    BY <1>10 DEF Complete
  <2>4. ReplaysTrue'
    BY <1>10, <1>0 DEF Complete, Answers, Replies
  <2>5. QED
    BY <1>0, <2>1, <2>2, <2>3, <2>4
<1>11. ASSUME NEW a \in Attempts, Release(a) PROVE LockInv'
  <2>1. NeverStale'
    BY <1>11 DEF Release
  <2>2. RowIsLock'
    BY <1>11 DEF Release
  <2>3. RowTellsCommits'
    BY <1>11 DEF Release
  <2>4. ReplaysTrue'
    BY <1>11, <1>0 DEF Release, Answers, Replies
  <2>5. QED
    BY <1>0, <2>1, <2>2, <2>3, <2>4
<1>12. ASSUME NEW a \in Attempts
       PROVE  ~CompleteFails(a) /\ ~ReleaseFails(a) /\ ~Dies(a)
  BY DEF CompleteFails, ReleaseFails, Dies, Fault
<1>13. ASSUME GrowStale PROVE LockInv'
  BY <1>13 DEF GrowStale, Working, Fault
<1>14. CASE UNCHANGED keyVars
  BY <1>0, <1>14, Zenon DEF keyVars
<1>15. QED
  BY <1>1, <1>2, <1>3, <1>4, <1>5, <1>6, <1>7, <1>8, <1>9, <1>10, <1>11,
     <1>12, <1>13, <1>14 DEF KeyNext, Acquire, Run

LEMMA TruthKeeps ==
    ASSUME KeyTypeOK, Truth, [KeyNext]_keyVars
    PROVE  Truth'
<1> USE AttemptsAssumption DEF KeyTypeOK, Rows, Truth, AnswersAreTrue, Advances, Ends
<1>1. ASSUME NEW a \in Attempts, Acquire(a) PROVE Truth'
  <2>1. CASE LookupFindsNothing(a) \/ LookupFindsStale(a)
    BY <2>1 DEF LookupFindsNothing, LookupFindsStale, Absent
  <2>2. CASE LookupConflicts(a) \/ InsertRaced(a)
    BY <2>2 DEF LookupConflicts, InsertRaced, Replies
  <2>3. CASE LookupReplays(a)
    <3>1. row.response \in Attempts /\ row.response \notin Replies
      BY <2>3 DEF LookupReplays
    <3>2. QED
      BY <2>3, <3>1 DEF LookupReplays, Replies
  <2>4. CASE TakeOver(a) \/ Insert(a)
    <3>1. row'.status # "completed"
      <4>1. CASE TakeOver(a)
        BY <4>1 DEF TakeOver, Absent
      <4>2. CASE Insert(a)
        BY <4>2 DEF Insert, Absent
      <4>3. QED
        BY <2>4, <4>1, <4>2
    <3>2. /\ pc' = [pc EXCEPT ![a] = pc'[a]]
          /\ pc[a] \in {"takeover", "insert"} /\ pc'[a] \in {"insert", "run"}
          /\ UNCHANGED <<answer, done>>
      BY <2>4 DEF TakeOver, Insert
    <3>3. QED
      BY <3>1, <3>2
  <2>5. QED
    BY <1>1, <2>1, <2>2, <2>3, <2>4 DEF Acquire
<1>2. ASSUME NEW a \in Attempts, Run(a) PROVE Truth'
  <2>1. CASE HandlerCommits(a)
    BY <2>1 DEF HandlerCommits
  <2>2. CASE HandlerFails(a)
    BY <2>2 DEF HandlerFails
  <2>3. CASE CompleteFails(a)
    BY <2>3 DEF CompleteFails
  <2>4. CASE Complete(a)
    BY <2>4 DEF Complete, Replies
  <2>5. CASE Release(a)
    BY <2>5 DEF Release, Replies, Absent
  <2>6. CASE ReleaseFails(a)
    BY <2>6 DEF ReleaseFails, Replies
  <2>7. QED
    BY <1>2, <2>1, <2>2, <2>3, <2>4, <2>5, <2>6 DEF Run
<1>3. ASSUME NEW a \in Attempts, Dies(a) PROVE Truth'
  BY <1>3 DEF Dies, Replies
<1>4. CASE GrowStale
  BY <1>4 DEF GrowStale
<1>5. CASE UNCHANGED keyVars
  BY <1>5 DEF keyVars
<1>6. QED
  BY <1>1, <1>2, <1>3, <1>4, <1>5 DEF KeyNext

LEMMA NothingFailedBefore ==
    ASSUME [KeyNext]_keyVars, faulted' = {}
    PROVE  faulted = {}
BY DEF KeyNext, keyVars, Acquire, Run, LookupFindsNothing, LookupConflicts,
       LookupReplays, LookupFindsStale, TakeOver, Insert, InsertRaced,
       HandlerCommits, HandlerFails, Complete, CompleteFails, Release,
       ReleaseFails, Dies, GrowStale, Fault

-----------------------------------------------------------------------------
LEMMA KeyInvHolds == KeySpec => []KeyInv
<1>1. KeyInv /\ [KeyNext]_keyVars => KeyInv'
  <2> SUFFICES ASSUME KeyInv, [KeyNext]_keyVars PROVE KeyInv'
    OBVIOUS
  <2>1. row.status = "completed" => row.response \in Attempts
    BY DEF KeyInv, Truth, KeyTypeOK
  <2>2. KeyTypeOK'
    BY <2>1, TypeKeeps DEF KeyInv
  <2>3. Truth'
    BY TruthKeeps DEF KeyInv
  <2>4. ASSUME faulted' = {} PROVE LockInv'
    BY <2>4, NothingFailedBefore, NextKeeps DEF KeyInv
  <2>5. QED
    BY <2>2, <2>3, <2>4 DEF KeyInv
<1>2. QED
  BY <1>1, InitKey, PTL DEF KeySpec

\* Until a process dies, a handler outlives the stale limit or an answer is
\* lost, retries under one key commit once, for any number of attempts.
THEOREM CommitsOnceHolds == KeySpec => []CommitsOnce
<1>1. KeyInv => CommitsOnce
  <2> SUFFICES ASSUME KeyInv, faulted = {}, NEW a \in done, NEW b \in done
               PROVE  a = b
    BY DEF CommitsOnce
  <2>1. CASE row.status = "completed"
    BY <2>1 DEF KeyInv, LockInv, RowTellsCommits
  <2>2. CASE row.status # "completed"
    BY <2>2 DEF KeyInv, LockInv, RowTellsCommits, RowIsLock, Busy, KeyTypeOK
  <2>3. QED
    BY <2>1, <2>2
<1>2. QED
  BY <1>1, KeyInvHolds, PTL

\* Under the same condition a replay is the response of a committed attempt
\* with the same body.
THEOREM ReplayFaithfulHolds == KeySpec => []ReplayFaithful
<1>1. KeyInv => ReplayFaithful
  BY DEF KeyInv, LockInv, ReplaysTrue, ReplayFaithful
<1>2. QED
  BY <1>1, KeyInvHolds, PTL

\* Under the same condition two attempts never run the handler together.
THEOREM OneRunnerHolds == KeySpec => []OneRunner
<1>1. KeyInv => OneRunner
  BY DEF KeyInv, LockInv, RowIsLock, Busy, OneRunner
<1>2. QED
  BY <1>1, KeyInvHolds, PTL

\* Whatever fails, and for any number of attempts: a client that is told of a
\* success, its own or a replayed one, is told of a commit, and nobody who
\* committed is told of a conflict.
THEOREM AnswersAreTrueHolds == KeySpec => []AnswersAreTrue
<1>1. KeyInv => AnswersAreTrue
  BY DEF KeyInv, Truth
<1>2. QED
  BY <1>1, KeyInvHolds, PTL

\* Every variable keeps its type, with faults as without.
THEOREM KeysTyped == KeySpec => []KeyTypeOK
<1>1. KeyInv => KeyTypeOK
  BY DEF KeyInv
<1>2. QED
  BY <1>1, KeyInvHolds, PTL

=============================================================================
