------------------------------- MODULE Register -------------------------------
(***************************************************************************)
(* Sales and refunds at the register (sales.controller.ts) and the gift    *)
(* cards that pay for them (gift-cards.service.ts and its controller).     *)
(*                                                                         *)
(* A request is a transaction whose reads take no lock.  A gift card is    *)
(* read, checked, and written with the absolute balance that follows from  *)
(* the read; what a request writes becomes visible at its commit.  A call  *)
(* to Stripe in the middle of it is for good.  A unit costs 1, so that the *)
(* amounts of a sale count its units.  Stock and its cost are CostLayers.  *)
(***************************************************************************)
EXTENDS Integers, FiniteSets

CONSTANTS
    Cards, Sales, Registers,
    MaxAmount,   \* bound: the units of a sale, and what a card is issued for
    MaxAdjusts,  \* bound: adjustments of cards
    UsageLimit,  \* of the discount code
    Expiring,    \* the cards that expire at some time
    Failures,    \* may a request fail after its checks
    NoCard

ASSUME RegisterAssumption ==
    /\ MaxAmount \in Nat \ {0} /\ MaxAdjusts \in Nat /\ UsageLimit \in Nat
    /\ Expiring \subseteq Cards /\ Failures \in BOOLEAN
    /\ NoCard \notin Cards

VARIABLES
    card,      \* gift_cards: status and balance
    expired,   \* the cards whose expiresAt has passed
    booked,    \* the sum of a card's gift_card_transactions
    sale,      \* sales, with what each tender paid
    refunded,  \* the units that refund lines give back
    giftBack,  \* what refunds of a sale put on its card
    cardBack,  \* what Stripe gave back of a sale
    stray,     \* Stripe took money for a sale that was not recorded
    uses,      \* usage_count of the discount code
    adjusts,
    req,       \* what a register is doing
    calm       \* history: nothing has failed, and no two requests, or a
               \* request and the expiry of a card, have overlapped

saleVars == <<sale, refunded, giftBack, cardBack>>
vars == <<card, expired, booked, saleVars, stray, uses, adjusts, req, calm>>

Amounts == 0 .. MaxAmount

Idle == [pc |-> "idle"]

\* A sale in the making; discount says whether it uses the code.
Basket == [sale : Sales, units : 1 .. MaxAmount, gift : Amounts, stripe : Amounts,
           card : Cards \cup {NoCard}, discount : BOOLEAN]

Status(s) == sale[s].status

TypeOK ==
    /\ card \in [Cards -> [status : {"none", "active", "redeemed", "cancelled"},
                           balance : Nat]]
    /\ expired \subseteq Expiring
    /\ booked \in [Cards -> Int]
    /\ \A s \in Sales :
          /\ Status(s) \in {"none", "completed", "partially_refunded", "refunded"}
          /\ sale[s].gift + sale[s].stripe <= sale[s].units
          /\ sale[s].gift > 0 <=> sale[s].card # NoCard
    /\ refunded \in [Sales -> Nat] /\ giftBack \in [Sales -> Nat]
    /\ cardBack \in [Sales -> Nat]
    /\ stray \in BOOLEAN /\ calm \in BOOLEAN /\ uses \in Nat /\ adjusts \in 0 .. MaxAdjusts
    /\ \A r \in Registers : req[r].pc \in {"idle", "stripe", "redeem", "sell",
                                           "reverse", "credit", "refund", "write"}

Smaller(a, b) == IF a < b THEN a ELSE b

Alone(r) == \A q \in Registers \ {r} : req[q] = Idle

Goes(r, to) ==
    /\ req' = [req EXCEPT ![r] = to]
    /\ calm' = (calm /\ Alone(r))

-----------------------------------------------------------------------------
(* Gift cards.                                                             *)

Issue(c, amount) ==
    /\ card[c].status = "none"
    /\ card' = [card EXCEPT ![c] = [status |-> "active", balance |-> amount]]
    /\ booked' = [booked EXCEPT ![c] = amount]
    /\ UNCHANGED <<expired, saleVars, stray, uses, adjusts, req, calm>>

Expire(c) ==
    /\ c \in Expiring \ expired
    /\ expired' = expired \cup {c}
    /\ calm' = (calm /\ \A r \in Registers : req[r] = Idle)
    /\ UNCHANGED <<card, booked, saleVars, stray, uses, adjusts, req>>

\* What charge asks of a card before it takes the amount.
Spendable(c, amount) ==
    card[c].status = "active" /\ c \notin expired /\ card[c].balance >= amount

Charged(seen, amount) ==
    [status |-> IF seen.balance = amount THEN "redeemed" ELSE seen.status,
     balance |-> seen.balance - amount]

Credited(seen, amount) ==
    [status |-> IF seen.status = "redeemed" THEN "active" ELSE seen.status,
     balance |-> seen.balance + amount]

\* Slip: an empty card is written off later.
AdjustedOnly(seen, delta) == [seen EXCEPT !.balance = @ + delta]

Adjusted(seen, delta) ==
    [status |-> IF seen.balance + delta = 0 THEN "redeemed"
                ELSE IF seen.status = "redeemed" THEN "active" ELSE seen.status,
     balance |-> seen.balance + delta]

\* POST gift-cards/:id/adjust, up to its write.
Adjust(r, c, delta) ==
    /\ req[r] = Idle
    /\ card[c].status \in {"active", "redeemed"} /\ delta # 0
    /\ card[c].balance + delta >= 0
    /\ adjusts < MaxAdjusts /\ adjusts' = adjusts + 1
    /\ Goes(r, [pc |-> "write", card |-> c, to |-> Adjusted(card[c], delta), by |-> delta])
    /\ UNCHANGED <<card, expired, booked, saleVars, stray, uses>>

\* DELETE gift-cards/:id, up to its write.
Cancel(r, c) ==
    /\ req[r] = Idle
    /\ card[c].status \in {"active", "redeemed"}
    /\ Goes(r, [pc |-> "write", card |-> c, by |-> -card[c].balance,
                to |-> [status |-> "cancelled", balance |-> 0]])
    /\ UNCHANGED <<card, expired, booked, saleVars, stray, uses, adjusts>>

\* The balance is written as it was computed, the ledger row as a difference.
Writes(c, to, by) ==
    /\ card' = [card EXCEPT ![c] = to]
    /\ booked' = [booked EXCEPT ![c] = @ + by]

\* Slip: cancelling a card leaves no row in its ledger.
WriteUnbooked(r) ==
    /\ req[r].pc = "write"
    /\ Writes(req[r].card, req[r].to, IF req[r].to.status = "cancelled" THEN 0 ELSE req[r].by)
    /\ Goes(r, Idle)
    /\ UNCHANGED <<expired, saleVars, stray, uses, adjusts>>

WriteCard(r) ==
    /\ req[r].pc = "write"
    /\ Writes(req[r].card, req[r].to, req[r].by)
    /\ Goes(r, Idle)
    /\ UNCHANGED <<expired, saleVars, stray, uses, adjusts>>

-----------------------------------------------------------------------------
(* POST sales.                                                             *)

Opens(r, b, cardChecked, codeChecked) ==
    /\ req[r] = Idle
    /\ Status(b.sale) = "none"
    /\ \A q \in Registers : req[q].pc \in {"stripe", "redeem", "sell"} =>
                                req[q].basket.sale # b.sale
    /\ b.gift + b.stripe <= b.units
    /\ b.gift > 0 <=> b.card # NoCard
    /\ cardChecked /\ codeChecked
    /\ Goes(r, [pc |-> IF b.stripe > 0 THEN "stripe" ELSE "redeem", basket |-> b])
    /\ UNCHANGED <<card, expired, booked, saleVars, stray, uses, adjusts>>

CardWillDo(b) == b.gift > 0 => Spendable(b.card, b.gift)
CodeWillDo(b) == b.discount => uses < UsageLimit

\* Slip: the gift card is looked at when its turn comes.
OpenSaleUnseen(r, b) == Opens(r, b, TRUE, CodeWillDo(b))

\* All checks come before any money is touched.
OpenSale(r, b) == Opens(r, b, CardWillDo(b), CodeWillDo(b))

\* A card that Stripe declines ends the request.
ChargeStripe(r) ==
    /\ req[r].pc = "stripe"
    /\ \E answer \in {[req[r] EXCEPT !.pc = "redeem"], Idle} : Goes(r, answer)
    /\ UNCHANGED <<card, expired, booked, saleVars, stray, uses, adjusts>>

\* charge reads the card again; what Stripe took stays taken if it throws.
Redeem(r) ==
    /\ req[r].pc = "redeem"
    /\ LET b == req[r].basket
       IN  IF b.gift = 0
           THEN Goes(r, [pc |-> "sell", basket |-> b]) /\ UNCHANGED stray
           ELSE IF Spendable(b.card, b.gift)
           THEN Goes(r, [pc |-> "sell", basket |-> b, to |-> Charged(card[b.card], b.gift)])
                /\ UNCHANGED stray
           ELSE Goes(r, Idle) /\ stray' = (stray \/ b.stripe > 0)
    /\ UNCHANGED <<card, expired, booked, saleVars, uses, adjusts>>

CommitSale(r) ==
    /\ req[r].pc = "sell"
    /\ LET b == req[r].basket
       IN  /\ IF b.gift = 0 THEN UNCHANGED <<card, booked>>
                            ELSE Writes(b.card, req[r].to, -b.gift)
           /\ sale' = [sale EXCEPT ![b.sale] =
                          [status |-> "completed", units |-> b.units, gift |-> b.gift,
                           stripe |-> b.stripe, card |-> b.card]]
           /\ uses' = IF b.discount THEN uses + 1 ELSE uses
    /\ Goes(r, Idle)
    /\ UNCHANGED <<expired, refunded, giftBack, cardBack, stray, adjusts>>

-----------------------------------------------------------------------------
(* POST sales/:id/refund.  A refund to store credit leaves the tenders      *)
(* alone; its ledger is CreditLedger.                                      *)

\* What goes back by Stripe, and what then goes to the gift card.
ByStripe(s, amount) == Smaller(amount, sale[s].stripe)
ByGift(s, amount) == Smaller(amount - ByStripe(s, amount), sale[s].gift)

OpenRefund(r, s, units, toCredit) ==
    /\ req[r] = Idle
    /\ Status(s) \in {"completed", "partially_refunded"}
    /\ refunded[s] + units <= sale[s].units
    /\ Goes(r, [pc |-> IF toCredit THEN "refund" ELSE "reverse", sale |-> s,
                units |-> units, before |-> refunded[s], gift |-> 0])
    /\ UNCHANGED <<card, expired, booked, saleVars, stray, uses, adjusts>>

\* Stripe gives back no more than it took: then the request fails.
ReverseStripe(r) ==
    /\ req[r].pc = "reverse"
    /\ LET s == req[r].sale
           amount == ByStripe(s, req[r].units)
       IN  IF cardBack[s] + amount <= sale[s].stripe
           THEN /\ cardBack' = [cardBack EXCEPT ![s] = @ + amount]
                /\ Goes(r, [req[r] EXCEPT !.pc = "credit"])
           ELSE Goes(r, Idle) /\ UNCHANGED cardBack
    /\ UNCHANGED <<card, expired, booked, sale, refunded, giftBack, stray, uses, adjusts>>

CreditCard(r) ==
    /\ req[r].pc = "credit"
    /\ LET s == req[r].sale
           amount == ByGift(s, req[r].units)
           c == sale[s].card
       IN  IF amount = 0
           THEN Goes(r, [req[r] EXCEPT !.pc = "refund"])
           ELSE IF card[c].status = "cancelled"
           THEN Goes(r, Idle)
           ELSE Goes(r, [pc |-> "refund", sale |-> s, units |-> req[r].units,
                         before |-> req[r].before, gift |-> amount,
                         to |-> Credited(card[c], amount)])
    /\ UNCHANGED <<card, expired, booked, saleVars, stray, uses, adjusts>>

CommitRefund(r) ==
    /\ req[r].pc = "refund"
    /\ LET s == req[r].sale
       IN  /\ IF req[r].gift = 0 THEN UNCHANGED <<card, booked>>
                                 ELSE Writes(sale[s].card, req[r].to, req[r].gift)
           /\ giftBack' = [giftBack EXCEPT ![s] = @ + req[r].gift]
           /\ refunded' = [refunded EXCEPT ![s] = @ + req[r].units]
           /\ sale' = [sale EXCEPT ![s].status =
                          IF req[r].before + req[r].units >= sale[s].units
                          THEN "refunded" ELSE "partially_refunded"]
    /\ Goes(r, Idle)
    /\ UNCHANGED <<expired, cardBack, stray, uses, adjusts>>

\* A request dies, or a later write of it throws.
Fail(r) ==
    /\ Failures /\ req[r] # Idle
    /\ stray' = (stray \/ (req[r].pc \in {"redeem", "sell"} /\ req[r].basket.stripe > 0))
    /\ req' = [req EXCEPT ![r] = Idle] /\ calm' = FALSE
    /\ UNCHANGED <<card, expired, booked, saleVars, uses, adjusts>>

-----------------------------------------------------------------------------
NoSale == [status |-> "none", units |-> 0, gift |-> 0, stripe |-> 0, card |-> NoCard]

Init ==
    /\ card = [c \in Cards |-> [status |-> "none", balance |-> 0]]
    /\ expired = {}
    /\ booked = [c \in Cards |-> 0]
    /\ sale = [s \in Sales |-> NoSale]
    /\ refunded = [s \in Sales |-> 0] /\ giftBack = [s \in Sales |-> 0]
    /\ cardBack = [s \in Sales |-> 0]
    /\ stray = FALSE /\ uses = 0 /\ adjusts = 0
    /\ req = [r \in Registers |-> Idle] /\ calm = TRUE

GiftCards(r) ==
    \/ \E c \in Cards :
          \/ Cancel(r, c)
          \/ \E delta \in -MaxAmount .. MaxAmount : Adjust(r, c, delta)
    \/ WriteCard(r)

Sell(r) == (\E b \in Basket : OpenSale(r, b)) \/ ChargeStripe(r) \/ Redeem(r) \/ CommitSale(r)

Refund(r) ==
    \/ \E s \in Sales, units \in 1 .. MaxAmount, toCredit \in BOOLEAN :
          OpenRefund(r, s, units, toCredit)
    \/ ReverseStripe(r) \/ CreditCard(r) \/ CommitRefund(r)

Next ==
    \/ \E c \in Cards : Expire(c) \/ (\E amount \in 1 .. MaxAmount : Issue(c, amount))
    \/ \E r \in Registers : GiftCards(r) \/ Sell(r) \/ Refund(r) \/ Fail(r)

Spec == Init /\ [][Next]_vars

-----------------------------------------------------------------------------
(* Properties.                                                             *)

\* A card is redeemed exactly when it is empty, however requests overlap:
\* none can be spent below zero, none with money on it is dead.
EmptyIsRedeemed ==
    \A c \in Cards :
        card[c].status \in {"active", "redeemed"} =>
            (card[c].status = "redeemed" <=> card[c].balance = 0)

\* Sales, refunds, adjustments and cancellations that do not overlap keep the
\* balance of a card equal to the sum of its ledger.
LedgerReplays == calm => \A c \in Cards : card[c].balance = booked[c]

\* Without an overlap or a failure Stripe takes no money for a sale that is
\* then refused.
NoStrayCharge == calm => ~stray

\* Refunds put back on a gift card the portion that it paid, not more.
GiftGetsBackItsPart == \A s \in Sales : giftBack[s] <= sale[s].gift

=============================================================================
