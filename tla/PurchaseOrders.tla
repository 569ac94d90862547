--------------------------- MODULE PurchaseOrders ---------------------------
(***************************************************************************)
(* Purchase orders of one variant for one location, the links that promise *)
(* their units to order lines and transfers, and the stock they become:    *)
(* purchase-orders.controller.ts, special-orders.controller.ts and         *)
(* special-orders.service.ts.                                              *)
(*                                                                         *)
(* A link is a row of po_line_allocations.  A line's links are kept by     *)
(* their status: those on order wait in a queue, oldest first, those that  *)
(* arrived and those that were cancelled are counted.  Every handler is    *)
(* one transaction and one action; requests are served one at a time.      *)
(***************************************************************************)
EXTENDS Integers, Sequences, FiniteSets, Functions, SequencesExt

CONSTANTS
    Pos,            \* purchase orders
    Lines,          \* their lines
    PoOf,           \* the purchase order of a line
    Stock, Direct,  \* order lines by lineType: of stock, shipped directly
    Drafts,         \* lines of draft transfers
    Wanted,         \* the units of an order or transfer line
    MaxUnits,       \* bound: units of a line
    MaxCancelled    \* bound: units of cancelled links of a line

ASSUME PurchaseAssumption ==
    /\ IsFiniteSet(Lines) /\ IsFiniteSet(Stock \cup Direct \cup Drafts)
    /\ PoOf \in [Lines -> Pos]
    /\ MaxUnits \in Nat /\ MaxCancelled \in Nat
    /\ Stock \cap Direct = {} /\ (Stock \cup Direct) \cap Drafts = {}
    /\ Wanted \in [Stock \cup Direct \cup Drafts -> 1 .. MaxUnits]

OrderLines == Stock \cup Direct
Targets == OrderLines \cup Drafts

VARIABLES
    status,     \* purchase_orders.status, or none
    deleted,    \* deletedAt is set
    direct,     \* directShip is set
    ordered,    \* quantityOrdered; a line of 0 units is not there
    received, inspected, accepted, rejected,
    queue,      \* the links on order, oldest first
    arrived,    \* the units of received links, by target
    cancelled,  \* the units of cancelled links
    onHand, reserved,  \* the level of the variant at the location
    held,       \* qtyReserved of an order line
    fulfilled,  \* qtyFulfilled of an order line
    closed      \* order lines whose order is over

poVars    == <<status, deleted, direct>>
lineVars  == <<ordered, received, inspected, accepted, rejected>>
linkVars  == <<queue, arrived, cancelled>>
stockVars == <<onHand, reserved, held, fulfilled>>
vars      == <<poVars, lineVars, linkVars, stockVars, closed>>

Link == [to : Targets, units : 1 .. MaxUnits]
Open == {"draft", "ordered", "partially_received"}

TypeOK ==
    /\ status \in [Pos -> Open \cup {"none", "received", "canceled"}]
    /\ deleted \subseteq Pos /\ direct \subseteq Pos
    /\ {ordered, received, inspected, accepted, rejected} \subseteq [Lines -> 0 .. MaxUnits]
    /\ \A l \in Lines : queue[l] \in Seq(Link)
    /\ arrived \in [Lines -> [Targets -> Nat]]
    /\ cancelled \in [Lines -> 0 .. MaxCancelled]
    /\ onHand \in Int /\ reserved \in Int
    /\ held \in [OrderLines -> Nat] /\ fulfilled \in [OrderLines -> Nat]
    /\ closed \subseteq OrderLines

LinesOf(p) == {l \in Lines : PoOf[l] = p}
Total(f) == SumFunctionOnSet(f, DOMAIN f)
Smaller(a, b) == IF a < b THEN a ELSE b
Larger(a, b) == IF a > b THEN a ELSE b

UnitsOf(q) == [i \in DOMAIN q |-> q[i].units]

\* The units of the links of a line that are on order, have arrived, live.
Waiting(l) == Total(UnitsOf(queue[l]))
Arrived(l) == Total(arrived[l])
Linked(l)  == Waiting(l) + Arrived(l)

\* The units that links on order promise a target.
Promised(t) ==
    Total([l \in Lines |->
              SumFunctionOnSet(UnitsOf(queue[l]),
                               {i \in DOMAIN queue[l] : queue[l][i].to = t})])

Missing(t) == Larger(0, Wanted[t] - fulfilled[t] - held[t])
Free == onHand - reserved

-----------------------------------------------------------------------------
(* The life of a purchase order.                                           *)

Creates(p, l, units, links, ships) ==
    /\ status[p] = "none" /\ l \in LinesOf(p)
    /\ \E first \in {"draft", "ordered"} : status' = [status EXCEPT ![p] = first]
    /\ direct' = IF ships THEN direct \cup {p} ELSE direct
    /\ ordered' = [ordered EXCEPT ![l] = units]
    /\ queue' = [queue EXCEPT ![l] = links]
    /\ UNCHANGED <<deleted, received, inspected, accepted, rejected, arrived,
                   cancelled, stockVars, closed>>

\* POST purchase-orders: a line may name the order line it is bought for.
Create(p, l, units) ==
    \/ Creates(p, l, units, <<>>, FALSE)
    \/ \E t \in OrderLines :
          Creates(p, l, units, <<[to |-> t, units |-> Smaller(units, Wanted[t])]>>, FALSE)

\* POST special-orders/generate-po: nobody asks how much is on order already.
GeneratePo(p, l, t, units) ==
    Creates(p, l, units, <<[to |-> t, units |-> units]>>, t \in Direct)

Place(p) ==
    /\ status[p] = "draft" /\ p \notin deleted
    /\ status' = [status EXCEPT ![p] = "ordered"]
    /\ UNCHANGED <<deleted, direct, lineVars, linkVars, stockVars, closed>>

Edits(p, to) ==
    /\ status[p] \in Open /\ p \notin deleted
    /\ \E l \in LinesOf(p) : to[l] > 0
    /\ \A l \in Lines \ LinesOf(p) : to[l] = ordered[l]
    /\ ordered' = to
    /\ UNCHANGED <<poVars, received, inspected, accepted, rejected, linkVars,
                   stockVars, closed>>

\* Slip: the receipts of a line that nobody is promised do not count.
UpdateOverReceived(p, to) ==
    /\ \A l \in LinesOf(p) : to[l] >= Linked(l) + cancelled[l]
    /\ Edits(p, to)

\* PATCH purchase-orders/:id: lines are added, removed and changed.  Even
\* cancelled links count here.
Update(p, to) ==
    /\ \A l \in LinesOf(p) : to[l] >= received[l] /\ to[l] >= Linked(l) + cancelled[l]
    /\ Edits(p, to)

Cancel(p) ==
    /\ status[p] \in Open /\ p \notin deleted
    /\ status' = [status EXCEPT ![p] = "canceled"]
    /\ UNCHANGED <<deleted, direct, lineVars, linkVars, stockVars, closed>>

\* DELETE purchase-orders/:id: the links go, the lines stay.
Delete(p) ==
    /\ status[p] = "draft" /\ p \notin deleted
    /\ \A l \in LinesOf(p) : \A t \in OrderLines :
          fulfilled[t] > 0 => \A i \in DOMAIN queue[l] : queue[l][i].to # t
    /\ \A l \in LinesOf(p) : cancelled[l] + Waiting(l) <= MaxCancelled
    /\ deleted' = deleted \cup {p}
    /\ queue' = [l \in Lines |-> IF l \in LinesOf(p) THEN <<>> ELSE queue[l]]
    /\ cancelled' = [l \in Lines |-> IF l \in LinesOf(p) THEN cancelled[l] + Waiting(l)
                                                          ELSE cancelled[l]]
    /\ UNCHANGED <<status, direct, lineVars, arrived, stockVars, closed>>

Restore(p) ==
    /\ p \in deleted
    /\ deleted' = deleted \ {p}
    /\ UNCHANGED <<status, direct, lineVars, linkVars, stockVars, closed>>

-----------------------------------------------------------------------------
(* Links made by hand.                                                     *)

\* What a target lacks: a transfer line what no link on order promises it.
Lacks(t) ==
    IF t \in Drafts THEN Wanted[t] - Promised(t)
                    ELSE Wanted[t] - fulfilled[t] - held[t] - Promised(t)

Links(l, t, units, free) ==
    /\ status[PoOf[l]] \in Open /\ PoOf[l] \notin deleted /\ ordered[l] > 0
    /\ t \in Stock \cup Drafts /\ t \notin closed
    /\ units <= free /\ units <= Lacks(t)
    /\ queue' = [queue EXCEPT ![l] = Append(@, [to |-> t, units |-> units])]
    /\ UNCHANGED <<poVars, lineVars, arrived, cancelled, stockVars, closed>>

\* Slip: units that arrived for somebody count as not linked.
LinkArrived(l, t, units) == Links(l, t, units, ordered[l] - Waiting(l))

\* POST purchase-orders/:id/lines/:lineId/links.
LinkUnits(l, t, units) == Links(l, t, units, ordered[l] - Linked(l))

\* DELETE purchase-orders/:id/lines/:lineId/links/:allocationId.
Unlink(l, i) ==
    /\ i \in DOMAIN queue[l]
    /\ cancelled[l] + queue[l][i].units <= MaxCancelled
    /\ cancelled' = [cancelled EXCEPT ![l] = @ + queue[l][i].units]
    /\ queue' = [queue EXCEPT ![l] = RemoveAt(@, i)]
    /\ UNCHANGED <<poVars, lineVars, arrived, stockVars, closed>>

-----------------------------------------------------------------------------
(* Receiving.                                                              *)

\* What accepted units do to the links on order: the oldest are served first,
\* and one that is served in part stays with the rest.
Before(q, i) == SumFunctionOnSet(UnitsOf(q), 1 .. i - 1)
Served(q, units) ==
    [i \in DOMAIN q |-> Smaller(q[i].units, Larger(0, units - Before(q, i)))]
Gone(q, units) ==
    CHOOSE n \in 0 .. Len(q) :
        \A i \in DOMAIN q : i <= n <=> Served(q, units)[i] = q[i].units
Rest(q, units) ==
    LET n == Gone(q, units)
    IN  [i \in 1 .. Len(q) - n |->
            [q[n + i] EXCEPT !.units = @ - Served(q, units)[n + i]]]
ServedTo(q, units, t) ==
    Total([i \in DOMAIN q |-> IF q[i].to = t THEN Served(q, units)[i] ELSE 0])

\* A link of a transfer that is served in part is split into rows of which
\* one has no target: the CHECK of the table refuses the receipt.
Splits(q, units) ==
    \E i \in DOMAIN q : q[i].to \in Drafts /\ Served(q, units)[i] \in 1 .. q[i].units - 1

\* Slip: whatever arrives for a line is reserved for it.
KeepsAll(t, units) == IF t \in closed THEN 0 ELSE units

\* handleReceipt reserves what the line still lacks, while its order lives.
Keeps(t, units) == IF t \in closed THEN 0 ELSE Smaller(units, Missing(t))

\* allocatePending gives what is free to the lines that lack units.
Backfills(lacks, free, more) ==
    /\ \A t \in OrderLines : more[t] <= lacks[t]
    /\ Total(more) = Smaller(Larger(0, free), Total(lacks))

\* The status is that of the lines, and nobody asks what it was.
Disposed(p) == \A l \in LinesOf(p) : accepted'[l] + rejected'[l] >= ordered[l]

Receives(p, inc) ==
    /\ \A l \in Lines : inc[l].accepted > 0 => ~Splits(queue[l], inc[l].accepted)
    /\ received' = [l \in Lines |-> received[l] + inc[l].received]
    /\ inspected' = [l \in Lines |-> inspected[l] + inc[l].inspected]
    /\ accepted' = [l \in Lines |-> accepted[l] + inc[l].accepted]
    /\ rejected' = [l \in Lines |-> rejected[l] + inc[l].rejected]
    /\ status' = [status EXCEPT ![p] = IF Disposed(p) THEN "received"
                                                      ELSE "partially_received"]
    /\ queue' = [l \in Lines |-> Rest(queue[l], inc[l].accepted)]
    /\ arrived' = [l \in Lines |-> [t \in Targets |->
                      arrived[l][t] + ServedTo(queue[l], inc[l].accepted, t)]]
    /\ UNCHANGED <<deleted, direct, ordered, cancelled, closed>>

Goes(p, inc) ==
    LET units == Total([l \in Lines |-> inc[l].accepted])
        came == [t \in OrderLines |->
                    Total([l \in Lines |-> ServedTo(queue[l], inc[l].accepted, t)])]
    IN  IF p \in direct
        THEN /\ fulfilled' = [t \in OrderLines |-> fulfilled[t] + came[t]]
             /\ UNCHANGED <<onHand, reserved, held>>
        ELSE LET kept == [t \in OrderLines |-> Keeps(t, came[t])]
                 lacks == [t \in OrderLines |->
                              IF units > 0 /\ t \in Stock \ closed
                              THEN Larger(0, Missing(t) - kept[t]) ELSE 0]
                 free == onHand + units - reserved - Total(kept)
             IN  \E more \in [OrderLines -> 0 .. MaxUnits] :
                    /\ Backfills(lacks, free, more)
                    /\ onHand' = onHand + units
                    /\ reserved' = reserved + Total(kept) + Total(more)
                    /\ held' = [t \in OrderLines |-> held[t] + kept[t] + more[t]]
                    /\ UNCHANGED fulfilled

Nothing == [received |-> 0, inspected |-> 0, accepted |-> 0, rejected |-> 0]

\* The stages in order, after the increments of a request.
Staged(l, inc) ==
    /\ received[l] + inc.received <= ordered[l]
    /\ inspected[l] + inc.inspected <= received[l] + inc.received
    /\ accepted[l] + rejected[l] + inc.accepted + inc.rejected
          <= inspected[l] + inc.inspected

\* POST :id/receiving; of a direct shipment nothing can be rejected here.
ReceiveStages(p, l, inc) ==
    /\ status[p] \in {"ordered", "partially_received"}
    /\ l \in LinesOf(p) /\ ordered[l] > 0
    /\ inc # Nothing /\ Staged(l, inc)
    /\ p \in direct => inc.rejected = 0
    /\ LET all == [m \in Lines |-> IF m = l THEN inc ELSE Nothing]
       IN Receives(p, all) /\ Goes(p, all)

\* POST :id/receive: units arrive and are accepted in one step, whatever has
\* been inspected before.
Receive(p, units) ==
    /\ status[p] \in {"ordered", "partially_received"}
    /\ \E l \in LinesOf(p) : units[l] > 0
    /\ \A l \in Lines : units[l] <= IF l \in LinesOf(p) THEN ordered[l] - received[l] ELSE 0
    /\ LET all == [l \in Lines |-> [received |-> units[l], inspected |-> units[l],
                                    accepted |-> units[l], rejected |-> 0]]
       IN Receives(p, all) /\ Goes(p, all)

TakesBack(p, units, limit(_)) ==
    /\ status[p] \in {"partially_received", "received"} /\ p \notin direct
    /\ \E l \in LinesOf(p) : units[l] > 0
    /\ \A l \in Lines : units[l] <= IF l \in LinesOf(p) THEN accepted[l] ELSE 0
    /\ \A l \in LinesOf(p) : units[l] > 0 => units[l] <= limit(l)
    /\ onHand' = onHand - Total(units)
    /\ received' = [l \in Lines |-> received[l] - units[l]]
    /\ inspected' = [l \in Lines |-> inspected[l] - units[l]]
    /\ accepted' = [l \in Lines |-> accepted[l] - units[l]]
    /\ status' = [status EXCEPT ![p] =
                     IF \A l \in LinesOf(p) : accepted'[l] + rejected[l] >= ordered[l]
                     THEN "received"
                     ELSE IF \E l \in LinesOf(p) : received'[l] > 0
                          THEN "partially_received" ELSE "ordered"]
    /\ UNCHANGED <<deleted, direct, ordered, rejected, linkVars, reserved, held,
                   fulfilled, closed>>

\* Slip: units that are reserved are taken back.
UnreceiveHeld(p, units) ==
    TakesBack(p, units, LAMBDA l : Smaller(accepted[l] - Arrived(l), onHand))

\* POST :id/unreceive: of units that arrived for nobody, and free ones only.
Unreceive(p, units) ==
    TakesBack(p, units, LAMBDA l : Smaller(accepted[l] - Arrived(l), Free))

-----------------------------------------------------------------------------
(* What else happens to the order lines.                                   *)

\* Free stock is reserved for a line.
Reserve(t, units) ==
    /\ t \in Stock \ closed
    /\ units <= Free /\ units <= Missing(t)
    /\ reserved' = reserved + units
    /\ held' = [held EXCEPT ![t] = @ + units]
    /\ UNCHANGED <<poVars, lineVars, linkVars, onHand, fulfilled, closed>>

\* Reserved units go to the customer.
Fulfill(t, units) ==
    /\ t \notin closed /\ units <= held[t]
    /\ onHand' = onHand - units /\ reserved' = reserved - units
    /\ held' = [held EXCEPT ![t] = @ - units]
    /\ fulfilled' = [fulfilled EXCEPT ![t] = @ + units]
    /\ UNCHANGED <<poVars, lineVars, linkVars, closed>>

\* The order is cancelled or closed; its reservations go.
CloseOrder(t) ==
    /\ t \notin closed
    /\ closed' = closed \cup {t}
    /\ reserved' = reserved - held[t]
    /\ held' = [held EXCEPT ![t] = 0]
    /\ UNCHANGED <<poVars, lineVars, linkVars, onHand, fulfilled>>

-----------------------------------------------------------------------------
Init ==
    /\ status = [p \in Pos |-> "none"] /\ deleted = {} /\ direct = {}
    /\ ordered = [l \in Lines |-> 0] /\ received = ordered /\ inspected = ordered
    /\ accepted = ordered /\ rejected = ordered /\ cancelled = ordered
    /\ queue = [l \in Lines |-> <<>>]
    /\ arrived = [l \in Lines |-> [t \in Targets |-> 0]]
    /\ onHand \in 0 .. 1 /\ reserved = 0
    /\ held = [t \in OrderLines |-> 0] /\ fulfilled = held
    /\ closed = {}

Batches == [Lines -> 0 .. MaxUnits]
Stages == [received : 0 .. MaxUnits, inspected : 0 .. MaxUnits,
           accepted : 0 .. MaxUnits, rejected : 0 .. MaxUnits]

Next ==
    \/ \E p \in Pos, l \in Lines, units \in 1 .. MaxUnits :
          Create(p, l, units) \/ \E t \in OrderLines : GeneratePo(p, l, t, units)
    \/ \E p \in Pos : Place(p) \/ Cancel(p) \/ Delete(p) \/ Restore(p)
    \/ \E p \in Pos, units \in Batches :
          Update(p, units) \/ Receive(p, units) \/ Unreceive(p, units)
    \/ \E p \in Pos, l \in Lines, inc \in Stages : ReceiveStages(p, l, inc)
    \/ \E l \in Lines, t \in Targets, units \in 1 .. MaxUnits : LinkUnits(l, t, units)
    \/ \E l \in Lines : \E i \in DOMAIN queue[l] : Unlink(l, i)
    \/ \E t \in OrderLines, units \in 1 .. MaxUnits : Reserve(t, units) \/ Fulfill(t, units)
    \/ \E t \in OrderLines : CloseOrder(t)

Spec == Init /\ [][Next]_vars

-----------------------------------------------------------------------------
(* Properties.                                                             *)

\* A line's goods go through the stages in order, whoever edits it meanwhile.
StagesInOrder ==
    \A l \in Lines : /\ ordered[l] >= received[l] /\ received[l] >= inspected[l]
                     /\ inspected[l] >= accepted[l] + rejected[l]

\* No more units of a line are promised than are bought, whatever of them has
\* arrived, been edited or cancelled; and what arrived for somebody has been
\* accepted and is not taken back.
LinksWithinLine ==
    \A l \in Lines : Linked(l) <= ordered[l] /\ Arrived(l) <= accepted[l]

\* What is reserved is there, however receipts and their corrections mix.
HeldIsThere == Total(held) = reserved /\ reserved <= onHand

Shipped(t) == \E l \in Lines : PoOf[l] \in direct /\ arrived[l][t] > 0

\* No line gets units twice: not when it was served from stock before its
\* purchase order arrived, not when it was ordered twice.
NobodyHasTwo ==
    \A t \in Stock : Shipped(t) \/ held[t] + fulfilled[t] <= Wanted[t]

\* What a live order has on order waits for a purchase order that is open: the
\* queue of what has to be bought leaves it out.
NobodyIsForgotten ==
    \A l \in Lines, i \in 1 .. MaxUnits :
        i \in DOMAIN queue[l] /\ queue[l][i].to \in OrderLines \ closed
            => status[PoOf[l]] \in Open

\* Every part of what is still to come can be received.
PartsCanArrive ==
    \A l \in Lines, units \in 1 .. MaxUnits :
        status[PoOf[l]] = "ordered" /\ units <= ordered[l] => ~Splits(queue[l], units)

=============================================================================
