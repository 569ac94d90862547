------------------------------ MODULE CostLayers ------------------------------
(***************************************************************************)
(* FIFO cost layers of one variant at one location: costing.service.ts and *)
(* the handlers that call it.                                              *)
(*                                                                         *)
(* An inflow adds a layer.  An outflow reads the layers, decides how many  *)
(* units to take of each, and subtracts them; what the layers do not cover *)
(* is priced by an opening layer that is born empty.  A layer's age is the *)
(* time its transaction began.  The reads take no lock, so another request *)
(* may commit between what an outflow reads and what it writes; the writes *)
(* of a request become visible together.  What a unit costs is left out:   *)
(* it rides on the layer.                                                  *)
(***************************************************************************)
EXTENDS Integers, FiniteSets, Functions

CONSTANTS
    Requests,
    Slots,     \* bound: the layers, in the order of receivedAt
    Orders,    \* purchase orders
    Outflows,  \* the kinds of outflow of an instance
    MaxUnits,  \* bound: units of an inflow or an outflow
    MaxOut     \* bound: units that leave, apart from those of two requests at once

ASSUME LayersAssumption ==
    /\ Slots \subseteq Nat /\ IsFiniteSet(Slots)
    /\ Outflows \subseteq {"sale", "adjust", "ship", "as_is", "fulfill", "count",
                           "unreceive", "relink"}
    /\ MaxUnits \in Nat /\ MaxOut \in Nat
    /\ {"stock", "direct"} \cap Orders = {}

VARIABLES
    there,      \* the layers whose transaction has committed
    begun,      \* the layers whose transaction has begun
    source,     \* referenceId of a layer: a purchase order or none
    received, remaining,
    consumed,   \* the units that consumptions book on a layer
    opening,    \* the units of opening layers, which are all consumed
    out,        \* the units that outflows were asked to consume
    onHand,     \* inventory_levels.on_hand
    moved,      \* the units that left the level and no layer
    req         \* what a request is doing

layerVars == <<there, begun, source, received, remaining, consumed, opening>>
vars == <<layerVars, out, onHand, moved, req>>

Idle == [pc |-> "idle"]
None == [i \in Slots |-> 0]

Entry == [pc : {"in"}, slot : Slots, units : 1 .. MaxUnits]
Exit  == [pc : {"out"}, kind : Outflows, units : 1 .. MaxUnits, seen : SUBSET Slots,
          take : [Slots -> 0 .. MaxUnits], short : 0 .. MaxUnits]

TypeOK ==
    /\ there \subseteq begun /\ begun \subseteq Slots
    /\ source \in [Slots -> Orders \cup {"stock", "direct"}]
    /\ received \in [Slots -> 0 .. MaxUnits]
    /\ remaining \in [Slots -> 0 .. MaxUnits]
    /\ consumed \in [Slots -> Nat]
    /\ opening \in Nat /\ out \in Nat /\ moved \in Nat /\ onHand \in Int
    /\ req \in [Requests -> {Idle} \cup Entry \cup Exit]

Larger(a, b) == IF a > b THEN a ELSE b

Total(f) == SumFunctionOnSet(f, Slots)

-----------------------------------------------------------------------------
(* Inflows: addLayer.                                                      *)

Begins(slot, from) ==
    /\ slot \in Slots \ begun
    /\ \A i \in begun : i < slot
    /\ begun' = begun \cup {slot}
    /\ source' = [source EXCEPT ![slot] = from]

BeginReceipt(r, slot, from, units) ==
    /\ req[r] = Idle
    /\ Begins(slot, from)
    /\ req' = [req EXCEPT ![r] = [pc |-> "in", slot |-> slot, units |-> units]]
    /\ UNCHANGED <<there, received, remaining, consumed, opening, out, onHand, moved>>

CommitReceipt(r) ==
    /\ req[r].pc = "in"
    /\ LET slot == req[r].slot
           units == req[r].units
       IN  /\ there' = there \cup {slot}
           /\ received' = [received EXCEPT ![slot] = units]
           /\ remaining' = [remaining EXCEPT ![slot] = units]
           /\ onHand' = onHand + units
    /\ req' = [req EXCEPT ![r] = Idle]
    /\ UNCHANGED <<begun, source, consumed, opening, out, moved>>

\* A purchase order that ships directly posts its layer and consumes it in
\* one transaction; the goods are never here.
DirectShip(r, slot, units) ==
    /\ req[r] = Idle
    /\ out + units <= MaxOut
    /\ Begins(slot, "direct")
    /\ there' = there \cup {slot}
    /\ received' = [received EXCEPT ![slot] = units]
    /\ consumed' = [consumed EXCEPT ![slot] = units]
    /\ out' = out + units
    /\ UNCHANGED <<remaining, opening, onHand, moved, req>>

-----------------------------------------------------------------------------
(* Outflows: consume.                                                      *)

\* The layers of the preferred order come first, then the older ones.
Precedes(i, j, prefer) ==
    LET first(k) == prefer # "stock" /\ source[k] = prefer
    IN  (first(i) /\ ~first(j)) \/ (first(i) = first(j) /\ i < j)

\* take is what the passes over the layers that have units take of each,
\* short what they leave uncovered.
Walks(take, short, units, before(_, _)) ==
    /\ \A i \in Slots : take[i] <= IF i \in there THEN remaining[i] ELSE 0
    /\ Total(take) + short = units
    /\ \A j \in Slots : take[j] > 0 =>
           \A i \in there : before(i, j) => take[i] = remaining[i]
    /\ short > 0 => \A i \in there : take[i] = remaining[i]

\* Slip: the newest layers go first.
PlanNewest(take, short, units, prefer) ==
    Walks(take, short, units, LAMBDA i, j : j < i)

Plan(take, short, units, prefer) ==
    Walks(take, short, units, LAMBDA i, j : Precedes(i, j, prefer))

\* What the handler asks of the level before it consumes.
Covered(kind, units) ==
    kind \in {"ship", "unreceive", "as_is"} => units <= onHand

\* Only the correction of a receipt has a preference; how much of the receipt
\* is left to correct is the business of the purchase order.
Prefers(kind) ==
    IF kind = "unreceive" THEN {po \in Orders : \E i \in there : source[i] = po}
                          ELSE {"stock"}

ReadLayers(r, kind, units) ==
    /\ req[r] = Idle
    /\ kind # "relink" /\ Covered(kind, units)
    /\ out + units <= MaxOut
    /\ \E take \in [Slots -> 0 .. units], short \in 0 .. units, prefer \in Prefers(kind) :
          /\ Plan(take, short, units, prefer)
          /\ req' = [req EXCEPT ![r] = [pc |-> "out", kind |-> kind, units |-> units,
                                        seen |-> there, take |-> take, short |-> short]]
    /\ UNCHANGED <<layerVars, out, onHand, moved>>

\* The level goes below zero only where the handler does not clamp it.
Lowered(kind, units) ==
    IF kind \in {"fulfill", "count", "unreceive"} THEN onHand - units
                                                  ELSE Larger(0, onHand - units)

Consumes(r, left, shortfall) ==
    /\ req[r].pc = "out"
    /\ remaining' = left
    /\ consumed' = [i \in Slots |-> consumed[i] + req[r].take[i]]
    /\ opening' = opening + shortfall
    /\ out' = out + req[r].units
    /\ onHand' = Lowered(req[r].kind, req[r].units)
    /\ req' = [req EXCEPT ![r] = Idle]
    /\ UNCHANGED <<there, begun, source, received, moved>>

\* The CHECK constraint of cost_layers lets no remaining go below zero.
Fits(r) == \A i \in Slots : req[r].take[i] <= remaining[i]

\* Slip: the subtraction is clamped, as that of the levels is.
CommitClamped(r) ==
    Consumes(r, [i \in Slots |-> Larger(0, remaining[i] - req[r].take[i])], req[r].short)

\* Slip: what the layers do not cover is not priced.
CommitUncovered(r) ==
    req[r].pc = "out" /\ Fits(r)
        /\ Consumes(r, [i \in Slots |-> remaining[i] - req[r].take[i]], 0)

CommitOutflow(r) ==
    /\ req[r].pc = "out" /\ Fits(r)
    /\ Consumes(r, [i \in Slots |-> remaining[i] - req[r].take[i]], req[r].short)

\* A request that fails, because of the CHECK or of anything else.
Rollback(r) ==
    /\ req[r] # Idle
    /\ req' = [req EXCEPT ![r] = Idle]
    /\ UNCHANGED <<layerVars, out, onHand, moved>>

\* The clean-up of the catalog moves a sale to another listing: it lowers
\* the level there and does not consume.
Relink(r, units) ==
    /\ req[r] = Idle
    /\ "relink" \in Outflows
    /\ moved + units <= MaxUnits
    /\ moved' = moved + units
    /\ onHand' = Lowered("relink", units)
    /\ UNCHANGED <<layerVars, out, req>>

-----------------------------------------------------------------------------
Init ==
    /\ there = {} /\ begun = {}
    /\ source = [i \in Slots |-> "stock"]
    /\ received = None /\ remaining = None /\ consumed = None
    /\ opening = 0 /\ out = 0 /\ moved = 0
    /\ onHand \in 0 .. MaxUnits  \* stock older than costing
    /\ req = [r \in Requests |-> Idle]

Inflow(r) ==
    \E slot \in Slots, units \in 1 .. MaxUnits :
        \/ \E from \in Orders \cup {"stock"} : BeginReceipt(r, slot, from, units)
        \/ DirectShip(r, slot, units)

Outflow(r) ==
    \E units \in 1 .. MaxUnits :
        \/ \E kind \in Outflows : ReadLayers(r, kind, units)
        \/ Relink(r, units)

Next ==
    \E r \in Requests :
        Inflow(r) \/ CommitReceipt(r) \/ Outflow(r) \/ CommitOutflow(r) \/ Rollback(r)

Spec == Init /\ [][Next]_vars

-----------------------------------------------------------------------------
(* Properties.                                                             *)

\* However outflows overlap, every unit of a layer is still in it or booked
\* as consumed, and none is booked twice.
EveryUnitAccounted ==
    \A i \in there : received[i] = remaining[i] + consumed[i]

Consumed(i) == consumed'[i] > consumed[i]

\* No unit is priced from a layer while an older one that the request has
\* seen keeps units, whatever other requests take meanwhile; a receipt that is
\* taken back uses up the layers of its own order first.
DrawsInOrder ==
    [][\A r \in Requests : CommitOutflow(r) =>
          \E prefer \in Orders \cup {"stock"} :
              /\ prefer = "stock" <=> req[r].kind # "unreceive"
              /\ \A i, j \in req[r].seen :
                    Precedes(i, j, prefer) /\ Consumed(j) => remaining'[i] = 0]_vars

\* What the layers say there is exceeds the level by the units that found no
\* layer, or left none, and by nothing else: the valuation prices every layer
\* in full.
StockIsLayered == Total(remaining) <= onHand + opening + moved

=============================================================================
