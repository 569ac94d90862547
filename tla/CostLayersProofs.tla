--------------------------- MODULE CostLayersProofs ---------------------------
(***************************************************************************)
(* That the layers keep their books, for any number of requests, layers    *)
(* and units.                                                              *)
(*                                                                         *)
(* The books balance because a layer that is not there yet is empty, so    *)
(* that its receipt opens it, and because no two requests open the same    *)
(* layer.  The consumption keeps them because it books exactly what it     *)
(* subtracts.  The order of consumption survives the other requests        *)
(* because between a plan and its writes the layers are only drawn on: the *)
(* earlier layers hold no more than the plan takes of them.                *)
(***************************************************************************)
EXTENDS CostLayers, Sums, TLAPS

\* A layer that is not there is empty.
EmptyBefore ==
    \A i \in Slots \ there : received[i] = 0 /\ remaining[i] = 0 /\ consumed[i] = 0

\* A receipt in flight has a layer of its own that is not there yet.
OwnLayer ==
    /\ \A r \in Requests : req[r].pc = "in" => req[r].slot \in begun \ there
    /\ \A r, s \in Requests :
          req[r].pc = "in" /\ req[s].pc = "in" /\ req[r].slot = req[s].slot => r = s

\* What the request t has planned: where it takes of a layer, an earlier one
\* that it has seen holds no more by now than t takes of it.
PlannedAt(t) ==
    t.pc = "out" =>
        /\ t.seen \subseteq there
        /\ \E prefer \in Orders \cup {"stock"} :
              /\ prefer = "stock" <=> t.kind # "unreceive"
              /\ \A i, j \in t.seen :
                    Precedes(i, j, prefer) /\ t.take[j] > 0 => remaining[i] <= t.take[i]

Planned == \A r \in Requests : PlannedAt(req[r])

\* An inductive invariant of the layers.
IInv == TypeOK /\ EmptyBefore /\ OwnLayer /\ EveryUnitAccounted /\ Planned

-----------------------------------------------------------------------------
\* What a request in flight is, by its program counter.
LEMMA Shapes ==
    ASSUME TypeOK, NEW r \in Requests
    PROVE  /\ req[r].pc = "in" => req[r] \in Entry
           /\ req[r].pc = "out" => req[r] \in Exit
           /\ req[r] # Idle => req[r] \in Entry \cup Exit
    BY DEF TypeOK, Entry, Exit, Idle

\* The plans of the requests other than r last while layers are only added and
\* drawn on.
LEMMA PlansLast ==
    ASSUME TypeOK, Planned, NEW r, PlannedAt(req[r])',
           \A q \in Requests : q # r => req'[q] = req[q],
           there \subseteq there',
           \A i \in there : source'[i] = source[i] /\ remaining'[i] \in Int
                           /\ remaining'[i] <= remaining[i]
    PROVE  Planned'
<1> SUFFICES ASSUME NEW q \in Requests, q # r, req[q].pc = "out" PROVE PlannedAt(req[q])'
    BY DEF Planned, PlannedAt
<1>1. req[q] \in Exit /\ req'[q] = req[q]
    BY Shapes
<1> DEFINE t == req[q]
<1>2. /\ t.seen \subseteq there /\ t.seen \subseteq Slots
      /\ t.take \in [Slots -> 0 .. MaxUnits]
    BY <1>1 DEF Exit, Planned, PlannedAt
<1>3. PICK prefer \in Orders \cup {"stock"} :
          /\ prefer = "stock" <=> t.kind # "unreceive"
          /\ \A i, j \in t.seen :
                Precedes(i, j, prefer) /\ t.take[j] > 0 => remaining[i] <= t.take[i]
    BY DEF Planned, PlannedAt
<1>4. \A i \in t.seen : t.take[i] \in Int /\ remaining[i] \in Int /\ source'[i] = source[i]
                        /\ remaining'[i] \in Int /\ remaining'[i] <= remaining[i]
    <2>1. \A i \in Slots : t.take[i] \in Int /\ remaining[i] \in Int
        BY <1>2, LayersAssumption DEF TypeOK
    <2> QED  BY <1>2, <2>1
<1> HIDE DEF t
<1>5. ASSUME NEW i \in t.seen, NEW j \in t.seen,
             Precedes(i, j, prefer)', t.take[j] > 0
      PROVE  remaining'[i] <= t.take[i]
    <2>1. Precedes(i, j, prefer)
        BY <1>4, <1>5 DEF Precedes
    <2>2. remaining[i] <= t.take[i]
        BY <1>3, <1>5, <2>1
    <2> QED  BY <1>4, <2>2
<1>6. t.seen \subseteq there'
    BY <1>2
<1>7. req'[q] = t
    BY <1>1 DEF t
<1> QED  BY <1>3, <1>5, <1>6, <1>7 DEF PlannedAt

LEMMA IInvInit == ASSUME Init PROVE IInv
<1>1. TypeOK
    BY LayersAssumption DEF Init, TypeOK, None, Idle
<1>2. EmptyBefore
    BY DEF Init, EmptyBefore, None
<1>3. OwnLayer
    BY DEF Init, OwnLayer, Idle
<1>4. EveryUnitAccounted
    BY DEF Init, EveryUnitAccounted
<1>plans. Planned
    BY DEF Init, Planned, PlannedAt, Idle
<1> QED  BY <1>1, <1>2, <1>3, <1>4, <1>plans DEF IInv

\* A request begins a receipt: nobody else has its layer.
LEMMA BeginKeeps ==
    ASSUME IInv, NEW r \in Requests, NEW slot \in Slots,
           NEW from \in Orders \cup {"stock"}, NEW units \in 1 .. MaxUnits,
           BeginReceipt(r, slot, from, units)
    PROVE  IInv'
<1> USE LayersAssumption
<1>1. [pc |-> "in", slot |-> slot, units |-> units] \in Entry
    BY DEF Entry
<1>2. TypeOK'
    BY <1>1 DEF IInv, TypeOK, BeginReceipt, Begins
<1>3. slot \notin begun /\ begun' = begun \cup {slot} /\ there' = there
    BY DEF BeginReceipt, Begins
<1>4. OwnLayer'
    BY <1>3 DEF IInv, TypeOK, OwnLayer, BeginReceipt
<1>5. EmptyBefore' /\ EveryUnitAccounted'
    BY DEF IInv, EmptyBefore, EveryUnitAccounted, BeginReceipt
<1>plans. Planned'
    <2>1. PlannedAt(req[r])'
        BY DEF IInv, TypeOK, BeginReceipt, PlannedAt
    <2>2. \A i \in there : source'[i] = source[i] /\ remaining'[i] \in Int
                           /\ remaining'[i] <= remaining[i]
        BY DEF IInv, TypeOK, BeginReceipt, Begins
    <2>3. \A q \in Requests : q # r => req'[q] = req[q]
        BY DEF IInv, TypeOK, BeginReceipt
    <2> QED  BY <1>3, <2>1, <2>2, <2>3, PlansLast DEF IInv
<1> QED  BY <1>2, <1>4, <1>5, <1>plans DEF IInv

LEMMA ReceiptKeeps ==
    ASSUME IInv, NEW r \in Requests, CommitReceipt(r)
    PROVE  IInv'
<1> USE LayersAssumption
<1>1. PICK slot \in Slots, units \in 1 .. MaxUnits :
          req[r] = [pc |-> "in", slot |-> slot, units |-> units]
    BY Shapes DEF IInv, CommitReceipt, Entry
<1>2. /\ slot \in begun \ there /\ there' = there \cup {slot} /\ begun' = begun
      /\ received' = [received EXCEPT ![slot] = units]
      /\ remaining' = [remaining EXCEPT ![slot] = units]
      /\ consumed' = consumed /\ req' = [req EXCEPT ![r] = Idle]
      /\ onHand' = onHand + units /\ UNCHANGED <<source, opening, out, moved>>
    BY <1>1 DEF CommitReceipt, IInv, OwnLayer
<1>3. TypeOK'
    BY <1>2 DEF IInv, TypeOK
<1>4. EmptyBefore'
    BY <1>2 DEF IInv, TypeOK, EmptyBefore
<1>5. OwnLayer'
    BY <1>1, <1>2 DEF IInv, TypeOK, OwnLayer, Idle
<1>6. EveryUnitAccounted'
    BY <1>2 DEF IInv, TypeOK, EmptyBefore, EveryUnitAccounted
<1>plans. Planned'
    <2>1. PlannedAt(req[r])'
        BY <1>2 DEF IInv, TypeOK, PlannedAt, Idle
    <2>2. \A i \in there : source'[i] = source[i] /\ remaining'[i] \in Int
                           /\ remaining'[i] <= remaining[i]
        BY <1>2 DEF IInv, TypeOK
    <2>3. \A q \in Requests : q # r => req'[q] = req[q]
        BY <1>2 DEF IInv, TypeOK
    <2> QED  BY <1>2, <2>1, <2>2, <2>3, PlansLast DEF IInv
<1> QED  BY <1>3, <1>4, <1>5, <1>6, <1>plans DEF IInv

LEMMA DirectKeeps ==
    ASSUME IInv, NEW r \in Requests, NEW slot \in Slots, NEW units \in 1 .. MaxUnits,
           DirectShip(r, slot, units)
    PROVE  IInv'
<1> USE LayersAssumption
<1>1. /\ slot \notin begun /\ begun' = begun \cup {slot} /\ there' = there \cup {slot}
      /\ received' = [received EXCEPT ![slot] = units] /\ remaining' = remaining
      /\ consumed' = [consumed EXCEPT ![slot] = units] /\ req' = req
    BY DEF DirectShip, Begins
<1>2. TypeOK'
    BY <1>1 DEF IInv, TypeOK, DirectShip, Begins
<1>3. EmptyBefore'
    BY <1>1 DEF IInv, TypeOK, EmptyBefore
<1>4. OwnLayer'
    BY <1>1 DEF IInv, TypeOK, OwnLayer
<1>5. EveryUnitAccounted'
    BY <1>1 DEF IInv, TypeOK, EmptyBefore, EveryUnitAccounted
<1>plans. Planned'
    <2>1. PlannedAt(req[r])'
        BY <1>1 DEF DirectShip, PlannedAt, Idle
    <2>2. \A i \in there : source'[i] = source[i] /\ remaining'[i] \in Int
                           /\ remaining'[i] <= remaining[i]
        BY <1>1 DEF IInv, TypeOK, DirectShip, Begins
    <2> QED  BY <1>1, <2>1, <2>2, PlansLast DEF IInv
<1> QED  BY <1>2, <1>3, <1>4, <1>5, <1>plans DEF IInv

LEMMA ReadKeeps ==
    ASSUME IInv, NEW r \in Requests, NEW kind \in Outflows, NEW units \in 1 .. MaxUnits,
           ReadLayers(r, kind, units)
    PROVE  IInv'
<1> USE LayersAssumption
<1>1. PICK take \in [Slots -> 0 .. units], short \in 0 .. units, prefer \in Prefers(kind) :
          /\ Plan(take, short, units, prefer)
          /\ req' = [req EXCEPT ![r] = [pc |-> "out", kind |-> kind, units |-> units,
                                        seen |-> there, take |-> take, short |-> short]]
    BY DEF ReadLayers
<1> DEFINE t == [pc |-> "out", kind |-> kind, units |-> units, seen |-> there,
                 take |-> take, short |-> short]
<1>2. t \in Exit
    <2>1. take \in [Slots -> 0 .. MaxUnits] /\ short \in 0 .. MaxUnits /\ there \subseteq Slots
        BY DEF IInv, TypeOK
    <2> QED  BY <2>1 DEF Exit
<1>3. UNCHANGED <<there, begun, source, received, remaining, consumed, opening, out, onHand, moved>>
    BY DEF ReadLayers, layerVars
<1>plan. PlannedAt(t)'
    <2>1. prefer \in Orders \cup {"stock"} /\ (prefer = "stock" <=> kind # "unreceive")
        BY <1>1 DEF Prefers
    <2>2. there \subseteq Slots
        BY DEF IInv, TypeOK
    <2>3. \A i, j \in there : Precedes(i, j, prefer) /\ take[j] > 0 => take[i] = remaining[i]
        BY <1>1, <2>2 DEF Plan, Walks
    <2>4. \A i \in there : remaining[i] \in Int
        BY <2>2 DEF IInv, TypeOK
    <2>5. \A i, j \in there : (Precedes(i, j, prefer) /\ take[j] > 0 => remaining[i] <= take[i])'
        BY <1>3, <2>3, <2>4 DEF Precedes
    <2> QED  BY <1>3, <2>1, <2>5 DEF PlannedAt
<1>4. TypeOK'
    BY <1>1, <1>2, <1>3 DEF IInv, TypeOK
<1>5. OwnLayer'
    BY <1>1, <1>3 DEF IInv, TypeOK, OwnLayer
<1>6. EmptyBefore' /\ EveryUnitAccounted'
    BY <1>3 DEF IInv, EmptyBefore, EveryUnitAccounted
<1>plans. Planned'
    <2>1. PlannedAt(req[r])'
        <3>1. req'[r] = t'
            BY <1>1, <1>3 DEF IInv, TypeOK
        <3> HIDE DEF t
        <3> QED  BY <1>plan, <3>1 DEF PlannedAt
    <2>2. \A i \in there : source'[i] = source[i] /\ remaining'[i] \in Int
                           /\ remaining'[i] <= remaining[i]
        BY <1>3 DEF IInv, TypeOK
    <2>3. \A q \in Requests : q # r => req'[q] = req[q]
        BY <1>1 DEF IInv, TypeOK
    <2> QED  BY <1>3, <2>1, <2>2, <2>3, PlansLast DEF IInv
<1> QED  BY <1>4, <1>5, <1>6, <1>plans DEF IInv

\* What is subtracted is booked.
LEMMA OutflowKeeps ==
    ASSUME IInv, NEW r \in Requests, CommitOutflow(r)
    PROVE  IInv'
<1> USE LayersAssumption
<1>1. req[r] \in Exit
    BY Shapes DEF IInv, CommitOutflow
<1> DEFINE take == req[r].take
<1>2. /\ take \in [Slots -> 0 .. MaxUnits] /\ req[r].short \in Nat /\ req[r].units \in Nat
    BY <1>1 DEF Exit
<1> HIDE DEF take
<1>3. \A i \in Slots : take[i] <= remaining[i]
    BY DEF CommitOutflow, Fits, take
<1>4. /\ remaining' = [i \in Slots |-> remaining[i] - take[i]]
      /\ consumed' = [i \in Slots |-> consumed[i] + take[i]]
      /\ opening' = opening + req[r].short /\ out' = out + req[r].units
      /\ req' = [req EXCEPT ![r] = Idle]
      /\ UNCHANGED <<there, begun, source, received>>
    BY DEF CommitOutflow, Consumes, take
<1>5. onHand' \in Int
    BY <1>2 DEF CommitOutflow, Consumes, Lowered, Larger, IInv, TypeOK
<1>6. remaining' \in [Slots -> 0 .. MaxUnits] /\ consumed' \in [Slots -> Nat]
    BY <1>2, <1>3, <1>4 DEF IInv, TypeOK
<1>7. TypeOK'
    <2>1. req' \in [Requests -> {Idle} \cup Entry \cup Exit]
        BY <1>4 DEF IInv, TypeOK
    <2>2. opening' \in Nat /\ out' \in Nat
        BY <1>2, <1>4 DEF IInv, TypeOK
    <2> QED  BY <1>4, <1>5, <1>6, <2>1, <2>2 DEF IInv, TypeOK, CommitOutflow, Consumes
<1>8. EmptyBefore'
    BY <1>2, <1>3, <1>4 DEF IInv, TypeOK, EmptyBefore
<1>9. OwnLayer'
    BY <1>4 DEF IInv, TypeOK, OwnLayer, Idle
<1>10. EveryUnitAccounted'
    BY <1>2, <1>3, <1>4 DEF IInv, TypeOK, EveryUnitAccounted
<1>plans. Planned'
    <2>1. PlannedAt(req[r])'
        BY <1>4 DEF IInv, TypeOK, PlannedAt, Idle
    <2>2. \A i \in there : source'[i] = source[i] /\ remaining'[i] \in Int
                           /\ remaining'[i] <= remaining[i]
        BY <1>2, <1>3, <1>4 DEF IInv, TypeOK
    <2>3. \A q \in Requests : q # r => req'[q] = req[q]
        BY <1>4 DEF IInv, TypeOK
    <2> QED  BY <1>4, <2>1, <2>2, <2>3, PlansLast DEF IInv
<1> QED  BY <1>7, <1>8, <1>9, <1>10, <1>plans DEF IInv

LEMMA RollbackKeeps ==
    ASSUME IInv, NEW r \in Requests, Rollback(r)
    PROVE  IInv'
<1>1. TypeOK'
    <2>1. req' \in [Requests -> {Idle} \cup Entry \cup Exit]
        BY DEF IInv, TypeOK, Rollback
    <2> QED  BY <2>1 DEF IInv, TypeOK, Rollback, layerVars
<1>2. OwnLayer'
    BY DEF IInv, TypeOK, OwnLayer, Rollback, layerVars, Idle
<1>3. EmptyBefore' /\ EveryUnitAccounted'
    BY DEF IInv, EmptyBefore, EveryUnitAccounted, Rollback, layerVars
<1>plans. Planned'
    <2>1. PlannedAt(req[r])'
        BY DEF Rollback, IInv, TypeOK, PlannedAt, Idle
    <2>2. \A i \in there : source'[i] = source[i] /\ remaining'[i] \in Int
                           /\ remaining'[i] <= remaining[i]
        BY LayersAssumption DEF Rollback, layerVars, IInv, TypeOK
    <2>3. \A q \in Requests : q # r => req'[q] = req[q]
        BY DEF Rollback, IInv, TypeOK
    <2> QED  BY <2>1, <2>2, <2>3, PlansLast DEF IInv, Rollback, layerVars
<1> QED  BY <1>1, <1>2, <1>3, <1>plans DEF IInv

LEMMA RelinkKeeps ==
    ASSUME IInv, NEW r \in Requests, NEW units \in 1 .. MaxUnits, Relink(r, units)
    PROVE  IInv'
<1>1. TypeOK'
    BY LayersAssumption DEF IInv, TypeOK, Relink, layerVars, Lowered, Larger
<1>2. OwnLayer' /\ EmptyBefore' /\ EveryUnitAccounted'
    BY DEF IInv, OwnLayer, EmptyBefore, EveryUnitAccounted, Relink, layerVars
<1>plans. Planned'
    <2>1. PlannedAt(req[r])'
        BY DEF Relink, PlannedAt, Idle
    <2>2. \A i \in there : source'[i] = source[i] /\ remaining'[i] \in Int
                           /\ remaining'[i] <= remaining[i]
        BY LayersAssumption DEF Relink, layerVars, IInv, TypeOK
    <2> QED  BY <2>1, <2>2, PlansLast DEF IInv, Relink, layerVars
<1> QED  BY <1>1, <1>2, <1>plans DEF IInv

LEMMA IInvStep == ASSUME IInv, [Next]_vars PROVE IInv'
<1>1. CASE UNCHANGED vars
    BY <1>1 DEF IInv, TypeOK, EmptyBefore, OwnLayer, EveryUnitAccounted, Planned, PlannedAt,
                Precedes, vars, layerVars
<1>2. ASSUME NEW r \in Requests, Inflow(r) PROVE IInv'
    BY <1>2, BeginKeeps, DirectKeeps DEF Inflow
<1>3. ASSUME NEW r \in Requests, Outflow(r) PROVE IInv'
    BY <1>3, ReadKeeps, RelinkKeeps DEF Outflow
<1>4. ASSUME NEW r \in Requests, CommitReceipt(r) PROVE IInv'
    BY <1>4, ReceiptKeeps
<1>5. ASSUME NEW r \in Requests, CommitOutflow(r) PROVE IInv'
    BY <1>5, OutflowKeeps
<1>6. ASSUME NEW r \in Requests, Rollback(r) PROVE IInv'
    BY <1>6, RollbackKeeps
<1> QED  BY <1>1, <1>2, <1>3, <1>4, <1>5, <1>6 DEF Next

LEMMA IInvAlways == Spec => []IInv
<1>1. Init => IInv
    BY IInvInit
<1>2. IInv /\ [Next]_vars => IInv'
    BY IInvStep
<1> QED  BY <1>1, <1>2, PTL DEF Spec

-----------------------------------------------------------------------------
(* The level and the layers.                                               *)

\* A plan covers what its request asks for.
PlansWhole ==
    \A r \in Requests : req[r].pc = "out" => Total(req[r].take) + req[r].short = req[r].units

LevelInv == PlansWhole /\ StockIsLayered

LEMMA TotalIsNat ==
    ASSUME NEW f \in [Slots -> Nat]
    PROVE  Total(f) \in Nat
    BY SumIsNat, LayersAssumption DEF Total

LEMMA TotalUpdate ==
    ASSUME NEW f, NEW g, NEW x \in Slots, g[x] \in Int,
           \A y \in Slots : f[y] \in Int, \A y \in Slots \ {x} : g[y] = f[y]
    PROVE  Total(g) = Total(f) - f[x] + g[x]
<1>1. IsFiniteSet(Slots)
    BY LayersAssumption
<1> QED  BY <1>1, SumUpdate DEF Total

LEMMA RemainingIsNat == ASSUME IInv PROVE Total(remaining) \in Nat
<1>1. remaining \in [Slots -> Nat]
    BY LayersAssumption DEF IInv, TypeOK
<1> QED  BY <1>1, TotalIsNat

LEMMA LevelInit == ASSUME Init PROVE LevelInv
<1>1. \A i \in Slots : remaining[i] = 0
    BY DEF Init, None
<1>2. Total(remaining) = 0
    BY <1>1, SumOfZeros, LayersAssumption DEF Total
<1> QED  BY <1>2, LayersAssumption DEF Init, LevelInv, PlansWhole, StockIsLayered, Idle

\* Where neither the layers nor the level are touched.
LEMMA LevelStays ==
    ASSUME TypeOK, LevelInv, UNCHANGED <<remaining, onHand, opening, moved>>,
           NEW r \in Requests, req' = [req EXCEPT ![r] = req'[r]],
           req'[r].pc = "out" => Total(req'[r].take) + req'[r].short = req'[r].units
    PROVE  LevelInv'
<1>1. StockIsLayered'
    BY DEF LevelInv, StockIsLayered, Total
<1>2. ASSUME NEW q \in Requests, req'[q].pc = "out"
      PROVE  Total(req'[q].take) + req'[q].short = req'[q].units
    BY <1>2 DEF LevelInv, PlansWhole, TypeOK
<1> QED  BY <1>1, <1>2 DEF LevelInv, PlansWhole, Total

\* What a receipt adds to its layer it adds to the level.
LEMMA ReceiptLevels ==
    ASSUME IInv, LevelInv, NEW r \in Requests, CommitReceipt(r)
    PROVE  LevelInv'
<1> USE LayersAssumption
<1>1. PICK slot \in Slots, units \in 1 .. MaxUnits :
          req[r] = [pc |-> "in", slot |-> slot, units |-> units]
    BY Shapes DEF IInv, CommitReceipt, Entry
<1>2. /\ slot \in Slots \ there /\ remaining[slot] = 0
      /\ remaining' = [remaining EXCEPT ![slot] = units]
      /\ onHand' = onHand + units /\ UNCHANGED <<opening, moved>>
      /\ req' = [req EXCEPT ![r] = Idle]
    BY <1>1 DEF CommitReceipt, IInv, OwnLayer, EmptyBefore
<1>3. Total(remaining)' = Total(remaining) + units
    <2>1. /\ \A i \in Slots : remaining[i] \in Int
          /\ remaining'[slot] = units /\ units \in Int
          /\ \A i \in Slots \ {slot} : remaining'[i] = remaining[i]
        BY <1>2 DEF IInv, TypeOK
    <2>2. Total(remaining') = Total(remaining) - remaining[slot] + remaining'[slot]
        BY <2>1, TotalUpdate
    <2> QED  BY <1>2, <2>1, <2>2, RemainingIsNat DEF Total
<1>4. Total(remaining) \in Int /\ opening \in Int /\ moved \in Int /\ onHand \in Int
    BY RemainingIsNat DEF IInv, TypeOK
<1>5. StockIsLayered'
    BY <1>2, <1>3, <1>4 DEF LevelInv, StockIsLayered
<1>6. PlansWhole'
    BY <1>2 DEF LevelInv, PlansWhole, IInv, TypeOK, Idle, Total
<1> QED  BY <1>5, <1>6 DEF LevelInv

\* An outflow lowers the level by no more than it takes of the layers and books
\* as uncovered.
LEMMA OutflowLevels ==
    ASSUME IInv, LevelInv, NEW r \in Requests, CommitOutflow(r)
    PROVE  LevelInv'
<1> USE LayersAssumption
<1>1. req[r] \in Exit
    BY Shapes DEF IInv, CommitOutflow
<1> DEFINE take == req[r].take
<1>2. /\ take \in [Slots -> 0 .. MaxUnits] /\ req[r].short \in Nat /\ req[r].units \in Nat
    BY <1>1 DEF Exit
<1>3. Total(take) + req[r].short = req[r].units
    BY DEF LevelInv, PlansWhole, CommitOutflow
<1> HIDE DEF take
<1>4. /\ remaining' = [i \in Slots |-> remaining[i] - take[i]]
      /\ opening' = opening + req[r].short /\ moved' = moved
      /\ onHand' = Lowered(req[r].kind, req[r].units)
      /\ req' = [req EXCEPT ![r] = Idle]
    BY DEF CommitOutflow, Consumes, take
<1>5. Total(remaining) = Total(remaining') + Total(take)
    <2>1. \A i \in Slots : /\ remaining'[i] \in Int /\ take[i] \in Int
                           /\ remaining[i] = remaining'[i] + take[i]
        BY <1>2, <1>4 DEF IInv, TypeOK
    <2> QED  BY <2>1, SumPlus DEF Total
<1>6. Total(remaining') \in Int /\ Total(take) \in Nat
    <2>1. \A i \in Slots : remaining'[i] \in Int /\ take[i] \in Nat
        BY <1>2, <1>4 DEF IInv, TypeOK
    <2> QED  BY <2>1, SumIsInt, SumIsNat DEF Total
<1>7. onHand' >= onHand - req[r].units /\ onHand' \in Int
    BY <1>2, <1>4 DEF IInv, TypeOK, Lowered, Larger
<1>8. StockIsLayered'
    BY <1>2, <1>3, <1>4, <1>5, <1>6, <1>7 DEF LevelInv, StockIsLayered, IInv, TypeOK
<1>9. PlansWhole'
    BY <1>4 DEF LevelInv, PlansWhole, IInv, TypeOK, Idle, Total
<1> QED  BY <1>8, <1>9 DEF LevelInv

LEMMA RelinkLevels ==
    ASSUME IInv, LevelInv, NEW r \in Requests, NEW units \in 1 .. MaxUnits, Relink(r, units)
    PROVE  LevelInv'
<1>1. /\ UNCHANGED <<remaining, opening, req>> /\ moved' = moved + units
      /\ onHand' >= onHand - units /\ onHand' \in Int
    BY LayersAssumption DEF Relink, layerVars, Lowered, Larger, IInv, TypeOK
<1>2. Total(remaining) \in Int
    BY RemainingIsNat
<1>3. Total(remaining') = Total(remaining)
    BY <1>1
<1>4. StockIsLayered'
    BY <1>1, <1>2, <1>3, LayersAssumption DEF LevelInv, StockIsLayered, IInv, TypeOK
<1>5. PlansWhole'
    BY <1>1 DEF LevelInv, PlansWhole, Total
<1> QED  BY <1>4, <1>5 DEF LevelInv

LEMMA LevelStep == ASSUME IInv, LevelInv, [Next]_vars PROVE LevelInv'
<1>1. CASE UNCHANGED vars
    BY <1>1 DEF vars, layerVars, LevelInv, PlansWhole, StockIsLayered, Total
<1>2. ASSUME NEW r \in Requests, Inflow(r) PROVE LevelInv'
    <2>1. ASSUME NEW slot \in Slots, NEW units \in 1 .. MaxUnits,
                 NEW from \in Orders \cup {"stock"}, BeginReceipt(r, slot, from, units)
          PROVE  LevelInv'
        <3>1. req' = [req EXCEPT ![r] = req'[r]] /\ req'[r].pc = "in"
            BY <2>1 DEF BeginReceipt, IInv, TypeOK
        <3>2. UNCHANGED <<remaining, onHand, opening, moved>>
            BY <2>1 DEF BeginReceipt
        <3> QED  BY <3>1, <3>2, LevelStays DEF IInv
    <2>2. ASSUME NEW slot \in Slots, NEW units \in 1 .. MaxUnits, DirectShip(r, slot, units)
          PROVE  LevelInv'
        BY <2>2 DEF DirectShip, LevelInv, PlansWhole, StockIsLayered, Total
    <2> QED  BY <1>2, <2>1, <2>2 DEF Inflow
<1>3. ASSUME NEW r \in Requests, Outflow(r) PROVE LevelInv'
    <2>1. ASSUME NEW kind \in Outflows, NEW units \in 1 .. MaxUnits, ReadLayers(r, kind, units)
          PROVE  LevelInv'
        <3>1. PICK take \in [Slots -> 0 .. units], short \in 0 .. units, prefer \in Prefers(kind) :
                  /\ Plan(take, short, units, prefer)
                  /\ req' = [req EXCEPT ![r] = [pc |-> "out", kind |-> kind, units |-> units,
                                               seen |-> there, take |-> take, short |-> short]]
            BY <2>1 DEF ReadLayers
        <3>2. Total(take) + short = units
            BY <3>1 DEF Plan, Walks
        <3>3. req' = [req EXCEPT ![r] = req'[r]] /\ req'[r].take = take
              /\ req'[r].short = short /\ req'[r].units = units
            BY <3>1 DEF IInv, TypeOK
        <3>4. UNCHANGED <<remaining, onHand, opening, moved>>
            BY <2>1 DEF ReadLayers, layerVars
        <3> QED  BY <3>2, <3>3, <3>4, LevelStays DEF IInv
    <2> QED  BY <1>3, <2>1, RelinkLevels DEF Outflow
<1>4. ASSUME NEW r \in Requests, CommitReceipt(r) PROVE LevelInv'
    BY <1>4, ReceiptLevels
<1>5. ASSUME NEW r \in Requests, CommitOutflow(r) PROVE LevelInv'
    BY <1>5, OutflowLevels
<1>6. ASSUME NEW r \in Requests, Rollback(r) PROVE LevelInv'
    <2>1. req' = [req EXCEPT ![r] = req'[r]] /\ req'[r].pc = "idle"
          /\ UNCHANGED <<remaining, onHand, opening, moved>>
        BY <1>6 DEF Rollback, Idle, IInv, TypeOK, layerVars
    <2> QED  BY <2>1, LevelStays DEF IInv
<1> QED  BY <1>1, <1>2, <1>3, <1>4, <1>5, <1>6 DEF Next

-----------------------------------------------------------------------------
\* Layers and requests keep their types: no layer goes below zero.
THEOREM LayersTyped == Spec => []TypeOK
<1>1. IInv => TypeOK
    BY DEF IInv
<1> QED  BY <1>1, IInvAlways, PTL

\* However outflows overlap (CostingService.consume), every unit of a layer
\* is in it or booked as consumed once.
THEOREM UnitsAccounted == Spec => []EveryUnitAccounted
<1>1. IInv => EveryUnitAccounted
    BY DEF IInv
<1> QED  BY <1>1, IInvAlways, PTL

\* No unit is priced from a layer while an older one that the request has seen
\* keeps units (CostingService.consume walks the layers by age), however other
\* requests draw on the same layers between its read and its write.
THEOREM DrawsInOrderHolds == Spec => DrawsInOrder
<1> DEFINE InOrder(r) ==
        \E prefer \in Orders \cup {"stock"} :
            /\ prefer = "stock" <=> req[r].kind # "unreceive"
            /\ \A i, j \in req[r].seen :
                  Precedes(i, j, prefer) /\ Consumed(j) => remaining'[i] = 0
<1>1. ASSUME IInv, NEW r \in Requests, CommitOutflow(r)
      PROVE  InOrder(r)
    <2>1. req[r] \in Exit /\ req[r].pc = "out"
        BY <1>1, Shapes DEF IInv, CommitOutflow
    <2>2. /\ req[r].seen \subseteq Slots /\ req[r].take \in [Slots -> 0 .. MaxUnits]
        BY <2>1 DEF Exit
    <2>3. PICK prefer \in Orders \cup {"stock"} :
              /\ prefer = "stock" <=> req[r].kind # "unreceive"
              /\ \A i, j \in req[r].seen :
                    Precedes(i, j, prefer) /\ req[r].take[j] > 0 => remaining[i] <= req[r].take[i]
        BY <1>1, <2>1 DEF IInv, Planned, PlannedAt
    <2>4. \A i \in Slots : /\ req[r].take[i] <= remaining[i]
                           /\ remaining'[i] = remaining[i] - req[r].take[i]
                           /\ consumed'[i] = consumed[i] + req[r].take[i]
        BY <1>1 DEF CommitOutflow, Fits, Consumes
    <2>5. \A i \in Slots : remaining[i] \in Int /\ consumed[i] \in Int /\ req[r].take[i] \in Int
        BY <1>1, <2>2, LayersAssumption DEF IInv, TypeOK
    <2>6. ASSUME NEW i \in req[r].seen, NEW j \in req[r].seen,
                 Precedes(i, j, prefer), Consumed(j)
          PROVE  remaining'[i] = 0
        <3>1. req[r].take[j] > 0
            BY <2>2, <2>4, <2>5, <2>6 DEF Consumed
        <3>2. remaining[i] <= req[r].take[i]
            BY <2>3, <2>6, <3>1
        <3> QED  BY <2>2, <2>4, <2>5, <3>2
    <2> QED  BY <2>3, <2>6
<1>2. IInv /\ [Next]_vars => [\A r \in Requests : CommitOutflow(r) => InOrder(r)]_vars
    BY <1>1
<1> QED  BY <1>2, IInvAlways, PTL DEF Spec, DrawsInOrder

\* What the layers say there is exceeds the level by the units that left no
\* layer, and by nothing else (CostingService.consume; the catalog's relink,
\* which lowers the level alone).
THEOREM StockIsLayeredHolds == Spec => []StockIsLayered
<1>1. Init => LevelInv
    BY LevelInit
<1>2. IInv /\ LevelInv /\ [Next]_vars => LevelInv'
    BY LevelStep
<1>3. LevelInv => StockIsLayered
    BY DEF LevelInv
<1> QED  BY <1>1, <1>2, <1>3, IInvAlways, PTL DEF Spec

=============================================================================
