------------------------ MODULE PurchaseOrdersProofs ------------------------
(***************************************************************************)
(* Proofs about PurchaseOrders, for any number of purchase orders, lines,  *)
(* order lines, transfers, bodies and units.                               *)
(*                                                                         *)
(* The stages.  Every handler checks the stages that it moves itself.      *)
(* What has to be carried along is that a purchase order that is not there *)
(* yet has received nothing: it is created with a quantity of its own.     *)
(*                                                                         *)
(* The links.  A queue is served from the front, a link that is served     *)
(* halfway is split, and one that is given up is closed up after.  The     *)
(* lemmas about queues say what each of these does to the units of a line  *)
(* and to those of an order line; BookInv carries both sums along, and an  *)
(* order line never has units from two sources.                            *)
(*                                                                         *)
(* The stock.  A receipt reserves no more than it brings, and a take-back  *)
(* leaves what is reserved: if a variant is on one line (OneLineEach).     *)
(***************************************************************************)
EXTENDS PurchaseOrders, Sums, SequenceTheorems, TLAPS

Counters ==
    /\ ordered \in [Lines -> 0 .. MaxUnits]
    /\ received \in [Lines -> Nat] /\ inspected \in [Lines -> Nat]
    /\ accepted \in [Lines -> Nat] /\ rejected \in [Lines -> Nat]

\* A purchase order that is not there yet has received nothing.
Unborn ==
    /\ status \in [Pos -> Open \cup {"none", "received", "canceled"}]
    /\ \A l \in Lines : status[PoOf[l]] = "none" =>
           /\ received[l] = 0 /\ inspected[l] = 0
           /\ accepted[l] = 0 /\ rejected[l] = 0

\* An inductive invariant of the counters.
IInv == Counters /\ Unborn /\ StagesInOrder

counterVars == <<status, lineVars>>

-----------------------------------------------------------------------------
LEMMA IInvInit == ASSUME Init PROVE IInv
    BY PurchaseAssumption DEF Init, IInv, Counters, Unborn, StagesInOrder

\* A step that leaves the lines and the status alone.
LEMMA StillKeeps == ASSUME IInv, UNCHANGED counterVars PROVE IInv'
    BY DEF IInv, Counters, Unborn, StagesInOrder, counterVars, lineVars

\* A step that only moves a purchase order that is there to another status.
LEMMA StatusKeeps ==
    ASSUME IInv, NEW p \in Pos, status[p] # "none",
           NEW to \in Open \cup {"received", "canceled"},
           status' = [status EXCEPT ![p] = to], UNCHANGED lineVars
    PROVE  IInv'
<1>1. Counters' /\ StagesInOrder'
    BY DEF IInv, Counters, StagesInOrder, lineVars
<1>2. status' \in [Pos -> Open \cup {"none", "received", "canceled"}]
    BY DEF IInv, Unborn
<1>3. \A l \in Lines : status'[PoOf[l]] = "none" => status[PoOf[l]] = "none"
    BY PurchaseAssumption DEF IInv, Unborn, Open
<1>4. Unborn'
    BY <1>2, <1>3 DEF IInv, Unborn, lineVars
<1> QED  BY <1>1, <1>4 DEF IInv

LEMMA CreateKeeps ==
    ASSUME IInv, NEW p \in Pos, NEW l \in Lines, NEW units \in 1 .. MaxUnits,
           NEW links, NEW ships, Creates(p, l, units, links, ships)
    PROVE  IInv'
<1> USE PurchaseAssumption
<1>1. PICK first \in {"draft", "ordered"} : status' = [status EXCEPT ![p] = first]
    BY DEF Creates
<1>2. /\ status[p] = "none" /\ PoOf[l] = p
      /\ ordered' = [ordered EXCEPT ![l] = units]
      /\ UNCHANGED <<received, inspected, accepted, rejected>>
    BY DEF Creates, LinesOf
<1>3. Counters'
    BY <1>2 DEF IInv, Counters
<1>4. status' \in [Pos -> Open \cup {"none", "received", "canceled"}]
    BY <1>1 DEF IInv, Unborn, Open
<1>5. \A m \in Lines : status'[PoOf[m]] = "none" => status[PoOf[m]] = "none"
    BY <1>1 DEF IInv, Unborn
<1>6. Unborn'
    BY <1>2, <1>4, <1>5 DEF IInv, Unborn
<1>7. StagesInOrder'
    BY <1>2 DEF IInv, Counters, Unborn, StagesInOrder
<1> QED  BY <1>3, <1>6, <1>7 DEF IInv

\* The quantity of a line never falls below what has been received.
LEMMA UpdateKeeps ==
    ASSUME IInv, NEW p \in Pos, NEW to \in Batches, Update(p, to)
    PROVE  IInv'
<1>1. /\ ordered' = to /\ UNCHANGED <<status, received, inspected, accepted, rejected>>
      /\ \A l \in LinesOf(p) : to[l] >= received[l]
      /\ \A l \in Lines \ LinesOf(p) : to[l] = ordered[l]
    BY DEF Update, Edits, poVars
<1>2. Counters' /\ Unborn'
    BY <1>1 DEF IInv, Counters, Unborn, Batches
<1>3. StagesInOrder'
    BY <1>1 DEF IInv, Counters, StagesInOrder, LinesOf
<1> QED  BY <1>2, <1>3 DEF IInv

\* Increments of some lines of a purchase order that is there, each in stages.
LEMMA ReceivesKeeps ==
    ASSUME IInv, NEW p \in Pos, status[p] # "none", NEW inc \in [Lines -> Stages],
           \A l \in Lines : Staged(l, inc[l]),
           \A l \in Lines : PoOf[l] # p => inc[l] = Nothing, Receives(p, inc)
    PROVE  IInv'
<1> USE PurchaseAssumption
<1>1. /\ received' = [l \in Lines |-> received[l] + inc[l].received]
      /\ inspected' = [l \in Lines |-> inspected[l] + inc[l].inspected]
      /\ accepted' = [l \in Lines |-> accepted[l] + inc[l].accepted]
      /\ rejected' = [l \in Lines |-> rejected[l] + inc[l].rejected]
      /\ ordered' = ordered
    BY DEF Receives
<1>2. \A l \in Lines : /\ inc[l].received \in Nat /\ inc[l].inspected \in Nat
                       /\ inc[l].accepted \in Nat /\ inc[l].rejected \in Nat
    BY DEF Stages
<1>3. Counters'
    BY <1>1, <1>2 DEF IInv, Counters
<1>4. PICK to \in {"received", "partially_received"} : status' = [status EXCEPT ![p] = to]
    BY DEF Receives
<1>5. status' \in [Pos -> Open \cup {"none", "received", "canceled"}]
    BY <1>4 DEF IInv, Unborn, Open
<1>6. \A l \in Lines : status'[PoOf[l]] = "none" =>
          status[PoOf[l]] = "none" /\ PoOf[l] # p
    BY <1>4 DEF IInv, Unborn
<1>7. StagesInOrder'
    BY <1>1, <1>2 DEF IInv, Counters, StagesInOrder, Staged
<1>8. Unborn'
    BY <1>1, <1>5, <1>6 DEF IInv, Counters, Unborn, Nothing
<1> QED  BY <1>3, <1>7, <1>8 DEF IInv

LEMMA ReceiveStagesKeeps ==
    ASSUME IInv, NEW p \in Pos, NEW l \in Lines, NEW inc \in Stages,
           ReceiveStages(p, l, inc)
    PROVE  IInv'
<1> DEFINE all == [m \in Lines |-> IF m = l THEN inc ELSE Nothing]
<1>1. PoOf[l] = p /\ status[p] # "none" /\ Staged(l, inc) /\ Receives(p, all)
    BY DEF ReceiveStages, LinesOf
<1>2. Nothing \in Stages
    BY PurchaseAssumption DEF Nothing, Stages
<1>3. all \in [Lines -> Stages]
    BY <1>2
<1>4. \A m \in Lines : Staged(m, Nothing)
    BY DEF IInv, Counters, StagesInOrder, Staged, Nothing
<1>5. \A m \in Lines : Staged(m, all[m])
    BY <1>1, <1>4
<1>6. \A m \in Lines : PoOf[m] # p => all[m] = Nothing
    BY <1>1
<1> HIDE DEF all
<1> QED  BY <1>1, <1>3, <1>5, <1>6, ReceivesKeeps

\* The fast path moves each counter by the same number of units.
LEMMA ReceiveKeeps ==
    ASSUME IInv, NEW p \in Pos, NEW units \in Batches, Receive(p, units)
    PROVE  IInv'
<1> USE PurchaseAssumption
<1> DEFINE all == [l \in Lines |-> [received |-> units[l], inspected |-> units[l],
                                    accepted |-> units[l], rejected |-> 0]]
<1>1. /\ status[p] # "none" /\ Receives(p, all)
      /\ \A l \in Lines : units[l] <= IF l \in LinesOf(p) THEN ordered[l] - received[l] ELSE 0
    BY DEF Receive
<1>2. \A l \in Lines : units[l] \in Nat /\ units[l] \in 0 .. MaxUnits
    BY DEF Batches
<1>3. all \in [Lines -> Stages]
    BY <1>2 DEF Stages
<1>4. \A l \in Lines : Staged(l, all[l])
    BY <1>1, <1>2 DEF IInv, Counters, StagesInOrder, Staged
<1>5. \A l \in Lines : PoOf[l] # p => all[l] = Nothing
    BY <1>1, <1>2 DEF LinesOf, Nothing
<1> HIDE DEF all
<1> QED  BY <1>1, <1>3, <1>4, <1>5, ReceivesKeeps

\* A correction takes the same number of units from three counters, and no
\* more than were accepted.
LEMMA UnreceiveKeeps ==
    ASSUME IInv, NEW p \in Pos, NEW units \in Batches, Unreceive(p, units)
    PROVE  IInv'
<1> USE PurchaseAssumption
<1>1. /\ status[p] \in {"partially_received", "received"}
      /\ \A l \in Lines : units[l] <= IF l \in LinesOf(p) THEN accepted[l] ELSE 0
      /\ received' = [l \in Lines |-> received[l] - units[l]]
      /\ inspected' = [l \in Lines |-> inspected[l] - units[l]]
      /\ accepted' = [l \in Lines |-> accepted[l] - units[l]]
      /\ UNCHANGED <<ordered, rejected>>
    BY DEF Unreceive, TakesBack
<1>2. \A l \in Lines : units[l] \in Nat /\ units[l] <= accepted[l]
    BY <1>1 DEF Batches, IInv, Counters
<1>3. Counters' /\ StagesInOrder'
    BY <1>1, <1>2 DEF IInv, Counters, StagesInOrder
<1>4. PICK to \in {"received", "partially_received", "ordered"} :
          status' = [status EXCEPT ![p] = to]
    BY DEF Unreceive, TakesBack
<1>5. status' \in [Pos -> Open \cup {"none", "received", "canceled"}]
    BY <1>4 DEF IInv, Unborn, Open
<1>6. \A l \in Lines : status'[PoOf[l]] = "none" =>
          status[PoOf[l]] = "none" /\ l \notin LinesOf(p)
    BY <1>4 DEF IInv, Unborn, LinesOf
<1>7. \A l \in Lines : l \notin LinesOf(p) => units[l] = 0
    BY <1>1, <1>2
<1>8. Unborn'
    BY <1>1, <1>5, <1>6, <1>7 DEF IInv, Counters, Unborn
<1> QED  BY <1>3, <1>8 DEF IInv

-----------------------------------------------------------------------------
LEMMA IInvStep == ASSUME IInv, [Next]_vars PROVE IInv'
<1> USE DEF counterVars, poVars, linkVars, stockVars
<1>1. CASE UNCHANGED vars
    BY <1>1, StillKeeps DEF vars
<1>2. ASSUME NEW p \in Pos, NEW l \in Lines, NEW units \in 1 .. MaxUnits,
             Create(p, l, units) \/ \E t \in OrderLines : GeneratePo(p, l, t, units)
      PROVE  IInv'
    BY <1>2, CreateKeeps DEF Create, GeneratePo
<1>3. ASSUME NEW p \in Pos, Place(p) \/ Cancel(p) PROVE IInv'
    BY <1>3, StatusKeeps DEF Place, Cancel, Open
<1>4. ASSUME NEW p \in Pos, Delete(p) \/ Restore(p) PROVE IInv'
    BY <1>4, StillKeeps DEF Delete, Restore
<1>5. ASSUME NEW p \in Pos, NEW units \in Batches,
             Update(p, units) \/ Receive(p, units) \/ Unreceive(p, units)
      PROVE  IInv'
    BY <1>5, UpdateKeeps, ReceiveKeeps, UnreceiveKeeps
<1>6. ASSUME NEW p \in Pos, NEW l \in Lines, NEW inc \in Stages, ReceiveStages(p, l, inc)
      PROVE  IInv'
    BY <1>6, ReceiveStagesKeeps
<1>7. ASSUME NEW l \in Lines, NEW t \in Targets, NEW units \in 1 .. MaxUnits,
             LinkUnits(l, t, units)
      PROVE  IInv'
    BY <1>7, StillKeeps DEF LinkUnits, Links
<1>8. ASSUME NEW l \in Lines, NEW i \in DOMAIN queue[l], Unlink(l, i) PROVE IInv'
    BY <1>8, StillKeeps DEF Unlink
<1>9. ASSUME NEW t \in OrderLines, NEW units \in 1 .. MaxUnits,
             Reserve(t, units) \/ Fulfill(t, units)
      PROVE  IInv'
    BY <1>9, StillKeeps DEF Reserve, Fulfill
<1>10. ASSUME NEW t \in OrderLines, CloseOrder(t) PROVE IInv'
    BY <1>10, StillKeeps DEF CloseOrder
<1> QED  BY <1>1, <1>2, <1>3, <1>4, <1>5, <1>6, <1>7, <1>8, <1>9, <1>10 DEF Next

\* The counters of every line stay in the order ordered, received, inspected,
\* accepted and rejected (receiveStages, receive, unreceive and update of
\* PurchaseOrdersController), for any number of purchase orders and units.
THEOREM StagesHold == Spec => []StagesInOrder
<1>1. Init => IInv
    BY IInvInit
<1>2. IInv /\ [Next]_vars => IInv'
    BY IInvStep
<1>3. IInv => StagesInOrder
    BY DEF IInv
<1> QED  BY <1>1, <1>2, <1>3, PTL DEF Spec

-----------------------------------------------------------------------------
(* Queues of links.                                                        *)

LEMMA QueueTypes ==
    ASSUME NEW q \in Seq(Link)
    PROVE  /\ Len(q) \in Nat /\ DOMAIN q = 1 .. Len(q) /\ IsFiniteSet(DOMAIN q)
           /\ \A i \in DOMAIN q : /\ q[i] \in Link /\ q[i].to \in Targets
                                  /\ q[i].units \in 1 .. MaxUnits
                                  /\ q[i].units \in Nat /\ q[i].units >= 1
                                  /\ UnitsOf(q)[i] = q[i].units
           /\ DOMAIN UnitsOf(q) = DOMAIN q
<1>1. Len(q) \in Nat /\ DOMAIN q = 1 .. Len(q)
    OBVIOUS
<1>2. IsFiniteSet(DOMAIN q)
    BY <1>1, FS_Interval
<1>3. \A i \in DOMAIN q : q[i] \in Link
    OBVIOUS
<1> QED  BY <1>1, <1>2, <1>3, PurchaseAssumption DEF Link, UnitsOf

LEMMA QueueUnits ==
    ASSUME NEW q \in Seq(Link)
    PROVE  Total(UnitsOf(q)) \in Nat
BY QueueTypes, SumIsNat DEF Total

LEMMA SumSteps ==
    ASSUME NEW n \in Nat, NEW f, \A i \in 1 .. n + 1 : f[i] \in Int
    PROVE  SumFunctionOnSet(f, 1 .. n + 1) = SumFunctionOnSet(f, 1 .. n) + f[n + 1]
<1> DEFINE all == 1 .. n + 1
           less == 1 .. n
<1>1. IsFiniteSet(all) /\ IsFiniteSet(less)
    BY FS_Interval
<1>2. n + 1 \in all /\ all \ {n + 1} = less /\ less \subseteq all
    OBVIOUS
<1> HIDE DEF all, less
<1>3. SumFunctionOnSet(f, all) = f[n + 1] + SumFunctionOnSet(f, less)
    BY <1>1, <1>2, SumTakes DEF all
<1>4. SumFunctionOnSet(f, less) \in Int
    BY <1>1, <1>2, SumIsInt DEF all
<1>5. f[n + 1] \in Int
    OBVIOUS
<1>6. SumFunctionOnSet(f, all) = SumFunctionOnSet(f, less) + f[n + 1]
    BY <1>3, <1>4, <1>5
<1> QED  BY <1>6 DEF all, less

\* The units in front of a link are no fewer further back.
LEMMA BeforeFacts ==
    ASSUME NEW q \in Seq(Link), NEW n \in 0 .. Len(q)
    PROVE  /\ Before(q, n + 1) \in Nat
           /\ \A m \in 0 .. n : Before(q, m + 1) <= Before(q, n + 1)
           /\ n < Len(q) => Before(q, n + 2) = Before(q, n + 1) + q[n + 1].units
<1> DEFINE f == UnitsOf(q)
           first(k) == SumFunctionOnSet(f, 1 .. k)
<1>1. /\ n \in Nat /\ n <= Len(q) /\ Len(q) \in Nat /\ IsFiniteSet(1 .. n)
      /\ \A i \in 1 .. Len(q) : f[i] \in Nat /\ f[i] = q[i].units
    <2>1. n \in Nat /\ n <= Len(q) /\ Len(q) \in Nat
        BY QueueTypes
    <2>2. IsFiniteSet(1 .. n)
        BY <2>1, FS_Interval
    <2> QED  BY <2>1, <2>2, QueueTypes
<1>2. \A k \in Int : Before(q, k + 1) = first(k)
    BY DEF Before
<1> HIDE DEF f
<1>3. first(n) \in Nat
    BY <1>1, SumIsNat
<1>4. ASSUME NEW m \in 0 .. n PROVE first(m) <= first(n)
    <2> DEFINE rest == (1 .. n) \ (1 .. m)
    <2>1. 1 .. m \in SUBSET (1 .. n) /\ rest \in SUBSET (1 .. n)
        BY <1>1
    <2>0. IsFiniteSet(rest) /\ IsFiniteSet(1 .. m)
        <3> HIDE DEF rest
        <3> QED  BY <1>1, <2>1, FS_Subset
    <2>2. /\ \A i \in rest : f[i] \in Nat
          /\ \A i \in 1 .. m : f[i] \in Nat
          /\ \A i \in 1 .. n : f[i] \in Int
        BY <1>1
    <2>3. first(n) = first(m) + SumFunctionOnSet(f, rest)
        BY <1>1, <2>1, <2>2, SumSplits
    <2> HIDE DEF rest
    <2>4. SumFunctionOnSet(f, rest) \in Nat /\ first(m) \in Nat
        BY <2>0, <2>2, SumIsNat
    <2> QED  BY <2>3, <2>4
<1>5. n < Len(q) => first(n + 1) = first(n) + f[n + 1]
    BY <1>1, SumSteps
<1>6. n < Len(q) => f[n + 1] = q[n + 1].units
    BY <1>1
<1>7. Before(q, n + 2) = first(n + 1) /\ Before(q, n + 1) = first(n)
    <2>1. (n + 2) - 1 = n + 1 /\ (n + 1) - 1 = n
        BY <1>1
    <2> QED  BY <2>1, Zenon DEF Before, f
<1>8. \A m \in 0 .. n : Before(q, m + 1) = first(m)
    BY <1>1, <1>2
<1> HIDE DEF first
<1> QED  BY <1>3, <1>4, <1>5, <1>6, <1>7, <1>8

\* What a link is served, and that the oldest links go first.
LEMMA ServedFacts ==
    ASSUME NEW q \in Seq(Link), NEW units \in Nat, NEW i \in DOMAIN q
    PROVE  /\ Served(q, units)[i] \in Nat /\ Served(q, units)[i] <= q[i].units
           /\ units = 0 => Served(q, units)[i] = 0
           /\ Served(q, units)[i] = q[i].units <=> Before(q, i) + q[i].units <= units
           /\ \A j \in DOMAIN q :
                 j < i /\ Served(q, units)[i] = q[i].units => Served(q, units)[j] = q[j].units
<1> DEFINE s(k) == Served(q, units)[k]
<1>1. ASSUME NEW k \in DOMAIN q
      PROVE  /\ s(k) \in Nat /\ s(k) <= q[k].units
             /\ units = 0 => s(k) = 0
             /\ s(k) = q[k].units <=> Before(q, k) + q[k].units <= units
             /\ Before(q, k) \in Nat /\ q[k].units \in Nat
    <2>1. k - 1 \in 0 .. Len(q) /\ k = (k - 1) + 1
        BY QueueTypes
    <2>2. Before(q, k) \in Nat
        BY <2>1, BeforeFacts
    <2>3. s(k) = Smaller(q[k].units, Larger(0, units - Before(q, k)))
        BY DEF Served
    <2>4. q[k].units \in Nat /\ q[k].units >= 1
        BY QueueTypes
    <2> HIDE DEF s
    <2> QED  BY <2>2, <2>3, <2>4 DEF Smaller, Larger
<1>2. ASSUME NEW j \in DOMAIN q, j < i, s(i) = q[i].units PROVE s(j) = q[j].units
    <2>1. /\ j - 1 \in 0 .. i - 1 /\ j \in 0 .. i - 1 /\ i - 1 \in 0 .. Len(q) /\ j - 1 < Len(q)
          /\ j - 1 \in 0 .. Len(q) /\ j = (j - 1) + 1 /\ j + 1 = (j - 1) + 2 /\ i = (i - 1) + 1
        BY <1>2, QueueTypes
    <2>2. Before(q, j + 1) <= Before(q, i)
        BY <2>1, BeforeFacts
    <2>3. Before(q, j + 1) = Before(q, j) + q[j].units
        BY <2>1, BeforeFacts
    <2>4. Before(q, i) + q[i].units <= units /\ Before(q, i) \in Nat /\ q[i].units \in Nat
        BY <1>1, <1>2
    <2>5. Before(q, j) \in Nat /\ q[j].units \in Nat
        BY <1>1
    <2>6. Before(q, j) + q[j].units <= units
        BY <2>2, <2>3, <2>4, <2>5
    <2> HIDE DEF s
    <2> QED  BY <1>1, <2>6
<1> QED  BY <1>1, <1>2

LEMMA MinAdds ==
    ASSUME NEW u \in Nat, NEW b \in Nat, NEW c \in Nat
    PROVE  Smaller(u, b) + Smaller(c, Larger(0, u - b)) = Smaller(u, b + c)
BY DEF Smaller, Larger

\* No more is served than there is.
LEMMA ServedTotal ==
    ASSUME NEW q \in Seq(Link), NEW units \in Nat
    PROVE  /\ SumFunctionOnSet(Served(q, units), DOMAIN q) \in Nat
           /\ SumFunctionOnSet(Served(q, units), DOMAIN q) <= units
<1> DEFINE s == Served(q, units)
           sum(n) == SumFunctionOnSet(s, 1 .. n)
           bad == {n \in 0 .. Len(q) : sum(n) # Smaller(units, Before(q, n + 1))}
<1>1. bad = {}
    <2> SUFFICES ASSUME bad # {} PROVE FALSE
        OBVIOUS
    <2>1. PICK n \in bad : \A m \in bad : n <= m
        <3>1. bad \subseteq Nat
            OBVIOUS
        <3> HIDE DEF bad
        <3> QED  BY <3>1, LeastMember
    <2>2. n # 0
        <3>1. 1 .. 0 = {}
            OBVIOUS
        <3>2. sum(0) = 0 /\ Before(q, 1) = 0
            BY <3>1, SumOfNone DEF Before
        <3>3. 0 \notin bad
            BY <3>2 DEF Smaller
        <3> HIDE DEF bad
        <3> QED  BY <2>1, <3>3
    <2> DEFINE m == n - 1
    <2>3. /\ m \in Nat /\ m \in 0 .. Len(q) /\ m < Len(q) /\ n = m + 1
          /\ n \in DOMAIN q /\ DOMAIN q = 1 .. Len(q) /\ m + 2 = n + 1
        BY <2>1, <2>2, QueueTypes
    <2>4. sum(m) = Smaller(units, Before(q, n))
        BY <2>1, <2>3
    <2>5. sum(n) = sum(m) + s[n]
        <3>1. \A k \in 1 .. m + 1 : s[k] \in Int
            BY <2>3, ServedFacts
        <3> HIDE DEF s, m, bad
        <3> QED  BY <2>3, <3>1, SumSteps
    <2>6. /\ Before(q, n) \in Nat /\ q[n].units \in Nat
          /\ Before(q, n + 1) = Before(q, n) + q[n].units
        <3> HIDE DEF m, bad
        <3> QED  BY <2>3, BeforeFacts, QueueTypes
    <2>7. s[n] = Smaller(q[n].units, Larger(0, units - Before(q, n)))
        BY <2>3 DEF Served
    <2> HIDE DEF s, sum, bad
    <2>8. sum(n) = Smaller(units, Before(q, n + 1))
        BY <2>4, <2>5, <2>6, <2>7, MinAdds
    <2> QED  BY <2>1, <2>8 DEF bad
<1>2. /\ Len(q) \in 0 .. Len(q) /\ DOMAIN q = 1 .. Len(q)
    BY QueueTypes
<1>3. Before(q, Len(q) + 1) \in Nat
    BY <1>2, BeforeFacts
<1>4. sum(Len(q)) = Smaller(units, Before(q, Len(q) + 1))
    BY <1>1, <1>2
<1> HIDE DEF s
<1> QED  BY <1>2, <1>3, <1>4 DEF Smaller, s

\* The links that are served in full are the first ones.
LEMMA GoneFacts ==
    ASSUME NEW q \in Seq(Link), NEW units \in Nat
    PROVE  /\ Gone(q, units) \in 0 .. Len(q)
           /\ \A i \in DOMAIN q :
                 i <= Gone(q, units) <=> Served(q, units)[i] = q[i].units
<1> DEFINE full(i) == Served(q, units)[i] = q[i].units
           stops == {n \in 0 .. Len(q) : n < Len(q) => ~full(n + 1)}
<1>1. Len(q) \in Nat /\ DOMAIN q = 1 .. Len(q)
    BY QueueTypes
<1>2. PICK n \in stops : \A m \in stops : n <= m
    <2>1. stops \subseteq Nat /\ Len(q) \in stops
        BY <1>1
    <2> HIDE DEF stops
    <2> QED  BY <2>1, LeastMember
<1>3. \A i, j \in DOMAIN q : j < i /\ full(i) => full(j)
    BY ServedFacts
<1> HIDE DEF full
<1>4. \A i \in DOMAIN q : i <= n <=> full(i)
    <2> TAKE i \in DOMAIN q
    <2>1. i \in Nat /\ i >= 1 /\ i <= Len(q) /\ n \in 0 .. Len(q)
        BY <1>1, <1>2
    <2>2. ASSUME i <= n PROVE full(i)
        <3>1. i - 1 \in 0 .. Len(q) /\ ~(n <= i - 1) /\ i - 1 < Len(q) /\ (i - 1) + 1 = i
            BY <2>1, <2>2, <1>1
        <3>2. i - 1 \notin stops
            BY <1>2, <3>1
        <3> QED  BY <3>1, <3>2
    <2>3. ASSUME ~(i <= n) PROVE ~full(i)
        <3>1. n < Len(q) /\ n + 1 \in DOMAIN q /\ (n + 1 < i \/ n + 1 = i)
            BY <2>1, <2>3, <1>1
        <3>2. ~full(n + 1)
            BY <1>2, <3>1
        <3> QED  BY <1>3, <3>1, <3>2
    <2> QED  BY <2>2, <2>3
<1>5. n \in 0 .. Len(q) /\ \A i \in DOMAIN q : i <= n <=> Served(q, units)[i] = q[i].units
    BY <1>2, <1>4 DEF full
<1> QED  BY <1>5, Zenon DEF Gone

\* What stays on order is what was not served.
LEMMA RestFacts ==
    ASSUME NEW q \in Seq(Link), NEW units \in Nat
    PROVE  /\ Rest(q, units) \in Seq(Link)
           /\ Total(UnitsOf(Rest(q, units)))
                 = Total(UnitsOf(q)) - SumFunctionOnSet(Served(q, units), DOMAIN q)
<1> DEFINE n == Gone(q, units)
           sv == Served(q, units)
           rest == Rest(q, units)
           len == Len(q) - n
           left == [i \in DOMAIN q |-> q[i].units - sv[i]]
           from == [i \in 1 .. len |-> n + i]
           old == 1 .. n
           new == DOMAIN q \ old
<1>1. /\ n \in Nat /\ n <= Len(q) /\ Len(q) \in Nat /\ DOMAIN q = 1 .. Len(q)
      /\ len \in Nat
    BY GoneFacts, QueueTypes
<1>2. \A i \in DOMAIN q :
         /\ q[i] \in Link /\ q[i].units \in Nat /\ q[i].units <= MaxUnits
         /\ sv[i] \in Nat /\ sv[i] <= q[i].units
         /\ i <= n <=> sv[i] = q[i].units
         /\ UnitsOf(q)[i] = q[i].units
    <2>1. \A i \in DOMAIN q : i <= n <=> sv[i] = q[i].units
        BY GoneFacts
    <2>2. \A i \in DOMAIN q : sv[i] \in Nat /\ sv[i] <= q[i].units
        BY ServedFacts
    <2>3. \A i \in DOMAIN q : /\ q[i] \in Link /\ q[i].units \in 1 .. MaxUnits
                               /\ UnitsOf(q)[i] = q[i].units
        BY QueueTypes
    <2> HIDE DEF n, sv
    <2> QED  BY <2>1, <2>2, <2>3, PurchaseAssumption
<1>3. rest = [i \in 1 .. len |-> [q[n + i] EXCEPT !.units = @ - sv[n + i]]]
    BY DEF Rest
<1> HIDE DEF n, sv, rest
<1>4. ASSUME NEW i \in 1 .. len
      PROVE  /\ rest[i] \in Link /\ rest[i].units = left[n + i]
             /\ n + i \in DOMAIN q /\ n + i \in new
    <2>1. n + i \in DOMAIN q /\ ~(n + i <= n)
        BY <1>1
    <2>2. rest[i] = [q[n + i] EXCEPT !.units = @ - sv[n + i]]
        BY <1>3
    <2>3. q[n + i].units - sv[n + i] \in 1 .. MaxUnits
        BY <2>1, <1>2, PurchaseAssumption
    <2>4. q[n + i] \in Link
        BY <2>1, <1>2
    <2>5. rest[i] \in Link /\ rest[i].units = q[n + i].units - sv[n + i]
        BY <2>2, <2>3, <2>4 DEF Link
    <2> QED  BY <2>1, <2>5, <1>1
<1>5. rest \in Seq(Link) /\ DOMAIN rest = 1 .. len
    <2>1. rest \in [1 .. len -> Link]
        BY <1>3, <1>4
    <2> QED  BY <1>1, <2>1
<1>6. IsFiniteSet(DOMAIN q) /\ old \in SUBSET DOMAIN q /\ IsFiniteSet(old) /\ IsFiniteSet(1 .. len)
    <2>1. IsFiniteSet(DOMAIN q)
        BY QueueTypes
    <2>2. old \in SUBSET DOMAIN q
        BY <1>1
    <2>3. IsFiniteSet(1 .. len)
        BY <1>1, FS_Interval
    <2> HIDE DEF old, len
    <2> QED  BY <2>1, <2>2, <2>3, FS_Subset
<1>7. from \in Bijection(1 .. len, new)
    <2>1. \A j \in new : j - n \in 1 .. len /\ j = n + (j - n)
        BY <1>1
    <2>2. \A i, j \in 1 .. len : n + i = n + j => i = j
        BY <1>1
    <2> HIDE DEF new, len
    <2> QED  BY <1>4, <2>1, <2>2 DEF Bijection, Injection, IsInjective, Surjection
<1>8. /\ \A i \in DOMAIN q : left[i] \in Nat /\ UnitsOf(q)[i] = left[i] + sv[i] /\ sv[i] \in Int
      /\ \A i \in old : left[i] = 0
    BY <1>1, <1>2
<1>10. \A i \in 1 .. len : left[from[i]] \in Int /\ UnitsOf(rest)[i] = left[from[i]]
    <2> TAKE i \in 1 .. len
    <2>1. from[i] = n + i /\ n + i \in DOMAIN q /\ rest[i].units = left[n + i]
        BY <1>4
    <2>2. UnitsOf(rest)[i] = rest[i].units
        BY <1>5 DEF UnitsOf
    <2> HIDE DEF from, left, len
    <2> QED  BY <2>1, <2>2, <1>8
<1> HIDE DEF left, from, old, new, len
<1>11. SumFunctionOnSet(UnitsOf(q), DOMAIN q)
          = SumFunctionOnSet(left, DOMAIN q) + SumFunctionOnSet(sv, DOMAIN q)
    <2>1. \A i \in DOMAIN q : left[i] \in Int /\ sv[i] \in Int
                               /\ UnitsOf(q)[i] = left[i] + sv[i]
        BY <1>8
    <2> QED  BY <1>6, <2>1, SumPlus
<1>12. SumFunctionOnSet(left, DOMAIN q) = SumFunctionOnSet(left, old) + SumFunctionOnSet(left, new)
    BY <1>6, <1>8, SumSplits DEF new
<1>13. SumFunctionOnSet(left, old) = 0
    BY <1>6, <1>8, SumOfZeros
<1>14. SumFunctionOnSet(UnitsOf(rest), 1 .. len) = SumFunctionOnSet(left, new)
    <2> DEFINE idx == 1 .. len
               after == UnitsOf(rest)
    <2>1. IsFiniteSet(idx) /\ from \in Bijection(idx, new)
        BY <1>6, <1>7
    <2>2. \A i \in idx : left[from[i]] \in Int /\ after[i] = left[from[i]]
        BY <1>10
    <2> HIDE DEF idx, after
    <2>3. SumFunctionOnSet(after, idx) = SumFunctionOnSet(left, new)
        BY <2>1, <2>2, SumRenames
    <2> QED  BY <2>3 DEF idx, after
<1>15. /\ SumFunctionOnSet(left, DOMAIN q) \in Int /\ SumFunctionOnSet(sv, DOMAIN q) \in Int
       /\ SumFunctionOnSet(left, new) \in Int
    <2>1. IsFiniteSet(new) /\ \A i \in new : left[i] \in Int
        BY <1>6, <1>8, FS_Subset DEF new
    <2> QED  BY <1>6, <1>8, <2>1, SumIsInt
<1>16. DOMAIN UnitsOf(rest) = 1 .. len /\ DOMAIN UnitsOf(q) = DOMAIN q
    BY <1>5 DEF UnitsOf
<1>17. Total(UnitsOf(rest)) = Total(UnitsOf(q)) - SumFunctionOnSet(sv, DOMAIN q)
    BY <1>11, <1>12, <1>13, <1>14, <1>15, <1>16 DEF Total
<1> QED  BY <1>5, <1>17 DEF rest, sv

LEMMA AppendFacts ==
    ASSUME NEW q \in Seq(Link), NEW k \in Link
    PROVE  /\ Append(q, k) \in Seq(Link)
           /\ Total(UnitsOf(Append(q, k))) = Total(UnitsOf(q)) + k.units
<1> DEFINE a == Append(q, k)
           f == UnitsOf(a)
           n == Len(q)
<1>1. /\ a \in Seq(Link) /\ n \in Nat /\ Len(a) = n + 1 /\ a[n + 1] = k
      /\ \A i \in 1 .. n : a[i] = q[i]
    OBVIOUS
<1> HIDE DEF a, n
<1>2. /\ DOMAIN UnitsOf(q) = 1 .. n /\ DOMAIN f = 1 .. n + 1 /\ f[n + 1] = k.units
      /\ \A i \in 1 .. n + 1 : f[i] \in Int
      /\ \A i \in 1 .. n : f[i] = UnitsOf(q)[i]
    <2>1. DOMAIN a = 1 .. n + 1 /\ DOMAIN q = 1 .. n
        BY <1>1 DEF n
    <2>2. \A i \in DOMAIN a : a[i].units \in Int
        BY <1>1, QueueTypes
    <2>3. \A i \in DOMAIN a : f[i] = a[i].units
        BY DEF UnitsOf
    <2>4. \A i \in DOMAIN q : UnitsOf(q)[i] = q[i].units
        BY DEF UnitsOf
    <2>5. DOMAIN f = DOMAIN a /\ DOMAIN UnitsOf(q) = DOMAIN q
        BY DEF UnitsOf
    <2>6. n + 1 \in 1 .. n + 1 /\ 1 .. n \subseteq 1 .. n + 1
        BY <1>1
    <2> HIDE DEF f
    <2> QED  BY <1>1, <2>1, <2>2, <2>3, <2>4, <2>5, <2>6
<1>3. IsFiniteSet(1 .. n)
    BY <1>1, FS_Interval
<1> HIDE DEF f
<1>4. SumFunctionOnSet(f, 1 .. n + 1) = SumFunctionOnSet(f, 1 .. n) + f[n + 1]
    BY <1>1, <1>2, SumSteps
<1>5. SumFunctionOnSet(f, 1 .. n) = SumFunctionOnSet(UnitsOf(q), 1 .. n)
    BY <1>2, <1>3, SumAgrees
<1>6. Total(f) = Total(UnitsOf(q)) + k.units
    BY <1>2, <1>4, <1>5 DEF Total
<1> QED  BY <1>1, <1>6 DEF a, f

LEMMA RemoveFacts ==
    ASSUME NEW q \in Seq(Link), NEW i \in DOMAIN q
    PROVE  /\ RemoveAt(q, i) \in Seq(Link)
           /\ Total(UnitsOf(RemoveAt(q, i))) = Total(UnitsOf(q)) - q[i].units
<1> DEFINE a == RemoveAt(q, i)
           n == Len(q) - 1
           from == [j \in 1 .. n |-> IF j < i THEN j ELSE j + 1]
           f == UnitsOf(q)
           rest == DOMAIN q \ {i}
<1>1. /\ Len(q) \in Nat /\ DOMAIN q = 1 .. Len(q) /\ n \in Nat /\ i \in 1 .. Len(q)
    BY QueueTypes
<1>2. /\ a \in Seq(Link) /\ Len(a) = n
      /\ \A j \in 1 .. n : a[j] = q[from[j]]
    <2> DEFINE b == SubSeq(q, 1, i - 1)
               c == SubSeq(q, i + 1, Len(q))
    <2>1. /\ b \in Seq(Link) /\ Len(b) = i - 1 /\ \A j \in 1 .. i - 1 : b[j] = q[j]
        BY <1>1, SubSeqProperties
    <2>2. /\ c \in Seq(Link) /\ Len(c) = Len(q) - i
          /\ \A j \in 1 .. Len(q) - i : c[j] = q[i + j]
        <3>1. \A j \in 1 .. Len(q) - i : (i + 1) + j - 1 = i + j
            BY <1>1
        <3> QED  BY <1>1, <3>1, SubSeqProperties
    <2>3. a = b \o c
        BY DEF RemoveAt
    <2> HIDE DEF b, c, a
    <2>4. /\ a \in Seq(Link) /\ Len(a) = n
          /\ \A j \in 1 .. n : a[j] = IF j <= i - 1 THEN b[j] ELSE c[j - (i - 1)]
        <3>1. Len(b) + Len(c) = n /\ Len(b) = i - 1
            BY <1>1, <2>1, <2>2
        <3>2. a \in Seq(Link) /\ Len(a) = n
            BY <2>1, <2>2, <2>3, <3>1, ConcatProperties
        <3>3. \A j \in 1 .. n : a[j] = IF j <= Len(b) THEN b[j] ELSE c[j - Len(b)]
            BY <2>1, <2>2, <2>3, <3>1, ConcatProperties
        <3> QED  BY <3>1, <3>2, <3>3
    <2>5. ASSUME NEW j \in 1 .. n PROVE a[j] = q[from[j]]
        <3>1. CASE j < i
            BY <1>1, <2>1, <2>4, <3>1
        <3>2. CASE ~(j < i)
            <4>1. j - (i - 1) \in 1 .. Len(q) - i /\ i + (j - (i - 1)) = j + 1 /\ ~(j <= i - 1)
                BY <1>1, <3>2
            <4> QED  BY <2>2, <2>4, <3>2, <4>1
        <3> QED  BY <3>1, <3>2
    <2> QED  BY <2>4, <2>5
<1>3. from \in Bijection(1 .. n, rest)
    <2>1. ASSUME NEW k \in rest PROVE \E j \in 1 .. n : k = from[j]
        <3>1. CASE k < i
            BY <1>1, <3>1
        <3>2. CASE ~(k < i)
            <4>1. k - 1 \in 1 .. n /\ ~(k - 1 < i) /\ (k - 1) + 1 = k
                BY <1>1, <3>2
            <4> QED  BY <4>1
        <3> QED  BY <3>1, <3>2
    <2>2. \A j \in 1 .. n : from[j] \in rest
        BY <1>1
    <2>3. \A j, k \in 1 .. n : from[j] = from[k] => j = k
        BY <1>1
    <2>4. from = [j \in 1 .. n |-> from[j]]
        OBVIOUS
    <2> HIDE DEF from, rest
    <2> QED  BY <2>1, <2>2, <2>3, <2>4 DEF Bijection, Injection, IsInjective, Surjection
<1> HIDE DEF a
<1>5. \A j \in DOMAIN q : f[j] \in Nat /\ f[j] = q[j].units
    BY QueueTypes
<1>6. \A j \in 1 .. n : f[from[j]] \in Int /\ UnitsOf(a)[j] = f[from[j]]
    <2>1. \A j \in 1 .. n : from[j] \in DOMAIN q
        BY <1>1
    <2>2. DOMAIN a = 1 .. n
        BY <1>2, <1>1
    <2> HIDE DEF from
    <2> QED  BY <1>2, <1>5, <2>1, <2>2 DEF UnitsOf
<1>7. IsFiniteSet(1 .. n) /\ IsFiniteSet(DOMAIN q)
    BY <1>1, FS_Interval
<1> HIDE DEF f, from, rest, n
<1>8. SumFunctionOnSet(UnitsOf(a), 1 .. n) = SumFunctionOnSet(f, rest)
    <2> DEFINE idx == 1 .. n
               units == UnitsOf(a)
    <2>1. IsFiniteSet(idx) /\ from \in Bijection(idx, rest)
        BY <1>3, <1>7
    <2>2. \A j \in idx : f[from[j]] \in Int /\ units[j] = f[from[j]]
        BY <1>6
    <2> HIDE DEF idx, units
    <2>3. SumFunctionOnSet(units, idx) = SumFunctionOnSet(f, rest)
        BY <2>1, <2>2, SumRenames
    <2> QED  BY <2>3 DEF idx, units
<1>9. SumFunctionOnSet(f, DOMAIN q) = f[i] + SumFunctionOnSet(f, rest)
    <2>1. \A j \in DOMAIN q : f[j] \in Int
        BY <1>5
    <2> QED  BY <1>7, <2>1, SumTakes DEF rest
<1>10. SumFunctionOnSet(f, rest) \in Int
    <2>1. IsFiniteSet(rest) /\ \A j \in rest : f[j] \in Int
        BY <1>5, <1>7, FS_Subset DEF rest
    <2> QED  BY <2>1, SumIsInt
<1>11. DOMAIN UnitsOf(a) = 1 .. n /\ DOMAIN f = DOMAIN q
    BY <1>2 DEF UnitsOf, f
<1>12. f[i] = q[i].units /\ f[i] \in Nat
    BY <1>5
<1>13. Total(UnitsOf(a)) = Total(f) - q[i].units
    BY <1>8, <1>9, <1>10, <1>11, <1>12 DEF Total
<1> QED  BY <1>2, <1>13 DEF a, f

LEMMA ServedToFacts ==
    ASSUME NEW q \in Seq(Link), NEW units \in Nat, NEW t
    PROVE  ServedTo(q, units, t) \in Nat /\ (units = 0 => ServedTo(q, units, t) = 0)
<1> DEFINE f == [i \in DOMAIN q |-> IF q[i].to = t THEN Served(q, units)[i] ELSE 0]
           all == DOMAIN q
<1>1. \A i \in all : f[i] \in Nat /\ (units = 0 => f[i] = 0)
    BY ServedFacts
<1>2. IsFiniteSet(all) /\ DOMAIN f = all
    BY QueueTypes
<1>3. ServedTo(q, units, t) = SumFunctionOnSet(f, all)
    BY DEF ServedTo, Total
<1> HIDE DEF f, all
<1> QED  BY <1>1, <1>2, <1>3, SumIsNat, SumOfZeros

\* Every unit that is served goes to one target.
LEMMA ServedToSums ==
    ASSUME NEW q \in Seq(Link), NEW units \in Nat,
           NEW came, \A t \in Targets : came[t] = ServedTo(q, units, t)
    PROVE  SumFunctionOnSet(came, Targets) = SumFunctionOnSet(Served(q, units), DOMAIN q)
<1> DEFINE f == [t \in Targets |-> [i \in DOMAIN q |-> IF q[i].to = t THEN Served(q, units)[i]
                                                                     ELSE 0]]
           g == [i \in DOMAIN q |-> [t \in Targets |-> f[t][i]]]
           sv == Served(q, units)
           all == DOMAIN q
<1>1. IsFiniteSet(Targets) /\ IsFiniteSet(all)
    BY QueueTypes, PurchaseAssumption DEF Targets, OrderLines
<1>2. \A i \in all : sv[i] \in Nat /\ q[i].to \in Targets
    BY QueueTypes, ServedFacts
<1>3. Turned(f, g, Targets, all)
    BY <1>2 DEF Turned
<1>4. \A t \in Targets : came[t] = SumFunctionOnSet(f[t], all)
    BY DEF ServedTo, Total
<1>5. ASSUME NEW i \in all PROVE sv[i] = SumFunctionOnSet(g[i], Targets)
    <2> DEFINE h == g[i]
               x == q[i].to
    <2>1. /\ x \in Targets /\ h[x] = sv[i] /\ h[x] \in Int
          /\ \A t \in Targets \ {x} : h[t] = 0
        BY <1>2
    <2> HIDE DEF h, x, f, g, all
    <2>2. SumFunctionOnSet(h, Targets) = h[x]
        BY <1>1, <2>1, SumOfOne
    <2> QED  BY <2>1, <2>2 DEF h
<1> HIDE DEF f, g, sv, all
<1>6. SumFunctionOnSet(came, Targets) = SumFunctionOnSet(sv, all)
    BY <1>1, <1>3, <1>4, <1>5, SumSwaps
<1> QED  BY <1>6 DEF sv, all

-----------------------------------------------------------------------------
(* The links of a line.                                                    *)

LinkTypes ==
    /\ queue \in [Lines -> Seq(Link)]
    /\ arrived \in [Lines -> [Targets -> Nat]]
    /\ cancelled \in [Lines -> Nat]

\* A purchase order that is not there yet has served nobody.
ServedNobody ==
    \A l \in Lines : status[PoOf[l]] = "none" => \A t \in Targets : arrived[l][t] = 0

Links3 == LinkTypes /\ ServedNobody /\ LinksWithinLine

LEMMA LinkedTypes ==
    ASSUME LinkTypes, NEW l \in Lines
    PROVE  /\ Waiting(l) \in Nat /\ Arrived(l) \in Nat
           /\ Linked(l) = Waiting(l) + Arrived(l)
           /\ queue[l] \in Seq(Link) /\ cancelled[l] \in Nat
<1>1. queue[l] \in Seq(Link) /\ arrived[l] \in [Targets -> Nat] /\ cancelled[l] \in Nat
    BY DEF LinkTypes
<1>2. IsFiniteSet(Targets)
    BY PurchaseAssumption DEF Targets, OrderLines
<1>3. Arrived(l) \in Nat
    BY <1>1, <1>2, SumIsNat DEF Arrived, Total
<1>4. Waiting(l) \in Nat
    BY <1>1, QueueUnits DEF Waiting
<1> QED  BY <1>1, <1>3, <1>4 DEF Linked

\* Nothing happens to a line but that its quantity or its queue shrinks or grows
\* within it.
LEMMA LinesFit ==
    ASSUME IInv, Links3, LinkTypes', arrived' = arrived,
           \A l \in Lines : status'[PoOf[l]] = "none" => status[PoOf[l]] = "none",
           \A l \in Lines : Waiting(l)' + Arrived(l) <= ordered'[l],
           \A l \in Lines : Arrived(l) <= accepted'[l]
    PROVE  Links3'
<1>1. ServedNobody'
    BY DEF Links3, ServedNobody
<1>2. \A l \in Lines : Arrived(l)' = Arrived(l)
    BY DEF Arrived
<1>3. LinksWithinLine'
    BY <1>2 DEF LinksWithinLine, Linked
<1> QED  BY <1>1, <1>3 DEF Links3

LEMMA LinksStill ==
    ASSUME IInv, Links3, UNCHANGED <<linkVars, ordered, accepted>>,
           \A l \in Lines : status'[PoOf[l]] = "none" => status[PoOf[l]] = "none"
    PROVE  Links3'
<1>1. LinkTypes' /\ arrived' = arrived /\ queue' = queue
    BY DEF Links3, LinkTypes, linkVars
<1>2. \A l \in Lines : Waiting(l)' = Waiting(l)
    BY <1>1 DEF Waiting
<1>3. \A l \in Lines : Waiting(l) + Arrived(l) <= ordered[l] /\ Arrived(l) <= accepted[l]
    BY LinkedTypes DEF Links3, LinksWithinLine
<1> QED  BY <1>1, <1>2, <1>3, LinesFit

LEMMA LinksCreate ==
    ASSUME IInv, Links3, NEW p \in Pos, NEW l \in Lines, NEW units \in 1 .. MaxUnits,
           NEW links \in Seq(Link), Total(UnitsOf(links)) <= units,
           NEW ships, Creates(p, l, units, links, ships)
    PROVE  Links3'
<1>1. PICK first \in {"draft", "ordered"} : status' = [status EXCEPT ![p] = first]
    BY DEF Creates
<1>2. /\ status[p] = "none" /\ PoOf[l] = p
      /\ ordered' = [ordered EXCEPT ![l] = units]
      /\ queue' = [queue EXCEPT ![l] = links]
      /\ UNCHANGED <<accepted, arrived, cancelled>>
    BY DEF Creates, LinesOf
<1>3. LinkTypes'
    BY <1>2 DEF Links3, LinkTypes
<1>4. \A m \in Lines : status'[PoOf[m]] = "none" => status[PoOf[m]] = "none"
    BY <1>1, PurchaseAssumption DEF IInv, Unborn
<1>5. Arrived(l) = 0
    <2>1. DOMAIN arrived[l] = Targets /\ \A t \in Targets : arrived[l][t] = 0
        BY <1>2 DEF Links3, LinkTypes, ServedNobody
    <2>2. IsFiniteSet(Targets)
        BY PurchaseAssumption DEF Targets, OrderLines
    <2> QED  BY <2>1, <2>2, SumOfZeros DEF Arrived, Total
<1>6. ASSUME NEW m \in Lines
      PROVE  /\ Waiting(m)' + Arrived(m) <= ordered'[m] /\ Arrived(m) <= accepted'[m]
    <2>1. /\ Waiting(m) \in Nat /\ Arrived(m) \in Nat
          /\ Waiting(m) + Arrived(m) <= ordered[m] /\ Arrived(m) <= accepted[m]
        BY LinkedTypes DEF Links3, LinksWithinLine
    <2>2. CASE m = l
        <3>1. Waiting(m)' = Total(UnitsOf(links))
            BY <1>2, <2>2 DEF Waiting, Links3, LinkTypes
        <3>2. ordered'[m] = units
            BY <1>2, <2>2 DEF IInv, Counters
        <3>3. Total(UnitsOf(links)) \in Nat
            BY QueueUnits
        <3> QED  BY <1>2, <1>5, <2>1, <2>2, <3>1, <3>2, <3>3
    <2>3. CASE m # l
        <3>1. Waiting(m)' = Waiting(m)
            BY <1>2, <2>3 DEF Waiting, Links3, LinkTypes
        <3>2. ordered'[m] = ordered[m]
            BY <1>2, <2>3 DEF IInv, Counters
        <3> QED  BY <1>2, <2>1, <3>1, <3>2
    <2> QED  BY <2>2, <2>3
<1> QED  BY <1>2, <1>3, <1>4, <1>6, LinesFit

\* A queue of no link, and of one.
LEMMA ShortQueues ==
    /\ <<>> \in Seq(Link) /\ Total(UnitsOf(<<>>)) = 0
    /\ \A k \in Link : <<k>> \in Seq(Link) /\ Total(UnitsOf(<<k>>)) = k.units
<1> DEFINE q == <<>>
<1>1. q \in Seq(Link) /\ DOMAIN q = {}
    OBVIOUS
<1>2. Total(UnitsOf(q)) = 0
    <2>1. DOMAIN UnitsOf(q) = {}
        BY <1>1 DEF UnitsOf
    <2> QED  BY <2>1, SumOfNone DEF Total
<1>3. ASSUME NEW k \in Link PROVE <<k>> \in Seq(Link) /\ Total(UnitsOf(<<k>>)) = k.units
    <2>1. Append(q, k) = <<k>>
        OBVIOUS
    <2>2. k.units \in Nat
        BY PurchaseAssumption DEF Link
    <2>3. /\ Append(q, k) \in Seq(Link)
          /\ Total(UnitsOf(Append(q, k))) = Total(UnitsOf(q)) + k.units
        <3> HIDE DEF q
        <3> QED  BY <1>1, AppendFacts
    <2> QED  BY <1>2, <2>1, <2>2, <2>3
<1> QED  BY <1>1, <1>2, <1>3

LEMMA LinksUpdate ==
    ASSUME IInv, Links3, NEW p \in Pos, NEW to \in Batches, Update(p, to)
    PROVE  Links3'
<1>1. /\ ordered' = to /\ UNCHANGED <<status, accepted, queue, arrived, cancelled>>
      /\ \A l \in LinesOf(p) : to[l] >= Linked(l) + cancelled[l]
      /\ \A l \in Lines \ LinesOf(p) : to[l] = ordered[l]
    BY DEF Update, Edits, poVars, linkVars
<1>2. LinkTypes'
    BY <1>1 DEF Links3, LinkTypes
<1>3. ASSUME NEW l \in Lines
      PROVE  Waiting(l)' + Arrived(l) <= ordered'[l] /\ Arrived(l) <= accepted'[l]
    <2>1. Waiting(l)' = Waiting(l)
        BY <1>1 DEF Waiting
    <2>2. /\ Linked(l) = Waiting(l) + Arrived(l) /\ Linked(l) <= ordered[l]
          /\ Arrived(l) <= accepted[l] /\ cancelled[l] \in Nat
          /\ Waiting(l) \in Nat /\ Arrived(l) \in Nat
        BY LinkedTypes DEF Links3, LinksWithinLine
    <2>3. to[l] >= Linked(l) /\ to[l] \in Nat
        BY <1>1, <2>2 DEF Batches, IInv, Counters
    <2> QED  BY <1>1, <2>1, <2>2, <2>3
<1> QED  BY <1>1, <1>2, <1>3, LinesFit

\* Deleted links leave nobody promised.
LEMMA LinksDelete ==
    ASSUME IInv, Links3, NEW p \in Pos, Delete(p)
    PROVE  Links3'
<1>1. /\ queue' = [l \in Lines |-> IF l \in LinesOf(p) THEN <<>> ELSE queue[l]]
      /\ cancelled' = [l \in Lines |-> IF l \in LinesOf(p) THEN cancelled[l] + Waiting(l)
                                                            ELSE cancelled[l]]
      /\ UNCHANGED <<status, ordered, accepted, arrived>>
    BY DEF Delete, lineVars
<1>2. \A l \in Lines : /\ Waiting(l) \in Nat /\ cancelled[l] \in Nat /\ Arrived(l) \in Nat
                       /\ queue[l] \in Seq(Link)
                       /\ Waiting(l) + Arrived(l) <= ordered[l] /\ Arrived(l) <= accepted[l]
    BY LinkedTypes DEF Links3, LinksWithinLine
<1>3. LinkTypes'
    BY <1>1, <1>2, ShortQueues DEF Links3, LinkTypes
<1>4. ASSUME NEW l \in Lines
      PROVE  Waiting(l)' + Arrived(l) <= ordered'[l] /\ Arrived(l) <= accepted'[l]
    <2>1. Waiting(l)' = 0 \/ Waiting(l)' = Waiting(l)
        BY <1>1, ShortQueues DEF Waiting
    <2>2. ordered[l] \in Nat
        BY PurchaseAssumption DEF IInv, Counters
    <2> QED  BY <1>1, <1>2, <2>1, <2>2
<1> QED  BY <1>1, <1>3, <1>4, LinesFit

LEMMA LinksLink ==
    ASSUME IInv, Links3, NEW l \in Lines, NEW t \in Targets, NEW units \in 1 .. MaxUnits,
           LinkUnits(l, t, units)
    PROVE  Links3'
<1> DEFINE k == [to |-> t, units |-> units]
<1>1. /\ queue' = [queue EXCEPT ![l] = Append(@, k)]
      /\ UNCHANGED <<status, ordered, accepted, arrived, cancelled>>
      /\ units <= ordered[l] - Linked(l)
    BY DEF LinkUnits, Links, poVars, lineVars
<1>2. k \in Link /\ k.units = units /\ units \in Nat
    BY PurchaseAssumption DEF Link
<1> HIDE DEF k
<1>3. \A m \in Lines : /\ Waiting(m) \in Nat /\ Arrived(m) \in Nat /\ ordered[m] \in Nat
                       /\ queue[m] \in Seq(Link) /\ Linked(m) = Waiting(m) + Arrived(m)
                       /\ Waiting(m) + Arrived(m) <= ordered[m] /\ Arrived(m) <= accepted[m]
    BY LinkedTypes, PurchaseAssumption DEF Links3, LinksWithinLine, IInv, Counters
<1>4. /\ Append(queue[l], k) \in Seq(Link)
      /\ Total(UnitsOf(Append(queue[l], k))) = Waiting(l) + units
    BY <1>2, <1>3, AppendFacts DEF Waiting
<1>5. LinkTypes'
    BY <1>1, <1>4 DEF Links3, LinkTypes
<1>6. ASSUME NEW m \in Lines
      PROVE  Waiting(m)' + Arrived(m) <= ordered'[m] /\ Arrived(m) <= accepted'[m]
    <2>1. Waiting(m)' = IF m = l THEN Waiting(l) + units ELSE Waiting(m)
        BY <1>1, <1>4 DEF Waiting, Links3, LinkTypes
    <2> QED  BY <1>1, <1>2, <1>3, <2>1
<1> QED  BY <1>1, <1>5, <1>6, LinesFit

LEMMA LinksUnlink ==
    ASSUME IInv, Links3, NEW l \in Lines, NEW i \in DOMAIN queue[l], Unlink(l, i)
    PROVE  Links3'
<1>1. /\ queue' = [queue EXCEPT ![l] = RemoveAt(queue[l], i)]
      /\ cancelled' = [cancelled EXCEPT ![l] = cancelled[l] + queue[l][i].units]
      /\ UNCHANGED <<status, ordered, accepted, arrived>>
    BY DEF Unlink, poVars, lineVars
<1>2. \A m \in Lines : /\ Waiting(m) \in Nat /\ Arrived(m) \in Nat /\ ordered[m] \in Nat
                       /\ queue[m] \in Seq(Link) /\ cancelled[m] \in Nat
                       /\ Waiting(m) + Arrived(m) <= ordered[m] /\ Arrived(m) <= accepted[m]
    BY LinkedTypes, PurchaseAssumption DEF Links3, LinksWithinLine, IInv, Counters
<1>3. queue[l][i].units \in Nat
    BY <1>2, QueueTypes
<1>4. /\ RemoveAt(queue[l], i) \in Seq(Link)
      /\ Total(UnitsOf(RemoveAt(queue[l], i))) = Waiting(l) - queue[l][i].units
    BY <1>2, RemoveFacts DEF Waiting
<1>5. LinkTypes'
    BY <1>1, <1>2, <1>3, <1>4 DEF Links3, LinkTypes
<1>6. ASSUME NEW m \in Lines
      PROVE  Waiting(m)' + Arrived(m) <= ordered'[m] /\ Arrived(m) <= accepted'[m]
    <2>1. Waiting(m)' = IF m = l THEN Waiting(l) - queue[l][i].units ELSE Waiting(m)
        BY <1>1, <1>4 DEF Waiting, Links3, LinkTypes
    <2> QED  BY <1>1, <1>2, <1>3, <2>1
<1> QED  BY <1>1, <1>5, <1>6, LinesFit

\* What a line's queue is served moves from waiting to arrived, and is accepted.
LEMMA LinksReceive ==
    ASSUME IInv, Links3, NEW p \in Pos, status[p] # "none", NEW inc \in [Lines -> Stages],
           \A l \in Lines : PoOf[l] # p => inc[l] = Nothing, Receives(p, inc)
    PROVE  Links3'
<1>1. /\ accepted' = [l \in Lines |-> accepted[l] + inc[l].accepted]
      /\ queue' = [l \in Lines |-> Rest(queue[l], inc[l].accepted)]
      /\ arrived' = [l \in Lines |-> [t \in Targets |->
                        arrived[l][t] + ServedTo(queue[l], inc[l].accepted, t)]]
      /\ UNCHANGED <<ordered, cancelled>>
    BY DEF Receives
<1>2. PICK to \in {"received", "partially_received"} : status' = [status EXCEPT ![p] = to]
    BY DEF Receives
<1>3. \A l \in Lines : status'[PoOf[l]] = "none" => status[PoOf[l]] = "none" /\ PoOf[l] # p
    BY <1>2, PurchaseAssumption DEF IInv, Unborn
<1>4. \A l \in Lines : /\ inc[l].accepted \in Nat /\ queue[l] \in Seq(Link)
                       /\ arrived[l] \in [Targets -> Nat]
                       /\ accepted[l] \in Nat /\ ordered[l] \in Nat
    BY PurchaseAssumption DEF Stages, IInv, Counters, Links3, LinkTypes
<1>5. ASSUME NEW l \in Lines
      PROVE  /\ Rest(queue[l], inc[l].accepted) \in Seq(Link)
             /\ \A t \in Targets : ServedTo(queue[l], inc[l].accepted, t) \in Nat
    BY <1>4, RestFacts, ServedToFacts
<1>6. LinkTypes'
    BY <1>1, <1>4, <1>5 DEF Links3, LinkTypes
<1>7. ServedNobody'
    <2> SUFFICES ASSUME NEW l \in Lines, status'[PoOf[l]] = "none", NEW t \in Targets
                 PROVE  arrived'[l][t] = 0
        BY DEF ServedNobody
    <2>1. arrived[l][t] = 0 /\ inc[l].accepted = 0
        BY <1>3 DEF Links3, ServedNobody, Nothing
    <2>2. ServedTo(queue[l], inc[l].accepted, t) = 0
        BY <1>4, <2>1, ServedToFacts
    <2>3. arrived'[l][t] = arrived[l][t] + ServedTo(queue[l], inc[l].accepted, t)
        BY <1>1
    <2> QED  BY <2>1, <2>2, <2>3
<1>8. ASSUME NEW l \in Lines
      PROVE  Linked(l)' <= ordered'[l] /\ Arrived(l)' <= accepted'[l]
    <2> DEFINE q == queue[l]
               n == inc[l].accepted
               came == [t \in Targets |-> ServedTo(q, n, t)]
               old == arrived[l]
               new == arrived'[l]
               sv == SumFunctionOnSet(Served(q, n), DOMAIN q)
    <2>1. q \in Seq(Link) /\ n \in Nat
        BY <1>4
    <2>2. /\ Total(UnitsOf(Rest(q, n))) = Total(UnitsOf(q)) - sv
          /\ sv \in Nat /\ sv <= n
        <3> HIDE DEF q, n
        <3> QED  BY <2>1, RestFacts, ServedTotal
    <2>3. SumFunctionOnSet(came, Targets) = sv
        <3>1. \A t \in Targets : came[t] = ServedTo(q, n, t)
            OBVIOUS
        <3> HIDE DEF q, n, came
        <3> QED  BY <2>1, <3>1, ServedToSums
    <2>4. /\ \A t \in Targets : /\ old[t] \in Int /\ came[t] \in Int
                                /\ new[t] = old[t] + came[t]
          /\ DOMAIN old = Targets /\ DOMAIN new = Targets
        BY <1>1, <1>4, <1>5
    <2>5. IsFiniteSet(Targets)
        BY PurchaseAssumption DEF Targets, OrderLines
    <2>6. Waiting(l)' = Total(UnitsOf(Rest(q, n))) /\ Waiting(l) = Total(UnitsOf(q))
        BY <1>1 DEF Waiting
    <2>7. /\ Arrived(l) = SumFunctionOnSet(old, Targets)
          /\ Arrived(l)' = SumFunctionOnSet(new, Targets)
        BY <2>4 DEF Arrived, Total
    <2>8. accepted'[l] = accepted[l] + n /\ ordered'[l] = ordered[l]
        BY <1>1
    <2>9. Linked(l)' = Waiting(l)' + Arrived(l)'
        BY DEF Linked
    <2>10. /\ Waiting(l) \in Nat /\ Arrived(l) \in Nat
           /\ Waiting(l) + Arrived(l) <= ordered[l] /\ Arrived(l) <= accepted[l]
        BY LinkedTypes DEF Links3, LinksWithinLine
    <2>11. accepted[l] \in Nat /\ ordered[l] \in Nat
        BY <1>4
    <2> HIDE DEF q, n, came, old, new, sv
    <2>12. SumFunctionOnSet(new, Targets) = SumFunctionOnSet(old, Targets) + sv
        BY <2>3, <2>4, <2>5, SumPlus
    <2> QED  BY <2>1, <2>2, <2>6, <2>7, <2>8, <2>9, <2>10, <2>11, <2>12
<1> QED  BY <1>6, <1>7, <1>8 DEF Links3, LinksWithinLine

LEMMA LinksUnreceive ==
    ASSUME IInv, Links3, onHand \in Int, reserved \in Int,
           NEW p \in Pos, NEW units \in Batches, Unreceive(p, units)
    PROVE  Links3'
<1>1. /\ \A l \in Lines : units[l] <= IF l \in LinesOf(p) THEN accepted[l] ELSE 0
      /\ \A l \in LinesOf(p) : units[l] > 0 => units[l] <= Smaller(accepted[l] - Arrived(l), Free)
      /\ accepted' = [l \in Lines |-> accepted[l] - units[l]]
      /\ UNCHANGED <<ordered, queue, arrived, cancelled>>
    BY DEF Unreceive, TakesBack, linkVars
<1>2. PICK to \in {"received", "partially_received", "ordered"} :
          status' = [status EXCEPT ![p] = to]
    BY DEF Unreceive, TakesBack
<1>3. \A l \in Lines : status'[PoOf[l]] = "none" => status[PoOf[l]] = "none"
    BY <1>2, PurchaseAssumption DEF IInv, Unborn
<1>4. LinkTypes'
    BY <1>1 DEF Links3, LinkTypes
<1>5. ASSUME NEW l \in Lines
      PROVE  Waiting(l)' + Arrived(l) <= ordered'[l] /\ Arrived(l) <= accepted'[l]
    <2>1. Waiting(l)' = Waiting(l)
        BY <1>1 DEF Waiting
    <2>2. /\ Waiting(l) \in Nat /\ Arrived(l) \in Nat /\ accepted[l] \in Nat /\ units[l] \in Nat
          /\ Waiting(l) + Arrived(l) <= ordered[l] /\ Arrived(l) <= accepted[l]
        BY LinkedTypes DEF Links3, LinksWithinLine, IInv, Counters, Batches
    <2>3. units[l] = 0 \/ units[l] <= accepted[l] - Arrived(l)
        <3>1. CASE l \in LinesOf(p)
            <4>1. units[l] > 0 => units[l] <= Smaller(accepted[l] - Arrived(l), Free)
                BY <1>1, <3>1
            <4>2. \A a, b : Smaller(a, b) = a \/ (~(a < b) /\ Smaller(a, b) = b)
                BY DEF Smaller
            <4>3. Free \in Int
                BY DEF Free
            <4> QED  BY <2>2, <4>1, <4>2, <4>3
        <3>2. CASE l \notin LinesOf(p)
            BY <1>1, <2>2, <3>2
        <3> QED  BY <3>1, <3>2
    <2> QED  BY <1>1, <2>1, <2>2, <2>3
<1> QED  BY <1>1, <1>3, <1>4, <1>5, LinesFit

-----------------------------------------------------------------------------
(* The level of the variant and what order lines hold of it.               *)

LevelTypes ==
    /\ onHand \in Int /\ reserved \in Int
    /\ held \in [OrderLines -> Nat] /\ fulfilled \in [OrderLines -> Nat]

LEMMA FiniteSets ==
    /\ IsFiniteSet(Lines) /\ IsFiniteSet(Targets) /\ IsFiniteSet(OrderLines)
    /\ OrderLines \in SUBSET Targets /\ Stock \subseteq OrderLines
<1>1. /\ IsFiniteSet(Lines) /\ IsFiniteSet(Targets)
      /\ OrderLines \in SUBSET Targets /\ Stock \subseteq OrderLines
    BY PurchaseAssumption DEF Targets, OrderLines
<1> QED  BY <1>1, FS_Subset

LEMMA MissingType ==
    ASSUME LevelTypes, NEW t \in OrderLines
    PROVE  /\ Missing(t) \in Nat /\ Wanted[t] \in Nat
           /\ Missing(t) = Larger(0, Wanted[t] - fulfilled[t] - held[t])
           /\ held[t] \in Nat /\ fulfilled[t] \in Nat
<1>1. Wanted[t] \in Nat
    BY PurchaseAssumption, FiniteSets DEF Targets, OrderLines
<1>2. held[t] \in Nat /\ fulfilled[t] \in Nat
    BY DEF LevelTypes
<1>3. Missing(t) = Larger(0, Wanted[t] - fulfilled[t] - held[t])
    BY DEF Missing
<1> QED  BY <1>1, <1>2, <1>3 DEF Larger

\* What a receipt brings each order line.
Came(inc) ==
    [t \in OrderLines |-> Total([l \in Lines |-> ServedTo(queue[l], inc[l].accepted, t)])]

\* No more comes to the order lines than is accepted.
LEMMA CameFacts ==
    ASSUME LinkTypes, NEW inc, inc \in [Lines -> Stages]
    PROVE  /\ \A t \in OrderLines : Came(inc)[t] \in Nat
           /\ \A t \in OrderLines : Came(inc)[t] # 0 =>
                 \E l \in Lines : inc[l].accepted > 0 /\ ServedTo(queue[l], inc[l].accepted, t) > 0
           /\ Total([l \in Lines |-> inc[l].accepted]) \in Nat
           /\ SumFunctionOnSet(Came(inc), OrderLines)
                 <= Total([l \in Lines |-> inc[l].accepted])
<1> DEFINE came == Came(inc)
           n == [l \in Lines |-> inc[l].accepted]
           to(l) == [t \in Targets |-> ServedTo(queue[l], n[l], t)]
           f == [t \in OrderLines |-> [l \in Lines |-> to(l)[t]]]
           g == [l \in Lines |-> to(l)]
           cols == [l \in Lines |-> SumFunctionOnSet(g[l], OrderLines)]
<1>1. \A l \in Lines : queue[l] \in Seq(Link) /\ n[l] \in Nat
    BY DEF LinkTypes, Stages
<1>2. \A l \in Lines, t \in Targets : to(l)[t] \in Nat /\ (n[l] = 0 => to(l)[t] = 0)
    <2> TAKE l \in Lines, t \in Targets
    <2> HIDE DEF n
    <2>1. ServedTo(queue[l], n[l], t) \in Nat /\ (n[l] = 0 => ServedTo(queue[l], n[l], t) = 0)
        BY <1>1, ServedToFacts
    <2> QED  BY <2>1
<1>3. ASSUME NEW l \in Lines
      PROVE  cols[l] \in Int /\ cols[l] <= n[l]
    <2> DEFINE h == to(l)
               sv == SumFunctionOnSet(Served(queue[l], n[l]), DOMAIN queue[l])
    <2>1. \A t \in Targets : h[t] = ServedTo(queue[l], n[l], t) /\ h[t] \in Nat
        BY <1>2
    <2>2. cols[l] = SumFunctionOnSet(h, OrderLines)
        OBVIOUS
    <2> HIDE DEF h, n, cols
    <2>3. SumFunctionOnSet(h, Targets) = sv
        BY <1>1, <2>1, ServedToSums
    <2>4. sv <= n[l]
        BY <1>1, ServedTotal
    <2>5. SumFunctionOnSet(h, Targets) = SumFunctionOnSet(h, OrderLines)
                                            + SumFunctionOnSet(h, Targets \ OrderLines)
        BY <2>1, FiniteSets, SumSplits
    <2> DEFINE others == Targets \ OrderLines
    <2>6. IsFiniteSet(others) /\ \A t \in others : h[t] \in Nat
        BY <2>1, FiniteSets, FS_Subset
    <2>7. \A t \in OrderLines : h[t] \in Nat
        BY <2>1, FiniteSets
    <2>8. SumFunctionOnSet(h, others) \in Nat /\ SumFunctionOnSet(h, OrderLines) \in Nat
        <3> HIDE DEF others
        <3> QED  BY <2>6, <2>7, FiniteSets, SumIsNat
    <2> HIDE DEF sv
    <2> QED  BY <1>1, <2>2, <2>3, <2>4, <2>5, <2>8
<1>4. \A t \in OrderLines, l \in Lines : f[t][l] \in Int /\ g[l][t] = f[t][l] /\ f[t][l] \in Nat
    BY <1>2, FiniteSets
<1>5. \A t \in OrderLines : came[t] = SumFunctionOnSet(f[t], Lines)
    <2> TAKE t \in OrderLines
    <2>1. f[t] = [l \in Lines |-> ServedTo(queue[l], inc[l].accepted, t)]
        BY FiniteSets
    <2> HIDE DEF f
    <2> QED  BY <2>1 DEF Came, Total
<1>6. \A l \in Lines : cols[l] = SumFunctionOnSet(g[l], OrderLines)
    OBVIOUS
<1>7. Total(n) = SumFunctionOnSet(n, Lines)
    BY DEF Total
<1>8. ASSUME NEW t \in OrderLines, came[t] # 0
      PROVE  \E l \in Lines : n[l] > 0 /\ ServedTo(queue[l], n[l], t) > 0
    <2> DEFINE h == f[t]
    <2>1. came[t] = SumFunctionOnSet(h, Lines)
        BY <1>5
    <2>2. PICK l \in Lines : h[l] # 0
        <3> HIDE DEF h, came
        <3> QED  BY <1>8, <2>1, FiniteSets, SumOfZeros
    <2>3. h[l] = to(l)[t] /\ t \in Targets /\ to(l)[t] = ServedTo(queue[l], n[l], t)
        BY FiniteSets
    <2> HIDE DEF h, to, n
    <2> QED  BY <1>1, <1>2, <2>2, <2>3
<1>9. \A t \in OrderLines : came[t] \in Nat
    <2> TAKE t \in OrderLines
    <2> DEFINE h == f[t]
    <2>1. (\A l \in Lines : h[l] \in Nat) /\ came[t] = SumFunctionOnSet(h, Lines)
        BY <1>4, <1>5
    <2> HIDE DEF h, came
    <2> QED  BY <2>1, FiniteSets, SumIsNat
<1> HIDE DEF came, f, g, cols, n, to
<1>10. SumFunctionOnSet(came, OrderLines) = SumFunctionOnSet(cols, Lines)
    <2>1. IsFiniteSet(OrderLines) /\ IsFiniteSet(Lines)
        BY FiniteSets
    <2>2. Turned(f, g, OrderLines, Lines)
        BY <1>4 DEF Turned
    <2> QED  BY <2>1, <2>2, <1>5, <1>6, SumSwaps
<1>11. SumFunctionOnSet(cols, Lines) <= SumFunctionOnSet(n, Lines)
    <2>1. \A l \in Lines : cols[l] \in Int /\ n[l] \in Int /\ cols[l] <= n[l]
        BY <1>1, <1>3
    <2> QED  BY <2>1, FiniteSets, SumGrows
<1>12. SumFunctionOnSet(n, Lines) \in Nat
    BY <1>1, FiniteSets, SumIsNat
<1>13. \A t \in OrderLines : came[t] # 0 =>
          \E l \in Lines : n[l] > 0 /\ ServedTo(queue[l], n[l], t) > 0
    BY <1>8
<1>14. \A l \in Lines : n[l] = inc[l].accepted
    BY DEF n
<1> QED  BY <1>7, <1>9, <1>10, <1>11, <1>12, <1>13, <1>14 DEF came, n

\* What a receipt does to the level and to the lines that hold of it.
LEMMA GoesFacts ==
    ASSUME LinkTypes, LevelTypes, NEW p, NEW inc \in [Lines -> Stages], Goes(p, inc)
    PROVE  /\ LevelTypes'
           /\ p \in direct =>
                 /\ UNCHANGED <<onHand, reserved, held>>
                 /\ \A t \in OrderLines : fulfilled'[t] = fulfilled[t] + Came(inc)[t]
           /\ p \notin direct =>
                 /\ UNCHANGED fulfilled
                 /\ \A t \in OrderLines :
                       held'[t] = held[t] \/ held'[t] <= held[t] + Missing(t)
                 /\ HeldIsThere => HeldIsThere'
<1> DEFINE came == Came(inc)
           units == Total([l \in Lines |-> inc[l].accepted])
<1>1. /\ \A t \in OrderLines : came[t] \in Nat
      /\ units \in Nat /\ SumFunctionOnSet(came, OrderLines) <= units
    BY CameFacts
<1> DEFINE kept == [t \in OrderLines |-> Keeps(t, came[t])]
           lacks == [t \in OrderLines |->
                        IF units > 0 /\ t \in Stock \ closed
                        THEN Larger(0, Missing(t) - kept[t]) ELSE 0]
           free == onHand + units - reserved - Total(kept)
<1>2. CASE p \in direct
    <2>1. /\ fulfilled' = [t \in OrderLines |-> fulfilled[t] + came[t]]
          /\ UNCHANGED <<onHand, reserved, held>>
        BY <1>2, Zenon DEF Goes, Came
    <2> HIDE DEF came
    <2>2. /\ fulfilled' \in [OrderLines -> Nat]
          /\ \A t \in OrderLines : fulfilled'[t] = fulfilled[t] + came[t]
        BY <1>1, <2>1 DEF LevelTypes
    <2> QED  BY <1>2, <2>1, <2>2 DEF LevelTypes, came
<1>3. CASE p \notin direct
    <2>1. PICK more \in [OrderLines -> 0 .. MaxUnits] :
             /\ Backfills(lacks, free, more)
             /\ onHand' = onHand + units
             /\ reserved' = reserved + Total(kept) + Total(more)
             /\ held' = [t \in OrderLines |-> held[t] + kept[t] + more[t]]
             /\ UNCHANGED fulfilled
        BY <1>3, Zenon DEF Goes, Came
    <2> HIDE DEF came, units
    <2>2. ASSUME NEW t \in OrderLines
          PROVE  /\ kept[t] \in Nat /\ kept[t] <= came[t] /\ kept[t] <= Missing(t)
                 /\ lacks[t] \in Nat /\ more[t] \in Nat /\ held[t] \in Nat /\ more[t] <= lacks[t]
                 /\ kept[t] + more[t] <= Missing(t)
        <3>1. Missing(t) \in Nat /\ held[t] \in Nat
            BY MissingType
        <3>2. kept[t] = 0 \/ kept[t] = Smaller(came[t], Missing(t))
            BY DEF Keeps
        <3>3. lacks[t] = 0 \/ lacks[t] = Larger(0, Missing(t) - kept[t])
            OBVIOUS
        <3>4. more[t] \in Nat
            BY PurchaseAssumption
        <3>5. more[t] <= lacks[t]
            BY <2>1, Zenon DEF Backfills
        <3>6. came[t] \in Nat
            BY <1>1
        <3> HIDE DEF kept, lacks
        <3>7. kept[t] \in Nat /\ kept[t] <= came[t] /\ kept[t] <= Missing(t)
            BY <3>1, <3>2, <3>6 DEF Smaller
        <3>8. lacks[t] \in Nat /\ lacks[t] <= Missing(t) - kept[t]
            BY <3>1, <3>3, <3>7 DEF Larger
        <3> QED  BY <3>1, <3>4, <3>5, <3>7, <3>8
    <2>3. /\ Total(kept) = SumFunctionOnSet(kept, OrderLines)
          /\ Total(lacks) = SumFunctionOnSet(lacks, OrderLines)
          /\ Total(more) = SumFunctionOnSet(more, OrderLines)
        BY DEF Total
    <2>4. Total(more) = Smaller(Larger(0, free), Total(lacks))
        BY <2>1 DEF Backfills
    <2>5. \A t \in OrderLines : held'[t] = held[t] + kept[t] + more[t]
        BY <2>1
    <2>6. free = onHand + units - reserved - Total(kept)
        OBVIOUS
    <2>7. held' = [t \in OrderLines |-> held'[t]]
        BY <2>1
    <2> HIDE DEF kept, lacks, free
    <2>8. /\ Total(kept) \in Nat /\ Total(more) \in Nat /\ Total(lacks) \in Nat
          /\ Total(kept) <= units
        <3>1. /\ SumFunctionOnSet(kept, OrderLines) \in Nat
              /\ SumFunctionOnSet(lacks, OrderLines) \in Nat
              /\ SumFunctionOnSet(more, OrderLines) \in Nat
              /\ SumFunctionOnSet(came, OrderLines) \in Nat
            BY <1>1, <2>2, FiniteSets, SumIsNat
        <3>2. SumFunctionOnSet(kept, OrderLines) <= SumFunctionOnSet(came, OrderLines)
            <4>1. \A t \in OrderLines : kept[t] \in Int /\ came[t] \in Int /\ kept[t] <= came[t]
                BY <1>1, <2>2
            <4> QED  BY <4>1, FiniteSets, SumGrows
        <3> QED  BY <1>1, <2>3, <3>1, <3>2
    <2>9. held' \in [OrderLines -> Nat]
        BY <2>2, <2>5, <2>7
    <2>10. LevelTypes'
        BY <1>1, <2>1, <2>8, <2>9 DEF LevelTypes
    <2>11. \A t \in OrderLines : held'[t] <= held[t] + Missing(t)
        <3> TAKE t \in OrderLines
        <3>1. Missing(t) \in Nat
            BY MissingType
        <3> QED  BY <2>2, <2>5, <3>1
    <2>12. ASSUME HeldIsThere PROVE HeldIsThere'
        <3> DEFINE both == [t \in OrderLines |-> kept[t] + more[t]]
        <3>1. \A t \in OrderLines : /\ kept[t] \in Int /\ more[t] \in Int /\ both[t] \in Int
                                    /\ both[t] = kept[t] + more[t]
            BY <2>2
        <3>2. \A t \in OrderLines : held[t] \in Int /\ held'[t] = held[t] + both[t]
            BY <2>2, <2>5
        <3> HIDE DEF both
        <3>3. SumFunctionOnSet(both, OrderLines)
                 = SumFunctionOnSet(kept, OrderLines) + SumFunctionOnSet(more, OrderLines)
            BY <3>1, FiniteSets, SumPlus
        <3>4. SumFunctionOnSet(held', OrderLines)
                 = SumFunctionOnSet(held, OrderLines) + SumFunctionOnSet(both, OrderLines)
            BY <3>1, <3>2, FiniteSets, SumPlus
        <3>5. /\ Total(held) = SumFunctionOnSet(held, OrderLines)
              /\ Total(held)' = SumFunctionOnSet(held', OrderLines)
            BY <2>9 DEF LevelTypes, Total
        <3>6. Total(held) \in Nat
            <4>1. \A t \in OrderLines : held[t] \in Nat
                BY <2>2
            <4> QED  BY <3>5, <4>1, FiniteSets, SumIsNat
        <3>7. Total(held)' = Total(held) + Total(kept) + Total(more)
            BY <2>3, <2>8, <3>3, <3>4, <3>5, <3>6
        <3>8. free >= 0
            BY <1>1, <2>6, <2>8, <1>1, <2>12 DEF HeldIsThere, LevelTypes
        <3>9. Total(more) <= free
            BY <2>4, <2>8, <3>8, <2>6, <1>1 DEF Smaller, Larger, LevelTypes
        <3>10. reserved' <= onHand'
            BY <1>1, <2>1, <2>6, <2>8, <3>9 DEF LevelTypes
        <3> QED  BY <2>1, <2>12, <3>7, <3>10 DEF HeldIsThere
    <2> QED  BY <1>3, <2>1, <2>10, <2>11, <2>12
<1> QED  BY <1>2, <1>3

BookInv == IInv /\ Links3 /\ LevelTypes

\* The inputs of the two endpoints that receive, as increments of all lines.
LEMMA BothReceive ==
    ASSUME BookInv, NEW p \in Pos,
           \/ \E l \in Lines, inc \in Stages : ReceiveStages(p, l, inc)
           \/ \E units \in Batches : Receive(p, units)
    PROVE  \E inc \in [Lines -> Stages] :
               /\ Receives(p, inc) /\ Goes(p, inc) /\ status[p] # "none"
               /\ \A l \in Lines : PoOf[l] # p => inc[l] = Nothing
<1>1. ASSUME NEW l \in Lines, NEW inc \in Stages, ReceiveStages(p, l, inc)
      PROVE  \E all \in [Lines -> Stages] :
               /\ Receives(p, all) /\ Goes(p, all) /\ status[p] # "none"
               /\ \A m \in Lines : PoOf[m] # p => all[m] = Nothing
    <2> DEFINE all == [m \in Lines |-> IF m = l THEN inc ELSE Nothing]
    <2>1. PoOf[l] = p /\ status[p] # "none" /\ Receives(p, all) /\ Goes(p, all)
        BY <1>1 DEF ReceiveStages, LinesOf
    <2>2. Nothing \in Stages
        BY PurchaseAssumption DEF Nothing, Stages
    <2>3. all \in [Lines -> Stages] /\ \A m \in Lines : PoOf[m] # p => all[m] = Nothing
        BY <2>1, <2>2
    <2> HIDE DEF all
    <2> QED  BY <2>1, <2>3
<1>2. ASSUME NEW units \in Batches, Receive(p, units)
      PROVE  \E all \in [Lines -> Stages] :
               /\ Receives(p, all) /\ Goes(p, all) /\ status[p] # "none"
               /\ \A m \in Lines : PoOf[m] # p => all[m] = Nothing
    <2> DEFINE all == [l \in Lines |-> [received |-> units[l], inspected |-> units[l],
                                        accepted |-> units[l], rejected |-> 0]]
    <2>1. /\ status[p] # "none" /\ Receives(p, all) /\ Goes(p, all)
          /\ \A l \in Lines : units[l] <= IF l \in LinesOf(p) THEN ordered[l] - received[l] ELSE 0
        BY <1>2 DEF Receive
    <2>2. \A l \in Lines : units[l] \in Nat /\ units[l] \in 0 .. MaxUnits
        BY PurchaseAssumption DEF Batches
    <2>3. all \in [Lines -> Stages]
        BY <2>2, PurchaseAssumption DEF Stages
    <2>4. \A m \in Lines : PoOf[m] # p => all[m] = Nothing
        BY <2>1, <2>2 DEF LinesOf, Nothing
    <2> HIDE DEF all
    <2> QED  BY <2>1, <2>3, <2>4
<1> QED  BY <1>1, <1>2

LEMMA UnreceiveLevels ==
    ASSUME BookInv, NEW p \in Pos, NEW units \in Batches, Unreceive(p, units)
    PROVE  /\ LevelTypes' /\ UNCHANGED <<reserved, held, fulfilled, direct, arrived>>
           /\ onHand' = onHand - Total(units) /\ Total(units) \in Nat
<1>1. onHand' = onHand - Total(units) /\ UNCHANGED <<reserved, held, fulfilled, direct, arrived>>
    BY DEF Unreceive, TakesBack, linkVars
<1>2. DOMAIN units = Lines /\ \A l \in Lines : units[l] \in Nat
    BY DEF Batches
<1>3. Total(units) \in Nat
    BY <1>2, FiniteSets, SumIsNat DEF Total
<1> QED  BY <1>1, <1>3 DEF BookInv, LevelTypes

\* An order line's hold and its counter move by hand.
LEMMA LineMoves ==
    ASSUME LevelTypes, NEW t \in OrderLines, NEW units \in Nat,
           Reserve(t, units) \/ Fulfill(t, units) \/ CloseOrder(t)
    PROVE  /\ LevelTypes'
           /\ HeldIsThere => HeldIsThere'
           /\ NobodyHasTwo => NobodyHasTwo'
<1>1. units \in Nat /\ held[t] \in Nat /\ fulfilled[t] \in Nat
      /\ held \in [OrderLines -> Nat] /\ fulfilled \in [OrderLines -> Nat]
      /\ onHand \in Int /\ reserved \in Int /\ Missing(t) \in Nat /\ Wanted[t] \in Nat
      /\ Missing(t) = Larger(0, Wanted[t] - fulfilled[t] - held[t])
    BY PurchaseAssumption, MissingType DEF LevelTypes
<1>2. arrived' = arrived /\ direct' = direct
    BY DEF Reserve, Fulfill, CloseOrder, poVars, linkVars
<1>3. PICK n \in Nat :
         /\ held' = [held EXCEPT ![t] = n]
         /\ reserved' = reserved + n - held[t]
         /\ \/ /\ n <= held[t] + Missing(t) /\ n >= held[t] /\ n - held[t] <= onHand - reserved
               /\ onHand' = onHand /\ fulfilled' = fulfilled
            \/ /\ n <= held[t]
               /\ \/ onHand' = onHand /\ fulfilled' = fulfilled
                  \/ /\ onHand' = onHand - (held[t] - n)
                     /\ fulfilled' = [fulfilled EXCEPT ![t] = @ + (held[t] - n)]
    <2>1. CASE Reserve(t, units)
        <3>1. /\ held' = [held EXCEPT ![t] = held[t] + units] /\ units <= Missing(t)
              /\ reserved' = reserved + units /\ units <= onHand - reserved
              /\ onHand' = onHand /\ fulfilled' = fulfilled
            BY <2>1 DEF Reserve, Free
        <3> DEFINE n == held[t] + units
        <3>2. /\ n \in Nat /\ n >= held[t] /\ n <= held[t] + Missing(t) /\ n - held[t] = units
              /\ reserved + units = reserved + n - held[t]
            BY <1>1, <3>1
        <3> HIDE DEF n
        <3> QED  BY <3>1, <3>2 DEF n
    <2>2. CASE Fulfill(t, units)
        <3>1. /\ held' = [held EXCEPT ![t] = held[t] - units] /\ units <= held[t]
              /\ reserved' = reserved - units /\ onHand' = onHand - units
              /\ fulfilled' = [fulfilled EXCEPT ![t] = fulfilled[t] + units]
            BY <2>2 DEF Fulfill
        <3> DEFINE n == held[t] - units
        <3>2. n \in Nat /\ n <= held[t] /\ held[t] - n = units /\ reserved - units = reserved + n - held[t]
            BY <1>1, <3>1
        <3> HIDE DEF n
        <3> QED  BY <3>1, <3>2 DEF n
    <2>3. CASE CloseOrder(t)
        <3>1. /\ held' = [held EXCEPT ![t] = 0] /\ reserved' = reserved - held[t]
              /\ onHand' = onHand /\ fulfilled' = fulfilled
            BY <2>3 DEF CloseOrder
        <3>2. 0 \in Nat /\ 0 <= held[t] /\ reserved - held[t] = reserved + 0 - held[t]
            BY <1>1
        <3> QED  BY <3>1, <3>2
    <2> QED  BY <2>1, <2>2, <2>3
<1>4. LevelTypes'
    BY <1>1, <1>3 DEF LevelTypes
<1>5. ASSUME HeldIsThere PROVE HeldIsThere'
    <2>1. /\ \A u \in OrderLines : held[u] \in Int
          /\ \A u \in OrderLines \ {t} : held'[u] = held[u]
          /\ held'[t] = n /\ held'[t] \in Int /\ held[t] \in Int
        BY <1>1, <1>3
    <2>2. SumFunctionOnSet(held', OrderLines) = SumFunctionOnSet(held, OrderLines) - held[t] + n
        <3>1. IsFiniteSet(OrderLines)
            BY FiniteSets
        <3> QED  BY <2>1, <3>1, SumUpdate
    <2>3. DOMAIN held = OrderLines /\ DOMAIN held' = OrderLines
        BY <1>1, <1>3
    <2>4. Total(held)' = Total(held) - held[t] + n
        BY <2>2, <2>3 DEF Total
    <2>5. Total(held)' = reserved'
        BY <1>1, <1>3, <1>5, <2>4 DEF HeldIsThere
    <2>6. reserved' <= onHand'
        BY <1>1, <1>3, <1>5 DEF HeldIsThere
    <2> QED  BY <2>5, <2>6 DEF HeldIsThere
<1>6. ASSUME NobodyHasTwo, NEW u \in Stock PROVE Shipped(u)' \/ held'[u] + fulfilled'[u] <= Wanted[u]
    <2>1. Shipped(u)' <=> Shipped(u)
        BY <1>2 DEF Shipped
    <2>2. u \in OrderLines /\ (Shipped(u) \/ held[u] + fulfilled[u] <= Wanted[u])
        BY <1>6, FiniteSets DEF NobodyHasTwo
    <2>3. CASE u # t
        <3>1. held'[u] = held[u] /\ fulfilled'[u] = fulfilled[u]
            BY <1>1, <1>3, <2>2, <2>3
        <3> QED  BY <2>1, <2>2, <3>1
    <2>4. CASE u = t
        <3>1. held'[t] = n
            BY <1>1, <1>3
        <3>2. \/ n <= held[t] + Missing(t) /\ fulfilled'[t] = fulfilled[t] /\ n >= held[t]
              \/ n <= held[t] /\ fulfilled'[t] = fulfilled[t]
              \/ n <= held[t] /\ fulfilled'[t] = fulfilled[t] + (held[t] - n)
            BY <1>1, <1>3
        <3>3. held[t] + fulfilled[t] <= Wanted[t] => n + fulfilled'[t] <= Wanted[t]
            BY <1>1, <3>2 DEF Larger
        <3> QED  BY <2>1, <2>2, <2>4, <3>1, <3>3
    <2> QED  BY <2>3, <2>4
<1> QED  BY <1>4, <1>5, <1>6 DEF NobodyHasTwo

LEMMA BookInit == ASSUME Init PROVE BookInv /\ HeldIsThere /\ NobodyHasTwo
<1>1. /\ ordered = [l \in Lines |-> 0] /\ accepted = ordered /\ cancelled = ordered
      /\ queue = [l \in Lines |-> <<>>]
      /\ arrived = [l \in Lines |-> [t \in Targets |-> 0]]
      /\ onHand \in 0 .. 1 /\ reserved = 0
      /\ held = [t \in OrderLines |-> 0] /\ fulfilled = held
    BY DEF Init
<1>2. LinkTypes /\ ServedNobody
    BY <1>1, ShortQueues DEF LinkTypes, ServedNobody
<1>3. \A l \in Lines : Waiting(l) = 0
    BY <1>1, ShortQueues DEF Waiting
<1>4. ASSUME NEW l \in Lines PROVE Arrived(l) = 0
    <2>1. DOMAIN arrived[l] = Targets /\ \A t \in Targets : arrived[l][t] = 0
        BY <1>1
    <2> QED  BY <2>1, FiniteSets, SumOfZeros DEF Arrived, Total
<1>5. LinksWithinLine
    BY <1>1, <1>3, <1>4 DEF LinksWithinLine, Linked
<1>6. LevelTypes
    BY <1>1 DEF LevelTypes
<1>7. Total(held) = 0
    BY <1>1, FiniteSets, SumOfZeros DEF Total
<1>8. \A t \in Stock : held[t] + fulfilled[t] <= Wanted[t]
    BY <1>1, <1>6, MissingType, FiniteSets
<1> QED  BY <1>1, <1>2, <1>5, <1>6, <1>7, <1>8, IInvInit
         DEF BookInv, Links3, HeldIsThere, NobodyHasTwo

LEMMA BookStep == ASSUME BookInv, [Next]_vars PROVE BookInv'
<1> USE DEF BookInv
<1>0. IInv'
    BY IInvStep
<1> DEFINE Keeps2 == Links3' /\ LevelTypes'
<1>1. ASSUME UNCHANGED stockVars PROVE LevelTypes'
    BY <1>1 DEF LevelTypes, stockVars
<1>2. CASE UNCHANGED vars
    <2>1. UNCHANGED <<linkVars, ordered, accepted, status, stockVars>>
        BY <1>2 DEF vars, poVars, lineVars
    <2>2. Links3'
        BY <2>1, LinksStill
    <2> QED  BY <1>0, <1>1, <2>1, <2>2
<1>3. ASSUME NEW p \in Pos, NEW l \in Lines, NEW units \in 1 .. MaxUnits,
             Create(p, l, units) \/ \E t \in OrderLines : GeneratePo(p, l, t, units)
      PROVE  Keeps2
    <2>1. PICK links, ships : /\ links \in Seq(Link) /\ Total(UnitsOf(links)) <= units
                              /\ Creates(p, l, units, links, ships)
        <3>1. \A t \in OrderLines : /\ [to |-> t, units |-> Smaller(units, Wanted[t])] \in Link
                                    /\ [to |-> t, units |-> units] \in Link
                                    /\ Smaller(units, Wanted[t]) <= units
            BY PurchaseAssumption, FiniteSets DEF Link, Smaller, Targets, OrderLines
        <3>2. units \in Nat
            BY PurchaseAssumption
        <3>3. CASE Create(p, l, units)
            <4>1. CASE Creates(p, l, units, <<>>, FALSE)
                <5>1. <<>> \in Seq(Link) /\ Total(UnitsOf(<<>>)) <= units
                    BY <3>2, ShortQueues
                <5> QED  BY <4>1, <5>1, Zenon
            <4>2. CASE \E t \in OrderLines :
                     Creates(p, l, units, <<[to |-> t, units |-> Smaller(units, Wanted[t])]>>, FALSE)
                <5>1. PICK t \in OrderLines :
                         Creates(p, l, units, <<[to |-> t, units |-> Smaller(units, Wanted[t])]>>, FALSE)
                    BY <4>2
                <5> DEFINE k == [to |-> t, units |-> Smaller(units, Wanted[t])]
                <5>2. k \in Link /\ k.units <= units
                    BY <3>1
                <5> HIDE DEF k
                <5> QED  BY <5>1, <5>2, ShortQueues DEF k
            <4> QED  BY <3>3, <4>1, <4>2 DEF Create
        <3>4. CASE \E t \in OrderLines : GeneratePo(p, l, t, units)
            <4>1. PICK t \in OrderLines :
                     Creates(p, l, units, <<[to |-> t, units |-> units]>>, t \in Direct)
                BY <3>4 DEF GeneratePo
            <4> DEFINE k == [to |-> t, units |-> units]
                       ships == t \in Direct
            <4>2. k \in Link /\ k.units = units
                BY <3>1
            <4>3. Creates(p, l, units, <<k>>, ships)
                BY <4>1, Zenon
            <4> HIDE DEF k, ships
            <4>4. <<k>> \in Seq(Link) /\ Total(UnitsOf(<<k>>)) <= units
                BY <3>2, <4>2, ShortQueues
            <4> QED  BY <4>3, <4>4, Zenon
        <3> QED  BY <1>3, <3>3, <3>4
    <2>2. Links3'
        BY <2>1, LinksCreate
    <2> QED  BY <1>1, <2>1, <2>2 DEF Creates
<1>4. ASSUME NEW p \in Pos, Place(p) \/ Cancel(p) \/ Restore(p) PROVE Keeps2
    <2>1. UNCHANGED <<linkVars, ordered, accepted, stockVars>>
        BY <1>4 DEF Place, Cancel, Restore, lineVars
    <2>2. \A l \in Lines : status'[PoOf[l]] = "none" => status[PoOf[l]] = "none"
        BY <1>4, PurchaseAssumption DEF Place, Cancel, Restore, IInv, Unborn, Open
    <2> QED  BY <1>1, <2>1, <2>2, LinksStill
<1>5. ASSUME NEW p \in Pos, Delete(p) PROVE Keeps2
    BY <1>1, <1>5, LinksDelete DEF Delete
<1>6. ASSUME NEW p \in Pos, NEW units \in Batches, Update(p, units) PROVE Keeps2
    BY <1>1, <1>6, LinksUpdate DEF Update, Edits
<1>7. ASSUME NEW p \in Pos, NEW units \in Batches, Unreceive(p, units) PROVE Keeps2
    BY <1>7, LinksUnreceive, UnreceiveLevels DEF LevelTypes
<1>8. ASSUME NEW p \in Pos,
             \/ \E l \in Lines, inc \in Stages : ReceiveStages(p, l, inc)
             \/ \E units \in Batches : Receive(p, units)
      PROVE  Keeps2
    <2>1. PICK inc \in [Lines -> Stages] :
               /\ Receives(p, inc) /\ Goes(p, inc) /\ status[p] # "none"
               /\ \A l \in Lines : PoOf[l] # p => inc[l] = Nothing
        BY <1>8, BothReceive
    <2>2. Links3'
        BY <2>1, LinksReceive
    <2>3. LevelTypes'
        BY <2>1, GoesFacts DEF Links3
    <2> QED  BY <2>2, <2>3
<1>9. ASSUME NEW l \in Lines, NEW t \in Targets, NEW units \in 1 .. MaxUnits,
             LinkUnits(l, t, units)
      PROVE  Keeps2
    BY <1>1, <1>9, LinksLink DEF LinkUnits, Links
<1>10. ASSUME NEW l \in Lines, NEW i \in DOMAIN queue[l], Unlink(l, i) PROVE Keeps2
    BY <1>1, <1>10, LinksUnlink DEF Unlink
<1>11. ASSUME NEW t \in OrderLines, NEW units \in 1 .. MaxUnits,
              Reserve(t, units) \/ Fulfill(t, units)
      PROVE  Keeps2
    <2>1. UNCHANGED <<poVars, lineVars, linkVars>>
        BY <1>11 DEF Reserve, Fulfill
    <2> QED  BY <1>11, <2>1, LineMoves, LinksStill DEF poVars, lineVars
<1>12. ASSUME NEW t \in OrderLines, CloseOrder(t) PROVE Keeps2
    <2>1. UNCHANGED <<poVars, lineVars, linkVars>>
        BY <1>12 DEF CloseOrder
    <2>2. LevelTypes'
        BY <1>12 DEF CloseOrder, LevelTypes
    <2> QED  BY <2>1, <2>2, LinksStill DEF poVars, lineVars
<1> QED  BY <1>0, <1>2, <1>3, <1>4, <1>5, <1>6, <1>7, <1>8, <1>9, <1>10, <1>11, <1>12 DEF Next

-----------------------------------------------------------------------------
(* What is reserved is there.                                              *)

\* The body of a correction names one line.
OneLineEach == \A l, m \in Lines : PoOf[l] = PoOf[m] => l = m

LEMMA HeldStep ==
    ASSUME OneLineEach, BookInv, HeldIsThere, [Next]_vars PROVE HeldIsThere'
<1> USE DEF BookInv
<1>1. ASSUME UNCHANGED <<onHand, reserved, held>> PROVE HeldIsThere'
    BY <1>1 DEF HeldIsThere, Total
<1>2. ASSUME NEW p \in Pos, NEW units \in Batches, Unreceive(p, units) PROVE HeldIsThere'
    <2>1. /\ \A l \in LinesOf(p) : units[l] > 0 => units[l] <= Smaller(accepted[l] - Arrived(l), Free)
          /\ \A l \in Lines : units[l] <= IF l \in LinesOf(p) THEN accepted[l] ELSE 0
          /\ \E l \in LinesOf(p) : units[l] > 0
        BY <1>2 DEF Unreceive, TakesBack
    <2>2. PICK l \in LinesOf(p) : units[l] > 0
        BY <2>1
    <2>3. /\ l \in Lines /\ DOMAIN units = Lines /\ \A m \in Lines : units[m] \in Nat
          /\ \A m \in Lines \ {l} : m \notin LinesOf(p)
        BY <2>2 DEF LinesOf, OneLineEach, Batches
    <2>4. \A m \in Lines \ {l} : units[m] = 0
        BY <2>1, <2>3
    <2>5. Total(units) = units[l]
        <3>1. units[l] \in Int /\ IsFiniteSet(Lines)
            BY <2>3, FiniteSets
        <3> QED  BY <2>3, <2>4, <3>1, SumOfOne DEF Total
    <2>6. units[l] <= onHand - reserved
        <3>1. Arrived(l) \in Nat /\ accepted[l] \in Nat
            BY <2>3, LinkedTypes DEF Links3, IInv, Counters
        <3> QED  BY <2>1, <2>2, <2>3, <3>1 DEF Smaller, Free, LevelTypes
    <2>7. onHand' = onHand - Total(units) /\ reserved' = reserved /\ held' = held
        BY <1>2, UnreceiveLevels
    <2> QED  BY <2>3, <2>5, <2>6, <2>7 DEF HeldIsThere, LevelTypes, Total
<1>3. ASSUME NEW p \in Pos,
             \/ \E l \in Lines, inc \in Stages : ReceiveStages(p, l, inc)
             \/ \E units \in Batches : Receive(p, units)
      PROVE  HeldIsThere'
    <2>1. PICK inc \in [Lines -> Stages] : Goes(p, inc)
        BY <1>3, BothReceive
    <2> QED  BY <1>1, <2>1, GoesFacts DEF Links3
<1>4. ASSUME NEW t \in OrderLines, NEW units \in Nat,
             Reserve(t, units) \/ Fulfill(t, units) \/ CloseOrder(t)
      PROVE  HeldIsThere'
    BY <1>4, LineMoves
<1>5. \A units \in 1 .. MaxUnits : units \in Nat
    BY PurchaseAssumption
<1>6. ASSUME NEW p \in Pos, NEW l \in Lines, NEW units \in 1 .. MaxUnits,
             Create(p, l, units) \/ \E t \in OrderLines : GeneratePo(p, l, t, units)
      PROVE  HeldIsThere'
    BY <1>1, <1>6 DEF Create, GeneratePo, Creates, stockVars
<1>7. ASSUME NEW p \in Pos, Place(p) \/ Cancel(p) \/ Delete(p) \/ Restore(p) PROVE HeldIsThere'
    BY <1>1, <1>7 DEF Place, Cancel, Delete, Restore, stockVars
<1>8. ASSUME NEW p \in Pos, NEW units \in Batches, Update(p, units) PROVE HeldIsThere'
    BY <1>1, <1>8 DEF Update, Edits, stockVars
<1>9. ASSUME NEW l \in Lines, NEW t \in Targets, NEW units \in 1 .. MaxUnits,
             LinkUnits(l, t, units)
      PROVE  HeldIsThere'
    BY <1>1, <1>9 DEF LinkUnits, Links, stockVars
<1>10. ASSUME NEW l \in Lines, NEW i \in DOMAIN queue[l], Unlink(l, i) PROVE HeldIsThere'
    BY <1>1, <1>10 DEF Unlink, stockVars
<1>11. CASE UNCHANGED vars
    BY <1>1, <1>11 DEF vars, stockVars
<1> QED  BY <1>2, <1>3, <1>4, <1>5, <1>6, <1>7, <1>8, <1>9, <1>10, <1>11 DEF Next

-----------------------------------------------------------------------------
(* Nobody has two.                                                         *)

LEMMA TwoStep ==
    ASSUME BookInv, NobodyHasTwo, [Next]_vars PROVE NobodyHasTwo'
<1> USE DEF BookInv
<1>1. ASSUME UNCHANGED <<held, fulfilled, arrived>>, direct \subseteq direct' PROVE NobodyHasTwo'
    <2>1. \A t : Shipped(t) => Shipped(t)'
        BY <1>1 DEF Shipped
    <2> QED  BY <1>1, <2>1 DEF NobodyHasTwo
<1>2. ASSUME NEW p \in Pos, NEW units \in Batches, Unreceive(p, units) PROVE NobodyHasTwo'
    BY <1>1, <1>2, UnreceiveLevels
<1>3. ASSUME NEW p \in Pos,
             \/ \E l \in Lines, inc \in Stages : ReceiveStages(p, l, inc)
             \/ \E units \in Batches : Receive(p, units)
      PROVE  NobodyHasTwo'
    <2>1. PICK inc \in [Lines -> Stages] :
               /\ Receives(p, inc) /\ Goes(p, inc)
               /\ \A l \in Lines : PoOf[l] # p => inc[l] = Nothing
        BY <1>3, BothReceive
    <2>2. /\ direct' = direct
          /\ \A l \in Lines, t \in Targets :
                arrived'[l][t] = arrived[l][t] + ServedTo(queue[l], inc[l].accepted, t)
        BY <2>1 DEF Receives
    <2>3. \A l \in Lines, t \in Targets : /\ ServedTo(queue[l], inc[l].accepted, t) \in Nat
                                          /\ arrived[l][t] \in Nat
        BY ServedToFacts DEF Stages, Links3, LinkTypes
    <2> SUFFICES ASSUME NEW t \in Stock, ~Shipped(t)'
                 PROVE  held'[t] + fulfilled'[t] <= Wanted[t]
        BY DEF NobodyHasTwo
    <2>4. t \in OrderLines /\ t \in Targets
        BY FiniteSets
    <2>5. ~Shipped(t)
        BY <2>2, <2>3, <2>4 DEF Shipped
    <2>6. held[t] + fulfilled[t] <= Wanted[t]
        BY <2>5 DEF NobodyHasTwo
    <2>7. /\ held[t] \in Nat /\ fulfilled[t] \in Nat /\ Wanted[t] \in Nat
          /\ Missing(t) = Larger(0, Wanted[t] - fulfilled[t] - held[t])
        BY <2>4, MissingType
    <2>8. CASE p \in direct
        <3>1. Came(inc)[t] = 0
            <4> SUFFICES ASSUME Came(inc)[t] # 0 PROVE FALSE
                OBVIOUS
            <4>1. PICK l \in Lines : inc[l].accepted > 0 /\ ServedTo(queue[l], inc[l].accepted, t) > 0
                BY <2>4, CameFacts DEF Links3
            <4>2. PoOf[l] = p
                BY <2>1, <4>1 DEF Nothing
            <4>3. arrived'[l][t] > 0
                BY <2>2, <2>3, <2>4, <4>1
            <4> QED  BY <2>2, <2>8, <4>2, <4>3 DEF Shipped
        <3>2. held' = held /\ fulfilled'[t] = fulfilled[t] + Came(inc)[t]
            BY <2>1, <2>4, <2>8, GoesFacts DEF Links3
        <3> QED  BY <2>6, <2>7, <3>1, <3>2
    <2>9. CASE p \notin direct
        <3>1. /\ fulfilled' = fulfilled
              /\ held'[t] = held[t] \/ held'[t] <= held[t] + Missing(t)
            BY <2>1, <2>4, <2>9, GoesFacts DEF Links3
        <3>2. held'[t] \in Nat
            BY <2>1, <2>4, GoesFacts DEF Links3, LevelTypes
        <3> QED  BY <2>6, <2>7, <3>1, <3>2 DEF Larger
    <2> QED  BY <2>8, <2>9
<1>4. ASSUME NEW t \in OrderLines, NEW units \in Nat,
             Reserve(t, units) \/ Fulfill(t, units) \/ CloseOrder(t)
      PROVE  NobodyHasTwo'
    BY <1>4, LineMoves
<1>5. \A units \in 1 .. MaxUnits : units \in Nat
    BY PurchaseAssumption
<1>6. ASSUME NEW p \in Pos, NEW l \in Lines, NEW units \in 1 .. MaxUnits,
             Create(p, l, units) \/ \E t \in OrderLines : GeneratePo(p, l, t, units)
      PROVE  NobodyHasTwo'
    <2>1. UNCHANGED <<held, fulfilled, arrived>> /\ direct \subseteq direct'
        BY <1>6 DEF Create, GeneratePo, Creates, stockVars
    <2> QED  BY <1>1, <2>1
<1>7. ASSUME NEW p \in Pos, Place(p) \/ Cancel(p) \/ Delete(p) \/ Restore(p) PROVE NobodyHasTwo'
    BY <1>1, <1>7 DEF Place, Cancel, Delete, Restore, stockVars, linkVars
<1>8. ASSUME NEW p \in Pos, NEW units \in Batches, Update(p, units) PROVE NobodyHasTwo'
    BY <1>1, <1>8 DEF Update, Edits, stockVars, linkVars, poVars
<1>9. ASSUME NEW l \in Lines, NEW t \in Targets, NEW units \in 1 .. MaxUnits,
             LinkUnits(l, t, units)
      PROVE  NobodyHasTwo'
    BY <1>1, <1>9 DEF LinkUnits, Links, stockVars, poVars
<1>10. ASSUME NEW l \in Lines, NEW i \in DOMAIN queue[l], Unlink(l, i) PROVE NobodyHasTwo'
    BY <1>1, <1>10 DEF Unlink, stockVars, poVars
<1>11. CASE UNCHANGED vars
    BY <1>1, <1>11 DEF vars, stockVars, linkVars, poVars
<1> QED  BY <1>2, <1>3, <1>4, <1>5, <1>6, <1>7, <1>8, <1>9, <1>10, <1>11 DEF Next

-----------------------------------------------------------------------------
\* No more units of a line are promised than were bought, and none that arrived
\* for somebody is taken back (link, update, receive and unreceive of
\* PurchaseOrdersController, handleReceipt of SpecialOrdersService).
THEOREM LinksHold == Spec => []LinksWithinLine
<1>1. Init => BookInv
    BY BookInit
<1>2. BookInv /\ [Next]_vars => BookInv'
    BY BookStep
<1>3. BookInv => LinksWithinLine
    BY DEF BookInv, Links3
<1> QED  BY <1>1, <1>2, <1>3, PTL DEF Spec

\* No stock line gets units twice: not when it was served from stock before its
\* purchase order arrived, and not when it was ordered twice.
THEOREM NobodyHasTwoHolds == Spec => []NobodyHasTwo
<1>1. Init => BookInv /\ NobodyHasTwo
    BY BookInit
<1>2. BookInv /\ NobodyHasTwo /\ [Next]_vars => BookInv' /\ NobodyHasTwo'
    BY BookStep, TwoStep
<1> QED  BY <1>1, <1>2, PTL DEF Spec

\* What is reserved is on hand, if a variant is on one line of a purchase order:
\* unreceive checks each entry of its body against the same free stock.
THEOREM HeldIsThereHolds == OneLineEach => (Spec => []HeldIsThere)
<1> SUFFICES ASSUME OneLineEach PROVE Spec => []HeldIsThere
    OBVIOUS
<1>1. Init => BookInv /\ HeldIsThere
    BY BookInit
<1>2. BookInv /\ HeldIsThere /\ [Next]_vars => BookInv' /\ HeldIsThere'
    BY BookStep, HeldStep
<1> QED  BY <1>1, <1>2, PTL DEF Spec

=============================================================================
