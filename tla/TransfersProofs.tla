--------------------------- MODULE TransfersProofs ---------------------------
(***************************************************************************)
(* Proofs about Transfers, for every set of transfers, items, manifests    *)
(* and requests.                                                           *)
(*                                                                         *)
(* The first part is about concurrent requests.  receive writes a counter  *)
(* it computed from an unlocked read, so two docks may lose one another's  *)
(* update; still no line ever shows more received than shipped.  A request *)
(* works on a transfer that has committed, whose shipped units nobody      *)
(* writes any more, or on one that it inserts and nobody else can see.     *)
(*                                                                         *)
(* The second part is about requests that are served one at a time         *)
(* (Alone): the units, the holds and the manifests then add up.  SerialInv *)
(* says of every step of an open transaction what it has booked so far;    *)
(* at its commit the books are what the tables change by.  Two concurrent  *)
(* requests break each of these invariants, as the README shows.           *)
(***************************************************************************)
EXTENDS Transfers, Sums, TLAPS

Receipts == {"receive", "complete"}

\* The units a request counts as received are on the line.
CountFits(t) ==
    /\ t.doc \in Transfers
    /\ t.doc \in t.new \/ status[t.doc] # "none"
    /\ \A i \in Items : t.counted[i] <= OwnShipped(t, t.doc)[i]

Sound(t) ==
    /\ \A x \in t.new : /\ status[x] = "none" /\ t.next[x] # "keep"
                        /\ \A i \in Items : t.lines[x][i] <= t.wants[x][i]
    /\ \A x \in Transfers : t.next[x] # "keep" => x \in t.new \/ status[x] # "none"
    /\ t.op \in Receipts => CountFits(t)
    /\ t.op \notin Receipts => t.landed = {}
    /\ t.pc \in {"land", "judge", "roll"} => t.op \in Receipts
    /\ t.pc = "load" => t.op = "completeManifest"
    /\ t.pc \in {"ship", "header"} => t.doc \in Transfers
    /\ t.op = "completeManifest" \/ t.pc \in {"detach", "truck"} => t.run \in Manifests

\* Nothing has arrived of a transfer that does not exist.
NothingYet == \A x \in Transfers : status[x] = "none" => received[x] = NoUnits

\* A transfer is inserted by one request.
OneInserter == \A r, s \in Requests : r # s => txn[r].new \cap txn[s].new = {}

CountInv ==
    /\ TypeOK
    /\ NothingYet
    /\ OneInserter
    /\ \A r \in Requests : Sound(txn[r])

-----------------------------------------------------------------------------
(* Records.                                                                *)

LEMMA NoUnitsType == NoUnits \in Units
BY DEF NoUnits, Units

LEMMA IdleType == Idle \in Transactions /\ Sound(Idle) /\ Idle.new = {}
<1>1. Idle \in Transactions
  BY NoUnitsType DEF Idle, Transactions, Steps
<1>2. /\ Idle.pc = "idle" /\ Idle.op = "none" /\ Idle.new = {}
      /\ Idle.landed = {} /\ Idle.next = [x \in Transfers |-> "keep"]
  BY DEF Idle
<1>3. QED
  BY <1>1, <1>2 DEF Sound, Receipts

\* What a step must leave alone for the record to stay sound.
Alike(t, u) ==
    /\ u.op = t.op /\ u.doc = t.doc /\ u.new = t.new /\ u.lines = t.lines
    /\ u.wants = t.wants /\ u.counted = t.counted /\ u.next = t.next
    /\ u.run = t.run
    /\ t.op \notin Receipts => u.landed = t.landed

LEMMA AlikeIsSound ==
    ASSUME NEW t, NEW u, Alike(t, u), Sound(t),
           u.pc \in {"land", "judge", "roll"} => t.op \in Receipts,
           u.pc = "load" => t.op = "completeManifest",
           u.pc \in {"ship", "header"} => t.doc \in Transfers,
           u.pc \in {"detach", "truck"} => t.run \in Manifests
    PROVE  Sound(u)
<1>1. CountFits(t) => CountFits(u)
  BY DEF Alike, CountFits, OwnShipped
<1>2. QED
  BY <1>1 DEF Alike, Sound

\* Finishing a statement moves only the step and the items left.
LEMMA AfterItemsFacts ==
    ASSUME NEW t \in Transactions, Sound(t)
    PROVE  /\ AfterItems(t) \in Transactions
           /\ Sound(AfterItems(t)) /\ AfterItems(t).new = t.new
<1> DEFINE u == AfterItems(t)
<1>1. Some(t.amount) \in SUBSET Items
  BY DEF Some
<1>2. CASE t.todo # {}
  <2>1. u = t
    BY <1>2, Zenon DEF AfterItems
  <2>2. QED
    BY <2>1
<1>3. CASE t.todo = {} /\ t.pc = "ship" /\ t.op = "complete"
  <2>1. u = [t EXCEPT !.pc = "land", !.todo = Some(t.amount)]
    BY <1>3, Zenon DEF AfterItems
  <2> HIDE DEF u
  <2>2. u \in Transactions
    BY <2>1, <1>1, ZenonT(40) DEF Transactions, Steps
  <2>3. Alike(t, u) /\ u.pc = "land" /\ u.new = t.new
    BY <2>1 DEF Transactions, Alike
  <2>4. Sound(u)
    BY <2>3, <1>3, AlikeIsSound DEF Receipts
  <2>5. QED
    BY <2>2, <2>3, <2>4 DEF u
<1>4. CASE t.todo = {} /\ ~(t.pc = "ship" /\ t.op = "complete")
  <2> DEFINE step == CASE t.pc = "ship" /\ t.op \in {"ship", "completeManifest"}
                            -> "header"
                       [] t.pc = "land" -> "judge"
                       [] OTHER -> "commit"
  <2>1. u = [t EXCEPT !.pc = step]
    <3>1. CASE t.pc = "ship" /\ t.op \in {"ship", "completeManifest"}
      BY <3>1, <1>4, Zenon DEF AfterItems
    <3>2. CASE t.pc = "land"
      BY <3>2, <1>4, Zenon DEF AfterItems
    <3>3. CASE ~(t.pc = "ship" /\ t.op \in {"ship", "completeManifest"}) /\ t.pc # "land"
      BY <3>3, <1>4, Zenon DEF AfterItems
    <3>4. QED
      BY <3>1, <3>2, <3>3
  <2>2. \/ step = "commit" \/ (step = "judge" /\ t.pc = "land")
        \/ (step = "header" /\ t.pc = "ship")
    OBVIOUS
  <2> HIDE DEF step, u
  <2>3. u \in Transactions
    BY <2>1, <2>2 DEF Transactions, Steps
  <2>4. Alike(t, u) /\ u.pc = step /\ u.new = t.new
    BY <2>1 DEF Transactions, Alike
  <2>5. Sound(u)
    BY <2>2, <2>4, AlikeIsSound DEF Sound
  <2>6. QED
    BY <2>3, <2>4, <2>5 DEF u
<1>5. QED
  BY <1>2, <1>3, <1>4

LEMMA AfterHeaderFacts ==
    ASSUME NEW t \in Transactions, Sound(t)
    PROVE  /\ AfterHeader(t) \in Transactions
           /\ Sound(AfterHeader(t)) /\ AfterHeader(t).new = t.new
<1> DEFINE u == AfterHeader(t)
           rolls == /\ t.op \in {"receive", "complete"}
                    /\ t.next[t.doc] = "received"
                    /\ Some(Remainder(t, t.doc)) # {}
           step == CASE t.op = "completeManifest"
                          -> IF t.queue = {} THEN "truck" ELSE "load"
                     [] rolls -> "roll"
                     [] OTHER -> "commit"
<1>1. CASE t.op = "cancel"
  <2>1. u = [t EXCEPT !.pc = "free", !.todo = Some(t.amount)]
    BY <1>1, Zenon DEF AfterHeader
  <2>2. Some(t.amount) \in SUBSET Items
    BY DEF Some
  <2> HIDE DEF u
  <2>3. u \in Transactions
    BY <2>1, <2>2, ZenonT(40) DEF Transactions, Steps
  <2>4. Alike(t, u) /\ u.pc = "free" /\ u.new = t.new
    BY <2>1 DEF Transactions, Alike
  <2>5. QED
    BY <2>3, <2>4, AlikeIsSound DEF u
<1>2. CASE t.op # "cancel"
  <2>1. u = [t EXCEPT !.pc = step]
    <3>1. CASE t.op = "completeManifest"
      BY <3>1, <1>2, Zenon DEF AfterHeader
    <3>2. CASE t.op # "completeManifest" /\ rolls
      BY <3>2, <1>2, Zenon DEF AfterHeader
    <3>3. CASE t.op # "completeManifest" /\ ~rolls
      BY <3>3, <1>2, Zenon DEF AfterHeader
    <3>4. QED
      BY <3>1, <3>2, <3>3
  <2>2. \/ step \in {"load", "truck"} /\ t.op = "completeManifest"
        \/ step = "roll" /\ t.op \in Receipts
        \/ step = "commit"
    BY DEF Receipts
  <2> HIDE DEF step, u
  <2>3. u \in Transactions
    BY <2>1, <2>2 DEF Transactions, Steps
  <2>4. Alike(t, u) /\ u.pc = step /\ u.new = t.new
    BY <2>1 DEF Transactions, Alike
  <2>5. Sound(u)
    BY <2>2, <2>4, AlikeIsSound DEF Sound
  <2>6. QED
    BY <2>3, <2>4, <2>5 DEF u
<1>3. QED
  BY <1>1, <1>2

-----------------------------------------------------------------------------
(* The handlers, up to their first write.                                  *)

\* A request moves on; the tables and the other requests stay.
LEMMA GoesKeeps ==
    ASSUME CountInv, NEW r \in Requests, NEW u \in Transactions, Sound(u),
           \A s \in Requests \ {r} : u.new \cap txn[s].new = {},
           txn' = [txn EXCEPT ![r] = u], UNCHANGED tables
    PROVE  CountInv'
<1>1. txn \in [Requests -> Transactions]
  BY DEF CountInv, TypeOK
<1>2. txn'[r] = u /\ \A s \in Requests \ {r} : txn'[s] = txn[s]
  BY <1>1
<1>3. TypeOK'
  BY <1>1 DEF CountInv, TypeOK, tables, docVars, levelVars
<1>4. NothingYet'
  BY DEF CountInv, NothingYet, tables, docVars
<1>5. OneInserter'
  BY <1>2 DEF CountInv, OneInserter
<1>6. ASSUME NEW s \in Requests PROVE Sound(txn[s])'
  <2>1. status' = status /\ shipped' = shipped
    BY DEF tables, docVars
  <2>2. Sound(txn'[s])
    BY <1>2 DEF CountInv
  <2>3. CountFits(txn'[s]) => CountFits(txn[s])'
    BY <2>1 DEF CountFits, OwnShipped
  <2>4. QED
    BY <2>1, <2>2, <2>3 DEF Sound
<1>7. QED
  BY <1>3, <1>4, <1>5, <1>6 DEF CountInv

\* A handler that inserts nothing and counts nothing.
Plain(t) == t.new = {} /\ t.landed = {} /\ t.pc \notin {"land", "judge", "roll"}

LEMMA BeginKeeps ==
    ASSUME CountInv, NEW r \in Requests, NEW op \in Endpoints,
           NEW rec \in Transactions, Begin(r, op, rec),
           rec.op = "none",
           \A s \in Requests \ {r} : rec.new \cap txn[s].new = {},
           Sound([rec EXCEPT !.op = op])
    PROVE  CountInv'
<1> DEFINE u == [rec EXCEPT !.op = op]
<1>1. u \in Transactions /\ u.new = rec.new
  BY DEF Transactions
<1>2. txn' = [txn EXCEPT ![r] = u] /\ UNCHANGED tables
  BY DEF Begin
<1>3. QED
  BY <1>1, <1>2, GoesKeeps

LEMMA BeginPlain ==
    ASSUME CountInv, NEW r \in Requests, NEW op \in Endpoints \ Receipts,
           NEW rec \in Transactions, Begin(r, op, rec), Plain(rec),
           rec.op = "none", rec.pc = "load" => op = "completeManifest",
           rec.pc \in {"ship", "header"} => rec.doc \in Transfers,
           op = "completeManifest" \/ rec.pc \in {"detach", "truck"} =>
              rec.run \in Manifests,
           \A x \in Transfers : rec.next[x] # "keep" => status[x] # "none"
    PROVE  CountInv'
<1> DEFINE u == [rec EXCEPT !.op = op]
<1>1. /\ u.op = op /\ u.new = {} /\ u.landed = {} /\ u.pc = rec.pc
      /\ u.next = rec.next /\ u.doc = rec.doc /\ u.run = rec.run
  BY DEF Transactions, Plain
<1>2. Sound(u)
  BY <1>1 DEF Sound, Plain
<1>3. QED
  BY <1>2, BeginKeeps DEF Plain

LEMMA UnitsTypes ==
    ASSUME TypeOK, NEW x \in Transfers
    PROVE  /\ shipped[x] \in Units /\ received[x] \in Units
           /\ wanted[x] \in Units /\ status[x] \in States
           /\ \A i \in Items : /\ received[x][i] \in Nat /\ shipped[x][i] \in Nat
                               /\ wanted[x][i] \in Nat
                               /\ received[x][i] <= shipped[x][i]
                               /\ shipped[x][i] <= wanted[x][i]
BY DEF TypeOK, Units

LEMMA BodyTypes ==
    ASSUME NEW units \in Bodies
    PROVE  units \in Units /\ Some(units) \in SUBSET Items
BY TransfersAssumption DEF Bodies, Units, Some

\* What create inserts.
LEMMA EnteredFacts ==
    ASSUME NEW x \in Transfers, NEW units \in Bodies, NEW wants \in Bodies,
           NEW state \in States \ {"none"}
    PROVE  LET t == Entered(x, units, wants, state)
           IN  /\ t \in Transactions
               /\ t.op = "none" /\ t.doc = x /\ t.new = {x} /\ t.landed = {}
               /\ t.lines[x] = units /\ t.wants[x] = wants
               /\ t.next[x] = state
               /\ \A y \in Transfers \ {x} : t.next[y] = "keep"
<1> DEFINE t == Entered(x, units, wants, state)
           ln == [Idle.lines EXCEPT ![x] = units]
           wn == [Idle.wants EXCEPT ![x] = wants]
           nx == [Idle.next EXCEPT ![x] = state]
<1>1. units \in Units /\ wants \in Units /\ Some(units) \in SUBSET Items
  BY BodyTypes
<1>2. /\ Idle.lines \in [Transfers -> Units] /\ Idle.wants \in [Transfers -> Units]
      /\ Idle.next = [y \in Transfers |-> "keep"]
      /\ Idle.op = "none" /\ Idle.landed = {}
  BY NoUnitsType DEF Idle
<1>3. /\ ln \in [Transfers -> Units] /\ ln[x] = units
      /\ wn \in [Transfers -> Units] /\ wn[x] = wants
      /\ nx \in [Transfers -> (States \ {"none"}) \cup {"keep"}] /\ nx[x] = state
      /\ \A y \in Transfers \ {x} : nx[y] = "keep"
  BY <1>1, <1>2
<1>4. t = [Idle EXCEPT !.doc = x, !.todo = Some(units), !.amount = units,
                       !.new = {x}, !.lines = ln, !.wants = wn, !.next = nx]
  BY DEF Entered
<1> HIDE DEF t, ln, wn, nx
<1>5. t \in Transactions
  BY <1>1, <1>3, <1>4, IdleType, ZenonT(60) DEF Transactions
<1>6. /\ t.op = "none" /\ t.doc = x /\ t.new = {x} /\ t.landed = {}
      /\ t.lines = ln /\ t.wants = wn /\ t.next = nx
  BY <1>2, <1>4, IdleType DEF Transactions
<1>7. QED
  BY <1>3, <1>5, <1>6 DEF t

LEMMA StepBeginCreate ==
    ASSUME CountInv, NEW r \in Requests, NEW x \in Transfers,
           NEW units \in Bodies, NEW wants \in Bodies,
           BeginCreate(r, x, units, wants)
    PROVE  CountInv'
<1> DEFINE e == Entered(x, units, wants, "draft")
           t == [e EXCEPT !.pc = "hold"]
           u == [t EXCEPT !.op = "create"]
<1>1. "draft" \in States \ {"none"}
  BY DEF States
<1>2. /\ e \in Transactions /\ e.op = "none" /\ e.doc = x /\ e.new = {x}
      /\ e.landed = {} /\ e.lines[x] = units /\ e.wants[x] = wants
      /\ e.next[x] = "draft" /\ \A y \in Transfers \ {x} : e.next[y] = "keep"
  BY <1>1, EnteredFacts
<1> HIDE DEF e
<1>3. /\ t \in Transactions /\ t.op = "none" /\ t.new = {x}
      /\ u.pc = "hold" /\ u.op = "create" /\ u.new = {x} /\ u.landed = {}
      /\ u.lines = e.lines /\ u.wants = e.wants /\ u.next = e.next
  BY <1>2 DEF Transactions, Steps
<1>4. status[x] = "none" /\ \A s \in Requests \ {r} : txn[s].new = {}
  BY DEF BeginCreate, Fresh
<1>5. Sound(u)
  BY <1>2, <1>3, <1>4 DEF BeginCreate, Body, Sound, Receipts
<1>6. Begin(r, "create", t)
  BY DEF BeginCreate, e
<1>7. QED
  BY <1>3, <1>4, <1>5, <1>6, BeginKeeps DEF Endpoints

LEMMA StepBeginShipped ==
    ASSUME CountInv, NEW r \in Requests, NEW op \in {"create", "complete"},
           NEW x \in Transfers, NEW units \in Bodies, NEW wants \in Bodies,
           BeginShipped(r, op, x, units, wants)
    PROVE  CountInv'
<1> DEFINE e == Entered(x, units, wants, "in_transit")
           t == [e EXCEPT !.pc = "ship", !.counted = units]
           u == [t EXCEPT !.op = op]
<1>1. "in_transit" \in States \ {"none"}
  BY DEF States
<1>2. /\ e \in Transactions /\ e.op = "none" /\ e.doc = x /\ e.new = {x}
      /\ e.landed = {} /\ e.lines[x] = units /\ e.wants[x] = wants
      /\ e.next[x] = "in_transit" /\ \A y \in Transfers \ {x} : e.next[y] = "keep"
  BY <1>1, EnteredFacts
<1>3. units \in Units
  BY BodyTypes
<1> HIDE DEF e
<1>4. t \in Transactions
  BY <1>2, <1>3, ZenonT(60) DEF Transactions, Steps
<1>5. /\ t.op = "none" /\ t.new = {x}
      /\ u.pc = "ship" /\ u.op = op /\ u.new = {x} /\ u.landed = {}
      /\ u.lines = e.lines /\ u.wants = e.wants /\ u.next = e.next
      /\ u.counted = units /\ u.doc = x
  BY <1>2, SMTT(30) DEF Transactions
<1>6. status[x] = "none" /\ \A s \in Requests \ {r} : txn[s].new = {}
  BY DEF BeginShipped, Fresh
<1>7. CountFits(u)
  BY <1>2, <1>5, <1>3 DEF CountFits, OwnShipped, Units
<1>8. Sound(u)
  BY <1>2, <1>5, <1>6, <1>7 DEF BeginShipped, Body, Sound, Receipts
<1>9. Begin(r, op, t) /\ op \in Endpoints
  BY DEF BeginShipped, e, Endpoints
<1>10. \A s \in Requests \ {r} : t.new \cap txn[s].new = {}
  BY <1>6
<1> HIDE DEF t
<1>11. QED
  BY <1>5, <1>8, <1>9, <1>10, <1>4, BeginKeeps

LEMMA StepBeginReceive ==
    ASSUME CountInv, NEW r \in Requests, NEW x \in Transfers,
           NEW units \in Bodies, BeginReceive(r, x, units)
    PROVE  CountInv'
<1> DEFINE sum == [i \in Items |-> received[x][i] + units[i]]
           t == [Idle EXCEPT !.pc = "land", !.doc = x, !.todo = Some(units),
                             !.amount = units, !.counted = sum]
           u == [t EXCEPT !.op = "receive"]
<1>1. units \in Units /\ Some(units) \in SUBSET Items
  BY BodyTypes
<1>2. \A i \in Items : units[i] \in Nat /\ received[x][i] \in Nat /\ shipped[x][i] \in Nat
  BY <1>1, UnitsTypes DEF CountInv, Units
<1>3. sum \in Units /\ \A i \in Items : sum[i] <= shipped[x][i]
  BY <1>2 DEF Units, BeginReceive
<1>4. status[x] = "in_transit"
  BY DEF BeginReceive, Receive
<1>5. Begin(r, "receive", t)
  BY DEF BeginReceive, Receive
<1> HIDE DEF sum
<1>6. t \in Transactions
  BY <1>1, <1>3, IdleType DEF Transactions, Steps
<1>7. t.op = "none" /\ t.new = {}
  BY IdleType DEF Transactions, Idle
<1>8. /\ u.op = "receive" /\ u.doc = x /\ u.new = {} /\ u.counted = sum
      /\ u.next = [y \in Transfers |-> "keep"] /\ u.pc = "land"
  BY <1>6 DEF Transactions, Idle
<1>9. CountFits(u)
  BY <1>3, <1>4, <1>8 DEF CountFits, OwnShipped
<1>10. Sound(u)
  BY <1>8, <1>9 DEF Sound, Receipts
<1> HIDE DEF t
<1>11. QED
  BY <1>5, <1>6, <1>7, <1>10, BeginKeeps DEF Endpoints

LEMMA StepBeginShip ==
    ASSUME CountInv, NEW r \in Requests, NEW x \in Transfers, BeginShip(r, x)
    PROVE  CountInv'
<1> DEFINE nx == [Idle.next EXCEPT ![x] = "in_transit"]
           t == ShipPlan(Idle, x)
<1>1. shipped[x] \in Units /\ Some(shipped[x]) \in SUBSET Items
  BY UnitsTypes DEF CountInv, Some
<1>2. /\ nx \in [Transfers -> (States \ {"none"}) \cup {"keep"}]
      /\ \A y \in Transfers : nx[y] # "keep" => y = x
  BY DEF Idle, States
<1>3. t = [Idle EXCEPT !.pc = "ship", !.doc = x, !.queue = {} \ {x},
                       !.todo = Some(shipped[x]), !.amount = shipped[x], !.next = nx]
  BY DEF ShipPlan, Idle
<1>4. status[x] = "draft" /\ Begin(r, "ship", t)
  BY DEF BeginShip, Shippable
<1> HIDE DEF nx, t
<1>5. t \in Transactions
  BY <1>1, <1>2, <1>3, IdleType, ZenonT(60) DEF Transactions, Steps
<1>6. /\ t.op = "none" /\ t.new = {} /\ t.landed = {} /\ t.pc = "ship"
      /\ t.doc = x /\ t.next = nx
  BY <1>3, IdleType DEF Transactions, Idle
<1>7. QED
  BY <1>2, <1>4, <1>5, <1>6, BeginPlain DEF Plain, Endpoints, Receipts

LEMMA StepBeginCloseShort ==
    ASSUME CountInv, NEW r \in Requests, NEW x \in Transfers, BeginCloseShort(r, x)
    PROVE  CountInv'
<1> DEFINE short == [i \in Items |-> shipped[x][i] - received[x][i]]
           nx == [Idle.next EXCEPT ![x] = "closed_short"]
           t == [Idle EXCEPT !.pc = "header", !.doc = x, !.short = short,
                             !.next = nx]
<1>1. short \in Units
  BY UnitsTypes DEF CountInv, Units
<1>2. /\ nx \in [Transfers -> (States \ {"none"}) \cup {"keep"}]
      /\ \A y \in Transfers : nx[y] # "keep" => y = x
  BY DEF Idle, States
<1>4. status[x] = "in_transit" /\ Begin(r, "closeShort", t)
  BY DEF BeginCloseShort, CloseShort
<1> HIDE DEF nx, short
<1>5. t \in Transactions
  BY <1>1, <1>2, IdleType DEF Transactions, Steps
<1>6. /\ t.op = "none" /\ t.new = {} /\ t.landed = {} /\ t.pc = "header"
      /\ t.doc = x /\ t.next = nx
  BY IdleType DEF Transactions, Idle
<1> HIDE DEF t
<1>7. QED
  BY <1>2, <1>4, <1>5, <1>6, BeginPlain DEF Plain, Endpoints, Receipts

LEMMA StepBeginCancel ==
    ASSUME CountInv, NEW r \in Requests, NEW x \in Transfers, BeginCancel(r, x)
    PROVE  CountInv'
<1> DEFINE nx == [Idle.next EXCEPT ![x] = "canceled"]
           t == [Idle EXCEPT !.pc = "header", !.doc = x, !.amount = shipped[x],
                             !.next = nx]
<1>1. shipped[x] \in Units
  BY UnitsTypes DEF CountInv
<1>2. /\ nx \in [Transfers -> (States \ {"none"}) \cup {"keep"}]
      /\ \A y \in Transfers : nx[y] # "keep" => y = x
  BY DEF Idle, States
<1>4. status[x] = "draft" /\ Begin(r, "cancel", t)
  BY DEF BeginCancel
<1> HIDE DEF nx
<1>5. t \in Transactions
  BY <1>1, <1>2, IdleType DEF Transactions, Steps
<1>6. /\ t.op = "none" /\ t.new = {} /\ t.landed = {} /\ t.pc = "header"
      /\ t.doc = x /\ t.next = nx
  BY IdleType DEF Transactions, Idle
<1> HIDE DEF t
<1>7. QED
  BY <1>2, <1>4, <1>5, <1>6, BeginPlain DEF Plain, Endpoints, Receipts

\* The four handlers of a manifest: none inserts a transfer, counts a unit or
\* plans a status before it has read the draft it ships.
LEMMA StepBeginManifest ==
    ASSUME CountInv, NEW r \in Requests,
           \/ \E x \in Transfers : BeginRemoveTransfer(r, x)
           \/ \E m \in Manifests : \/ \E S \in SUBSET Transfers : BeginBuild(r, S, m)
                                   \/ BeginCancelManifest(r, m)
                                   \/ BeginCompleteManifest(r, m)
    PROVE  CountInv'
<1>1. Idle \in Transactions /\ Idle.op = "none" /\ Idle.new = {} /\ Idle.landed = {}
      /\ Idle.next = [x \in Transfers |-> "keep"]
  BY IdleType DEF Idle
<1>2. ASSUME NEW x \in Transfers, BeginRemoveTransfer(r, x) PROVE CountInv'
  <2> DEFINE t == [Idle EXCEPT !.pc = "board", !.board = {x}]
  <2>1. t \in Transactions
    BY IdleType, ZenonT(60) DEF Transactions, Steps, TruckStates
  <2>2. Plain(t) /\ t.op = "none" /\ t.pc = "board"
        /\ t.next = [y \in Transfers |-> "keep"]
    BY <1>1, <2>1, SMTT(30) DEF Transactions, Plain
  <2>3. Begin(r, "removeTransfer", t)
    BY <1>2 DEF BeginRemoveTransfer
  <2> HIDE DEF t
  <2>4. QED
    BY <2>1, <2>2, <2>3, BeginPlain DEF Endpoints, Receipts
<1>3. ASSUME NEW m \in Manifests, NEW S \in SUBSET Transfers, BeginBuild(r, S, m)
      PROVE  CountInv'
  <2> DEFINE then == IF truck[m] = "open" THEN "keep" ELSE "open"
             t == [Idle EXCEPT !.pc = "board", !.board = S, !.onto = m, !.run = m,
                               !.runNext = then]
  <2>0. then \in TruckStates \cup {"keep"} /\ Begin(r, "build", t)
    BY <1>3 DEF BeginBuild, TruckStates
  <2> HIDE DEF then
  <2>1. t \in Transactions
    BY IdleType, <2>0, ZenonT(60) DEF Transactions, Steps, TruckStates
  <2>2. Plain(t) /\ t.op = "none" /\ t.pc = "board"
        /\ t.next = [y \in Transfers |-> "keep"]
    BY <1>1, <2>0, <2>1, SMTT(30) DEF Transactions, Plain
  <2> HIDE DEF t
  <2>4. QED
    BY <2>0, <2>1, <2>2, BeginPlain DEF Endpoints, Receipts
<1>4. ASSUME NEW m \in Manifests, BeginCancelManifest(r, m) PROVE CountInv'
  <2> DEFINE t == [Idle EXCEPT !.pc = "detach", !.run = m, !.runNext = "canceled"]
  <2>1. t \in Transactions
    BY IdleType, ZenonT(60) DEF Transactions, Steps, TruckStates
  <2>2. Plain(t) /\ t.op = "none" /\ t.pc = "detach" /\ t.run = m
        /\ t.next = [y \in Transfers |-> "keep"]
    BY <1>1, <2>1, SMTT(30) DEF Transactions, Plain
  <2>3. Begin(r, "cancelManifest", t)
    BY <1>4 DEF BeginCancelManifest
  <2> HIDE DEF t
  <2>4. QED
    BY <2>1, <2>2, <2>3, BeginPlain DEF Endpoints, Receipts
<1>5. ASSUME NEW m \in Manifests, BeginCompleteManifest(r, m) PROVE CountInv'
  <2> DEFINE drafts == DraftsOn(m)
             step == IF drafts = {} THEN "truck" ELSE "load"
             t == [Idle EXCEPT !.pc = step, !.queue = drafts, !.run = m,
                               !.runNext = "completed"]
  <2>0. drafts \in SUBSET Transfers /\ step \in {"truck", "load"}
        /\ Begin(r, "completeManifest", t)
    BY <1>5 DEF BeginCompleteManifest, CompleteManifest, DraftsOn
  <2> HIDE DEF drafts, step
  <2>1. t \in Transactions
    BY IdleType, <2>0, ZenonT(60) DEF Transactions, Steps, TruckStates
  <2>2. Plain(t) /\ t.op = "none" /\ t.pc = step /\ t.run = m
        /\ t.next = [y \in Transfers |-> "keep"]
    BY <1>1, <2>0, <2>1, SMTT(30) DEF Transactions, Plain
  <2> HIDE DEF t
  <2>4. QED
    BY <2>0, <2>1, <2>2, BeginPlain DEF Endpoints, Receipts
<1>6. QED
  BY <1>2, <1>3, <1>4, <1>5

-----------------------------------------------------------------------------
(* The statements of a request.                                            *)

LEMMA OwnRecord ==
    ASSUME CountInv, NEW r \in Requests
    PROVE  /\ txn[r] \in Transactions /\ Sound(txn[r])
           /\ \A s \in Requests \ {r} : txn[r].new \cap txn[s].new = {}
BY DEF CountInv, TypeOK, OneInserter

LEMMA PlusUnits ==
    ASSUME NEW f \in Units, NEW g \in Units, NEW i \in Items
    PROVE  [f EXCEPT ![i] = f[i] + g[i]] \in Units
BY DEF Units

LEMMA ItemDone ==
    ASSUME CountInv, NEW r \in Requests, NEW u \in Transactions, Sound(u),
           u.new = txn[r].new, Goes(r, AfterItems(u))
    PROVE  CountInv'
<1>1. /\ AfterItems(u) \in Transactions /\ Sound(AfterItems(u))
      /\ AfterItems(u).new = txn[r].new
  BY AfterItemsFacts
<1>2. \A s \in Requests \ {r} : AfterItems(u).new \cap txn[s].new = {}
  BY <1>1, OwnRecord
<1>3. QED
  BY <1>1, <1>2, GoesKeeps DEF Goes

LEMMA StepHoldItem ==
    ASSUME CountInv, NEW r \in Requests, NEW i \in Items, HoldItem(r, i)
    PROVE  CountInv'
<1> DEFINE t == txn[r]
           k == [t.keep EXCEPT ![i] = t.keep[i] + t.amount[i]]
           h == t.holds \cup {OriginRow(i)}
           u == [t EXCEPT !.todo = t.todo \ {i}, !.holds = h, !.keep = k]
<1>1. t \in Transactions /\ Sound(t)
  BY OwnRecord
<1>2. k \in Units
  BY <1>1, PlusUnits DEF Transactions
<1>3. h \in SUBSET Rows
  BY <1>1 DEF Transactions, Rows
<1>4. Goes(r, AfterItems(u)) /\ t.pc = "hold"
  BY DEF HoldItem
<1> HIDE DEF t, k, h
<1>5. u \in Transactions
  BY <1>1, <1>2, <1>3, ZenonT(60) DEF Transactions
<1>6. Alike(t, u) /\ u.pc = "hold" /\ u.new = t.new
  BY <1>1, <1>4 DEF Alike, Transactions
<1>7. Sound(u)
  BY <1>1, <1>6, AlikeIsSound
<1>8. QED
  BY <1>4, <1>5, <1>6, <1>7, ItemDone DEF t

LEMMA StepFreeItem ==
    ASSUME CountInv, NEW r \in Requests, NEW i \in Items, FreeItem(r, i)
    PROVE  CountInv'
<1> DEFINE t == txn[r]
           k == [t.freed EXCEPT ![i] = t.freed[i] + t.amount[i]]
           h == t.holds \cup {OriginRow(i)}
           u == [t EXCEPT !.todo = t.todo \ {i}, !.holds = h, !.freed = k]
<1>1. t \in Transactions /\ Sound(t)
  BY OwnRecord
<1>2. k \in Units
  BY <1>1, PlusUnits DEF Transactions
<1>3. h \in SUBSET Rows
  BY <1>1 DEF Transactions, Rows
<1>4. Goes(r, AfterItems(u)) /\ t.pc = "free"
  BY DEF FreeItem
<1> HIDE DEF t, k, h
<1>5. u \in Transactions
  BY <1>1, <1>2, <1>3, ZenonT(60) DEF Transactions
<1>6. Alike(t, u) /\ u.pc = "free" /\ u.new = t.new
  BY <1>1, <1>4 DEF Alike, Transactions
<1>7. Sound(u)
  BY <1>1, <1>6, AlikeIsSound
<1>8. QED
  BY <1>4, <1>5, <1>6, <1>7, ItemDone DEF t

LEMMA StepShipItem ==
    ASSUME CountInv, NEW r \in Requests, NEW i \in Items, ShipItem(r, i)
    PROVE  CountInv'
<1> DEFINE t == txn[r]
           hold == IF t.op \in {"create", "complete"} THEN 0 ELSE t.amount[i]
           f == [t.freed EXCEPT ![i] = t.freed[i] + hold]
           o == [t.out EXCEPT ![i] = t.out[i] + t.amount[i]]
           h == t.holds \cup {OriginRow(i), LineRow(t.doc, i)}
           u == [t EXCEPT !.todo = t.todo \ {i}, !.holds = h, !.freed = f, !.out = o]
<1>1. t \in Transactions /\ Sound(t)
  BY OwnRecord
<1>2. f \in Units /\ o \in Units
  BY <1>1, PlusUnits DEF Transactions, Units
<1>4. Goes(r, AfterItems(u)) /\ t.pc = "ship"
  BY DEF ShipItem, ShipAndFree
<1>3. h \in SUBSET Rows
  BY <1>1, <1>4 DEF Transactions, Rows, Sound
<1> HIDE DEF t, f, o, h
<1>5. u \in Transactions
  BY <1>1, <1>2, <1>3, ZenonT(60) DEF Transactions
<1>6. Alike(t, u) /\ u.pc = "ship" /\ u.new = t.new
  BY <1>1, <1>4 DEF Alike, Transactions
<1>7. Sound(u)
  BY <1>1, <1>4, <1>6, AlikeIsSound DEF Sound
<1>8. QED
  BY <1>4, <1>5, <1>6, <1>7, ItemDone DEF t

LEMMA StepLandItem ==
    ASSUME CountInv, NEW r \in Requests, NEW i \in Items, LandItem(r, i)
    PROVE  CountInv'
<1> DEFINE t == txn[r]
           asIs == t.doc \in AsIs
           a == [t.arrive EXCEPT ![i] = IF asIs THEN t.arrive[i]
                                                ELSE t.arrive[i] + t.amount[i]]
           g == [t.stage EXCEPT ![i] = IF asIs THEN t.stage[i] + t.amount[i]
                                               ELSE t.stage[i]]
           rows == {LineRow(t.doc, i)} \cup IF asIs THEN {} ELSE {DestRow(i)}
           h == t.holds \cup rows
           u == [t EXCEPT !.todo = t.todo \ {i}, !.holds = h,
                          !.landed = t.landed \cup {i}, !.arrive = a, !.stage = g]
<1>1. t \in Transactions /\ Sound(t)
  BY OwnRecord
<1>2. a \in Units /\ g \in Units
  BY <1>1 DEF Transactions, Units
<1>4. Goes(r, AfterItems(u)) /\ t.pc = "land"
  BY DEF LandItem
<1>9. t.op \in Receipts /\ t.doc \in Transfers
  BY <1>1, <1>4 DEF Sound, CountFits
<1>3. h \in SUBSET Rows
  BY <1>1, <1>9 DEF Transactions, Rows
<1> HIDE DEF t, a, g, h
<1>5. u \in Transactions
  BY <1>1, <1>2, <1>3, ZenonT(60) DEF Transactions
<1>6. Alike(t, u) /\ u.pc = "land" /\ u.new = t.new
  BY <1>1, <1>4, <1>9 DEF Alike, Transactions
<1>7. Sound(u)
  BY <1>1, <1>6, <1>9, AlikeIsSound
<1>8. QED
  BY <1>4, <1>5, <1>6, <1>7, ItemDone DEF t

\* Steps that move only the step and what is boarded and held.
LEMMA RowsDone ==
    ASSUME CountInv, NEW r \in Requests, NEW step \in {"truck", "commit"},
           NEW b \in SUBSET Transfers, NEW h \in SUBSET Rows,
           step = "truck" => txn[r].run \in Manifests,
           Goes(r, [txn[r] EXCEPT !.pc = step, !.board = b, !.holds = h])
    PROVE  CountInv'
<1> DEFINE t == txn[r]
           u == [t EXCEPT !.pc = step, !.board = b, !.holds = h]
<1>1. t \in Transactions /\ Sound(t)
  BY OwnRecord
<1>2. txn' = [txn EXCEPT ![r] = u] /\ UNCHANGED tables
  BY DEF Goes
<1>3. \A s \in Requests \ {r} : t.new \cap txn[s].new = {}
  BY OwnRecord
<1>4. step = "truck" => t.run \in Manifests
  OBVIOUS
<1> HIDE DEF t
<1>5. u \in Transactions
  BY <1>1, ZenonT(60) DEF Transactions, Steps
<1>6. Alike(t, u) /\ u.pc = step /\ u.new = t.new
  BY <1>1 DEF Alike, Transactions
<1>7. Sound(u)
  BY <1>1, <1>4, <1>6, AlikeIsSound
<1> HIDE DEF u
<1>8. QED
  BY <1>2, <1>3, <1>5, <1>6, <1>7, GoesKeeps

LEMMA StepBoard ==
    ASSUME CountInv, NEW r \in Requests, Board(r)
    PROVE  CountInv'
<1> DEFINE t == txn[r]
           h == t.holds \cup {DocRow(x) : x \in t.board}
<1>1. t \in Transactions
  BY OwnRecord
<1>2. h \in SUBSET Rows /\ t.board \in SUBSET Transfers
  BY <1>1 DEF Transactions, Rows
<1>3. Goes(r, [t EXCEPT !.pc = "commit", !.holds = h])
  BY DEF Board
<1> HIDE DEF h
<1>4. [t EXCEPT !.pc = "commit", !.holds = h]
         = [t EXCEPT !.pc = "commit", !.board = t.board, !.holds = h]
  BY <1>1 DEF Transactions
<1>5. QED
  BY <1>2, <1>3, <1>4, RowsDone

LEMMA StepDetachAll ==
    ASSUME CountInv, NEW r \in Requests, DetachAll(r)
    PROVE  CountInv'
<1> DEFINE t == txn[r]
           aboard == {x \in Transfers : ride[x] = t.run}
           h == t.holds \cup {DocRow(x) : x \in aboard}
<1>1. t \in Transactions /\ Sound(t)
  BY OwnRecord
<1>2. h \in SUBSET Rows /\ aboard \in SUBSET Transfers
  BY <1>1 DEF Transactions, Rows
<1>3. Goes(r, [t EXCEPT !.pc = "truck", !.board = aboard, !.holds = h])
  BY DEF DetachAll
<1>4. t.run \in Manifests
  BY <1>1 DEF DetachAll, Sound
<1> HIDE DEF h, aboard
<1>5. QED
  BY <1>2, <1>3, <1>4, RowsDone

LEMMA StepWriteTruck ==
    ASSUME CountInv, NEW r \in Requests, WriteTruck(r)
    PROVE  CountInv'
<1> DEFINE t == txn[r]
           h == t.holds \cup {TruckRow(t.run)}
<1>1. t \in Transactions /\ Sound(t)
  BY OwnRecord
<1>2. t.run \in Manifests
  BY <1>1 DEF WriteTruck, Sound
<1>3. h \in SUBSET Rows /\ t.board \in SUBSET Transfers
  BY <1>1, <1>2 DEF Transactions, Rows
<1>4. Goes(r, [t EXCEPT !.pc = "commit", !.holds = h])
  BY DEF WriteTruck
<1> HIDE DEF h
<1>5. [t EXCEPT !.pc = "commit", !.holds = h]
         = [t EXCEPT !.pc = "commit", !.board = t.board, !.holds = h]
  BY <1>1 DEF Transactions
<1>6. QED
  BY <1>3, <1>4, <1>5, RowsDone

LEMMA StepWriteHeader ==
    ASSUME CountInv, NEW r \in Requests, WriteHeader(r)
    PROVE  CountInv'
<1> DEFINE t == txn[r]
           h == t.holds \cup {DocRow(t.doc)}
           u == [t EXCEPT !.holds = h]
           v == AfterHeader(u)
<1>1. t \in Transactions /\ Sound(t)
  BY OwnRecord
<1>2. t.pc = "header" /\ t.doc \in Transfers /\ Goes(r, v)
  BY <1>1 DEF WriteHeader, Sound
<1>3. h \in SUBSET Rows
  BY <1>1, <1>2 DEF Transactions, Rows
<1>4. \A s \in Requests \ {r} : t.new \cap txn[s].new = {}
  BY OwnRecord
<1> HIDE DEF t, h
<1>5. u \in Transactions
  BY <1>1, <1>3, ZenonT(60) DEF Transactions
<1>6. Alike(t, u) /\ u.pc = "header" /\ u.new = t.new
  BY <1>1, <1>2 DEF Alike, Transactions
<1>7. Sound(u)
  BY <1>1, <1>2, <1>6, AlikeIsSound
<1> HIDE DEF u
<1>8. v \in Transactions /\ Sound(v) /\ v.new = t.new
  BY <1>5, <1>6, <1>7, AfterHeaderFacts
<1> HIDE DEF v
<1>9. QED
  BY <1>2, <1>4, <1>8, GoesKeeps DEF Goes

LEMMA StepJudge ==
    ASSUME CountInv, NEW r \in Requests, Judge(r)
    PROVE  CountInv'
<1> DEFINE t == txn[r]
           all == \A i \in Items :
                     OwnReceived(t, t.doc)[i] >= OwnShipped(t, t.doc)[i]
           nx == [t.next EXCEPT ![t.doc] = IF all THEN "received" ELSE t.next[t.doc]]
           u == [t EXCEPT !.pc = "header", !.next = nx]
<1>1. t \in Transactions /\ Sound(t)
  BY OwnRecord
<1>2. t.pc = "judge" /\ Goes(r, u)
  BY DEF Judge, JudgeBy
<1>3. t.op \in Receipts /\ CountFits(t)
  BY <1>1, <1>2 DEF Sound
<1>4. \A s \in Requests \ {r} : t.new \cap txn[s].new = {}
  BY OwnRecord
<1>5. /\ nx \in [Transfers -> (States \ {"none"}) \cup {"keep"}]
      /\ \A x \in Transfers : nx[x] = t.next[x] \/ (nx[x] = "received" /\ x = t.doc)
  BY <1>1, <1>3 DEF Transactions, States, CountFits
<1>6. t.new \subseteq Transfers
  BY <1>1 DEF Transactions
<1> HIDE DEF t, nx
<1>7. u \in Transactions
  BY <1>1, <1>5, ZenonT(60) DEF Transactions, Steps
<1>8. /\ u.pc = "header" /\ u.op = t.op /\ u.doc = t.doc /\ u.new = t.new
      /\ u.lines = t.lines /\ u.wants = t.wants /\ u.counted = t.counted
      /\ u.next = nx /\ u.run = t.run
  BY <1>1 DEF Transactions
<1> HIDE DEF u
<1>9. CountFits(u)
  BY <1>3, <1>8 DEF CountFits, OwnShipped
<1>10. \A x \in u.new : /\ status[x] = "none" /\ u.next[x] # "keep"
                        /\ \A i \in Items : u.lines[x][i] <= u.wants[x][i]
  BY <1>1, <1>5, <1>6, <1>8 DEF Sound
<1>11. \A x \in Transfers : u.next[x] # "keep" => x \in u.new \/ status[x] # "none"
  BY <1>1, <1>3, <1>5, <1>8 DEF Sound, CountFits
<1>12. Sound(u)
  BY <1>1, <1>3, <1>8, <1>9, <1>10, <1>11 DEF Sound, CountFits, Receipts
<1>13. QED
  BY <1>2, <1>4, <1>7, <1>8, <1>12, GoesKeeps DEF Goes

LEMMA StepRollOver ==
    ASSUME CountInv, NEW r \in Requests, NEW y \in Transfers, RollOver(r, y)
    PROVE  CountInv'
<1> DEFINE t == txn[r]
           units == Remainder(t, t.doc)
           ln == [t.lines EXCEPT ![y] = units]
           wn == [t.wants EXCEPT ![y] = units]
           nx == [t.next EXCEPT ![y] = "draft"]
           u == [t EXCEPT !.pc = "hold", !.todo = Some(units), !.amount = units,
                          !.new = t.new \cup {y}, !.lines = ln, !.wants = wn,
                          !.next = nx]
<1>1. t \in Transactions /\ Sound(t)
  BY OwnRecord
<1>2. t.pc = "roll" /\ Fresh(r, y) /\ Goes(r, u)
  BY DEF RollOver, NewDraft
<1>3. t.op \in Receipts /\ CountFits(t)
  BY <1>1, <1>2 DEF Sound
<1>4. /\ status[y] = "none" /\ y \notin t.new /\ y # t.doc
      /\ \A s \in Requests \ {r} : txn[s].new = {}
  BY <1>2, <1>3 DEF Fresh, CountFits
<1>5. units \in Units /\ Some(units) \in SUBSET Items
  <2>1. CASE t.doc \in t.new
    <3>1. \A i \in Items : /\ t.lines[t.doc][i] \in Nat /\ t.wants[t.doc][i] \in Nat
                           /\ t.lines[t.doc][i] <= t.wants[t.doc][i]
      BY <1>1, <1>3, <2>1 DEF Transactions, Units, Sound, CountFits
    <3>2. QED
      BY <2>1, <3>1 DEF Remainder, OwnShipped, OwnWanted, Units, Some
  <2>2. CASE t.doc \notin t.new
    <3>1. t.doc \in Transfers
      BY <1>3 DEF CountFits
    <3>2. \A i \in Items : /\ shipped[t.doc][i] \in Nat /\ wanted[t.doc][i] \in Nat
                           /\ shipped[t.doc][i] <= wanted[t.doc][i]
      BY <3>1, UnitsTypes DEF CountInv
    <3>3. QED
      BY <2>2, <3>2 DEF Remainder, OwnShipped, OwnWanted, Units, Some
  <2>3. QED
    BY <2>1, <2>2
<1> HIDE DEF units
<1>6. /\ ln \in [Transfers -> Units] /\ wn \in [Transfers -> Units]
      /\ nx \in [Transfers -> (States \ {"none"}) \cup {"keep"}]
      /\ ln[y] = units /\ wn[y] = units /\ nx[y] = "draft"
      /\ \A x \in Transfers \ {y} :
            ln[x] = t.lines[x] /\ wn[x] = t.wants[x] /\ nx[x] = t.next[x]
  BY <1>1, <1>5 DEF Transactions, States
<1>7. t.new \cup {y} \in SUBSET Transfers
  BY <1>1 DEF Transactions
<1> HIDE DEF t, ln, wn, nx
<1>8. u \in Transactions
  BY <1>1, <1>5, <1>6, <1>7, ZenonT(60) DEF Transactions, Steps
<1>9. /\ u.pc = "hold" /\ u.op = t.op /\ u.doc = t.doc /\ u.new = t.new \cup {y}
      /\ u.lines = ln /\ u.wants = wn /\ u.counted = t.counted
      /\ u.next = nx /\ u.run = t.run
  BY <1>1 DEF Transactions
<1> HIDE DEF u
<1>10. CountFits(u)
  BY <1>3, <1>4, <1>6, <1>9 DEF CountFits, OwnShipped
<1>11. \A x \in u.new : /\ status[x] = "none" /\ u.next[x] # "keep"
                        /\ \A i \in Items : u.lines[x][i] <= u.wants[x][i]
  <2>1. ASSUME NEW x \in t.new
        PROVE  /\ status[x] = "none" /\ u.next[x] # "keep"
               /\ \A i \in Items : u.lines[x][i] <= u.wants[x][i]
    BY <1>1, <1>4, <1>6, <1>7, <1>9 DEF Sound
  <2>2. \A i \in Items : units[i] <= units[i]
    BY <1>5 DEF Units
  <2>3. QED
    BY <1>4, <1>6, <1>9, <2>1, <2>2
<1>12. \A x \in Transfers : u.next[x] # "keep" => x \in u.new \/ status[x] # "none"
  BY <1>1, <1>6, <1>9 DEF Sound
<1>13. Sound(u)
  BY <1>1, <1>3, <1>9, <1>10, <1>11, <1>12 DEF Sound, Receipts
<1>14. QED
  BY <1>2, <1>4, <1>8, <1>9, <1>13, GoesKeeps DEF Goes

LEMMA StepLoadNext ==
    ASSUME CountInv, NEW r \in Requests, NEW x \in Transfers, LoadNext(r, x)
    PROVE  CountInv'
<1> DEFINE t == txn[r]
           nx == [t.next EXCEPT ![x] = "in_transit"]
           u == [t EXCEPT !.pc = "ship", !.doc = x, !.queue = t.queue \ {x},
                          !.todo = Some(shipped[x]), !.amount = shipped[x],
                          !.next = nx]
<1>1. t \in Transactions /\ Sound(t)
  BY OwnRecord
<1>2. t.pc = "load" /\ status[x] = "draft" /\ Goes(r, u)
  BY DEF LoadNext, Shippable, ShipPlan
<1>3. t.op = "completeManifest" /\ t.run \in Manifests /\ t.landed = {}
  BY <1>1, <1>2 DEF Sound, Receipts
<1>4. shipped[x] \in Units /\ Some(shipped[x]) \in SUBSET Items
  BY UnitsTypes DEF CountInv, Some
<1>5. /\ nx \in [Transfers -> (States \ {"none"}) \cup {"keep"}] /\ nx[x] = "in_transit"
      /\ \A y \in Transfers \ {x} : nx[y] = t.next[y]
  BY <1>1 DEF Transactions, States
<1>6. t.new \subseteq Transfers /\ \A s \in Requests \ {r} : t.new \cap txn[s].new = {}
  BY <1>1, OwnRecord DEF Transactions
<1> HIDE DEF t, nx
<1>7. u \in Transactions
  BY <1>1, <1>4, <1>5, ZenonT(60) DEF Transactions, Steps
<1>8. /\ u.pc = "ship" /\ u.op = t.op /\ u.doc = x /\ u.new = t.new
      /\ u.lines = t.lines /\ u.wants = t.wants /\ u.landed = t.landed
      /\ u.next = nx /\ u.run = t.run
  BY <1>1 DEF Transactions
<1> HIDE DEF u
<1>9. \A y \in u.new : /\ status[y] = "none" /\ u.next[y] # "keep"
                       /\ \A i \in Items : u.lines[y][i] <= u.wants[y][i]
  BY <1>1, <1>2, <1>5, <1>6, <1>8 DEF Sound
<1>10. \A y \in Transfers : u.next[y] # "keep" => y \in u.new \/ status[y] # "none"
  BY <1>1, <1>2, <1>5, <1>8 DEF Sound
<1>11. Sound(u)
  BY <1>3, <1>8, <1>9, <1>10 DEF Sound, Receipts
<1>12. QED
  BY <1>2, <1>6, <1>7, <1>8, <1>11, GoesKeeps DEF Goes

LEMMA StepAbort ==
    ASSUME CountInv, NEW r \in Requests, Abort(r)
    PROVE  CountInv'
BY IdleType, GoesKeeps DEF Abort

LEMMA StepPrintTicket ==
    ASSUME CountInv, NEW x \in Transfers, PrintTicket(x)
    PROVE  CountInv'
<1>1. printed' \subseteq Transfers
  BY DEF PrintTicket, CountInv, TypeOK
<1>2. /\ status' = status /\ ride' = ride /\ shipped' = shipped /\ wanted' = wanted
      /\ received' = received /\ truck' = truck /\ levelVars' = levelVars /\ txn' = txn
  BY DEF PrintTicket
<1>3. TypeOK' /\ NothingYet' /\ OneInserter'
  BY <1>1, <1>2 DEF CountInv, TypeOK, NothingYet, OneInserter, levelVars
<1>4. \A s \in Requests : Sound(txn[s])'
  BY <1>2 DEF CountInv, Sound, CountFits, OwnShipped
<1>5. QED
  BY <1>3, <1>4 DEF CountInv

-----------------------------------------------------------------------------
(* The commit.                                                             *)

\* A commit changes no shipped unit of a transfer that exists, and turns only
\* transfers that the request inserts into existing ones.
LEMMA CommitStatus ==
    ASSUME CountInv, NEW r \in Requests, Commit(r), NEW x \in Transfers
    PROVE  /\ status'[x] \in States
           /\ status'[x] = "none" <=> (status[x] = "none" /\ x \notin txn[r].new)
           /\ status[x] # "none" => shipped'[x] = shipped[x]
           /\ x \notin txn[r].new => shipped'[x] = shipped[x] /\ wanted'[x] = wanted[x]
<1> DEFINE t == txn[r]
<1>1. t \in Transactions /\ Sound(t)
  BY OwnRecord
<1>2. t.next[x] \in (States \ {"none"}) \cup {"keep"} /\ status[x] \in States
  BY <1>1 DEF Transactions, CountInv, TypeOK
<1>3. status'[x] = IF t.next[x] = "keep" THEN status[x] ELSE t.next[x]
  BY DEF Commit
<1>4. shipped'[x] = OwnShipped(t, x) /\ wanted'[x] = OwnWanted(t, x)
  BY DEF Commit
<1>5. /\ x \in t.new => status[x] = "none" /\ t.next[x] # "keep"
      /\ t.next[x] # "keep" => x \in t.new \/ status[x] # "none"
  BY <1>1 DEF Sound
<1>6. status'[x] = "none" <=> (status[x] = "none" /\ x \notin t.new)
  BY <1>2, <1>3, <1>5
<1>7. status'[x] \in States
  BY <1>2, <1>3
<1>8. QED
  BY <1>4, <1>5, <1>6, <1>7 DEF OwnShipped, OwnWanted

\* The counters it publishes fit their lines.
LEMMA CommitCounts ==
    ASSUME CountInv, NEW r \in Requests, Commit(r), NEW x \in Transfers
    PROVE  /\ shipped'[x] \in Units /\ wanted'[x] \in Units /\ received'[x] \in Units
           /\ \A i \in Items : /\ received'[x][i] <= shipped'[x][i]
                               /\ shipped'[x][i] <= wanted'[x][i]
           /\ status'[x] = "none" => received'[x] = NoUnits
<1> DEFINE t == txn[r]
<1>1. t \in Transactions /\ Sound(t)
  BY OwnRecord
<1>2. /\ shipped'[x] = OwnShipped(t, x) /\ wanted'[x] = OwnWanted(t, x)
      /\ received'[x] = OwnReceived(t, x)
  BY DEF Commit
<1>3. /\ shipped[x] \in Units /\ received[x] \in Units /\ wanted[x] \in Units
      /\ \A i \in Items : /\ received[x][i] \in Nat /\ shipped[x][i] \in Nat
                          /\ wanted[x][i] \in Nat
                          /\ received[x][i] <= shipped[x][i]
                          /\ shipped[x][i] <= wanted[x][i]
  BY UnitsTypes DEF CountInv
<1>4. t.lines[x] \in Units /\ t.wants[x] \in Units /\ t.counted \in Units
  BY <1>1 DEF Transactions
<1>5. OwnShipped(t, x) \in Units /\ OwnWanted(t, x) \in Units
  BY <1>3, <1>4 DEF OwnShipped, OwnWanted
<1>6. OwnReceived(t, x) \in Units
  BY <1>3, <1>4 DEF OwnReceived, Units
<1>7. ASSUME NEW i \in Items
      PROVE  OwnShipped(t, x)[i] <= OwnWanted(t, x)[i]
  <2>1. CASE x \in t.new
    BY <1>1, <2>1 DEF Sound, OwnShipped, OwnWanted
  <2>2. CASE x \notin t.new
    BY <1>3, <2>2 DEF OwnShipped, OwnWanted
  <2>3. QED
    BY <2>1, <2>2
<1>8. ASSUME NEW i \in Items
      PROVE  OwnReceived(t, x)[i] <= OwnShipped(t, x)[i]
  <2>1. CASE x = t.doc /\ i \in t.landed
    <3>1. CountFits(t)
      BY <1>1, <2>1 DEF Sound
    <3>2. QED
      BY <2>1, <3>1 DEF CountFits, OwnReceived
  <2>2. CASE ~(x = t.doc /\ i \in t.landed)
    <3>1. OwnReceived(t, x)[i] = received[x][i]
      BY <2>2 DEF OwnReceived
    <3>2. CASE x \in t.new
      <4>1. received[x] = NoUnits
        BY <1>1, <3>2 DEF Sound, CountInv, NothingYet
      <4>2. received[x][i] = 0 /\ OwnShipped(t, x)[i] \in Nat
        BY <1>5, <4>1 DEF NoUnits, Units
      <4>3. QED
        BY <3>1, <4>2
    <3>3. CASE x \notin t.new
      BY <1>3, <3>1, <3>3 DEF OwnShipped
    <3>4. QED
      BY <3>2, <3>3
  <2>3. QED
    BY <2>1, <2>2
<1>9. status'[x] = "none" => OwnReceived(t, x) = NoUnits
  <2> SUFFICES ASSUME status'[x] = "none" PROVE OwnReceived(t, x) = NoUnits
    OBVIOUS
  <2>1. status[x] = "none" /\ x \notin t.new
    BY CommitStatus
  <2>2. x = t.doc => t.landed = {}
    BY <1>1, <2>1 DEF Sound, CountFits
  <2>3. received[x] = NoUnits
    BY <2>1 DEF CountInv, NothingYet
  <2>4. QED
    BY <2>2, <2>3 DEF OwnReceived, NoUnits
<1>10. QED
  BY <1>2, <1>5, <1>6, <1>7, <1>8, <1>9

LEMMA StepCommit ==
    ASSUME CountInv, NEW r \in Requests, Commit(r)
    PROVE  CountInv'
<1> DEFINE t == txn[r]
<1>1. t \in Transactions /\ Sound(t) /\ txn \in [Requests -> Transactions]
  BY OwnRecord DEF CountInv, TypeOK
<1>2. txn' = [txn EXCEPT ![r] = Idle]
  BY DEF Commit
<1>3. txn' \in [Requests -> Transactions]
      /\ txn'[r] = Idle /\ \A s \in Requests \ {r} : txn'[s] = txn[s]
  BY <1>1, <1>2, IdleType
<1>4. /\ status' \in [Transfers -> States] /\ printed' \subseteq Transfers
      /\ shipped' \in [Transfers -> Units] /\ wanted' \in [Transfers -> Units]
      /\ received' \in [Transfers -> Units]
  <2>1. \A x \in Transfers : status'[x] \in States
    BY CommitStatus
  <2>2. \A x \in Transfers : /\ shipped'[x] \in Units /\ wanted'[x] \in Units
                             /\ received'[x] \in Units
    BY CommitCounts
  <2>3. printed' \subseteq Transfers
    BY DEF Commit, CountInv, TypeOK
  <2>4. /\ DOMAIN status' = Transfers /\ DOMAIN shipped' = Transfers
        /\ DOMAIN wanted' = Transfers /\ DOMAIN received' = Transfers
        /\ status' = [x \in Transfers |-> status'[x]]
        /\ shipped' = [x \in Transfers |-> shipped'[x]]
        /\ wanted' = [x \in Transfers |-> wanted'[x]]
        /\ received' = [x \in Transfers |-> received'[x]]
    BY DEF Commit
  <2>5. QED
    BY <2>1, <2>2, <2>3, <2>4
<1>5. ride' \in [Transfers -> Manifests \cup {NoManifest}]
      /\ truck' \in [Manifests -> TruckStates]
  BY <1>1 DEF Commit, CountInv, TypeOK, Transactions
<1>6. /\ origin' \in Units /\ held' \in Units /\ dest' \in Units
      /\ staged' \in Units /\ writtenOff' \in Units
  <2>1. /\ origin \in Units /\ held \in Units /\ dest \in Units
        /\ staged \in Units /\ writtenOff \in Units
        /\ t.out \in Units /\ t.freed \in Units /\ t.keep \in Units
        /\ t.arrive \in Units /\ t.stage \in Units /\ t.short \in Units
    BY <1>1 DEF CountInv, TypeOK, Transactions
  <2>2. \A i \in Items : /\ Clamp(origin[i] - t.out[i]) \in Nat
                         /\ Clamp(held[i] - t.freed[i]) + t.keep[i] \in Nat
                         /\ dest[i] + t.arrive[i] \in Nat
                         /\ staged[i] + t.stage[i] \in Nat
                         /\ writtenOff[i] + t.short[i] \in Nat
    BY <2>1 DEF Units, Clamp
  <2>3. QED
    BY <2>2 DEF Commit, Units
<1>7. TypeOK'
  BY <1>3, <1>4, <1>5, <1>6, CommitCounts DEF TypeOK
<1>8. NothingYet'
  BY CommitCounts DEF NothingYet
<1>9. OneInserter'
  BY <1>3, IdleType DEF CountInv, OneInserter
<1>10. ASSUME NEW s \in Requests PROVE Sound(txn[s])'
  <2>1. CASE s = r
    BY <1>3, <2>1, IdleType DEF Sound, Idle, Receipts
  <2>2. CASE s # r
    <3> DEFINE u == txn[s]
    <3>1. /\ u \in Transactions /\ Sound(u) /\ u.new \cap t.new = {} /\ txn'[s] = u
          /\ u.new \subseteq Transfers
      BY <1>3, <2>2, OwnRecord DEF Transactions
    <3>2. \A x \in u.new : status'[x] = "none"
      BY <3>1, CommitStatus DEF Sound
    <3>3. \A x \in Transfers : status[x] # "none" => status'[x] # "none"
      BY CommitStatus
    <3>4. CountFits(u) => CountFits(txn[s])'
      BY <3>1, <3>3, CommitStatus DEF CountFits, OwnShipped
    <3>5. QED
      BY <3>1, <3>2, <3>3, <3>4 DEF Sound
  <2>3. QED
    BY <2>1, <2>2
<1>11. QED
  BY <1>7, <1>8, <1>9, <1>10 DEF CountInv

-----------------------------------------------------------------------------
(* The theorem.                                                            *)

LEMMA InitInv == Init => CountInv
<1> SUFFICES ASSUME Init PROVE CountInv
  OBVIOUS
<1>1. NoUnits \in Units /\ Stock \in Units /\ \A i \in Items : NoUnits[i] = 0
  BY NoUnitsType, TransfersAssumption DEF NoUnits, Units
<1>2. \A r \in Requests : txn[r] = Idle
  BY DEF Init
<1>3. TypeOK
  BY <1>1, IdleType DEF Init, TypeOK, States, TruckStates
<1>4. NothingYet /\ OneInserter
  BY <1>2, IdleType DEF Init, NothingYet, OneInserter
<1>5. QED
  BY <1>2, <1>3, <1>4, IdleType DEF CountInv

LEMMA NextInv == CountInv /\ [Next]_vars => CountInv'
<1> SUFFICES ASSUME CountInv, [Next]_vars PROVE CountInv'
  OBVIOUS
<1>1. ASSUME NEW r \in Requests, BeginSome(r) PROVE CountInv'
  BY <1>1, StepBeginCreate, StepBeginShipped, StepBeginShip, StepBeginReceive,
     StepBeginCloseShort, StepBeginCancel, StepBeginManifest DEF BeginSome
<1>2. ASSUME NEW r \in Requests, Advance(r) PROVE CountInv'
  BY <1>2, StepHoldItem, StepShipItem, StepLandItem, StepFreeItem, StepJudge,
     StepWriteHeader, StepRollOver, StepLoadNext, StepBoard, StepDetachAll,
     StepWriteTruck, StepCommit DEF Advance
<1>3. CASE UNCHANGED vars
  <2>1. CountInv' <=> CountInv
    BY <1>3 DEF vars, tables, docVars, levelVars, CountInv, TypeOK, NothingYet,
                OneInserter, Sound, CountFits, OwnShipped
  <2>2. QED
    BY <2>1
<1>4. QED
  BY <1>1, <1>2, <1>3, StepAbort, StepPrintTicket DEF Next

\* However many requests ship, receive, close and roll over at once, no line
\* shows more received than shipped, or more shipped than was ordered.
THEOREM CountersFit == Spec => []TypeOK
<1>1. CountInv => TypeOK
  BY DEF CountInv
<1>2. QED
  BY InitInv, NextInv, <1>1, PTL DEF Spec

-----------------------------------------------------------------------------
(* One request at a time.  What an open transaction has in mind adds up to   *)
(* what it writes when it commits, whatever statements it still has to run.  *)

Alone == \A r, s \in Requests : r = s

SumOf(f) == SumFunctionOnSet(f, Transfers)

\* The drafts a request inserts, and the items of its transfer whose units it
\* is still to take from the origin.
NewDrafts(t) == {x \in t.new : t.next[x] = "draft"}
Pending(t, x, i) ==
    /\ x = t.doc
    /\ \/ t.pc \in {"ship", "free"} /\ i \in t.todo
       \/ t.pc = "header" /\ t.op = "cancel"

\* What it has let go of the holds of each draft, and what it has sent.
LetGo(t, i) ==
    [x \in Transfers |-> IF status[x] = "draft" /\ t.next[x] # "keep" /\ ~Pending(t, x, i)
                         THEN shipped[x][i] ELSE 0]
Sent(t, i) ==
    [x \in Transfers |-> IF /\ t.next[x] \in {"in_transit", "received"}
                            /\ status[x] = "draft" \/ x \in t.new
                            /\ ~Pending(t, x, i)
                         THEN OwnShipped(t, x)[i] ELSE 0]

\* What becomes of the transfers it writes.
Outcomes(t) ==
    /\ \A x \in t.new : /\ t.next[x] \in {"draft", "in_transit", "received"}
                        /\ Some(t.lines[x]) # {}
                        /\ t.next[x] = "received" => x = t.doc /\ t.op = "complete"
    /\ \A x \in Transfers \ t.new : t.next[x] # "keep" =>
          \/ status[x] = "draft" /\ t.next[x] \in {"in_transit", "canceled"}
          \/ /\ status[x] = "in_transit" /\ x = t.doc
             /\ \/ t.op = "receive" /\ t.next[x] = "received"
                \/ t.op = "closeShort" /\ t.next[x] = "closed_short"
    /\ t.op \in {"receive", "closeShort"} =>
          t.doc \in Transfers /\ status[t.doc] = "in_transit"
    /\ t.op = "closeShort" => t.next[t.doc] = "closed_short"
    /\ t.op = "complete" =>
          t.doc \in t.new /\ t.next[t.doc] \in {"in_transit", "received"}

\* The draft it inserts holds its units.
Claims(t) ==
    /\ \A x, y \in NewDrafts(t) : x = y
    /\ t.pc = "hold" => /\ NewDrafts(t) # {}
                        /\ \A x \in NewDrafts(t) : t.lines[x] = t.amount
    /\ NewDrafts(t) = {} => t.keep = NoUnits
    /\ \A x \in NewDrafts(t), i \in Items :
          t.keep[i] = IF t.pc = "hold" /\ i \in t.todo THEN 0 ELSE t.lines[x][i]

\* The units on their way out of the origin and out of its holds.
Leaves(t) ==
    /\ t.pc = "ship" =>
          /\ t.doc \in Transfers /\ t.next[t.doc] = "in_transit"
          /\ t.amount = OwnShipped(t, t.doc)
          /\ IF t.op \in {"create", "complete"} THEN t.doc \in t.new
                                                ELSE status[t.doc] = "draft"
    /\ t.pc = "free" \/ (t.pc = "header" /\ t.op = "cancel") =>
          /\ t.op = "cancel" /\ t.doc \in Transfers /\ t.next[t.doc] = "canceled"
          /\ status[t.doc] = "draft" /\ t.amount = shipped[t.doc]
    /\ \A i \in Items : /\ t.freed[i] = SumOf(LetGo(t, i))
                        /\ t.out[i] = SumOf(Sent(t, i))

\* The units that arrive, and those that are given up.
Arrives(t) ==
    /\ \A i \in Items :
          t.arrive[i] + t.stage[i] = IF i \in t.landed THEN t.counted[i] - received[t.doc][i]
                                                       ELSE 0
    /\ t.op \in Receipts /\ t.pc \in {"ship", "land"} =>
          \A i \in Items : t.counted[i] = received[t.doc][i] + t.amount[i]
    /\ t.pc = "ship" => t.landed = {}
    /\ t.pc = "land" => t.todo \cap t.landed = {}
    /\ \A i \in Items :
          t.short[i] = IF t.op = "closeShort" THEN shipped[t.doc][i] - received[t.doc][i]
                                              ELSE 0

\* Once a receipt is judged it is received exactly when all has arrived, and
\* what was not shipped of it is scheduled again.
Judged(t) ==
    t.op \in Receipts =>
       IF t.pc \in {"ship", "land", "judge"}
       THEN t.next[t.doc] # "received"
       ELSE (t.next[t.doc] = "received") <=>
               \A i \in Items : OwnReceived(t, t.doc)[i] >= OwnShipped(t, t.doc)[i]
Scheduled(t) ==
    /\ t.op \in Receipts => t.pc \notin {"board", "detach", "truck"}
    /\ t.pc = "roll" => Some(Remainder(t, t.doc)) # {}
    /\ t.op \in Receipts /\ t.pc \notin {"hold", "commit"} => t.new \subseteq {t.doc}
    /\ t.op = "receive" /\ t.pc \in {"hold", "commit"} /\ t.next[t.doc] = "received" =>
          \/ t.new = {} /\ Some(Remainder(t, t.doc)) = {}
          \/ \E y \in Transfers : t.new = {y} /\ t.lines[y] = Remainder(t, t.doc)

\* The manifest it works on, and who is on it when it commits.
Rides(t) ==
    /\ t.pc = "detach" => t.op # "build"
    /\ IF t.op = "build"
       THEN /\ t.onto = t.run /\ t.run \in Manifests
            /\ \A x \in t.board : status[x] = "draft"
            /\ t.runNext = "open" \/ (t.runNext = "keep" /\ truck[t.run] = "open")
       ELSE t.onto = NoManifest
    /\ t.runNext \in {"completed", "canceled"} => t.run \in Manifests
    /\ t.runNext = "canceled" /\ t.pc # "detach" => t.board = {x \in Transfers : ride[x] = t.run}
    /\ t.runNext = "completed" =>
          \A x \in Transfers : ride[x] = t.run /\ status[x] = "draft" =>
             x \in t.queue \/ t.next[x] # "keep"
    /\ t.queue # {} => t.op = "completeManifest" /\ t.pc \in {"load", "ship", "header"}
    /\ \A x \in t.queue : t.next[x] = "keep"

Plan(t) ==
    /\ Outcomes(t) /\ Claims(t) /\ Leaves(t) /\ Arrives(t)
    /\ Judged(t) /\ Scheduled(t) /\ Rides(t)

\* A draft has units and nothing of it has arrived; a transfer on the road has
\* something to wait for; one that does not exist has no units and no truck.
Standing ==
    \A x \in Transfers :
        /\ status[x] = "draft" => Some(shipped[x]) # {} /\ received[x] = NoUnits
        /\ status[x] = "in_transit" => \E i \in Items : received[x][i] < shipped[x][i]
        /\ status[x] = "none" => shipped[x] = NoUnits /\ ride[x] = NoManifest

TablesInv == HeldForDrafts /\ NoUnitLost /\ ManifestHasLeft /\ Standing

SerialInv == TablesInv /\ \A r \in Requests : Plan(txn[r])

-----------------------------------------------------------------------------
(* While a request is under way the tables stand still.                     *)

\* What the plans read of the tables.
read == <<status, shipped, wanted, received, ride, truck>>

LEMMA Still ==
    ASSUME NEW r \in Requests, UNCHANGED read, NEW i \in Items
    PROVE  LetGo(txn[r], i)' = LetGo(txn'[r], i) /\ Sent(txn[r], i)' = Sent(txn'[r], i)
BY DEF read, LetGo, Sent, Pending, OwnShipped

LEMMA PlanStill ==
    ASSUME NEW r \in Requests, UNCHANGED read, Plan(txn'[r])
    PROVE  Plan(txn[r])'
<1>1. /\ status' = status /\ shipped' = shipped /\ wanted' = wanted /\ received' = received
      /\ ride' = ride /\ truck' = truck
  BY DEF read
<1>2. Outcomes(txn[r])'
  BY <1>1 DEF Plan, Outcomes
<1>3. Claims(txn[r])'
  BY <1>1 DEF Plan, Claims, NewDrafts
<1>4. Leaves(txn[r])'
  <2>1. Leaves(txn'[r])
    BY DEF Plan
  <2>2. \A i \in Items : /\ SumOf(LetGo(txn[r], i))' = SumOf(LetGo(txn'[r], i))
                         /\ SumOf(Sent(txn[r], i))' = SumOf(Sent(txn'[r], i))
    BY Still DEF SumOf
  <2>3. QED
    BY <1>1, <2>1, <2>2 DEF Leaves, OwnShipped
<1>5. Arrives(txn[r])'
  BY <1>1 DEF Plan, Arrives
<1>6. Judged(txn[r])'
  BY <1>1 DEF Plan, Judged, OwnReceived, OwnShipped
<1>7. Scheduled(txn[r])'
  BY <1>1 DEF Plan, Scheduled, Remainder, OwnShipped, OwnWanted
<1>8. Rides(txn[r])'
  BY <1>1 DEF Plan, Rides
<1>9. QED
  BY <1>2, <1>3, <1>4, <1>5, <1>6, <1>7, <1>8 DEF Plan

LEMMA MoveOn ==
    ASSUME CountInv, SerialInv, NEW r \in Requests, NEW u, Plan(u),
           txn' = [txn EXCEPT ![r] = u], UNCHANGED tables
    PROVE  SerialInv'
<1>1. txn \in [Requests -> Transactions]
  BY DEF CountInv, TypeOK
<1>2. txn'[r] = u /\ \A s \in Requests \ {r} : txn'[s] = txn[s]
  BY <1>1
<1>3. TablesInv'
  BY DEF SerialInv, TablesInv, HeldForDrafts, NoUnitLost, Accounted, OnTheRoad,
         ManifestHasLeft, Standing, tables, docVars, levelVars
<1>4. ASSUME NEW s \in Requests PROVE Plan(txn'[s])
  BY <1>2 DEF SerialInv
<1>5. UNCHANGED read
  BY DEF read, tables, docVars
<1>6. QED
  BY <1>3, <1>4, <1>5, PlanStill DEF SerialInv

\* What a statement that writes nothing leaves alone.
Same(t, u) ==
    /\ u.op = t.op /\ u.doc = t.doc /\ u.amount = t.amount /\ u.queue = t.queue
    /\ u.new = t.new /\ u.lines = t.lines /\ u.wants = t.wants
    /\ u.counted = t.counted /\ u.landed = t.landed
    /\ u.out = t.out /\ u.freed = t.freed /\ u.keep = t.keep
    /\ u.arrive = t.arrive /\ u.stage = t.stage /\ u.short = t.short
    /\ u.next = t.next /\ u.board = t.board /\ u.onto = t.onto
    /\ u.run = t.run /\ u.runNext = t.runNext

Before == {"ship", "land", "judge"}

\* The next step of a request that has its items behind it.
LEMMA PlanMoves ==
    ASSUME NEW t, NEW u, Same(t, u), Plan(t), u.pc \notin {"hold", "ship"},
           t.pc = "hold" => t.todo = {},
           (u.pc = "free" \/ (u.pc = "header" /\ t.op = "cancel")) =>
               (t.pc = "header" /\ t.op = "cancel"),
           \A i \in Items : LetGo(u, i) = LetGo(t, i) /\ Sent(u, i) = Sent(t, i),
           u.pc = "land" => t.pc = "ship",
           t.op \in Receipts => (t.pc \in Before <=> u.pc \in Before),
           t.op \in Receipts => t.pc \notin {"hold", "commit"} \/ u.pc = "commit",
           t.op = "receive" /\ u.pc = "commit" /\ t.next[t.doc] = "received" =>
               \/ t.pc = "hold"
               \/ t.new = {} /\ Some(Remainder(t, t.doc)) = {},
           t.op \in Receipts => u.pc \notin {"board", "detach", "truck"},
           u.pc = "roll" => Some(Remainder(t, t.doc)) # {},
           t.queue # {} => u.pc \in {"load", "header"},
           t.pc # "detach", u.pc # "detach"
    PROVE  Plan(u)
<1>1. Outcomes(u)
  BY DEF Plan, Outcomes, Same
<1>2. Claims(u)
  BY DEF Plan, Claims, NewDrafts, Same
<1>3. Leaves(u)
  BY DEF Plan, Leaves, Same
<1>4. Arrives(u)
  BY DEF Plan, Arrives, Same
<1>5. OwnReceived(u, u.doc) = OwnReceived(t, t.doc) /\ OwnShipped(u, u.doc) = OwnShipped(t, t.doc)
      /\ Remainder(u, u.doc) = Remainder(t, t.doc)
  BY DEF Same, OwnReceived, OwnShipped, OwnWanted, Remainder
<1>6. Judged(u)
  BY <1>5 DEF Plan, Judged, Same, Before
<1>7. Scheduled(u)
  BY <1>5 DEF Plan, Scheduled, Same
<1>8. Rides(u)
  BY DEF Plan, Rides, Same
<1>9. QED
  BY <1>1, <1>2, <1>3, <1>4, <1>6, <1>7, <1>8 DEF Plan

\* A request that has not begun plans nothing.
LEMMA IdlePlan == Plan(Idle)
<1>1. /\ Idle.pc = "idle" /\ Idle.op = "none" /\ Idle.new = {} /\ Idle.queue = {}
      /\ Idle.landed = {} /\ Idle.board = {} /\ Idle.onto = NoManifest
      /\ Idle.runNext = "keep" /\ Idle.keep = NoUnits
      /\ \A i \in Items : /\ Idle.out[i] = 0 /\ Idle.freed[i] = 0 /\ Idle.short[i] = 0
                          /\ Idle.arrive[i] = 0 /\ Idle.stage[i] = 0
      /\ \A x \in Transfers : Idle.next[x] = "keep"
  BY DEF Idle, NoUnits
<1> DEFINE t == Idle
<1> HIDE DEF t
<1>2. ASSUME NEW i \in Items PROVE SumOf(LetGo(t, i)) = 0 /\ SumOf(Sent(t, i)) = 0
  <2>1. \A x \in Transfers : LetGo(t, i)[x] = 0 /\ Sent(t, i)[x] = 0
    BY <1>1 DEF t, LetGo, Sent
  <2>2. IsFiniteSet(Transfers)
    BY TransfersAssumption
  <2>3. QED
    BY <2>1, <2>2, SumOfZeros DEF SumOf
<1>3. Outcomes(t) /\ Claims(t) /\ Arrives(t) /\ Judged(t) /\ Scheduled(t) /\ Rides(t)
  BY <1>1 DEF t, Outcomes, Claims, NewDrafts, Arrives, Judged, Scheduled, Rides, Receipts
<1>4. Leaves(t)
  BY <1>1, <1>2 DEF t, Leaves
<1>5. QED
  BY <1>3, <1>4 DEF Plan, t

LEMMA IdlePlanNext == Plan(Idle)'
<1>1. Plan(Idle)
  BY IdlePlan
<1>2. QED
  BY <1>1, PTL

LEMMA AfterItemsPlan ==
    ASSUME NEW t \in Transactions, Plan(t), t.pc \in {"hold", "ship", "land", "free"}
    PROVE  Plan(AfterItems(t))
<1> DEFINE u == AfterItems(t)
           step == CASE t.pc = "ship" /\ t.op = "complete" -> "land"
                     [] t.pc = "ship" /\ t.op \in {"ship", "completeManifest"} -> "header"
                     [] t.pc = "land" -> "judge"
                     [] OTHER -> "commit"
<1>1. CASE t.todo # {}
  <2>1. u = t
    BY <1>1, Zenon DEF AfterItems
  <2>2. QED
    BY <2>1
<1>2. CASE t.todo = {}
  <2>1. /\ Same(t, u) /\ u.pc = step
    <3>1. CASE t.pc = "ship" /\ t.op = "complete"
      <4>1. u = [t EXCEPT !.pc = "land", !.todo = Some(t.amount)]
        BY <1>2, <3>1, Zenon DEF AfterItems
      <4> HIDE DEF u
      <4>2. QED
        BY <4>1, <3>1 DEF Transactions, Same
    <3>2. CASE t.pc = "ship" /\ t.op \in {"ship", "completeManifest"}
      <4>1. u = [t EXCEPT !.pc = "header"]
        BY <1>2, <3>2, Zenon DEF AfterItems
      <4> HIDE DEF u
      <4>2. QED
        BY <4>1, <3>2 DEF Transactions, Same
    <3>3. CASE t.pc = "land"
      <4>1. u = [t EXCEPT !.pc = "judge"]
        BY <1>2, <3>3, Zenon DEF AfterItems
      <4> HIDE DEF u
      <4>2. QED
        BY <4>1, <3>3 DEF Transactions, Same
    <3>4. CASE t.pc # "land" /\ ~(t.pc = "ship" /\ t.op \in {"complete", "ship", "completeManifest"})
      <4>1. u = [t EXCEPT !.pc = "commit"]
        BY <1>2, <3>4, Zenon DEF AfterItems
      <4> HIDE DEF u
      <4>2. QED
        BY <4>1, <3>4 DEF Transactions, Same
    <3>5. QED
      BY <3>1, <3>2, <3>3, <3>4
  <2> HIDE DEF u
  <2>2. t.pc = "ship" => t.op # "receive" /\ (t.queue # {} => t.op = "completeManifest")
    BY DEF Plan, Outcomes, Leaves, Rides
  <2>3. t.pc = "free" => t.op = "cancel"
    BY DEF Plan, Leaves
  <2>4. t.pc # "ship" => t.queue = {}
    BY DEF Plan, Rides
  <2>5. step \in {"land", "header", "judge", "commit"}
    OBVIOUS
  <2>6. ASSUME NEW i \in Items PROVE LetGo(u, i) = LetGo(t, i) /\ Sent(u, i) = Sent(t, i)
    <3>1. \A x \in Transfers : ~Pending(t, x, i) /\ ~Pending(u, x, i)
      BY <1>2, <2>1, <2>2 DEF Pending, Same
    <3>2. QED
      BY <2>1, <3>1 DEF LetGo, Sent, OwnShipped, Same
  <2>7. /\ step = "land" => t.pc = "ship"
        /\ step = "header" => t.op # "cancel"
        /\ t.op \in Receipts => (t.pc \in Before <=> step \in Before)
        /\ t.op \in Receipts => t.pc \notin {"hold", "commit"} \/ step = "commit"
        /\ step = "commit" /\ t.op = "receive" => t.pc = "hold"
        /\ t.queue # {} => step = "header"
    BY <2>2, <2>3, <2>4 DEF Receipts, Before
  <2> HIDE DEF step
  <2>8. QED
    BY <1>2, <2>1, <2>5, <2>6, <2>7, PlanMoves DEF u
<1>3. QED
  BY <1>1, <1>2

LEMMA AfterHeaderPlan ==
    ASSUME NEW t \in Transactions, Sound(t), Plan(t), t.pc = "header"
    PROVE  Plan(AfterHeader(t))
<1> DEFINE u == AfterHeader(t)
           rolls == /\ t.op \in {"receive", "complete"}
                    /\ t.next[t.doc] = "received"
                    /\ Some(Remainder(t, t.doc)) # {}
           step == CASE t.op = "cancel" -> "free"
                     [] t.op = "completeManifest"
                          -> IF t.queue = {} THEN "truck" ELSE "load"
                     [] t.op \notin {"cancel", "completeManifest"} /\ rolls -> "roll"
                     [] OTHER -> "commit"
<1>1. Same(t, u) /\ u.pc = step /\ (t.op = "cancel" => u.todo = Some(t.amount))
  <2>1. CASE t.op = "cancel"
    <3>1. u = [t EXCEPT !.pc = "free", !.todo = Some(t.amount)]
      BY <2>1, Zenon DEF AfterHeader
    <3> HIDE DEF u
    <3>2. QED
      BY <3>1, <2>1 DEF Transactions, Same
  <2>2. CASE t.op = "completeManifest"
    <3>1. u = [t EXCEPT !.pc = IF t.queue = {} THEN "truck" ELSE "load"]
      BY <2>2, Zenon DEF AfterHeader
    <3> HIDE DEF u
    <3>2. QED
      BY <3>1, <2>2 DEF Transactions, Same
  <2>3. CASE t.op \notin {"cancel", "completeManifest"} /\ rolls
    <3>1. u = [t EXCEPT !.pc = "roll"]
      BY <2>3, Zenon DEF AfterHeader
    <3> HIDE DEF u, rolls
    <3>2. QED
      BY <3>1, <2>3 DEF Transactions, Same
  <2>4. CASE t.op \notin {"cancel", "completeManifest"} /\ ~rolls
    <3>1. u = [t EXCEPT !.pc = "commit"]
      BY <2>4, Zenon DEF AfterHeader
    <3> HIDE DEF u, rolls
    <3>2. QED
      BY <3>1, <2>4 DEF Transactions, Same
  <2>5. QED
    BY <2>1, <2>2, <2>3, <2>4
<1>2. ASSUME NEW i \in Items PROVE LetGo(u, i) = LetGo(t, i) /\ Sent(u, i) = Sent(t, i)
  <2>1. CASE t.op # "cancel"
    <3>1. \A x \in Transfers : ~Pending(t, x, i) /\ ~Pending(u, x, i)
      BY <1>1, <2>1 DEF Pending, Same
    <3> HIDE DEF u, step
    <3>2. QED
      BY <1>1, <3>1 DEF LetGo, Sent, OwnShipped, Same
  <2>2. CASE t.op = "cancel"
    <3>1. /\ t.doc \in Transfers /\ t.next[t.doc] = "canceled" /\ t.amount = shipped[t.doc]
      BY <2>2 DEF Plan, Leaves
    <3>2. u.pc = "free" /\ u.todo = Some(t.amount)
      BY <1>1, <2>2
    <3>3. t.amount[i] \in Nat
      BY DEF Transactions, Units
    <3> HIDE DEF u, step
    <3>4. \A x \in Transfers : x # t.doc => ~Pending(t, x, i) /\ ~Pending(u, x, i)
      BY <1>1 DEF Pending, Same
    <3>5. Pending(t, t.doc, i) /\ (Pending(u, t.doc, i) <=> i \in Some(t.amount))
      BY <1>1, <2>2, <3>2 DEF Pending, Same
    <3>6. i \notin Some(t.amount) => shipped[t.doc][i] = 0
      BY <3>1, <3>3 DEF Some
    <3>7. \A x \in Transfers : LetGo(u, i)[x] = LetGo(t, i)[x]
      BY <1>1, <3>4, <3>5, <3>6 DEF LetGo, Same
    <3>8. \A x \in Transfers : Sent(u, i)[x] = Sent(t, i)[x]
      BY <1>1, <3>1, <3>4, <3>5 DEF Sent, OwnShipped, Same
    <3>9. QED
      BY <3>7, <3>8 DEF LetGo, Sent
  <2>3. QED
    BY <2>1, <2>2
<1>3. /\ step \in {"free", "truck", "load", "roll", "commit"}
      /\ step = "free" => t.op = "cancel"
      /\ step = "truck" => t.op = "completeManifest"
      /\ step = "roll" => Some(Remainder(t, t.doc)) # {}
      /\ t.queue # {} => step = "load"
  BY DEF Plan, Rides
<1>4. t.op = "receive" /\ step = "commit" /\ t.next[t.doc] = "received" =>
          t.new = {} /\ Some(Remainder(t, t.doc)) = {}
  <2> SUFFICES ASSUME t.op = "receive", step = "commit", t.next[t.doc] = "received"
               PROVE  t.new = {} /\ Some(Remainder(t, t.doc)) = {}
    OBVIOUS
  <2>1. ~rolls
    OBVIOUS
  <2>2. t.new \subseteq {t.doc} /\ t.doc \in Transfers /\ status[t.doc] = "in_transit"
    BY DEF Plan, Scheduled, Outcomes, Receipts
  <2>3. t.doc \notin t.new
    BY <2>2 DEF Sound
  <2>4. QED
    BY <2>1, <2>2, <2>3
<1> HIDE DEF u, step, rolls
<1>5. QED
  BY <1>1, <1>2, <1>3, <1>4, PlanMoves DEF u, Before, Receipts

-----------------------------------------------------------------------------
(* The handlers, up to their first write.                                  *)

LEMMA BeginPlan ==
    ASSUME CountInv, SerialInv, NEW r \in Requests, NEW op, NEW rec,
           Begin(r, op, rec), Plan([rec EXCEPT !.op = op])
    PROVE  SerialInv'
BY MoveOn DEF Begin

\* Nothing is booked yet.
Blank(t) ==
    /\ t.landed = {} /\ t.queue \in SUBSET Transfers
    /\ \A i \in Items : /\ t.out[i] = 0 /\ t.freed[i] = 0
                        /\ t.arrive[i] = 0 /\ t.stage[i] = 0
    /\ t.keep = NoUnits

LEMMA BlankIdle ==
    /\ Blank(Idle) /\ Idle.op = "none" /\ Idle.new = {} /\ Idle.queue = {}
    /\ Idle.board = {} /\ Idle.onto = NoManifest /\ Idle.runNext = "keep"
    /\ Idle.next = [x \in Transfers |-> "keep"] /\ Idle.short = NoUnits
BY DEF Idle, Blank, NoUnits

LEMMA BlankBooks ==
    ASSUME NEW t, Blank(t),
           \A i \in Items, x \in Transfers : LetGo(t, i)[x] = 0 /\ Sent(t, i)[x] = 0
    PROVE  \A i \in Items : t.freed[i] = SumOf(LetGo(t, i)) /\ t.out[i] = SumOf(Sent(t, i))
<1> SUFFICES ASSUME NEW i \in Items
             PROVE  t.freed[i] = SumOf(LetGo(t, i)) /\ t.out[i] = SumOf(Sent(t, i))
  OBVIOUS
<1>1. SumOf(LetGo(t, i)) = 0 /\ SumOf(Sent(t, i)) = 0
  BY TransfersAssumption, SumOfZeros DEF SumOf
<1>2. QED
  BY <1>1 DEF Blank

\* A handler that has no transfer in mind yet.
LEMMA BlankPlan ==
    ASSUME NEW t, Blank(t), t.new = {}, t.next = [x \in Transfers |-> "keep"],
           t.op \notin Receipts \cup {"closeShort", "cancel"},
           t.pc \notin {"hold", "ship", "land", "free", "roll"}, t.short = NoUnits, Rides(t)
    PROVE  Plan(t)
<1>1. \A i \in Items, x \in Transfers : LetGo(t, i)[x] = 0 /\ Sent(t, i)[x] = 0
  BY DEF LetGo, Sent
<1>2. Leaves(t)
  BY <1>1, BlankBooks DEF Leaves
<1>3. Outcomes(t) /\ Claims(t) /\ Judged(t) /\ Scheduled(t)
  BY DEF Outcomes, Claims, NewDrafts, Judged, Scheduled, Receipts, Blank
<1>4. Arrives(t)
  BY DEF Arrives, Blank, Receipts, NoUnits
<1>5. QED
  BY <1>2, <1>3, <1>4 DEF Plan

LEMMA PlanBeginManifest ==
    ASSUME CountInv, SerialInv, NEW r \in Requests,
           \/ \E x \in Transfers : BeginRemoveTransfer(r, x)
           \/ \E m \in Manifests : \/ \E S \in SUBSET Transfers : BeginBuild(r, S, m)
                                   \/ BeginCancelManifest(r, m)
                                   \/ BeginCompleteManifest(r, m)
    PROVE  SerialInv'
<1>1. ASSUME NEW x \in Transfers, BeginRemoveTransfer(r, x) PROVE SerialInv'
  <2> DEFINE t == [Idle EXCEPT !.pc = "board", !.board = {x}]
             u == [t EXCEPT !.op = "removeTransfer"]
  <2>1. /\ Blank(u) /\ u.new = {} /\ u.next = [y \in Transfers |-> "keep"]
        /\ u.op = "removeTransfer" /\ u.pc = "board" /\ u.short = NoUnits
        /\ u.queue = {} /\ u.onto = NoManifest /\ u.runNext = "keep"
    BY DEF Idle, Blank, NoUnits
  <2>2. Begin(r, "removeTransfer", t)
    BY <1>1 DEF BeginRemoveTransfer
  <2> HIDE DEF u
  <2>3. Rides(u)
    BY <2>1 DEF Rides
  <2>4. Plan(u)
    BY <2>1, <2>3, BlankPlan DEF Receipts
  <2> HIDE DEF t
  <2>5. QED
    BY <2>2, <2>4, BeginPlan DEF u
<1>2. ASSUME NEW m \in Manifests, NEW S \in SUBSET Transfers, BeginBuild(r, S, m)
      PROVE  SerialInv'
  <2> DEFINE then == IF truck[m] = "open" THEN "keep" ELSE "open"
             t == [Idle EXCEPT !.pc = "board", !.board = S, !.onto = m, !.run = m,
                               !.runNext = then]
             u == [t EXCEPT !.op = "build"]
  <2>1. /\ Begin(r, "build", t) /\ \A x \in S : status[x] = "draft"
        /\ then \in {"keep", "open"}
        /\ then = "keep" => truck[m] = "open"
    BY <1>2 DEF BeginBuild
  <2> HIDE DEF then
  <2>2. /\ Blank(u) /\ u.new = {} /\ u.next = [y \in Transfers |-> "keep"]
        /\ u.op = "build" /\ u.pc = "board" /\ u.short = NoUnits
        /\ u.queue = {} /\ u.onto = m /\ u.run = m /\ u.board = S /\ u.runNext = then
    BY DEF Idle, Blank, NoUnits
  <2> HIDE DEF u
  <2>3. Rides(u)
    BY <2>1, <2>2 DEF Rides
  <2>4. Plan(u)
    BY <2>2, <2>3, BlankPlan DEF Receipts
  <2> HIDE DEF t
  <2>5. QED
    BY <2>1, <2>4, BeginPlan DEF u
<1>3. ASSUME NEW m \in Manifests, BeginCancelManifest(r, m) PROVE SerialInv'
  <2> DEFINE t == [Idle EXCEPT !.pc = "detach", !.run = m, !.runNext = "canceled"]
             u == [t EXCEPT !.op = "cancelManifest"]
  <2>1. /\ Blank(u) /\ u.new = {} /\ u.next = [y \in Transfers |-> "keep"]
        /\ u.op = "cancelManifest" /\ u.pc = "detach" /\ u.short = NoUnits
        /\ u.queue = {} /\ u.onto = NoManifest /\ u.run = m /\ u.runNext = "canceled"
    BY DEF Idle, Blank, NoUnits
  <2>2. Begin(r, "cancelManifest", t)
    BY <1>3 DEF BeginCancelManifest
  <2> HIDE DEF u
  <2>3. Rides(u)
    BY <2>1 DEF Rides
  <2>4. Plan(u)
    BY <2>1, <2>3, BlankPlan DEF Receipts
  <2> HIDE DEF t
  <2>5. QED
    BY <2>2, <2>4, BeginPlan DEF u
<1>4. ASSUME NEW m \in Manifests, BeginCompleteManifest(r, m) PROVE SerialInv'
  <2> DEFINE drafts == DraftsOn(m)
             step == IF drafts = {} THEN "truck" ELSE "load"
             t == [Idle EXCEPT !.pc = step, !.queue = drafts, !.run = m,
                               !.runNext = "completed"]
             u == [t EXCEPT !.op = "completeManifest"]
  <2>1. /\ drafts = {x \in Transfers : ride[x] = m /\ status[x] = "draft"}
        /\ step \in {"truck", "load"}
        /\ drafts # {} => step = "load"
        /\ Begin(r, "completeManifest", t)
    BY <1>4 DEF BeginCompleteManifest, CompleteManifest, DraftsOn
  <2> HIDE DEF drafts, step
  <2>2. /\ Blank(u) /\ u.new = {} /\ u.next = [y \in Transfers |-> "keep"]
        /\ u.op = "completeManifest" /\ u.pc = step /\ u.short = NoUnits
        /\ u.queue = drafts /\ u.onto = NoManifest /\ u.run = m
        /\ u.runNext = "completed"
    BY <2>1 DEF Idle, Blank, NoUnits
  <2> HIDE DEF u
  <2>3. Rides(u)
    BY <2>1, <2>2 DEF Rides
  <2>4. Plan(u)
    BY <2>1, <2>2, <2>3, BlankPlan DEF Receipts
  <2> HIDE DEF t
  <2>5. QED
    BY <2>1, <2>4, BeginPlan DEF u
<1>5. QED
  BY <1>1, <1>2, <1>3, <1>4

LEMMA PlanBeginReceive ==
    ASSUME CountInv, SerialInv, NEW r \in Requests, NEW x \in Transfers,
           NEW units \in Bodies, BeginReceive(r, x, units)
    PROVE  SerialInv'
<1> DEFINE sum == [i \in Items |-> received[x][i] + units[i]]
           t == [Idle EXCEPT !.pc = "land", !.doc = x, !.todo = Some(units),
                             !.amount = units, !.counted = sum]
           u == [t EXCEPT !.op = "receive"]
<1>1. status[x] = "in_transit" /\ Begin(r, "receive", t)
  BY DEF BeginReceive, Receive
<1>2. \A i \in Items : sum[i] = received[x][i] + units[i]
  OBVIOUS
<1> HIDE DEF sum
<1>3. /\ Blank(u) /\ u.new = {} /\ u.next = [y \in Transfers |-> "keep"]
      /\ u.op = "receive" /\ u.pc = "land" /\ u.short = NoUnits /\ u.doc = x
      /\ u.queue = {} /\ u.onto = NoManifest /\ u.runNext = "keep"
      /\ u.amount = units /\ u.counted = sum /\ u.landed = {}
  BY DEF Idle, Blank, NoUnits
<1> HIDE DEF u
<1>4. \A i \in Items, y \in Transfers : LetGo(u, i)[y] = 0 /\ Sent(u, i)[y] = 0
  BY <1>3 DEF LetGo, Sent
<1>5. Leaves(u)
  BY <1>3, <1>4, BlankBooks DEF Leaves
<1>6. Outcomes(u) /\ Claims(u) /\ Judged(u) /\ Scheduled(u) /\ Rides(u)
  BY <1>1, <1>3 DEF Outcomes, Claims, NewDrafts, Judged, Scheduled, Receipts, Rides, Blank
<1>7. Arrives(u)
  BY <1>2, <1>3 DEF Arrives, Blank, NoUnits
<1>8. Plan(u)
  BY <1>5, <1>6, <1>7 DEF Plan
<1> HIDE DEF t
<1>9. QED
  BY <1>1, <1>8, BeginPlan DEF u

LEMMA PlanBeginShip ==
    ASSUME CountInv, SerialInv, NEW r \in Requests, NEW x \in Transfers, BeginShip(r, x)
    PROVE  SerialInv'
<1> DEFINE nx == [Idle.next EXCEPT ![x] = "in_transit"]
           t == ShipPlan(Idle, x)
           u == [t EXCEPT !.op = "ship"]
<1>1. status[x] = "draft" /\ Begin(r, "ship", t)
  BY DEF BeginShip, Shippable
<1>2. nx[x] = "in_transit" /\ \A y \in Transfers \ {x} : nx[y] = "keep"
  BY DEF Idle
<1>3. t = [Idle EXCEPT !.pc = "ship", !.doc = x, !.queue = {} \ {x},
                       !.todo = Some(shipped[x]), !.amount = shipped[x], !.next = nx]
  BY DEF ShipPlan, Idle
<1> HIDE DEF nx, t
<1>4. /\ Blank(u) /\ u.new = {} /\ u.next = nx
      /\ u.op = "ship" /\ u.pc = "ship" /\ u.short = NoUnits /\ u.doc = x
      /\ u.queue = {} /\ u.onto = NoManifest /\ u.runNext = "keep"
      /\ u.amount = shipped[x] /\ u.todo = Some(shipped[x]) /\ u.landed = {}
  BY <1>3 DEF Idle, Blank, NoUnits
<1> HIDE DEF u
<1>5. ASSUME NEW i \in Items, NEW y \in Transfers
      PROVE  LetGo(u, i)[y] = 0 /\ Sent(u, i)[y] = 0
  <2>1. shipped[x][i] \in Nat
    BY UnitsTypes DEF CountInv
  <2>2. CASE y # x
    BY <1>2, <1>4, <2>2 DEF LetGo, Sent
  <2>3. CASE y = x /\ shipped[x][i] = 0
    BY <1>4, <2>3 DEF LetGo, Sent, OwnShipped
  <2>4. CASE y = x /\ shipped[x][i] > 0
    BY <1>4, <2>4 DEF LetGo, Sent, Pending, Some
  <2>5. QED
    BY <2>1, <2>2, <2>3, <2>4
<1>6. Leaves(u)
  BY <1>1, <1>2, <1>4, <1>5, BlankBooks DEF Leaves, OwnShipped
<1>7. Outcomes(u) /\ Claims(u) /\ Judged(u) /\ Scheduled(u) /\ Rides(u)
  BY <1>1, <1>2, <1>4 DEF Outcomes, Claims, NewDrafts, Judged, Scheduled, Receipts, Rides,
                          Blank
<1>8. Arrives(u)
  BY <1>4 DEF Arrives, Blank, NoUnits, Receipts
<1>9. Plan(u)
  BY <1>6, <1>7, <1>8 DEF Plan
<1>10. QED
  BY <1>1, <1>9, BeginPlan DEF u

LEMMA PlanBeginCloseShort ==
    ASSUME CountInv, SerialInv, NEW r \in Requests, NEW x \in Transfers,
           BeginCloseShort(r, x)
    PROVE  SerialInv'
<1> DEFINE short == [i \in Items |-> shipped[x][i] - received[x][i]]
           nx == [Idle.next EXCEPT ![x] = "closed_short"]
           t == [Idle EXCEPT !.pc = "header", !.doc = x, !.short = short,
                             !.next = nx]
           u == [t EXCEPT !.op = "closeShort"]
<1>1. status[x] = "in_transit" /\ Begin(r, "closeShort", t)
  BY DEF BeginCloseShort, CloseShort
<1>2. nx[x] = "closed_short" /\ \A y \in Transfers \ {x} : nx[y] = "keep"
  BY DEF Idle
<1>3. \A i \in Items : short[i] = shipped[x][i] - received[x][i]
  OBVIOUS
<1> HIDE DEF nx, short
<1>4. /\ Blank(u) /\ u.new = {} /\ u.next = nx
      /\ u.op = "closeShort" /\ u.pc = "header" /\ u.short = short /\ u.doc = x
      /\ u.queue = {} /\ u.onto = NoManifest /\ u.runNext = "keep" /\ u.landed = {}
  BY DEF Idle, Blank, NoUnits
<1> HIDE DEF u
<1>5. \A i \in Items, y \in Transfers : LetGo(u, i)[y] = 0 /\ Sent(u, i)[y] = 0
  BY <1>1, <1>2, <1>4 DEF LetGo, Sent
<1>6. Leaves(u)
  BY <1>4, <1>5, BlankBooks DEF Leaves
<1>7. Outcomes(u) /\ Claims(u) /\ Judged(u) /\ Scheduled(u) /\ Rides(u)
  BY <1>1, <1>2, <1>4 DEF Outcomes, Claims, NewDrafts, Judged, Scheduled, Receipts, Rides,
                          Blank
<1>8. Arrives(u)
  BY <1>3, <1>4 DEF Arrives, Blank, Receipts
<1>9. Plan(u)
  BY <1>6, <1>7, <1>8 DEF Plan
<1> HIDE DEF t
<1>10. QED
  BY <1>1, <1>9, BeginPlan DEF u

LEMMA PlanBeginCancel ==
    ASSUME CountInv, SerialInv, NEW r \in Requests, NEW x \in Transfers, BeginCancel(r, x)
    PROVE  SerialInv'
<1> DEFINE nx == [Idle.next EXCEPT ![x] = "canceled"]
           t == [Idle EXCEPT !.pc = "header", !.doc = x, !.amount = shipped[x],
                             !.next = nx]
           u == [t EXCEPT !.op = "cancel"]
<1>1. status[x] = "draft" /\ Begin(r, "cancel", t)
  BY DEF BeginCancel
<1>2. nx[x] = "canceled" /\ \A y \in Transfers \ {x} : nx[y] = "keep"
  BY DEF Idle
<1> HIDE DEF nx
<1>4. /\ Blank(u) /\ u.new = {} /\ u.next = nx
      /\ u.op = "cancel" /\ u.pc = "header" /\ u.short = NoUnits /\ u.doc = x
      /\ u.queue = {} /\ u.onto = NoManifest /\ u.runNext = "keep" /\ u.landed = {}
      /\ u.amount = shipped[x]
  BY DEF Idle, Blank, NoUnits
<1> HIDE DEF u
<1>5. \A i \in Items, y \in Transfers : LetGo(u, i)[y] = 0 /\ Sent(u, i)[y] = 0
  BY <1>1, <1>2, <1>4 DEF LetGo, Sent, Pending
<1>6. Leaves(u)
  BY <1>1, <1>2, <1>4, <1>5, BlankBooks DEF Leaves
<1>7. Outcomes(u) /\ Claims(u) /\ Judged(u) /\ Scheduled(u) /\ Rides(u)
  BY <1>1, <1>2, <1>4 DEF Outcomes, Claims, NewDrafts, Judged, Scheduled, Receipts, Rides,
                          Blank
<1>8. Arrives(u)
  BY <1>4 DEF Arrives, Blank, Receipts, NoUnits
<1>9. Plan(u)
  BY <1>6, <1>7, <1>8 DEF Plan
<1> HIDE DEF t
<1>10. QED
  BY <1>1, <1>9, BeginPlan DEF u

LEMMA PlanBeginCreate ==
    ASSUME CountInv, SerialInv, NEW r \in Requests, NEW x \in Transfers,
           NEW units \in Bodies, NEW wants \in Bodies,
           BeginCreate(r, x, units, wants)
    PROVE  SerialInv'
<1> DEFINE ln == [Idle.lines EXCEPT ![x] = units]
           nx == [Idle.next EXCEPT ![x] = "draft"]
           t == [Entered(x, units, wants, "draft") EXCEPT !.pc = "hold"]
           u == [t EXCEPT !.op = "create"]
<1>1. /\ status[x] = "none" /\ Some(units) # {} /\ Begin(r, "create", t)
  BY DEF BeginCreate, Fresh, Body
<1>2. /\ nx[x] = "draft" /\ \A y \in Transfers \ {x} : nx[y] = "keep"
      /\ ln[x] = units
  BY DEF Idle
<1>3. /\ Blank(u) /\ u.new = {x} /\ u.next = nx /\ u.lines = ln
      /\ u.op = "create" /\ u.pc = "hold" /\ u.short = NoUnits /\ u.doc = x
      /\ u.queue = {} /\ u.onto = NoManifest /\ u.runNext = "keep" /\ u.landed = {}
      /\ u.amount = units /\ u.todo = Some(units)
  BY DEF Entered, Idle, Blank, NoUnits
<1> HIDE DEF u, nx, ln
<1>4. NewDrafts(u) = {x}
  BY <1>2, <1>3 DEF NewDrafts
<1>5. \A i \in Items, y \in Transfers : LetGo(u, i)[y] = 0 /\ Sent(u, i)[y] = 0
  BY <1>1, <1>2, <1>3 DEF LetGo, Sent
<1>6. Leaves(u)
  BY <1>3, <1>5, BlankBooks DEF Leaves
<1>7. Outcomes(u) /\ Judged(u) /\ Scheduled(u) /\ Rides(u)
  BY <1>1, <1>2, <1>3 DEF Outcomes, Judged, Scheduled, Receipts, Rides, Blank
<1>8. Claims(u)
  <2>1. ASSUME NEW i \in Items
        PROVE  u.keep[i] = IF i \in u.todo THEN 0 ELSE units[i]
    <3>1. units[i] \in Nat /\ u.keep[i] = 0
      BY <1>3, BodyTypes DEF Blank, NoUnits, Units
    <3>2. QED
      BY <1>3, <3>1 DEF Some
  <2>2. QED
    BY <1>2, <1>3, <1>4, <2>1 DEF Claims
<1>9. Arrives(u)
  BY <1>3 DEF Arrives, Blank, Receipts, NoUnits
<1>10. Plan(u)
  BY <1>6, <1>7, <1>8, <1>9 DEF Plan
<1> HIDE DEF t
<1>11. QED
  BY <1>1, <1>10, BeginPlan DEF u

LEMMA PlanBeginShipped ==
    ASSUME CountInv, SerialInv, NEW r \in Requests, NEW op \in {"create", "complete"},
           NEW x \in Transfers, NEW units \in Bodies, NEW wants \in Bodies,
           BeginShipped(r, op, x, units, wants)
    PROVE  SerialInv'
<1> DEFINE ln == [Idle.lines EXCEPT ![x] = units]
           nx == [Idle.next EXCEPT ![x] = "in_transit"]
           t == [Entered(x, units, wants, "in_transit") EXCEPT !.pc = "ship",
                                                               !.counted = units]
           u == [t EXCEPT !.op = op]
<1>1. /\ status[x] = "none" /\ Some(units) # {} /\ Begin(r, op, t)
  BY DEF BeginShipped, Fresh, Body
<1>2. /\ nx[x] = "in_transit" /\ \A y \in Transfers \ {x} : nx[y] = "keep"
      /\ ln[x] = units
  BY DEF Idle
<1>3. /\ Blank(u) /\ u.new = {x} /\ u.next = nx /\ u.lines = ln
      /\ u.op = op /\ u.pc = "ship" /\ u.short = NoUnits /\ u.doc = x
      /\ u.queue = {} /\ u.onto = NoManifest /\ u.runNext = "keep" /\ u.landed = {}
      /\ u.amount = units /\ u.todo = Some(units) /\ u.counted = units
  BY DEF Entered, Idle, Blank, NoUnits
<1> HIDE DEF u, nx, ln
<1>4. NewDrafts(u) = {}
  BY <1>2, <1>3 DEF NewDrafts
<1>5. ASSUME NEW i \in Items, NEW y \in Transfers
      PROVE  LetGo(u, i)[y] = 0 /\ Sent(u, i)[y] = 0
  <2>1. units[i] \in Nat
    BY BodyTypes DEF Units
  <2>2. CASE y # x
    BY <1>2, <1>3, <2>2 DEF LetGo, Sent
  <2>3. CASE y = x /\ units[i] = 0
    BY <1>1, <1>2, <1>3, <2>3 DEF LetGo, Sent, OwnShipped
  <2>4. CASE y = x /\ units[i] > 0
    BY <1>1, <1>3, <2>4 DEF LetGo, Sent, Pending, Some
  <2>5. QED
    BY <2>1, <2>2, <2>3, <2>4
<1>6. Leaves(u)
  BY <1>2, <1>3, <1>5, BlankBooks DEF Leaves, OwnShipped
<1>7. Outcomes(u) /\ Judged(u) /\ Scheduled(u) /\ Rides(u)
  BY <1>1, <1>2, <1>3 DEF Outcomes, Judged, Scheduled, Receipts, Rides, Blank
<1>8. Claims(u)
  BY <1>3, <1>4 DEF Claims, Blank
<1>9. Arrives(u)
  <2>1. \A i \in Items : received[x][i] = 0 /\ units[i] \in Nat
    BY <1>1, BodyTypes DEF CountInv, NothingYet, NoUnits, Units
  <2>2. QED
    BY <1>3, <2>1 DEF Arrives, Blank, Receipts, NoUnits
<1>10. Plan(u)
  BY <1>6, <1>7, <1>8, <1>9 DEF Plan
<1> HIDE DEF t
<1>11. QED
  BY <1>1, <1>10, BeginPlan DEF u

-----------------------------------------------------------------------------
(* The statements of a request.                                            *)

LEMMA BookTypes ==
    ASSUME CountInv, NEW t \in Transactions, NEW i \in Items, NEW x \in Transfers
    PROVE  LetGo(t, i)[x] \in Nat /\ Sent(t, i)[x] \in Nat /\ OwnShipped(t, x)[i] \in Nat
<1>1. shipped[x][i] \in Nat /\ t.lines[x][i] \in Nat
  BY UnitsTypes DEF CountInv, Transactions, Units
<1>2. OwnShipped(t, x)[i] \in Nat
  BY <1>1 DEF OwnShipped
<1>3. QED
  BY <1>1, <1>2 DEF LetGo, Sent

\* A sum of which one term moves.
LEMMA OneMoves ==
    ASSUME NEW f, NEW g, NEW x \in Transfers, \A y \in Transfers : f[y] \in Nat,
           g[x] \in Nat, \A y \in Transfers \ {x} : g[y] = f[y]
    PROVE  SumOf(f) \in Nat /\ SumOf(g) = SumOf(f) - f[x] + g[x]
<1>1. IsFiniteSet(Transfers)
  BY TransfersAssumption
<1>2. SumFunctionOnSet(f, Transfers) \in Nat
  BY <1>1, SumIsNat
<1>3. g[x] \in Int /\ \A y \in Transfers : f[y] \in Int
  OBVIOUS
<1>4. SumFunctionOnSet(g, Transfers) = SumFunctionOnSet(f, Transfers) - f[x] + g[x]
  BY <1>1, <1>3, SumUpdate
<1>5. QED
  BY <1>2, <1>4 DEF SumOf

\* What the statement of one item leaves alone.
Frame(t, u) ==
    /\ u.pc = t.pc /\ u.op = t.op /\ u.doc = t.doc /\ u.amount = t.amount
    /\ u.queue = t.queue /\ u.new = t.new /\ u.lines = t.lines /\ u.wants = t.wants
    /\ u.counted = t.counted /\ u.short = t.short /\ u.next = t.next
    /\ u.board = t.board /\ u.onto = t.onto /\ u.run = t.run /\ u.runNext = t.runNext

LEMMA FramePlan ==
    ASSUME NEW t, NEW u, Frame(t, u), Plan(t), t.pc \in {"hold", "ship", "land", "free"},
           t.pc = "land" \/ u.landed = t.landed
    PROVE  Outcomes(u) /\ Judged(u) /\ Scheduled(u) /\ Rides(u)
<1>1. Outcomes(u)
  BY DEF Plan, Outcomes, Frame
<1>2. Remainder(u, u.doc) = Remainder(t, t.doc) /\ OwnShipped(u, u.doc) = OwnShipped(t, t.doc)
  BY DEF Frame, OwnShipped, OwnWanted, Remainder
<1>3. Judged(u)
  <2>1. CASE t.pc = "land"
    BY <2>1 DEF Plan, Judged, Frame
  <2>2. CASE u.landed = t.landed
    <3>1. OwnReceived(u, u.doc) = OwnReceived(t, t.doc)
      BY <2>2 DEF Frame, OwnReceived
    <3>2. QED
      BY <1>2, <3>1 DEF Plan, Judged, Frame
  <2>3. QED
    BY <2>1, <2>2
<1>4. Scheduled(u)
  BY <1>2 DEF Plan, Scheduled, Frame
<1>5. Rides(u)
  BY DEF Plan, Rides, Frame
<1>6. QED
  BY <1>1, <1>3, <1>4, <1>5

LEMMA ItemPlan ==
    ASSUME CountInv, SerialInv, NEW r \in Requests, NEW u \in Transactions, Plan(u),
           u.pc \in {"hold", "ship", "land", "free"}, Goes(r, AfterItems(u))
    PROVE  SerialInv'
<1>1. Plan(AfterItems(u))
  BY AfterItemsPlan
<1>2. QED
  BY <1>1, MoveOn DEF Goes

LEMMA PlanHoldItem ==
    ASSUME CountInv, SerialInv, NEW r \in Requests, NEW i \in Items, HoldItem(r, i)
    PROVE  SerialInv'
<1> DEFINE t == txn[r]
           k == [t.keep EXCEPT ![i] = t.keep[i] + t.amount[i]]
           h == t.holds \cup {OriginRow(i)}
           u == [t EXCEPT !.todo = t.todo \ {i}, !.holds = h, !.keep = k]
<1>1. t \in Transactions /\ Plan(t)
  BY OwnRecord DEF SerialInv
<1>2. k \in Units /\ k[i] = t.keep[i] + t.amount[i] /\ \A j \in Items \ {i} : k[j] = t.keep[j]
  BY <1>1, PlusUnits DEF Transactions, Units
<1>3. h \in SUBSET Rows
  BY <1>1 DEF Transactions, Rows
<1>4. Goes(r, AfterItems(u)) /\ t.pc = "hold" /\ i \in t.todo
  BY DEF HoldItem
<1> HIDE DEF t, k, h
<1>5. u \in Transactions
  BY <1>1, <1>2, <1>3, ZenonT(60) DEF Transactions
<1>6. /\ Frame(t, u) /\ u.landed = t.landed /\ u.todo = t.todo \ {i} /\ u.keep = k
      /\ u.out = t.out /\ u.freed = t.freed /\ u.arrive = t.arrive /\ u.stage = t.stage
  BY <1>1 DEF Frame, Transactions
<1> HIDE DEF u
<1>7. Outcomes(u) /\ Judged(u) /\ Scheduled(u) /\ Rides(u)
  BY <1>1, <1>4, <1>6, FramePlan
<1>8. Claims(u)
  <2>1. NewDrafts(u) = NewDrafts(t) /\ NewDrafts(t) # {}
        /\ \A x \in NewDrafts(t) : t.lines[x] = t.amount
    BY <1>1, <1>4, <1>6 DEF Plan, Claims, NewDrafts, Frame
  <2>2. \A x, y \in NewDrafts(t) : x = y
    BY <1>1 DEF Plan, Claims
  <2>3. ASSUME NEW x \in NewDrafts(t), NEW j \in Items
        PROVE  k[j] = IF j \in u.todo THEN 0 ELSE t.lines[x][j]
    <3>1. t.keep[j] = IF j \in t.todo THEN 0 ELSE t.lines[x][j]
      BY <1>1, <1>4 DEF Plan, Claims
    <3>2. t.amount[j] \in Nat
      BY <1>1 DEF Transactions, Units
    <3>3. QED
      BY <1>2, <1>4, <1>6, <2>1, <3>1, <3>2
  <2>4. QED
    BY <1>4, <1>6, <2>1, <2>2, <2>3 DEF Claims, Frame
<1>9. Leaves(u)
  <2>1. ASSUME NEW j \in Items PROVE LetGo(u, j) = LetGo(t, j) /\ Sent(u, j) = Sent(t, j)
    BY <1>4, <1>6 DEF LetGo, Sent, Pending, OwnShipped, Frame
  <2>2. QED
    BY <1>1, <1>4, <1>6, <2>1 DEF Plan, Leaves, Frame
<1>10. Arrives(u)
  BY <1>1, <1>4, <1>6 DEF Plan, Arrives, Frame
<1>11. Plan(u)
  BY <1>7, <1>8, <1>9, <1>10 DEF Plan
<1>12. QED
  BY <1>4, <1>5, <1>6, <1>11, ItemPlan DEF Frame, u

LEMMA PlanFreeItem ==
    ASSUME CountInv, SerialInv, NEW r \in Requests, NEW i \in Items, FreeItem(r, i)
    PROVE  SerialInv'
<1> DEFINE t == txn[r]
           k == [t.freed EXCEPT ![i] = t.freed[i] + t.amount[i]]
           h == t.holds \cup {OriginRow(i)}
           u == [t EXCEPT !.todo = t.todo \ {i}, !.holds = h, !.freed = k]
<1>1. t \in Transactions /\ Plan(t)
  BY OwnRecord DEF SerialInv
<1>2. k \in Units /\ k[i] = t.freed[i] + t.amount[i] /\ \A j \in Items \ {i} : k[j] = t.freed[j]
  BY <1>1, PlusUnits DEF Transactions, Units
<1>3. h \in SUBSET Rows
  BY <1>1 DEF Transactions, Rows
<1>4. Goes(r, AfterItems(u)) /\ t.pc = "free" /\ i \in t.todo
  BY DEF FreeItem
<1> HIDE DEF t, k, h
<1>5. u \in Transactions
  BY <1>1, <1>2, <1>3, ZenonT(60) DEF Transactions
<1>6. /\ Frame(t, u) /\ u.landed = t.landed /\ u.todo = t.todo \ {i} /\ u.keep = t.keep
      /\ u.out = t.out /\ u.freed = k /\ u.arrive = t.arrive /\ u.stage = t.stage
  BY <1>1 DEF Frame, Transactions
<1> HIDE DEF u
<1>7. Outcomes(u) /\ Judged(u) /\ Scheduled(u) /\ Rides(u)
  BY <1>1, <1>4, <1>6, FramePlan
<1>8. Claims(u)
  BY <1>1, <1>4, <1>6 DEF Plan, Claims, NewDrafts, Frame
<1>9. Leaves(u)
  <2>1. /\ t.op = "cancel" /\ t.doc \in Transfers /\ t.next[t.doc] = "canceled"
        /\ status[t.doc] = "draft" /\ t.amount = shipped[t.doc]
    BY <1>1, <1>4 DEF Plan, Leaves
  <2>2. \A j \in Items, x \in Transfers :
           /\ Pending(t, x, j) <=> x = t.doc /\ j \in t.todo
           /\ Pending(u, x, j) <=> x = t.doc /\ j \in t.todo \ {i}
    BY <1>4, <1>6 DEF Pending, Frame
  <2>3. ASSUME NEW j \in Items PROVE Sent(u, j) = Sent(t, j)
    <3>1. \A x \in Transfers : Sent(u, j)[x] = Sent(t, j)[x]
      BY <1>6, <2>1, <2>2 DEF Sent, OwnShipped, Frame
    <3>2. QED
      BY <3>1 DEF Sent
  <2>4. ASSUME NEW j \in Items, j # i PROVE LetGo(u, j) = LetGo(t, j)
    <3>1. \A x \in Transfers : LetGo(u, j)[x] = LetGo(t, j)[x]
      BY <1>6, <2>2, <2>4 DEF LetGo, Frame
    <3>2. QED
      BY <3>1 DEF LetGo
  <2>5. k[i] = SumOf(LetGo(u, i))
    <3>1. LetGo(t, i)[t.doc] = 0 /\ LetGo(u, i)[t.doc] = t.amount[i]
      BY <1>4, <1>6, <2>1, <2>2 DEF LetGo, Frame
    <3>2. \A x \in Transfers \ {t.doc} : LetGo(u, i)[x] = LetGo(t, i)[x]
      BY <1>6, <2>2 DEF LetGo, Frame
    <3>3. t.amount[i] \in Nat /\ t.freed[i] = SumOf(LetGo(t, i))
      BY <1>1 DEF Transactions, Units, Plan, Leaves
    <3>4. SumOf(LetGo(t, i)) \in Nat
          /\ SumOf(LetGo(u, i)) = SumOf(LetGo(t, i)) - LetGo(t, i)[t.doc] + LetGo(u, i)[t.doc]
      BY <1>1, <2>1, <3>1, <3>2, <3>3, BookTypes, OneMoves
    <3>5. QED
      BY <1>2, <3>1, <3>3, <3>4
  <2>6. \A j \in Items : k[j] = SumOf(LetGo(u, j))
    BY <1>1, <1>2, <2>4, <2>5 DEF Plan, Leaves
  <2>7. QED
    BY <1>1, <1>4, <1>6, <2>1, <2>3, <2>6 DEF Plan, Leaves, Frame
<1>10. Arrives(u)
  BY <1>1, <1>4, <1>6 DEF Plan, Arrives, Frame
<1>11. Plan(u)
  BY <1>7, <1>8, <1>9, <1>10 DEF Plan
<1>12. QED
  BY <1>4, <1>5, <1>6, <1>11, ItemPlan DEF Frame, u

LEMMA PlanShipItem ==
    ASSUME CountInv, SerialInv, NEW r \in Requests, NEW i \in Items, ShipItem(r, i)
    PROVE  SerialInv'
<1> DEFINE t == txn[r]
           hold == IF t.op \in {"create", "complete"} THEN 0 ELSE t.amount[i]
           f == [t.freed EXCEPT ![i] = t.freed[i] + hold]
           o == [t.out EXCEPT ![i] = t.out[i] + t.amount[i]]
           h == t.holds \cup {OriginRow(i), LineRow(t.doc, i)}
           u == [t EXCEPT !.todo = t.todo \ {i}, !.holds = h, !.freed = f, !.out = o]
<1>1. t \in Transactions /\ Sound(t) /\ Plan(t)
  BY OwnRecord DEF SerialInv
<1>2. /\ f \in Units /\ f[i] = t.freed[i] + hold /\ \A j \in Items \ {i} : f[j] = t.freed[j]
      /\ o \in Units /\ o[i] = t.out[i] + t.amount[i] /\ \A j \in Items \ {i} : o[j] = t.out[j]
  BY <1>1, PlusUnits DEF Transactions, Units
<1>4. Goes(r, AfterItems(u)) /\ t.pc = "ship" /\ i \in t.todo
  BY DEF ShipItem, ShipAndFree
<1>3. h \in SUBSET Rows
  BY <1>1, <1>4 DEF Transactions, Rows, Sound
<1>0. hold = IF t.op \in {"create", "complete"} THEN 0 ELSE t.amount[i]
  OBVIOUS
<1> HIDE DEF t, f, o, h, hold
<1>5. u \in Transactions
  BY <1>1, <1>2, <1>3, ZenonT(60) DEF Transactions
<1>6. /\ Frame(t, u) /\ u.landed = t.landed /\ u.todo = t.todo \ {i} /\ u.keep = t.keep
      /\ u.out = o /\ u.freed = f /\ u.arrive = t.arrive /\ u.stage = t.stage
  BY <1>1 DEF Frame, Transactions
<1> HIDE DEF u
<1>7. Outcomes(u) /\ Judged(u) /\ Scheduled(u) /\ Rides(u)
  BY <1>1, <1>4, <1>6, FramePlan
<1>8. Claims(u)
  BY <1>1, <1>4, <1>6 DEF Plan, Claims, NewDrafts, Frame
<1>9. Leaves(u)
  <2>1. /\ t.doc \in Transfers /\ t.next[t.doc] = "in_transit"
        /\ t.amount = OwnShipped(t, t.doc)
        /\ IF t.op \in {"create", "complete"} THEN t.doc \in t.new /\ status[t.doc] = "none"
              ELSE status[t.doc] = "draft" /\ t.doc \notin t.new
    BY <1>1, <1>4 DEF Plan, Leaves, Sound
  <2>2. \A j \in Items, x \in Transfers :
           /\ Pending(t, x, j) <=> x = t.doc /\ j \in t.todo
           /\ Pending(u, x, j) <=> x = t.doc /\ j \in t.todo \ {i}
    BY <1>4, <1>6 DEF Pending, Frame
  <2>3. ASSUME NEW j \in Items, j # i PROVE LetGo(u, j) = LetGo(t, j) /\ Sent(u, j) = Sent(t, j)
    <3>1. \A x \in Transfers : LetGo(u, j)[x] = LetGo(t, j)[x] /\ Sent(u, j)[x] = Sent(t, j)[x]
      BY <1>6, <2>2, <2>3 DEF LetGo, Sent, OwnShipped, Frame
    <3>2. QED
      BY <3>1 DEF LetGo, Sent
  <2>4. t.amount[i] \in Nat /\ t.freed[i] = SumOf(LetGo(t, i)) /\ t.out[i] = SumOf(Sent(t, i))
    BY <1>1 DEF Transactions, Units, Plan, Leaves
  <2>5. f[i] = SumOf(LetGo(u, i))
    <3>1. LetGo(t, i)[t.doc] = 0 /\ LetGo(u, i)[t.doc] = hold
      <4>1. t.op \notin {"create", "complete"} => t.amount = shipped[t.doc]
        BY <2>1 DEF OwnShipped
      <4>2. QED
        BY <1>0, <1>4, <1>6, <2>1, <2>2, <4>1 DEF LetGo, Frame
    <3>2. \A x \in Transfers \ {t.doc} : LetGo(u, i)[x] = LetGo(t, i)[x]
      BY <1>6, <2>2 DEF LetGo, Frame
    <3>3. hold \in Nat
      BY <1>0, <2>4
    <3>4. SumOf(LetGo(t, i)) \in Nat
          /\ SumOf(LetGo(u, i)) = SumOf(LetGo(t, i)) - LetGo(t, i)[t.doc] + LetGo(u, i)[t.doc]
      BY <1>1, <2>1, <3>1, <3>2, <3>3, BookTypes, OneMoves
    <3>5. QED
      BY <1>2, <2>4, <3>1, <3>3, <3>4
  <2>6. o[i] = SumOf(Sent(u, i))
    <3>1. Sent(t, i)[t.doc] = 0 /\ Sent(u, i)[t.doc] = t.amount[i]
      BY <1>4, <1>6, <2>1, <2>2 DEF Sent, OwnShipped, Frame
    <3>2. \A x \in Transfers \ {t.doc} : Sent(u, i)[x] = Sent(t, i)[x]
      BY <1>6, <2>2 DEF Sent, OwnShipped, Frame
    <3>3. SumOf(Sent(t, i)) \in Nat
          /\ SumOf(Sent(u, i)) = SumOf(Sent(t, i)) - Sent(t, i)[t.doc] + Sent(u, i)[t.doc]
      BY <1>1, <2>1, <2>4, <3>1, <3>2, BookTypes, OneMoves
    <3>4. QED
      BY <1>2, <2>4, <3>1, <3>3
  <2>7. \A j \in Items : f[j] = SumOf(LetGo(u, j)) /\ o[j] = SumOf(Sent(u, j))
    BY <1>1, <1>2, <2>3, <2>5, <2>6 DEF Plan, Leaves
  <2>8. OwnShipped(u, u.doc) = OwnShipped(t, t.doc)
    BY <1>6 DEF OwnShipped, Frame
  <2>9. QED
    BY <1>4, <1>6, <2>1, <2>7, <2>8 DEF Leaves, Frame
<1>10. Arrives(u)
  BY <1>1, <1>4, <1>6 DEF Plan, Arrives, Frame
<1>11. Plan(u)
  BY <1>7, <1>8, <1>9, <1>10 DEF Plan
<1>12. QED
  BY <1>4, <1>5, <1>6, <1>11, ItemPlan DEF Frame, u

LEMMA PlanLandItem ==
    ASSUME CountInv, SerialInv, NEW r \in Requests, NEW i \in Items, LandItem(r, i)
    PROVE  SerialInv'
<1> DEFINE t == txn[r]
           asIs == t.doc \in AsIs
           a == [t.arrive EXCEPT ![i] = IF asIs THEN t.arrive[i]
                                                ELSE t.arrive[i] + t.amount[i]]
           g == [t.stage EXCEPT ![i] = IF asIs THEN t.stage[i] + t.amount[i]
                                               ELSE t.stage[i]]
           rows == {LineRow(t.doc, i)} \cup IF asIs THEN {} ELSE {DestRow(i)}
           h == t.holds \cup rows
           u == [t EXCEPT !.todo = t.todo \ {i}, !.holds = h,
                          !.landed = t.landed \cup {i}, !.arrive = a, !.stage = g]
<1>1. t \in Transactions /\ Sound(t) /\ Plan(t)
  BY OwnRecord DEF SerialInv
<1>2. /\ a \in Units /\ g \in Units /\ a[i] + g[i] = t.arrive[i] + t.stage[i] + t.amount[i]
      /\ \A j \in Items \ {i} : a[j] = t.arrive[j] /\ g[j] = t.stage[j]
  BY <1>1 DEF Transactions, Units
<1>4. Goes(r, AfterItems(u)) /\ t.pc = "land" /\ i \in t.todo
  BY DEF LandItem
<1>9. t.op \in Receipts /\ t.doc \in Transfers
  BY <1>1, <1>4 DEF Sound, CountFits
<1>3. h \in SUBSET Rows
  BY <1>1, <1>9 DEF Transactions, Rows
<1> HIDE DEF t, a, g, h
<1>5. u \in Transactions
  BY <1>1, <1>2, <1>3, ZenonT(60) DEF Transactions
<1>6. /\ Frame(t, u) /\ u.landed = t.landed \cup {i} /\ u.todo = t.todo \ {i}
      /\ u.keep = t.keep /\ u.out = t.out /\ u.freed = t.freed /\ u.arrive = a /\ u.stage = g
  BY <1>1 DEF Frame, Transactions
<1> HIDE DEF u
<1>7. Outcomes(u) /\ Judged(u) /\ Scheduled(u) /\ Rides(u)
  BY <1>1, <1>4, <1>6, FramePlan
<1>8. Claims(u)
  BY <1>1, <1>4, <1>6 DEF Plan, Claims, NewDrafts, Frame
<1>10. Leaves(u)
  <2>1. ASSUME NEW j \in Items PROVE LetGo(u, j) = LetGo(t, j) /\ Sent(u, j) = Sent(t, j)
    BY <1>4, <1>6 DEF LetGo, Sent, Pending, OwnShipped, Frame
  <2>2. QED
    BY <1>1, <1>4, <1>6, <2>1 DEF Plan, Leaves, Frame
<1>11. Arrives(u)
  <2>1. i \notin t.landed /\ t.todo \cap t.landed = {}
    BY <1>1, <1>4 DEF Plan, Arrives
  <2>2. /\ t.arrive[i] + t.stage[i] = 0
        /\ t.counted[i] = received[t.doc][i] + t.amount[i]
    BY <1>1, <1>4, <1>9, <2>1 DEF Plan, Arrives
  <2>3. t.amount[i] \in Nat /\ received[t.doc][i] \in Nat /\ t.arrive[i] \in Nat /\ t.stage[i] \in Nat
    BY <1>1, <1>9, UnitsTypes DEF Transactions, Units, CountInv
  <2>4. a[i] + g[i] = t.counted[i] - received[t.doc][i]
    BY <1>2, <2>2, <2>3
  <2>5. \A j \in Items : a[j] + g[j] = IF j \in u.landed THEN t.counted[j] - received[t.doc][j]
                                                         ELSE 0
    BY <1>1, <1>2, <1>6, <2>4 DEF Plan, Arrives
  <2>6. u.todo \cap u.landed = {}
    BY <1>6, <2>1
  <2>7. QED
    BY <1>1, <1>4, <1>6, <2>5, <2>6 DEF Plan, Arrives, Frame
<1>12. Plan(u)
  BY <1>7, <1>8, <1>10, <1>11 DEF Plan
<1>13. QED
  BY <1>4, <1>5, <1>6, <1>12, ItemPlan DEF Frame, u

\* The statements that lock a row and move on.
LEMMA PlanBoard ==
    ASSUME CountInv, SerialInv, NEW r \in Requests, Board(r)
    PROVE  SerialInv'
<1> DEFINE t == txn[r]
           h == t.holds \cup {DocRow(x) : x \in t.board}
           u == [t EXCEPT !.pc = "commit", !.holds = h]
<1>1. t \in Transactions /\ Sound(t) /\ Plan(t)
  BY OwnRecord DEF SerialInv
<1>2. t.pc = "board" /\ Goes(r, u)
  BY DEF Board
<1> HIDE DEF h
<1>3. Same(t, u) /\ u.pc = "commit"
  BY <1>1 DEF Transactions, Same
<1>4. t.op \notin Receipts
  BY <1>1, <1>2 DEF Plan, Scheduled
<1>5. t.queue = {}
  BY <1>1, <1>2 DEF Plan, Rides
<1>6. \A i \in Items : LetGo(u, i) = LetGo(t, i) /\ Sent(u, i) = Sent(t, i)
  BY <1>2, <1>3 DEF LetGo, Sent, Pending, OwnShipped, Same
<1> HIDE DEF t, u
<1>7. Plan(u)
  BY <1>1, <1>2, <1>3, <1>4, <1>5, <1>6, PlanMoves DEF Receipts, Before
<1>8. QED
  BY <1>2, <1>7, MoveOn DEF Goes

LEMMA PlanWriteTruck ==
    ASSUME CountInv, SerialInv, NEW r \in Requests, WriteTruck(r)
    PROVE  SerialInv'
<1> DEFINE t == txn[r]
           h == t.holds \cup {TruckRow(t.run)}
           u == [t EXCEPT !.pc = "commit", !.holds = h]
<1>1. t \in Transactions /\ Sound(t) /\ Plan(t)
  BY OwnRecord DEF SerialInv
<1>2. t.pc = "truck" /\ Goes(r, u)
  BY DEF WriteTruck
<1> HIDE DEF h
<1>3. Same(t, u) /\ u.pc = "commit"
  BY <1>1 DEF Transactions, Same
<1>4. t.op \notin Receipts
  BY <1>1, <1>2 DEF Plan, Scheduled
<1>5. t.queue = {}
  BY <1>1, <1>2 DEF Plan, Rides
<1>6. \A i \in Items : LetGo(u, i) = LetGo(t, i) /\ Sent(u, i) = Sent(t, i)
  BY <1>2, <1>3 DEF LetGo, Sent, Pending, OwnShipped, Same
<1> HIDE DEF t, u
<1>7. Plan(u)
  BY <1>1, <1>2, <1>3, <1>4, <1>5, <1>6, PlanMoves DEF Receipts, Before
<1>8. QED
  BY <1>2, <1>7, MoveOn DEF Goes

LEMMA PlanDetachAll ==
    ASSUME CountInv, SerialInv, NEW r \in Requests, DetachAll(r)
    PROVE  SerialInv'
<1> DEFINE t == txn[r]
           aboard == {x \in Transfers : ride[x] = t.run}
           h == t.holds \cup {DocRow(x) : x \in aboard}
           u == [t EXCEPT !.pc = "truck", !.board = aboard, !.holds = h]
<1>1. t \in Transactions /\ Sound(t) /\ Plan(t)
  BY OwnRecord DEF SerialInv
<1>2. t.pc = "detach" /\ Goes(r, u)
  BY DEF DetachAll
<1> HIDE DEF h, aboard
<1>3. /\ u.op = t.op /\ u.doc = t.doc /\ u.amount = t.amount /\ u.queue = t.queue
      /\ u.new = t.new /\ u.lines = t.lines /\ u.wants = t.wants
      /\ u.counted = t.counted /\ u.landed = t.landed
      /\ u.out = t.out /\ u.freed = t.freed /\ u.keep = t.keep
      /\ u.arrive = t.arrive /\ u.stage = t.stage /\ u.short = t.short
      /\ u.next = t.next /\ u.board = aboard /\ u.onto = t.onto
      /\ u.run = t.run /\ u.runNext = t.runNext /\ u.pc = "truck"
  BY <1>1 DEF Transactions
<1>4. t.op \notin Receipts
  BY <1>1, <1>2 DEF Plan, Scheduled
<1>5. t.queue = {}
  BY <1>1, <1>2 DEF Plan, Rides
<1>6. \A i \in Items : LetGo(u, i) = LetGo(t, i) /\ Sent(u, i) = Sent(t, i)
  BY <1>2, <1>3 DEF LetGo, Sent, Pending, OwnShipped
<1> HIDE DEF t, u
<1>7. Outcomes(u) /\ Claims(u)
  BY <1>1, <1>2, <1>3 DEF Plan, Outcomes, Claims, NewDrafts
<1>8. Leaves(u) /\ Arrives(u)
  BY <1>1, <1>2, <1>3, <1>4, <1>6 DEF Plan, Leaves, Arrives, Receipts
<1>9. Judged(u) /\ Scheduled(u)
  BY <1>3, <1>4 DEF Judged, Scheduled, Receipts
<1>10. Rides(u)
  <2>1. t.op # "build"
    BY <1>1, <1>2 DEF Plan, Rides
  <2>2. QED
    BY <1>1, <1>3, <1>5, <2>1 DEF Plan, Rides, aboard
<1>11. Plan(u)
  BY <1>7, <1>8, <1>9, <1>10 DEF Plan
<1>12. QED
  BY <1>2, <1>11, MoveOn DEF Goes

LEMMA PlanWriteHeader ==
    ASSUME CountInv, SerialInv, NEW r \in Requests, WriteHeader(r)
    PROVE  SerialInv'
<1> DEFINE t == txn[r]
           h == t.holds \cup {DocRow(t.doc)}
           u == [t EXCEPT !.holds = h]
<1>1. t \in Transactions /\ Sound(t) /\ Plan(t)
  BY OwnRecord DEF SerialInv
<1>2. t.pc = "header" /\ t.doc \in Transfers /\ Goes(r, AfterHeader(u))
  BY <1>1 DEF WriteHeader, Sound
<1>3. h \in SUBSET Rows
  BY <1>1, <1>2 DEF Transactions, Rows
<1> HIDE DEF t, h
<1>4. u \in Transactions
  BY <1>1, <1>3, ZenonT(60) DEF Transactions
<1>5. Same(t, u) /\ u.pc = "header" /\ u.todo = t.todo /\ Alike(t, u)
  BY <1>1, <1>2 DEF Same, Transactions, Alike
<1>6. Sound(u)
  BY <1>1, <1>2, <1>5, AlikeIsSound
<1> HIDE DEF u
<1>7. \A i \in Items : LetGo(u, i) = LetGo(t, i) /\ Sent(u, i) = Sent(t, i)
  BY <1>2, <1>5 DEF LetGo, Sent, Pending, OwnShipped, Same
<1>8. t.op \in Receipts => t.pc \notin {"board", "detach", "truck"}
  BY <1>1 DEF Plan, Scheduled
<1>9. t.queue # {} => t.pc \in {"load", "ship", "header"}
  BY <1>1 DEF Plan, Rides
<1>10. Plan(u)
  BY <1>1, <1>2, <1>5, <1>7, <1>8, <1>9, PlanMoves DEF Before
<1>11. Plan(AfterHeader(u))
  BY <1>4, <1>5, <1>6, <1>10, AfterHeaderPlan
<1>12. QED
  BY <1>2, <1>11, MoveOn DEF Goes

LEMMA PlanJudge ==
    ASSUME CountInv, SerialInv, NEW r \in Requests, Judge(r)
    PROVE  SerialInv'
<1> DEFINE t == txn[r]
           all == \A i \in Items :
                     OwnReceived(t, t.doc)[i] >= OwnShipped(t, t.doc)[i]
           nx == [t.next EXCEPT ![t.doc] = IF all THEN "received" ELSE t.next[t.doc]]
           u == [t EXCEPT !.pc = "header", !.next = nx]
<1>1. t \in Transactions /\ Sound(t) /\ Plan(t)
  BY OwnRecord DEF SerialInv
<1>2. t.pc = "judge" /\ Goes(r, u)
  BY DEF Judge, JudgeBy
<1>3. t.op \in Receipts /\ t.doc \in Transfers
  BY <1>1, <1>2 DEF Sound, CountFits
<1>4. t.next[t.doc] # "received"
  BY <1>1, <1>2, <1>3 DEF Plan, Judged
<1>5. /\ nx[t.doc] = IF all THEN "received" ELSE t.next[t.doc]
      /\ \A x \in Transfers \ {t.doc} : nx[x] = t.next[x]
  BY <1>1, <1>3 DEF Transactions
<1>6. t.new \subseteq Transfers
  BY <1>1 DEF Transactions
<1>7. /\ t.op = "receive" => status[t.doc] = "in_transit" /\ t.doc \notin t.new
      /\ t.op = "complete" => /\ t.doc \in t.new /\ t.next[t.doc] = "in_transit"
                              /\ status[t.doc] = "none"
  BY <1>1, <1>3, <1>4 DEF Plan, Outcomes, Sound
<1>8. t.op = "receive" \/ t.op = "complete"
  BY <1>3 DEF Receipts
<1>9. t.new \subseteq {t.doc} /\ t.queue = {}
  BY <1>1, <1>2, <1>3 DEF Plan, Scheduled, Rides
<1> HIDE DEF t, nx, all
<1>10. /\ u.op = t.op /\ u.doc = t.doc /\ u.amount = t.amount /\ u.queue = t.queue
       /\ u.new = t.new /\ u.lines = t.lines /\ u.wants = t.wants
       /\ u.counted = t.counted /\ u.landed = t.landed
       /\ u.out = t.out /\ u.freed = t.freed /\ u.keep = t.keep
       /\ u.arrive = t.arrive /\ u.stage = t.stage /\ u.short = t.short
       /\ u.next = nx /\ u.board = t.board /\ u.onto = t.onto
       /\ u.run = t.run /\ u.runNext = t.runNext /\ u.pc = "header"
  BY <1>1 DEF Transactions
<1> HIDE DEF u
<1>11. Outcomes(u)
  <2>1. \A x \in t.new : /\ nx[x] \in {"draft", "in_transit", "received"}
                         /\ Some(t.lines[x]) # {}
                         /\ nx[x] = "received" => x = t.doc /\ t.op = "complete"
    BY <1>1, <1>5, <1>7, <1>8, <1>9 DEF Plan, Outcomes
  <2>2. \A x \in Transfers \ t.new : nx[x] # "keep" =>
          \/ status[x] = "draft" /\ nx[x] \in {"in_transit", "canceled"}
          \/ /\ status[x] = "in_transit" /\ x = t.doc
             /\ \/ t.op = "receive" /\ nx[x] = "received"
                \/ t.op = "closeShort" /\ nx[x] = "closed_short"
    BY <1>1, <1>5, <1>7, <1>8 DEF Plan, Outcomes
  <2>3. QED
    BY <1>1, <1>3, <1>5, <1>7, <1>8, <1>10, <2>1, <2>2 DEF Plan, Outcomes
<1>12. NewDrafts(u) = {} /\ NewDrafts(t) = {}
  BY <1>5, <1>7, <1>8, <1>9, <1>10 DEF NewDrafts
<1>13. Claims(u)
  BY <1>1, <1>10, <1>12 DEF Plan, Claims
<1>14. ASSUME NEW i \in Items PROVE LetGo(u, i) = LetGo(t, i) /\ Sent(u, i) = Sent(t, i)
  <2>1. \A x \in Transfers : ~Pending(u, x, i) /\ ~Pending(t, x, i)
    BY <1>2, <1>7, <1>8, <1>10 DEF Pending
  <2>2. \A x \in Transfers : LetGo(u, i)[x] = LetGo(t, i)[x] /\ Sent(u, i)[x] = Sent(t, i)[x]
    BY <1>5, <1>7, <1>8, <1>10, <2>1 DEF LetGo, Sent, OwnShipped
  <2>3. QED
    BY <2>2 DEF LetGo, Sent
<1>15. Leaves(u)
  BY <1>1, <1>8, <1>10, <1>14 DEF Plan, Leaves
<1>16. Arrives(u)
  BY <1>1, <1>10 DEF Plan, Arrives
<1>17. OwnReceived(u, u.doc) = OwnReceived(t, t.doc) /\ OwnShipped(u, u.doc) = OwnShipped(t, t.doc)
  BY <1>10 DEF OwnReceived, OwnShipped
<1>18. Judged(u)
  BY <1>4, <1>5, <1>10, <1>17 DEF Judged, all
<1>19. Scheduled(u)
  BY <1>9, <1>10 DEF Scheduled
<1>20. Rides(u)
  <2>1. \A x \in Transfers : t.next[x] # "keep" => nx[x] # "keep"
    BY <1>5
  <2>2. t.op # "build"
    BY <1>8
  <2>3. QED
    BY <1>1, <1>2, <1>9, <1>10, <2>1, <2>2 DEF Plan, Rides
<1>21. Plan(u)
  BY <1>11, <1>13, <1>15, <1>16, <1>18, <1>19, <1>20 DEF Plan
<1>22. QED
  BY <1>2, <1>21, MoveOn DEF Goes, t, u

LEMMA PlanRollOver ==
    ASSUME CountInv, SerialInv, NEW r \in Requests, NEW y \in Transfers, RollOver(r, y)
    PROVE  SerialInv'
<1> DEFINE t == txn[r]
           units == Remainder(t, t.doc)
           ln == [t.lines EXCEPT ![y] = units]
           wn == [t.wants EXCEPT ![y] = units]
           nx == [t.next EXCEPT ![y] = "draft"]
           u == [t EXCEPT !.pc = "hold", !.todo = Some(units), !.amount = units,
                          !.new = t.new \cup {y}, !.lines = ln, !.wants = wn,
                          !.next = nx]
<1>1. t \in Transactions /\ Sound(t) /\ Plan(t)
  BY OwnRecord DEF SerialInv
<1>2. t.pc = "roll" /\ Fresh(r, y) /\ Goes(r, u)
  BY DEF RollOver, NewDraft
<1>3. t.op \in Receipts /\ t.doc \in Transfers /\ CountFits(t)
  BY <1>1, <1>2 DEF Sound, CountFits
<1>4. status[y] = "none" /\ y \notin t.new /\ y # t.doc
  BY <1>2, <1>3 DEF Fresh, CountFits
<1>5. Some(units) # {} /\ t.new \subseteq {t.doc} /\ t.queue = {}
  BY <1>1, <1>2, <1>3 DEF Plan, Scheduled, Rides
<1>6. units = Remainder(t, t.doc)
  OBVIOUS
<1>7. \A i \in Items : i \notin Some(units) => units[i] = 0
  <2>1. ASSUME NEW i \in Items PROVE units[i] \in Nat
    <3>1. CASE t.doc \in t.new
      <4>1. /\ t.lines[t.doc][i] \in Nat /\ t.wants[t.doc][i] \in Nat
            /\ t.lines[t.doc][i] <= t.wants[t.doc][i]
        BY <1>1, <1>3, <3>1 DEF Transactions, Units, Sound
      <4>2. QED
        BY <3>1, <4>1 DEF Remainder, OwnShipped, OwnWanted
    <3>2. CASE t.doc \notin t.new
      <4>1. /\ shipped[t.doc][i] \in Nat /\ wanted[t.doc][i] \in Nat
            /\ shipped[t.doc][i] <= wanted[t.doc][i]
        BY <1>3, UnitsTypes DEF CountInv
      <4>2. QED
        BY <3>2, <4>1 DEF Remainder, OwnShipped, OwnWanted
    <3>3. QED
      BY <3>1, <3>2
  <2>2. QED
    BY <2>1 DEF Some
<1> HIDE DEF units
<1>8. /\ ln[y] = units /\ nx[y] = "draft"
      /\ \A x \in Transfers \ {y} :
            ln[x] = t.lines[x] /\ wn[x] = t.wants[x] /\ nx[x] = t.next[x]
  BY <1>1 DEF Transactions
<1>9. /\ t.op = "receive" => status[t.doc] = "in_transit" /\ t.new = {}
      /\ t.op = "complete" => /\ t.doc \in t.new /\ t.next[t.doc] \in {"in_transit", "received"}
                              /\ status[t.doc] = "none"
      /\ t.op = "receive" \/ t.op = "complete"
  BY <1>1, <1>3, <1>5 DEF Plan, Outcomes, Sound, Receipts
<1> HIDE DEF t, ln, wn, nx
<1>10. /\ u.op = t.op /\ u.doc = t.doc /\ u.amount = units /\ u.queue = t.queue
       /\ u.new = t.new \cup {y} /\ u.lines = ln /\ u.wants = wn
       /\ u.counted = t.counted /\ u.landed = t.landed
       /\ u.out = t.out /\ u.freed = t.freed /\ u.keep = t.keep
       /\ u.arrive = t.arrive /\ u.stage = t.stage /\ u.short = t.short
       /\ u.next = nx /\ u.board = t.board /\ u.onto = t.onto
       /\ u.run = t.run /\ u.runNext = t.runNext /\ u.pc = "hold" /\ u.todo = Some(units)
  BY <1>1 DEF Transactions
<1> HIDE DEF u
<1>11. \A x \in Transfers \ {y} : OwnShipped(u, x) = OwnShipped(t, x)
                                  /\ OwnWanted(u, x) = OwnWanted(t, x)
  BY <1>8, <1>10 DEF OwnShipped, OwnWanted
<1>12. /\ OwnShipped(u, u.doc) = OwnShipped(t, t.doc)
       /\ Remainder(u, u.doc) = units
       /\ OwnReceived(u, u.doc) = OwnReceived(t, t.doc)
  BY <1>3, <1>4, <1>6, <1>10, <1>11 DEF Remainder, OwnReceived
<1>13. NewDrafts(t) = {} /\ NewDrafts(u) = {y}
  <2>1. NewDrafts(t) = {}
    BY <1>5, <1>9 DEF NewDrafts
  <2>2. NewDrafts(u) = {x \in t.new \cup {y} : nx[x] = "draft"}
    BY <1>10 DEF NewDrafts
  <2>3. \A x \in t.new : nx[x] # "draft"
    BY <1>3, <1>4, <1>5, <1>8, <1>9
  <2>4. QED
    BY <1>8, <2>1, <2>2, <2>3
<1>14. Outcomes(u)
  <2>1. \A x \in u.new : /\ nx[x] \in {"draft", "in_transit", "received"}
                         /\ Some(ln[x]) # {}
                         /\ nx[x] = "received" => x = t.doc /\ t.op = "complete"
    BY <1>1, <1>3, <1>4, <1>5, <1>8, <1>10 DEF Plan, Outcomes
  <2>2. \A x \in Transfers \ u.new : nx[x] # "keep" =>
          \/ status[x] = "draft" /\ nx[x] \in {"in_transit", "canceled"}
          \/ /\ status[x] = "in_transit" /\ x = t.doc
             /\ \/ t.op = "receive" /\ nx[x] = "received"
                \/ t.op = "closeShort" /\ nx[x] = "closed_short"
    BY <1>1, <1>8, <1>10 DEF Plan, Outcomes
  <2>3. QED
    BY <1>3, <1>4, <1>8, <1>9, <1>10, <2>1, <2>2 DEF Outcomes
<1>15. Claims(u)
  <2>1. t.keep = NoUnits
    BY <1>1, <1>13 DEF Plan, Claims
  <2>2. \A i \in Items : u.keep[i] = IF i \in Some(units) THEN 0 ELSE units[i]
    BY <1>7, <1>10, <2>1 DEF NoUnits
  <2>3. QED
    BY <1>8, <1>10, <1>13, <2>2 DEF Claims
<1>16. Leaves(u)
  <2>1. ASSUME NEW i \in Items PROVE LetGo(u, i) = LetGo(t, i) /\ Sent(u, i) = Sent(t, i)
    <3>1. \A x \in Transfers : ~Pending(u, x, i) /\ ~Pending(t, x, i)
      BY <1>2, <1>10 DEF Pending
    <3>2. \A x \in Transfers : LetGo(u, i)[x] = LetGo(t, i)[x] /\ Sent(u, i)[x] = Sent(t, i)[x]
      BY <1>4, <1>8, <1>10, <1>11, <3>1 DEF LetGo, Sent
    <3>3. QED
      BY <3>2 DEF LetGo, Sent
  <2>2. QED
    BY <1>1, <1>10, <2>1 DEF Plan, Leaves
<1>17. Arrives(u)
  BY <1>1, <1>10 DEF Plan, Arrives
<1>18. Judged(u)
  BY <1>1, <1>2, <1>3, <1>4, <1>8, <1>10, <1>12 DEF Plan, Judged
<1>19. Scheduled(u)
  BY <1>8, <1>9, <1>10, <1>12 DEF Scheduled
<1>20. Rides(u)
  <2>1. \A x \in Transfers : t.next[x] # "keep" => nx[x] # "keep"
    BY <1>8
  <2>2. QED
    BY <1>1, <1>2, <1>3, <1>5, <1>10, <2>1 DEF Plan, Rides, Receipts
<1>21. Plan(u)
  BY <1>14, <1>15, <1>16, <1>17, <1>18, <1>19, <1>20 DEF Plan
<1>22. QED
  BY <1>2, <1>21, MoveOn DEF Goes, t, u, units, ln, wn, nx

LEMMA PlanLoadNext ==
    ASSUME CountInv, SerialInv, NEW r \in Requests, NEW x \in Transfers, LoadNext(r, x)
    PROVE  SerialInv'
<1> DEFINE t == txn[r]
           nx == [t.next EXCEPT ![x] = "in_transit"]
           u == [t EXCEPT !.pc = "ship", !.doc = x, !.queue = t.queue \ {x},
                          !.todo = Some(shipped[x]), !.amount = shipped[x],
                          !.next = nx]
<1>1. t \in Transactions /\ Sound(t) /\ Plan(t)
  BY OwnRecord DEF SerialInv
<1>2. t.pc = "load" /\ x \in t.queue /\ status[x] = "draft" /\ Goes(r, u)
  BY DEF LoadNext, Shippable, ShipPlan
<1>3. t.op = "completeManifest" /\ t.landed = {}
  BY <1>1, <1>2 DEF Sound, Receipts
<1>4. t.next[x] = "keep" /\ x \notin t.new /\ \A y \in t.queue : t.next[y] = "keep"
  BY <1>1, <1>2 DEF Plan, Rides, Sound
<1>5. nx[x] = "in_transit" /\ \A y \in Transfers \ {x} : nx[y] = t.next[y]
  BY <1>1 DEF Transactions
<1>6. t.new \subseteq Transfers /\ t.queue \subseteq Transfers
  BY <1>1 DEF Transactions
<1>7. \A i \in Items : i \notin Some(shipped[x]) => shipped[x][i] = 0
  BY UnitsTypes DEF CountInv, Some
<1> HIDE DEF t, nx
<1>8. /\ u.op = t.op /\ u.doc = x /\ u.amount = shipped[x] /\ u.queue = t.queue \ {x}
      /\ u.new = t.new /\ u.lines = t.lines /\ u.wants = t.wants
      /\ u.counted = t.counted /\ u.landed = t.landed
      /\ u.out = t.out /\ u.freed = t.freed /\ u.keep = t.keep
      /\ u.arrive = t.arrive /\ u.stage = t.stage /\ u.short = t.short
      /\ u.next = nx /\ u.board = t.board /\ u.onto = t.onto
      /\ u.run = t.run /\ u.runNext = t.runNext /\ u.pc = "ship"
      /\ u.todo = Some(shipped[x])
  BY <1>1 DEF Transactions
<1> HIDE DEF u
<1>9. Outcomes(u)
  <2>1. \A y \in t.new : nx[y] = t.next[y]
    BY <1>4, <1>5, <1>6
  <2>2. \A y \in Transfers \ t.new : nx[y] # "keep" =>
          status[y] = "draft" /\ nx[y] \in {"in_transit", "canceled"}
    BY <1>1, <1>2, <1>3, <1>5 DEF Plan, Outcomes
  <2>3. \A y \in t.new : t.next[y] # "received"
    BY <1>1, <1>3 DEF Plan, Outcomes
  <2>4. QED
    BY <1>1, <1>3, <1>8, <2>1, <2>2, <2>3 DEF Plan, Outcomes
<1>10. NewDrafts(u) = NewDrafts(t)
  BY <1>4, <1>5, <1>6, <1>8 DEF NewDrafts
<1>11. Claims(u)
  BY <1>1, <1>2, <1>8, <1>10 DEF Plan, Claims
<1>12. Leaves(u)
  <2>1. ASSUME NEW i \in Items PROVE LetGo(u, i) = LetGo(t, i) /\ Sent(u, i) = Sent(t, i)
    <3>1. \A y \in Transfers : /\ ~Pending(t, y, i)
                               /\ Pending(u, y, i) <=> y = x /\ i \in Some(shipped[x])
      BY <1>2, <1>8 DEF Pending
    <3>2. \A y \in Transfers \ {x} : LetGo(u, i)[y] = LetGo(t, i)[y] /\ Sent(u, i)[y] = Sent(t, i)[y]
      BY <1>5, <1>8, <3>1 DEF LetGo, Sent, OwnShipped
    <3>3. LetGo(t, i)[x] = 0 /\ Sent(t, i)[x] = 0
      BY <1>4 DEF LetGo, Sent
    <3>4. LetGo(u, i)[x] = 0 /\ Sent(u, i)[x] = 0
      BY <1>4, <1>7, <1>8, <3>1 DEF LetGo, Sent, OwnShipped
    <3>5. QED
      BY <3>2, <3>3, <3>4 DEF LetGo, Sent
  <2>2. OwnShipped(u, x) = shipped[x]
    BY <1>4, <1>8 DEF OwnShipped
  <2>3. QED
    BY <1>1, <1>2, <1>3, <1>5, <1>8, <2>1, <2>2 DEF Plan, Leaves
<1>13. Arrives(u)
  BY <1>1, <1>3, <1>8 DEF Plan, Arrives, Receipts
<1>14. Judged(u) /\ Scheduled(u)
  BY <1>3, <1>8 DEF Judged, Scheduled, Receipts
<1>15. Rides(u)
  <2>1. \A y \in Transfers : t.next[y] # "keep" => nx[y] # "keep"
    BY <1>5
  <2>2. \A y \in t.queue \ {x} : nx[y] = "keep"
    BY <1>4, <1>5, <1>6
  <2>3. \A y \in t.queue : y \in t.queue \ {x} \/ nx[y] # "keep"
    BY <1>5
  <2>4. QED
    BY <1>1, <1>2, <1>3, <1>8, <2>1, <2>2, <2>3 DEF Plan, Rides
<1>16. Plan(u)
  BY <1>9, <1>11, <1>12, <1>13, <1>14, <1>15 DEF Plan
<1>17. QED
  BY <1>2, <1>16, MoveOn DEF Goes, t, u, nx

LEMMA PlanAbort ==
    ASSUME CountInv, SerialInv, NEW r \in Requests, Abort(r)
    PROVE  SerialInv'
BY IdlePlan, MoveOn DEF Abort

\* What nobody reads may change.
LEMMA PlanUnread ==
    ASSUME SerialInv,
           UNCHANGED <<status, ride, shipped, wanted, received, truck, levelVars, txn>>
    PROVE  SerialInv'
<1>1. /\ status' = status /\ shipped' = shipped /\ wanted' = wanted /\ received' = received
      /\ ride' = ride /\ truck' = truck /\ origin' = origin /\ held' = held /\ dest' = dest
      /\ staged' = staged /\ writtenOff' = writtenOff /\ txn' = txn
  BY DEF levelVars
<1>2. TablesInv'
  BY <1>1 DEF SerialInv, TablesInv, HeldForDrafts, NoUnitLost, Accounted, OnTheRoad,
              ManifestHasLeft, Standing
<1>3. ASSUME NEW r \in Requests PROVE Plan(txn[r])'
  <2>1. Plan(txn'[r])
    BY <1>1 DEF SerialInv
  <2>2. UNCHANGED read
    BY <1>1 DEF read
  <2>3. QED
    BY <2>1, <2>2, PlanStill
<1>4. QED
  BY <1>2, <1>3 DEF SerialInv

-----------------------------------------------------------------------------
(* The commit.                                                             *)

\* What the commit of a request that is alone starts from.
LEMMA CommitFacts ==
    ASSUME CountInv, SerialInv, NEW r \in Requests, Commit(r)
    PROVE  /\ txn[r] \in Transactions /\ Sound(txn[r]) /\ txn[r].pc = "commit"
           /\ Outcomes(txn[r]) /\ Claims(txn[r]) /\ Leaves(txn[r]) /\ Arrives(txn[r])
           /\ Judged(txn[r]) /\ Scheduled(txn[r]) /\ Rides(txn[r])
           /\ txn[r].queue = {}
           /\ \A x \in Transfers, i \in Items : ~Pending(txn[r], x, i)
<1>1. txn[r] \in Transactions /\ Sound(txn[r]) /\ Plan(txn[r]) /\ txn[r].pc = "commit"
  BY OwnRecord DEF SerialInv, Commit
<1>2. txn[r].queue = {}
  BY <1>1 DEF Plan, Rides
<1>3. QED
  BY <1>1, <1>2 DEF Plan, Pending

\* The counters it publishes of one transfer.
LEMMA CommitRow ==
    ASSUME CountInv, SerialInv, NEW r \in Requests, Commit(r), NEW x \in Transfers
    PROVE  /\ status'[x] = IF txn[r].next[x] = "keep" THEN status[x] ELSE txn[r].next[x]
           /\ shipped'[x] = OwnShipped(txn[r], x)
           /\ \A i \in Items : received'[x][i] = IF x = txn[r].doc /\ i \in txn[r].landed
                                                 THEN txn[r].counted[i] ELSE received[x][i]
           /\ x \in txn[r].new => /\ status[x] = "none" /\ received[x] = NoUnits
                                  /\ txn[r].next[x] \in {"draft", "in_transit", "received"}
                                  /\ Some(txn[r].lines[x]) # {}
                                  /\ shipped'[x] = txn[r].lines[x]
           /\ x \notin txn[r].new => shipped'[x] = shipped[x]
           /\ txn[r].landed # {} =>
                 \/ txn[r].op = "receive" /\ status[txn[r].doc] = "in_transit"
                    /\ txn[r].doc \notin txn[r].new
                 \/ txn[r].op = "complete" /\ txn[r].doc \in txn[r].new
                    /\ txn[r].next[txn[r].doc] \in {"in_transit", "received"}
<1> DEFINE t == txn[r]
<1>1. t \in Transactions /\ Sound(t) /\ Outcomes(t) /\ NothingYet
  BY CommitFacts DEF CountInv
<1>2. /\ status'[x] = IF t.next[x] = "keep" THEN status[x] ELSE t.next[x]
      /\ shipped'[x] = OwnShipped(t, x) /\ received'[x] = OwnReceived(t, x)
  BY DEF Commit
<1>3. \A i \in Items : received'[x][i] = IF x = t.doc /\ i \in t.landed
                                         THEN t.counted[i] ELSE received[x][i]
  BY <1>2 DEF OwnReceived
<1>4. x \in t.new => /\ status[x] = "none" /\ received[x] = NoUnits
                     /\ t.next[x] \in {"draft", "in_transit", "received"}
                     /\ Some(t.lines[x]) # {}
                     /\ OwnShipped(t, x) = t.lines[x]
  BY <1>1 DEF Sound, NothingYet, Outcomes, OwnShipped
<1>5. x \notin t.new => OwnShipped(t, x) = shipped[x]
  BY DEF OwnShipped
<1>6. t.landed # {} =>
         \/ t.op = "receive" /\ status[t.doc] = "in_transit" /\ t.doc \notin t.new
         \/ t.op = "complete" /\ t.doc \in t.new
            /\ t.next[t.doc] \in {"in_transit", "received"}
  BY <1>1 DEF Sound, Outcomes, Receipts
<1>7. QED
  BY <1>2, <1>3, <1>4, <1>5, <1>6

\* A row that the receipt does not count keeps its counters.
LEMMA NotLanded ==
    ASSUME CountInv, SerialInv, NEW r \in Requests, Commit(r), NEW x \in Transfers,
           \/ x \in txn[r].new /\ txn[r].next[x] = "draft"
           \/ x \notin txn[r].new /\ status[x] # "in_transit"
    PROVE  received'[x] = received[x] /\ (x = txn[r].doc => txn[r].landed = {})
<1> DEFINE t == txn[r]
<1>1. x = t.doc => t.landed = {}
  BY CommitRow
<1>2. \A i \in Items : received'[x][i] = received[x][i]
  BY <1>1, CommitRow
<1>3. received'[x] = OwnReceived(t, x) /\ received[x] \in [Items -> Nat]
  BY UnitsTypes DEF Commit, CountInv, Units
<1>4. received'[x] = [i \in Items |-> received'[x][i]]
  BY <1>3 DEF OwnReceived
<1>5. QED
  BY <1>1, <1>2, <1>3, <1>4

LEMMA CommitStanding ==
    ASSUME CountInv, SerialInv, NEW r \in Requests, Commit(r)
    PROVE  Standing'
<1> DEFINE t == txn[r]
<1> SUFFICES ASSUME NEW x \in Transfers
             PROVE  /\ status'[x] = "draft" => Some(shipped'[x]) # {} /\ received'[x] = NoUnits
                    /\ status'[x] = "in_transit" =>
                          \E i \in Items : received'[x][i] < shipped'[x][i]
                    /\ status'[x] = "none" => shipped'[x] = NoUnits /\ ride'[x] = NoManifest
  BY DEF Standing, Some
<1>1. /\ t \in Transactions /\ Sound(t) /\ t.pc = "commit" /\ Outcomes(t) /\ Judged(t) /\ Rides(t)
  BY CommitFacts
<1>2. /\ status'[x] = IF t.next[x] = "keep" THEN status[x] ELSE t.next[x]
      /\ shipped'[x] = OwnShipped(t, x) /\ received'[x] = OwnReceived(t, x)
      /\ ride'[x] = IF x \in t.board THEN t.onto ELSE ride[x]
  BY DEF Commit
<1>3. /\ status[x] = "draft" => Some(shipped[x]) # {} /\ received[x] = NoUnits
      /\ status[x] = "in_transit" => \E i \in Items : received[x][i] < shipped[x][i]
      /\ status[x] = "none" => shipped[x] = NoUnits /\ ride[x] = NoManifest
  BY DEF SerialInv, TablesInv, Standing
<1>4. CASE x \in t.new /\ t.next[x] = "draft"
  <2>1. /\ received[x] = NoUnits /\ shipped'[x] = t.lines[x] /\ Some(t.lines[x]) # {}
        /\ status'[x] = "draft"
    BY <1>4, CommitRow
  <2>2. received'[x] = NoUnits
    BY <1>4, <2>1, NotLanded
  <2>3. QED
    BY <2>1, <2>2
<1>5. CASE x \in t.new /\ t.next[x] # "draft"
  <2>1. /\ received[x] = NoUnits /\ shipped'[x] = t.lines[x] /\ Some(t.lines[x]) # {}
        /\ status'[x] = t.next[x] /\ t.next[x] \in {"in_transit", "received"}
        /\ status[x] = "none"
    BY <1>5, CommitRow
  <2>2. CASE x = t.doc /\ t.op \in Receipts
    <3>1. t.next[x] # "received" =>
             \E i \in Items : ~(OwnReceived(t, x)[i] >= OwnShipped(t, x)[i])
      BY <1>1, <2>2 DEF Judged
    <3>2. t.lines[x] \in Units /\ OwnReceived(t, x) \in Units
      <4>1. t.lines[x] \in Units /\ t.counted \in Units
        BY <1>1 DEF Transactions
      <4>2. \A i \in Items : received[x][i] \in Nat
        BY UnitsTypes DEF CountInv
      <4>3. QED
        BY <4>1, <4>2 DEF Units, OwnReceived
    <3>3. QED
      BY <1>2, <2>1, <3>1, <3>2 DEF Units
  <2>3. CASE ~(x = t.doc /\ t.op \in Receipts)
    <3>1. x = t.doc => t.landed = {}
      BY <1>1, <2>3 DEF Sound
    <3>2. \A i \in Items : received'[x][i] = 0
      BY <2>1, <3>1, CommitRow DEF NoUnits
    <3>3. PICK i \in Items : t.lines[x][i] > 0
      BY <2>1 DEF Some
    <3>4. received'[x][i] < shipped'[x][i]
      BY <2>1, <3>2, <3>3
    <3>5. QED
      BY <2>1, <3>4
  <2>4. QED
    BY <2>2, <2>3
<1>6. CASE x \notin t.new /\ status[x] = "in_transit"
  <2>1. shipped'[x] = shipped[x]
    BY <1>6, CommitRow
  <2>2. t.next[x] = "keep" \/ t.next[x] \in {"received", "closed_short"}
    BY <1>1, <1>6 DEF Outcomes
  <2>3. CASE t.next[x] # "keep"
    BY <1>2, <2>2, <2>3
  <2>4. CASE t.next[x] = "keep"
    <3>1. CASE x = t.doc /\ t.op \in Receipts
      <4>1. \E i \in Items : ~(OwnReceived(t, x)[i] >= OwnShipped(t, x)[i])
        BY <1>1, <2>4, <3>1 DEF Judged
      <4>2. OwnReceived(t, x) \in Units /\ shipped[x] \in Units
        <5>1. t.counted \in Units
          BY <1>1 DEF Transactions
        <5>2. shipped[x] \in Units /\ \A i \in Items : received[x][i] \in Nat
          BY UnitsTypes DEF CountInv
        <5>3. QED
          BY <5>1, <5>2 DEF Units, OwnReceived
      <4>3. QED
        BY <1>2, <1>6, <2>1, <2>4, <4>1, <4>2 DEF Units
    <3>2. CASE ~(x = t.doc /\ t.op \in Receipts)
      <4>1. x = t.doc => t.landed = {}
        BY <1>1, <3>2 DEF Sound
      <4>2. \A i \in Items : received'[x][i] = received[x][i]
        BY <4>1, CommitRow
      <4>3. QED
        BY <1>2, <1>3, <1>6, <2>1, <2>4, <4>2
    <3>3. QED
      BY <3>1, <3>2
  <2>5. QED
    BY <2>3, <2>4
<1>7. CASE x \notin t.new /\ status[x] # "in_transit"
  <2>1. shipped'[x] = shipped[x]
    BY <1>7, CommitRow
  <2>2. received'[x] = received[x]
    BY <1>7, NotLanded
  <2>3. t.next[x] = "keep" \/ (status[x] = "draft" /\ t.next[x] \in {"in_transit", "canceled"})
    BY <1>1, <1>7 DEF Outcomes
  <2>4. status[x] = "draft" => \E i \in Items : received'[x][i] < shipped'[x][i]
    <3>1. ASSUME status[x] = "draft" PROVE \E i \in Items : received'[x][i] < shipped'[x][i]
      <4>1. PICK i \in Items : shipped[x][i] > 0
        BY <1>3, <3>1 DEF Some
      <4>2. received'[x][i] = 0
        BY <1>3, <2>2, <3>1 DEF NoUnits
      <4>3. received'[x][i] < shipped'[x][i]
        BY <2>1, <4>1, <4>2
      <4>4. QED
        BY <4>3
    <3>2. QED
      BY <3>1
  <2>5. status[x] = "none" => ride'[x] = NoManifest
    <3>1. status[x] = "none" /\ x \in t.board => t.op # "build"
      BY <1>1 DEF Rides
    <3>2. t.op # "build" => t.onto = NoManifest
      BY <1>1 DEF Rides
    <3>3. QED
      BY <1>2, <1>3, <3>1, <3>2
  <2>6. QED
    BY <1>2, <1>3, <1>7, <2>1, <2>2, <2>3, <2>4, <2>5
<1>8. QED
  BY <1>4, <1>5, <1>6, <1>7

\* Nobody becomes a draft but what the request inserts.
LEMMA CommitDrafts ==
    ASSUME CountInv, SerialInv, NEW r \in Requests, Commit(r), NEW x \in Transfers,
           status'[x] = "draft"
    PROVE  \/ status[x] = "draft" /\ txn[r].next[x] = "keep" /\ x \notin txn[r].new
           \/ status[x] = "none" /\ txn[r].next[x] = "draft" /\ x \in txn[r].new
<1> DEFINE t == txn[r]
<1>1. Outcomes(t) /\ Sound(t)
  BY CommitFacts
<1>2. status'[x] = IF t.next[x] = "keep" THEN status[x] ELSE t.next[x]
  BY CommitRow
<1>3. QED
  BY <1>1, <1>2 DEF Outcomes, Sound

LEMMA CommitManifests ==
    ASSUME CountInv, SerialInv, NEW r \in Requests, Commit(r)
    PROVE  ManifestHasLeft'
<1> DEFINE t == txn[r]
<1> SUFFICES ASSUME NEW x \in Transfers, ride'[x] # NoManifest
             PROVE  /\ truck'[ride'[x]] = "completed" => status'[x] # "draft"
                    /\ truck'[ride'[x]] # "canceled"
  BY DEF ManifestHasLeft
<1>1. Rides(t) /\ t.pc = "commit" /\ t.queue = {}
  BY CommitFacts
<1>2. ride'[x] = IF x \in t.board THEN t.onto ELSE ride[x]
  BY DEF Commit
<1>3. \A m \in Manifests : truck'[m] = IF m = t.run /\ t.runNext # "keep" THEN t.runNext
                                                                      ELSE truck[m]
  BY DEF Commit
<1>4. ManifestHasLeft /\ Standing
  BY DEF SerialInv, TablesInv
<1> HIDE DEF t
<1>5. CASE x \in t.board
  <2>1. t.op = "build" /\ ride'[x] = t.run /\ t.run \in Manifests
    BY <1>1, <1>2, <1>5 DEF Rides
  <2>2. truck'[t.run] = "open"
    BY <1>1, <1>3, <2>1 DEF Rides
  <2>3. QED
    BY <2>1, <2>2
<1>6. CASE x \notin t.board
  <2>1. ride'[x] = ride[x] /\ ride[x] \in Manifests
    BY <1>2, <1>6 DEF CountInv, TypeOK
  <2>2. status'[x] = "draft" => status[x] = "draft" /\ t.next[x] = "keep"
    BY <1>4, <2>1, CommitDrafts DEF Standing, t
  <2>3. truck[ride[x]] # "canceled" /\ (truck[ride[x]] = "completed" => status[x] # "draft")
    BY <1>4, <2>1 DEF ManifestHasLeft
  <2>4. CASE ride[x] = t.run /\ t.runNext # "keep"
    <3>1. truck'[ride[x]] = t.runNext
      BY <1>3, <2>1, <2>4
    <3>2. t.runNext # "canceled"
      BY <1>1, <1>6, <2>4 DEF Rides
    <3>3. t.runNext = "completed" => status'[x] # "draft"
      BY <1>1, <2>2, <2>4 DEF Rides
    <3>4. QED
      BY <2>1, <3>1, <3>2, <3>3
  <2>5. CASE ~(ride[x] = t.run /\ t.runNext # "keep")
    BY <1>3, <2>1, <2>2, <2>3, <2>5
  <2>6. QED
    BY <2>4, <2>5
<1>7. QED
  BY <1>5, <1>6

\* The units a transfer holds at the origin, and those it has on the road.
Holds(i) == [x \in Transfers |-> IF status[x] = "draft" THEN shipped[x][i] ELSE 0]
Rolling(i) == [x \in Transfers |-> IF status[x] = "in_transit"
                                   THEN shipped[x][i] - received[x][i] ELSE 0]

LEMMA SumWhere ==
    ASSUME NEW st, NEW state, NEW f, \A x \in Transfers : f[x] \in Int,
           NEW g, \A x \in Transfers : g[x] = IF st[x] = state THEN f[x] ELSE 0
    PROVE  SumFunctionOnSet(f, {x \in Transfers : st[x] = state}) = SumOf(g)
<1> DEFINE T == {x \in Transfers : st[x] = state}
<1>1. IsFiniteSet(Transfers) /\ T \in SUBSET Transfers
  BY TransfersAssumption
<1>2. \A x \in T : f[x] \in Int /\ g[x] = f[x]
  OBVIOUS
<1>3. \A x \in Transfers \ T : g[x] = 0
  OBVIOUS
<1> HIDE DEF T
<1>4. SumFunctionOnSet(f, T) = SumFunctionOnSet(g, Transfers)
  BY <1>1, <1>2, <1>3, SumWithin
<1>5. QED
  BY <1>4 DEF SumOf, T

LEMMA TotalsAreSums ==
    ASSUME TypeOK, NEW i \in Items
    PROVE  /\ SumFunctionOnSet([x \in Transfers |-> shipped[x][i]],
                               {x \in Transfers : status[x] = "draft"}) = SumOf(Holds(i))
           /\ OnTheRoad(i) = SumOf(Rolling(i))
           /\ \A x \in Transfers : Holds(i)[x] \in Nat /\ Rolling(i)[x] \in Int
<1> DEFINE f == [x \in Transfers |-> shipped[x][i]]
           g == [x \in Transfers |-> shipped[x][i] - received[x][i]]
<1>1. \A x \in Transfers : shipped[x][i] \in Nat /\ received[x][i] \in Nat
  BY UnitsTypes
<1>2. \A x \in Transfers : /\ f[x] = shipped[x][i] /\ g[x] = shipped[x][i] - received[x][i]
                           /\ f[x] \in Int /\ g[x] \in Int
  BY <1>1
<1>3. \A x \in Transfers :
         /\ Holds(i)[x] = IF status[x] = "draft" THEN f[x] ELSE 0
         /\ Rolling(i)[x] = IF status[x] = "in_transit" THEN g[x] ELSE 0
  BY <1>2 DEF Holds, Rolling
<1>4. OnTheRoad(i) = SumFunctionOnSet(g, {x \in Transfers : status[x] = "in_transit"})
  BY DEF OnTheRoad
<1>5. SumFunctionOnSet(f, {x \in Transfers : status[x] = "draft"}) = SumOf(Holds(i))
  <2> DEFINE s == Holds(i)
             st == status
  <2>1. /\ \A x \in Transfers : f[x] \in Int
        /\ \A x \in Transfers : s[x] = IF st[x] = "draft" THEN f[x] ELSE 0
    BY <1>2, <1>3
  <2> HIDE DEF f, s, st
  <2>2. SumFunctionOnSet(f, {x \in Transfers : st[x] = "draft"}) = SumOf(s)
    BY <2>1, SumWhere
  <2>3. QED
    BY <2>2 DEF s, st
<1>6. SumFunctionOnSet(g, {x \in Transfers : status[x] = "in_transit"}) = SumOf(Rolling(i))
  <2> DEFINE s == Rolling(i)
  <2>1. /\ \A x \in Transfers : g[x] \in Int
        /\ \A x \in Transfers : s[x] = IF status[x] = "in_transit" THEN g[x] ELSE 0
    BY <1>2, <1>3
  <2> HIDE DEF g, s
  <2>2. QED
    BY <2>1, SumWhere DEF s
<1>7. \A x \in Transfers : Holds(i)[x] \in Nat /\ Rolling(i)[x] \in Int
  BY <1>1, <1>2, <1>3
<1>8. QED
  BY <1>4, <1>5, <1>6, <1>7

\* The same of the next state.
LEMMA TotalsAreSumsNext ==
    ASSUME TypeOK', NEW i \in Items
    PROVE  /\ SumFunctionOnSet([x \in Transfers |-> shipped'[x][i]],
                               {x \in Transfers : status'[x] = "draft"}) = SumOf(Holds(i)')
           /\ OnTheRoad(i)' = SumOf(Rolling(i)')
           /\ \A x \in Transfers : Holds(i)'[x] \in Nat /\ Rolling(i)'[x] \in Int
<1> DEFINE f == [x \in Transfers |-> shipped'[x][i]]
           g == [x \in Transfers |-> shipped'[x][i] - received'[x][i]]
<1>1. \A x \in Transfers : shipped'[x][i] \in Nat /\ received'[x][i] \in Nat
  BY DEF TypeOK, Units
<1>2. \A x \in Transfers : /\ f[x] = shipped'[x][i] /\ g[x] = shipped'[x][i] - received'[x][i]
                           /\ f[x] \in Int /\ g[x] \in Int
  BY <1>1
<1>3. \A x \in Transfers :
         /\ Holds(i)'[x] = IF status'[x] = "draft" THEN f[x] ELSE 0
         /\ Rolling(i)'[x] = IF status'[x] = "in_transit" THEN g[x] ELSE 0
  BY <1>2 DEF Holds, Rolling
<1>4. OnTheRoad(i)' = SumFunctionOnSet(g, {x \in Transfers : status'[x] = "in_transit"})
  BY DEF OnTheRoad
<1>5. SumFunctionOnSet(f, {x \in Transfers : status'[x] = "draft"}) = SumOf(Holds(i)')
  <2> DEFINE s == Holds(i)'
  <2>1. /\ \A x \in Transfers : f[x] \in Int
        /\ \A x \in Transfers : s[x] = IF status'[x] = "draft" THEN f[x] ELSE 0
    BY <1>2, <1>3
  <2> HIDE DEF f, s
  <2>2. QED
    BY <2>1, SumWhere DEF s
<1>6. SumFunctionOnSet(g, {x \in Transfers : status'[x] = "in_transit"}) = SumOf(Rolling(i)')
  <2> DEFINE s == Rolling(i)'
  <2>1. /\ \A x \in Transfers : g[x] \in Int
        /\ \A x \in Transfers : s[x] = IF status'[x] = "in_transit" THEN g[x] ELSE 0
    BY <1>2, <1>3
  <2> HIDE DEF g, s
  <2>2. QED
    BY <2>1, SumWhere DEF s
<1>7. \A x \in Transfers : Holds(i)'[x] \in Nat /\ Rolling(i)'[x] \in Int
  BY <1>1, <1>2, <1>3
<1>8. QED
  BY <1>4, <1>5, <1>6, <1>7

\* The holds of the drafts: what the request lets go of, and what it claims.
LEMMA CommitHeld ==
    ASSUME CountInv, SerialInv, NEW r \in Requests, Commit(r)
    PROVE  HeldForDrafts'
<1> DEFINE t == txn[r]
<1>0. CountInv' /\ TypeOK' /\ TypeOK
  BY StepCommit DEF CountInv
<1> SUFFICES ASSUME NEW i \in Items
             PROVE  held'[i] = SumFunctionOnSet([x \in Transfers |-> shipped'[x][i]],
                                                {x \in Transfers : status'[x] = "draft"})
  BY DEF HeldForDrafts
<1>1. /\ t \in Transactions /\ Sound(t) /\ t.pc = "commit" /\ Outcomes(t) /\ Claims(t)
      /\ Leaves(t) /\ \A x \in Transfers : ~Pending(t, x, i)
  BY CommitFacts
<1> DEFINE claim == [x \in Transfers |-> IF x \in NewDrafts(t) THEN t.lines[x][i] ELSE 0]
           both == [x \in Transfers |-> Holds(i)[x] + claim[x]]
<1>2. \A x \in Transfers : t.lines[x][i] \in Nat /\ shipped[x][i] \in Nat
  BY <1>0, <1>1, UnitsTypes DEF Transactions, Units
<1>3. \A x \in Transfers : claim[x] \in Nat /\ LetGo(t, i)[x] \in Nat
                           /\ Holds(i)[x] \in Nat /\ Holds(i)'[x] \in Nat
  BY <1>1, <1>2, BookTypes, TotalsAreSums, TotalsAreSumsNext, <1>0
<1>4. ASSUME NEW x \in Transfers
      PROVE  both[x] = Holds(i)'[x] + LetGo(t, i)[x] /\ LetGo(t, i)[x] <= Holds(i)[x]
  <2>1. status'[x] = IF t.next[x] = "keep" THEN status[x] ELSE t.next[x]
    BY CommitRow
  <2>2. /\ Holds(i)[x] = IF status[x] = "draft" THEN shipped[x][i] ELSE 0
        /\ Holds(i)'[x] = IF status'[x] = "draft" THEN shipped'[x][i] ELSE 0
        /\ LetGo(t, i)[x] = IF status[x] = "draft" /\ t.next[x] # "keep" THEN shipped[x][i]
                                                                         ELSE 0
        /\ both[x] = Holds(i)[x] + claim[x]
    BY <1>1 DEF Holds, LetGo
  <2>3. LetGo(t, i)[x] <= Holds(i)[x]
    BY <1>2, <2>2
  <2>4. CASE x \in t.new
    <3>1. status[x] = "none" /\ shipped'[x] = t.lines[x]
          /\ t.next[x] \in {"draft", "in_transit", "received"}
      BY <2>4, CommitRow
    <3>2. claim[x] = IF t.next[x] = "draft" THEN t.lines[x][i] ELSE 0
      BY <2>4 DEF NewDrafts
    <3>3. QED
      BY <1>2, <2>1, <2>2, <2>3, <3>1, <3>2
  <2>5. CASE x \notin t.new
    <3>1. shipped'[x] = shipped[x] /\ claim[x] = 0
      BY <2>5, CommitRow DEF NewDrafts
    <3>2. t.next[x] # "draft"
      BY <1>1, <2>5 DEF Outcomes
    <3> HIDE DEF claim, both, t
    <3>3. QED
      BY <1>2, <2>1, <2>2, <2>3, <3>1, <3>2
  <2>6. QED
    BY <2>4, <2>5
<1>5. IsFiniteSet(Transfers)
  BY TransfersAssumption
<1>6. SumOf(claim) = t.keep[i]
  <2>1. CASE NewDrafts(t) = {}
    <3>1. \A x \in Transfers : claim[x] = 0
      BY <2>1
    <3>2. t.keep[i] = 0
      BY <1>1, <2>1 DEF Claims, NoUnits
    <3> HIDE DEF claim
    <3>3. QED
      BY <1>5, <3>1, <3>2, SumOfZeros DEF SumOf
  <2>2. CASE NewDrafts(t) # {}
    <3>1. PICK y \in NewDrafts(t) : TRUE
      BY <2>2
    <3>2. y \in Transfers /\ \A x \in NewDrafts(t) : x = y
      BY <1>1, <3>1 DEF Claims, NewDrafts, Transactions
    <3>3. claim[y] = t.lines[y][i] /\ \A x \in Transfers \ {y} : claim[x] = 0
      BY <3>1, <3>2
    <3>4. t.keep[i] = t.lines[y][i]
      BY <1>1, <3>1 DEF Claims
    <3>5. claim[y] \in Int
      BY <1>3, <3>2
    <3> HIDE DEF claim
    <3>6. SumFunctionOnSet(claim, Transfers) = claim[y]
      BY <1>5, <3>2, <3>3, <3>5, SumOfOne
    <3>7. QED
      BY <3>3, <3>4, <3>6 DEF SumOf
  <2>3. QED
    BY <2>1, <2>2
<1> DEFINE now == Holds(i)
           then == Holds(i)'
           gone == LetGo(t, i)
<1>7. \A x \in Transfers : /\ now[x] \in Nat /\ then[x] \in Nat /\ gone[x] \in Nat
                           /\ now[x] \in Int /\ then[x] \in Int /\ gone[x] \in Int
                           /\ claim[x] \in Int
                           /\ both[x] = now[x] + claim[x] /\ both[x] = then[x] + gone[x]
                           /\ gone[x] <= now[x]
  BY <1>3, <1>4
<1>8. held[i] = SumOf(now) /\ t.freed[i] = SumOf(gone)
  BY <1>0, <1>1, TotalsAreSums DEF SerialInv, TablesInv, HeldForDrafts, Leaves
<1>9. SumFunctionOnSet([x \in Transfers |-> shipped'[x][i]],
                       {x \in Transfers : status'[x] = "draft"}) = SumOf(then)
  BY <1>0, TotalsAreSumsNext
<1>10. held'[i] = Clamp(held[i] - t.freed[i]) + t.keep[i]
  BY DEF Commit
<1> HIDE DEF t, claim, both, now, then, gone
<1>11. SumFunctionOnSet(both, Transfers) = SumFunctionOnSet(now, Transfers)
                                           + SumFunctionOnSet(claim, Transfers)
  BY <1>5, <1>7, SumPlus
<1>12. SumFunctionOnSet(both, Transfers) = SumFunctionOnSet(then, Transfers)
                                           + SumFunctionOnSet(gone, Transfers)
  BY <1>5, <1>7, SumPlus
<1>13. SumFunctionOnSet(gone, Transfers) <= SumFunctionOnSet(now, Transfers)
  BY <1>5, <1>7, SumGrows
<1>14. /\ SumFunctionOnSet(gone, Transfers) \in Nat /\ SumFunctionOnSet(now, Transfers) \in Nat
       /\ SumFunctionOnSet(then, Transfers) \in Nat
  BY <1>5, <1>7, SumIsNat
<1>15. SumFunctionOnSet(claim, Transfers) \in Int
  BY <1>5, <1>7, SumIsInt
<1>16. QED
  BY <1>6, <1>8, <1>9, <1>10, <1>11, <1>12, <1>13, <1>14, <1>15 DEF SumOf, Clamp

\* What a row loses on the road has arrived or is written off; what was sent
\* is on the road.
LEMMA CommitRoad ==
    ASSUME CountInv, SerialInv, NEW r \in Requests, Commit(r), NEW x \in Transfers,
           NEW i \in Items, NEW got, NEW lost,
           got = (IF x = txn[r].doc /\ i \in txn[r].landed
                  THEN txn[r].counted[i] - received[x][i] ELSE 0),
           lost = (IF x = txn[r].doc /\ txn[r].op = "closeShort"
                   THEN shipped[x][i] - received[x][i] ELSE 0)
    PROVE  /\ Rolling(i)[x] + Sent(txn[r], i)[x] <= Rolling(i)'[x] + got + lost
           /\ got \in Nat /\ lost \in Nat
<1> DEFINE t == txn[r]
<1>1. /\ t \in Transactions /\ Sound(t) /\ t.pc = "commit" /\ Outcomes(t) /\ Arrives(t)
      /\ Judged(t) /\ \A y \in Transfers : ~Pending(t, y, i)
  BY CommitFacts
<1>2. /\ shipped[x][i] \in Nat /\ received[x][i] \in Nat /\ t.lines[x][i] \in Nat
      /\ t.counted[i] \in Nat /\ received[x][i] <= shipped[x][i]
  BY <1>1, UnitsTypes DEF CountInv, Transactions, Units
<1>3. got \in Nat /\ lost \in Nat
  <2>1. CASE x = t.doc /\ i \in t.landed
    <3>1. t.arrive[i] + t.stage[i] = t.counted[i] - received[x][i]
      BY <1>1, <2>1 DEF Arrives
    <3>2. t.arrive[i] \in Nat /\ t.stage[i] \in Nat
      BY <1>1 DEF Transactions, Units
    <3>3. QED
      BY <1>2, <2>1, <3>1, <3>2
  <2>2. CASE ~(x = t.doc /\ i \in t.landed)
    BY <1>2, <2>2
  <2>3. QED
    BY <2>1, <2>2
<1>4. /\ status'[x] = IF t.next[x] = "keep" THEN status[x] ELSE t.next[x]
      /\ received'[x][i] = IF x = t.doc /\ i \in t.landed THEN t.counted[i] ELSE received[x][i]
  BY CommitRow
<1>5. /\ Rolling(i)[x] = IF status[x] = "in_transit" THEN shipped[x][i] - received[x][i] ELSE 0
      /\ Rolling(i)'[x] = IF status'[x] = "in_transit" THEN shipped'[x][i] - received'[x][i]
                                                       ELSE 0
      /\ Sent(t, i)[x] = IF /\ t.next[x] \in {"in_transit", "received"}
                            /\ status[x] = "draft" \/ x \in t.new
                         THEN OwnShipped(t, x)[i] ELSE 0
  BY <1>1 DEF Rolling, Sent
<1>6. (x = t.doc /\ t.op \in Receipts /\ t.next[x] = "received") =>
          (IF i \in t.landed THEN t.counted[i] ELSE received[x][i]) >= OwnShipped(t, x)[i]
  BY <1>1 DEF Judged, OwnReceived
<1>7. CASE x \in t.new
  <2>1. /\ status[x] = "none" /\ shipped'[x] = t.lines[x] /\ OwnShipped(t, x) = t.lines[x]
        /\ t.next[x] \in {"draft", "in_transit", "received"}
        /\ received[x][i] = 0
    BY <1>7, CommitRow DEF NoUnits, OwnShipped
  <2>2. t.next[x] = "received" => x = t.doc /\ t.op \in Receipts
    BY <1>1, <1>7 DEF Outcomes, Receipts
  <2> HIDE DEF t
  <2>3. CASE t.next[x] = "received"
    BY <1>2, <1>3, <1>4, <1>5, <1>6, <1>7, <2>1, <2>2, <2>3 DEF t
  <2>4. CASE t.next[x] # "received"
    BY <1>2, <1>3, <1>4, <1>5, <1>7, <2>1, <2>4 DEF t
  <2>5. QED
    BY <2>3, <2>4
<1>8. CASE x \notin t.new /\ status[x] = "in_transit"
  <2>1. shipped'[x] = shipped[x] /\ OwnShipped(t, x) = shipped[x]
    BY <1>8, CommitRow DEF OwnShipped
  <2>2. t.next[x] = "keep" \/ /\ x = t.doc
                              /\ \/ t.op = "receive" /\ t.next[x] = "received"
                                 \/ t.op = "closeShort" /\ t.next[x] = "closed_short"
    BY <1>1, <1>8 DEF Outcomes
  <2>3. CASE t.next[x] = "keep"
    <3> HIDE DEF t
    <3>1. QED
      BY <1>2, <1>3, <1>4, <1>5, <1>8, <2>1, <2>3 DEF t
  <2>4. CASE x = t.doc /\ t.op = "receive" /\ t.next[x] = "received"
    <3>1. t.op \in Receipts
      BY <2>4 DEF Receipts
    <3> HIDE DEF t
    <3>2. QED
      BY <1>2, <1>3, <1>4, <1>5, <1>6, <1>8, <2>1, <2>4, <3>1 DEF t
  <2>5. CASE x = t.doc /\ t.op = "closeShort" /\ t.next[x] = "closed_short"
    <3> HIDE DEF t
    <3>1. QED
      BY <1>2, <1>3, <1>4, <1>5, <1>8, <2>1, <2>5 DEF t
  <2>6. QED
    BY <2>2, <2>3, <2>4, <2>5
<1>9. CASE x \notin t.new /\ status[x] # "in_transit"
  <2>1. shipped'[x] = shipped[x] /\ OwnShipped(t, x) = shipped[x] /\ received'[x] = received[x]
    BY <1>9, CommitRow, NotLanded DEF OwnShipped
  <2>2. \/ t.next[x] = "keep"
        \/ status[x] = "draft" /\ t.next[x] \in {"in_transit", "canceled"}
    BY <1>1, <1>9 DEF Outcomes
  <2>3. status[x] = "draft" => received[x][i] = 0
    BY DEF SerialInv, TablesInv, Standing, NoUnits
  <2>4. received'[x][i] = received[x][i] /\ shipped'[x][i] = shipped[x][i]
        /\ OwnShipped(t, x)[i] = shipped[x][i]
    BY <2>1
  <2> HIDE DEF t
  <2>5. CASE t.next[x] = "keep"
    BY <1>2, <1>3, <1>4, <1>5, <1>9, <2>5 DEF t
  <2>6. CASE status[x] = "draft" /\ t.next[x] = "in_transit"
    <3>1. received[x][i] = 0 /\ received'[x][i] = 0 /\ shipped'[x][i] = shipped[x][i]
          /\ status'[x] = "in_transit" /\ OwnShipped(t, x)[i] = shipped[x][i]
      BY <1>4, <2>3, <2>4, <2>6
    <3>2. Rolling(i)[x] = 0 /\ Sent(t, i)[x] = shipped[x][i]
      BY <1>5, <2>6, <3>1
    <3>3. Rolling(i)'[x] = shipped[x][i]
      BY <1>2, <1>5, <3>1
    <3>4. QED
      BY <1>2, <1>3, <3>2, <3>3 DEF t
  <2>7. CASE status[x] = "draft" /\ t.next[x] = "canceled"
    BY <1>2, <1>3, <1>4, <1>5, <1>9, <2>7 DEF t
  <2>8. QED
    BY <2>2, <2>5, <2>6, <2>7
<1>10. QED
  BY <1>3, <1>7, <1>8, <1>9

LEMMA CommitAccounted ==
    ASSUME CountInv, SerialInv, NEW r \in Requests, Commit(r)
    PROVE  NoUnitLost'
<1> DEFINE t == txn[r]
<1>0. TypeOK' /\ TypeOK
  BY StepCommit DEF CountInv
<1> SUFFICES ASSUME NEW i \in Items PROVE Accounted(i)' >= Stock[i]
  BY DEF NoUnitLost
<1>1. /\ t \in Transactions /\ Sound(t) /\ Outcomes(t) /\ Leaves(t) /\ Arrives(t)
  BY CommitFacts
<1>2. IsFiniteSet(Transfers)
  BY TransfersAssumption
<1> DEFINE now == Rolling(i)
           then == Rolling(i)'
           sent == Sent(t, i)
           got == [x \in Transfers |-> IF x = t.doc /\ i \in t.landed
                                       THEN t.counted[i] - received[x][i] ELSE 0]
           lost == [x \in Transfers |-> IF x = t.doc /\ t.op = "closeShort"
                                        THEN shipped[x][i] - received[x][i] ELSE 0]
           left == [x \in Transfers |-> now[x] + sent[x]]
           back == [x \in Transfers |-> got[x] + lost[x]]
           right == [x \in Transfers |-> then[x] + back[x]]
<1>3. ASSUME NEW x \in Transfers
      PROVE  /\ now[x] + sent[x] <= then[x] + got[x] + lost[x]
             /\ got[x] \in Nat /\ lost[x] \in Nat
  <2>1. /\ got[x] = (IF x = t.doc /\ i \in t.landed THEN t.counted[i] - received[x][i] ELSE 0)
        /\ lost[x] = (IF x = t.doc /\ t.op = "closeShort"
                      THEN shipped[x][i] - received[x][i] ELSE 0)
    OBVIOUS
  <2> HIDE DEF got, lost
  <2>2. QED
    BY <2>1, CommitRoad
<1>4. \A x \in Transfers : now[x] \in Int /\ then[x] \in Int /\ sent[x] \in Nat
  BY <1>0, <1>1, TotalsAreSums, TotalsAreSumsNext, BookTypes
<1>5. \A x \in Transfers : left[x] = now[x] + sent[x] /\ right[x] = then[x] + back[x]
                           /\ back[x] = got[x] + lost[x]
  OBVIOUS
<1>6. OnTheRoad(i) = SumOf(now) /\ OnTheRoad(i)' = SumOf(then) /\ t.out[i] = SumOf(sent)
  BY <1>0, <1>1, TotalsAreSums, TotalsAreSumsNext DEF Leaves
<1>7. SumOf(got) = t.arrive[i] + t.stage[i]
  <2>1. CASE i \in t.landed
    <3>1. t.doc \in Transfers
      BY <1>1, <2>1 DEF Sound, CountFits
    <3>2. t.arrive[i] + t.stage[i] = got[t.doc]
      BY <1>1, <2>1, <3>1 DEF Arrives
    <3>3. got[t.doc] \in Int /\ \A x \in Transfers \ {t.doc} : got[x] = 0
      BY <1>3, <3>1
    <3> HIDE DEF got
    <3>4. QED
      BY <1>2, <3>1, <3>2, <3>3, SumOfOne DEF SumOf
  <2>2. CASE i \notin t.landed
    <3>1. t.arrive[i] + t.stage[i] = 0
      BY <1>1, <2>2 DEF Arrives
    <3>2. \A x \in Transfers : got[x] = 0
      BY <2>2
    <3> HIDE DEF got
    <3>3. QED
      BY <1>2, <3>1, <3>2, SumOfZeros DEF SumOf
  <2>3. QED
    BY <2>1, <2>2
<1>8. SumOf(lost) = t.short[i]
  <2>1. CASE t.op = "closeShort"
    <3>1. t.doc \in Transfers
      BY <1>1, <2>1 DEF Outcomes
    <3>2. t.short[i] = lost[t.doc]
      BY <1>1, <2>1, <3>1 DEF Arrives
    <3>3. lost[t.doc] \in Int /\ \A x \in Transfers \ {t.doc} : lost[x] = 0
      BY <1>3, <3>1
    <3> HIDE DEF lost
    <3>4. QED
      BY <1>2, <3>1, <3>2, <3>3, SumOfOne DEF SumOf
  <2>2. CASE t.op # "closeShort"
    <3>1. t.short[i] = 0
      BY <1>1, <2>2 DEF Arrives
    <3>2. \A x \in Transfers : lost[x] = 0
      BY <2>2
    <3> HIDE DEF lost
    <3>3. QED
      BY <1>2, <3>1, <3>2, SumOfZeros DEF SumOf
  <2>3. QED
    BY <2>1, <2>2
<1>9. Accounted(i) >= Stock[i]
  BY DEF SerialInv, TablesInv, NoUnitLost
<1>10. /\ origin'[i] = Clamp(origin[i] - t.out[i])
       /\ dest'[i] = dest[i] + t.arrive[i] /\ staged'[i] = staged[i] + t.stage[i]
       /\ writtenOff'[i] = writtenOff[i] + t.short[i]
  BY DEF Commit
<1>11. /\ origin[i] \in Nat /\ dest[i] \in Nat /\ staged[i] \in Nat /\ writtenOff[i] \in Nat
       /\ t.out[i] \in Nat /\ t.arrive[i] \in Nat /\ t.stage[i] \in Nat /\ t.short[i] \in Nat
       /\ Stock[i] \in Nat
  BY <1>0, <1>1, TransfersAssumption DEF TypeOK, Transactions, Units
<1> HIDE DEF t, now, then, sent, got, lost, left, back, right
<1>12. \A x \in Transfers : /\ now[x] \in Int /\ sent[x] \in Int /\ then[x] \in Int
                            /\ got[x] \in Int /\ lost[x] \in Int /\ back[x] \in Int
                            /\ left[x] \in Int /\ right[x] \in Int
                            /\ left[x] = now[x] + sent[x] /\ right[x] = then[x] + back[x]
                            /\ back[x] = got[x] + lost[x] /\ left[x] <= right[x]
  <2> TAKE x \in Transfers
  <2>1. now[x] \in Int /\ then[x] \in Int /\ sent[x] \in Nat
    BY <1>4
  <2>2. /\ now[x] + sent[x] <= then[x] + got[x] + lost[x]
        /\ got[x] \in Nat /\ lost[x] \in Nat
    BY <1>3
  <2>3. left[x] = now[x] + sent[x] /\ right[x] = then[x] + back[x] /\ back[x] = got[x] + lost[x]
    BY <1>5
  <2>4. QED
    BY <2>1, <2>2, <2>3
<1>13. SumFunctionOnSet(left, Transfers)
         = SumFunctionOnSet(now, Transfers) + SumFunctionOnSet(sent, Transfers)
  BY <1>2, <1>12, SumPlus
<1>14. SumFunctionOnSet(back, Transfers)
         = SumFunctionOnSet(got, Transfers) + SumFunctionOnSet(lost, Transfers)
  BY <1>2, <1>12, SumPlus
<1>15. SumFunctionOnSet(right, Transfers)
         = SumFunctionOnSet(then, Transfers) + SumFunctionOnSet(back, Transfers)
  BY <1>2, <1>12, SumPlus
<1>16. SumFunctionOnSet(left, Transfers) <= SumFunctionOnSet(right, Transfers)
  BY <1>2, <1>12, SumGrows
<1>17. SumFunctionOnSet(now, Transfers) \in Int /\ SumFunctionOnSet(then, Transfers) \in Int
  BY <1>2, <1>12, SumIsInt
<1>18. OnTheRoad(i) + t.out[i]
         <= OnTheRoad(i)' + t.arrive[i] + t.stage[i] + t.short[i]
       /\ OnTheRoad(i) \in Int /\ OnTheRoad(i)' \in Int
  BY <1>6, <1>7, <1>8, <1>11, <1>13, <1>14, <1>15, <1>16, <1>17 DEF SumOf
<1>19. origin'[i] >= origin[i] - t.out[i] /\ origin'[i] \in Nat
  BY <1>10, <1>11 DEF Clamp
<1>20. Accounted(i) = origin[i] + OnTheRoad(i) + dest[i] + staged[i] + writtenOff[i]
  BY DEF Accounted
<1>21. Accounted(i)' = origin'[i] + OnTheRoad(i)' + dest'[i] + staged'[i] + writtenOff'[i]
  BY DEF Accounted
<1>22. QED
  BY <1>9, <1>10, <1>11, <1>18, <1>19, <1>20, <1>21

\* What was ordered and not shipped of a transfer that is received is a draft.
LEMMA CommitSchedules ==
    ASSUME CountInv, SerialInv, NEW r \in Requests, Commit(r), NEW x \in Transfers,
           status[x] = "in_transit", status'[x] = "received", NEW i \in Items
    PROVE  SumFunctionOnSet([y \in Transfers |-> shipped'[y][i]],
                            {y \in Transfers : status[y] = "none"})
             = wanted[x][i] - shipped[x][i]
<1> DEFINE t == txn[r]
           f == [y \in Transfers |-> shipped'[y][i]]
           T == {y \in Transfers : status[y] = "none"}
<1>1. /\ t \in Transactions /\ Sound(t) /\ t.pc = "commit" /\ Outcomes(t) /\ Scheduled(t)
  BY CommitFacts
<1>2. x \notin t.new /\ t.next[x] = "received"
  BY <1>1, CommitRow DEF Sound
<1>3. x = t.doc /\ t.op = "receive"
  BY <1>1, <1>2 DEF Outcomes
<1>4. IsFiniteSet(T)
  BY TransfersAssumption, FS_Subset
<1>5. \A y \in T : y \notin t.new => f[y] = 0
  <2> TAKE y \in T
  <2>1. y \in Transfers /\ shipped[y] = NoUnits
    BY DEF SerialInv, TablesInv, Standing
  <2>2. y \notin t.new => shipped'[y] = shipped[y]
    BY <2>1, CommitRow
  <2>3. QED
    BY <2>1, <2>2 DEF NoUnits
<1>6. Remainder(t, x)[i] = wanted[x][i] - shipped[x][i]
  BY <1>2 DEF Remainder, OwnWanted, OwnShipped
<1>7. CASE t.new = {} /\ Some(Remainder(t, x)) = {}
  <2>1. \A y \in T : f[y] = 0
    BY <1>5, <1>7
  <2>2. wanted[x][i] \in Nat /\ shipped[x][i] \in Nat /\ shipped[x][i] <= wanted[x][i]
    BY UnitsTypes DEF CountInv
  <2>3. Remainder(t, x)[i] = 0
    BY <1>6, <1>7, <2>2 DEF Some
  <2> HIDE DEF f, T
  <2>4. SumFunctionOnSet(f, T) = 0
    BY <1>4, <2>1, SumOfZeros
  <2>5. QED
    BY <1>6, <2>3, <2>4 DEF f, T
<1>8. CASE \E y \in Transfers : t.new = {y} /\ t.lines[y] = Remainder(t, x)
  <2>1. PICK y \in Transfers : t.new = {y} /\ t.lines[y] = Remainder(t, x)
    BY <1>8
  <2>2. y \in T /\ f[y] = Remainder(t, x)[i]
    BY <2>1, CommitRow
  <2>3. \A z \in T \ {y} : f[z] = 0
    BY <1>5, <2>1
  <2>4. f[y] \in Int
    <3>1. t.lines[y][i] \in Nat
      BY <1>1 DEF Transactions, Units
    <3>2. QED
      BY <2>1, <2>2, <3>1
  <2> HIDE DEF f, T
  <2>5. SumFunctionOnSet(f, T) = f[y]
    BY <1>4, <2>2, <2>3, <2>4, SumOfOne
  <2>6. QED
    BY <1>6, <2>2, <2>5 DEF f, T
<1>9. QED
  BY <1>1, <1>2, <1>3, <1>7, <1>8 DEF Scheduled

\* With its commit a request is done with: nobody else had begun.
LEMMA PlanCommit ==
    ASSUME CountInv, SerialInv, Alone, NEW r \in Requests, Commit(r)
    PROVE  SerialInv'
<1>1. txn \in [Requests -> Transactions] /\ txn' = [txn EXCEPT ![r] = Idle]
  BY DEF CountInv, TypeOK, Commit
<1>2. \A s \in Requests : txn'[s] = Idle
  BY <1>1 DEF Alone
<1>3. Plan(Idle)'
  BY IdlePlanNext
<1>4. \A s \in Requests : Plan(txn[s])'
  BY <1>2, <1>3
<1>5. TablesInv'
  BY CommitStanding, CommitManifests, CommitHeld, CommitAccounted DEF TablesInv
<1>6. QED
  BY <1>4, <1>5 DEF SerialInv

-----------------------------------------------------------------------------
(* The theorems.                                                           *)

LEMMA SerialInit == Init => SerialInv
<1> SUFFICES ASSUME Init PROVE SerialInv
  OBVIOUS
<1>1. \A r \in Requests : txn[r] = Idle
  BY DEF Init
<1>2. \A r \in Requests : Plan(txn[r])
  BY <1>1, IdlePlan
<1>3. \A x \in Transfers : status[x] = "none" /\ shipped[x] = NoUnits /\ ride[x] = NoManifest
                           /\ received[x] = NoUnits
  BY DEF Init
<1>4. Standing /\ ManifestHasLeft
  BY <1>3 DEF Standing, ManifestHasLeft
<1>5. TypeOK
  BY InitInv DEF CountInv
<1>6. ASSUME NEW i \in Items
      PROVE  /\ held[i] = SumFunctionOnSet([x \in Transfers |-> shipped[x][i]],
                                           {x \in Transfers : status[x] = "draft"})
             /\ Accounted(i) >= Stock[i]
  <2>1. \A x \in Transfers : Holds(i)[x] = 0 /\ Rolling(i)[x] = 0
    BY <1>3 DEF Holds, Rolling
  <2>2. IsFiniteSet(Transfers)
    BY TransfersAssumption
  <2>3. SumOf(Holds(i)) = 0 /\ SumOf(Rolling(i)) = 0
    BY <2>1, <2>2, SumOfZeros DEF SumOf
  <2>4. held[i] = 0 /\ origin[i] = Stock[i] /\ dest[i] = 0 /\ staged[i] = 0 /\ writtenOff[i] = 0
        /\ Stock[i] \in Nat
    BY TransfersAssumption DEF Init, NoUnits
  <2>5. QED
    BY <1>5, <2>3, <2>4, TotalsAreSums DEF Accounted
<1>7. QED
  BY <1>2, <1>4, <1>6 DEF SerialInv, TablesInv, HeldForDrafts, NoUnitLost

LEMMA SerialNext == Alone /\ CountInv /\ SerialInv /\ [Next]_vars => SerialInv'
<1> SUFFICES ASSUME Alone, CountInv, SerialInv, [Next]_vars PROVE SerialInv'
  OBVIOUS
<1>1. ASSUME NEW r \in Requests, BeginSome(r) PROVE SerialInv'
  BY <1>1, PlanBeginCreate, PlanBeginShipped, PlanBeginShip, PlanBeginReceive,
     PlanBeginCloseShort, PlanBeginCancel, PlanBeginManifest DEF BeginSome
<1>2. ASSUME NEW r \in Requests, Advance(r) PROVE SerialInv'
  BY <1>2, PlanHoldItem, PlanShipItem, PlanLandItem, PlanFreeItem, PlanJudge,
     PlanWriteHeader, PlanRollOver, PlanLoadNext, PlanBoard, PlanDetachAll,
     PlanWriteTruck, PlanCommit DEF Advance
<1>3. ASSUME NEW x \in Transfers, PrintTicket(x) PROVE SerialInv'
  BY <1>3, PlanUnread DEF PrintTicket
<1>4. CASE UNCHANGED vars
  <2>1. UNCHANGED <<status, ride, shipped, wanted, received, truck, levelVars, txn>>
    BY <1>4 DEF vars, tables, docVars
  <2>2. QED
    BY <2>1, PlanUnread
<1>5. QED
  BY <1>1, <1>2, <1>3, <1>4, PlanAbort DEF Next

\* A step that moves the status of a transfer commits a request.
LEMMA OnlyCommits ==
    ASSUME [Next]_vars, status' # status
    PROVE  \E r \in Requests : Commit(r)
<1>1. ASSUME NEW r \in Requests, BeginSome(r) PROVE status' = status
  BY <1>1 DEF BeginSome, BeginCreate, BeginShipped, BeginShip, BeginReceive, Receive,
              BeginCloseShort, CloseShort, BeginCancel, BeginBuild, BeginRemoveTransfer,
              BeginCancelManifest, BeginCompleteManifest, CompleteManifest, Begin,
              tables, docVars
<1>2. ASSUME NEW r \in Requests, Advance(r) PROVE status' = status \/ Commit(r)
  BY <1>2 DEF Advance, HoldItem, ShipItem, ShipAndFree, LandItem, FreeItem, Judge, JudgeBy,
              WriteHeader, RollOver, NewDraft, LoadNext, Board, DetachAll, WriteTruck, Goes,
              tables, docVars
<1>3. ASSUME NEW r \in Requests, Abort(r) PROVE status' = status
  BY <1>3 DEF Abort, tables, docVars
<1>4. ASSUME NEW x \in Transfers, PrintTicket(x) PROVE status' = status
  BY <1>4 DEF PrintTicket
<1>5. CASE UNCHANGED vars
  BY <1>5 DEF vars, tables, docVars
<1>6. QED
  BY <1>1, <1>2, <1>3, <1>4, <1>5 DEF Next

\* Served one at a time, the endpoints keep the tables consistent, and what an
\* open transaction has in mind adds up to what it will write: the inductive
\* invariant of the theorems below.
THEOREM SerialHolds == Alone => (Spec => [](CountInv /\ SerialInv))
<1> SUFFICES ASSUME Alone PROVE Spec => [](CountInv /\ SerialInv)
  OBVIOUS
<1>1. Init => CountInv /\ SerialInv
  BY InitInv, SerialInit
<1>2. CountInv /\ SerialInv /\ [Next]_vars => CountInv' /\ SerialInv'
  BY NextInv, SerialNext
<1>3. QED
  BY <1>1, <1>2, PTL DEF Spec

\* Served one at a time, shipping, receiving, closing short and cancelling lose
\* no unit: what left the origin is on the road, arrived, staged or written off.
THEOREM UnitsAccounted == Alone => (Spec => []NoUnitLost)
<1>1. SerialInv => NoUnitLost
  BY DEF SerialInv, TablesInv
<1>2. QED
  BY SerialHolds, <1>1, PTL

\* Served one at a time, the origin reserves what its drafts hold, unit for
\* unit, through create, ship, cancel and the rollover of a remainder.
THEOREM HoldsAreDrafts == Alone => (Spec => []HeldForDrafts)
<1>1. SerialInv => HeldForDrafts
  BY DEF SerialInv, TablesInv
<1>2. QED
  BY SerialHolds, <1>1, PTL

\* Served one at a time, a transfer on the road still has units to receive or to
\* close short: receive closes what it completes.
THEOREM ReceivableOnTheRoad == Alone => (Spec => []ArrivedIsClosed)
<1>1. SerialInv => ArrivedIsClosed
  BY DEF SerialInv, TablesInv, Standing, ArrivedIsClosed
<1>2. QED
  BY SerialHolds, <1>1, PTL

\* Served one at a time, a completed manifest carries no draft and a cancelled
\* one carries nothing.
THEOREM TrucksTellTheTruth == Alone => (Spec => []ManifestHasLeft)
<1>1. SerialInv => ManifestHasLeft
  BY DEF SerialInv, TablesInv
<1>2. QED
  BY SerialHolds, <1>1, PTL

\* Served one at a time, the receipt that completes a transfer makes a draft of
\* what was ordered and not shipped, unit for unit, or finds nothing left.
THEOREM RemaindersScheduled == Alone => (Spec => RemainderIsScheduled)
<1> DEFINE scheduled ==
             \A x \in Transfers :
                (status[x] = "in_transit" /\ status'[x] = "received") =>
                   \A i \in Items :
                      SumFunctionOnSet([y \in Transfers |-> shipped'[y][i]],
                                       {y \in Transfers : status[y] = "none"})
                         = wanted[x][i] - shipped[x][i]
<1>1. ASSUME CountInv, SerialInv, [Next]_vars PROVE scheduled
  <2> SUFFICES ASSUME NEW x \in Transfers, status[x] = "in_transit",
                      status'[x] = "received", NEW i \in Items
               PROVE  SumFunctionOnSet([y \in Transfers |-> shipped'[y][i]],
                                       {y \in Transfers : status[y] = "none"})
                        = wanted[x][i] - shipped[x][i]
    OBVIOUS
  <2>1. \E r \in Requests : Commit(r)
    BY <1>1, OnlyCommits
  <2>2. QED
    BY <1>1, <2>1, CommitSchedules
<1>2. CountInv /\ SerialInv /\ [Next]_vars => [scheduled]_vars
  BY <1>1
<1> HIDE DEF scheduled
<1>3. Alone => (Spec => [][scheduled]_vars)
  BY SerialHolds, <1>2, PTL DEF Spec
<1>4. QED
  BY <1>3 DEF RemainderIsScheduled, scheduled
=============================================================================
