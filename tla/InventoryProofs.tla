-------------------------- MODULE InventoryProofs ---------------------------
(***************************************************************************)
(* Why no interleaving of requests loses a movement or oversells (first    *)
(* part), and why every request that commits has done exactly what it was  *)
(* asked for, so that Inventory implements StockBook and what is reserved  *)
(* is what confirmed orders wait for (second part).                        *)
(***************************************************************************)
EXTENDS Inventory, Sums

-----------------------------------------------------------------------------
(* The scripts are sequences of calls.                                     *)

\* A function on 1..n is a sequence.
LEMMA FunctionIsSeq ==
  ASSUME NEW S, NEW n \in Nat, NEW f \in [1..n -> S]
  PROVE  f \in Seq(S)
OBVIOUS

\* The fields of the lines of a sale or an order.
LEMMA LineFields ==
  ASSUME NEW lines \in Seq(Line)
  PROVE  /\ Len(lines) \in Nat /\ DOMAIN lines = 1..Len(lines)
         /\ \A i \in 1..Len(lines) : lines[i].shelf \in Shelf /\ lines[i].qty \in Nat
<1>1. \A i \in 1..Len(lines) : lines[i] \in Line
  OBVIOUS
<1> QED
  BY <1>1 DEF Line

\* The fields of the lots of a delivery.
LEMMA LotFields ==
  ASSUME NEW lots \in Seq(Lot)
  PROVE  /\ Len(lots) \in Nat /\ DOMAIN lots = 1..Len(lots)
         /\ \A i \in 1..Len(lots) : lots[i].row \in Row /\ lots[i].qty \in Nat
<1>1. \A i \in 1..Len(lots) : lots[i] \in Lot
  OBVIOUS
<1> QED
  BY <1>1 DEF Lot

\* Whatever a request asks for, its script is a sequence of well-formed calls.
LEMMA LineScripts ==
  ASSUME NEW lines \in Seq(Line)
  PROVE  /\ SaleScript(lines) \in Seq(Calls)
         /\ OrderScript(lines) \in Seq(Calls)
         /\ DispatchScript(lines) \in Seq(Calls)
<1>1. SaleScript(lines) \in [1..Len(lines) -> Calls]
  BY LineFields DEF SaleScript, Call, Calls
<1>2. OrderScript(lines) \in [1..Len(lines) -> Calls]
  BY LineFields DEF OrderScript, Call, Calls
<1>3. \A i \in 1..(2 * Len(lines)) : (i + 1) \div 2 \in 1..Len(lines)
  BY LineFields
<1>4. DispatchScript(lines) \in [1..(2 * Len(lines)) -> Calls]
  BY <1>3, LineFields DEF DispatchScript, Call, Calls
<1>5. Len(lines) \in Nat /\ 2 * Len(lines) \in Nat
  BY LineFields
<1> QED
  BY <1>1, <1>2, <1>4, <1>5, FunctionIsSeq

\* The scripts made of movements on named rows.
LEMMA RowScripts ==
  /\ \A lots \in Seq(Lot) : ReceiptScript(lots) \in Seq(Calls)
  /\ \A s \in Shelf, q \in Nat : ReduceScript([shelf |-> s, qty |-> q]) \in Seq(Calls)
  /\ \A r \in Row, q \in Nat : AddScript(r, q) \in Seq(Calls)
  /\ \A from, to \in Row, q \in Nat : TransferScript(from, to, q) \in Seq(Calls)
<1>1. ASSUME NEW lots \in Seq(Lot)
      PROVE  ReceiptScript(lots) \in Seq(Calls)
  <2>1. ReceiptScript(lots) \in [1..Len(lots) -> Calls]
    BY LotFields DEF ReceiptScript, Call, Calls
  <2> QED
    BY <2>1, LotFields, FunctionIsSeq
<1>2. ASSUME NEW s \in Shelf, NEW q \in Nat
      PROVE  ReduceScript([shelf |-> s, qty |-> q]) \in Seq(Calls)
  BY DEF ReduceScript, Call, Calls
<1>3. ASSUME NEW r \in Row, NEW q \in Nat
      PROVE  AddScript(r, q) \in Seq(Calls)
  BY DEF AddScript, Call, Calls
<1>4. ASSUME NEW from \in Row, NEW to \in Row, NEW q \in Nat
      PROVE  TransferScript(from, to, q) \in Seq(Calls)
  <2>1. Call("post", from, -q) \in Calls /\ Call("post", to, q) \in Calls
    BY DEF Call, Calls
  <2> QED
    BY <2>1 DEF TransferScript
<1> QED
  BY <1>1, <1>2, <1>3, <1>4

-----------------------------------------------------------------------------
(* Types.                                                                  *)

\* The state of a worker between requests, and of one that has just started.
LEMMA FreshWork ==
  ASSUME NEW script \in Seq(Calls), NEW o \in Order \cup {NoOne}, NEW read \in Orders
  PROVE  /\ Idle \in Work
         /\ [Idle EXCEPT !.pc = "call", !.script = script, !.order = o, !.read = read] \in Work
<1>1. Blank \in [Row -> Seen] /\ NoMoves \in [Row -> Int]
  BY DEF Blank, NoMoves, Seen
<1>2. NoOrder \in Orders
  BY DEF NoOrder, Orders, Status
<1>3. <<>> \in Seq(Calls)
  OBVIOUS
<1> QED
  BY <1>1, <1>2, <1>3 DEF Idle, Work

\* Starting a request keeps the types.
LEMMA StartTyped ==
  ASSUME TypeOK, NEW w \in Worker, NEW script \in Seq(Calls),
         NEW o \in Order \cup {NoOne}, NEW read \in Orders,
         Start(w, script, o, read)
  PROVE  TypeOK'
BY FreshWork DEF TypeOK, Start, database

\* Every request starts with a well-formed script.
LEMMA RequestTyped ==
  ASSUME TypeOK, NEW w \in Worker, Request(w)
  PROVE  TypeOK'
<1>1. /\ Basket \subseteq Seq(Line) /\ Delivery \subseteq Seq(Lot)
      /\ Loose \subseteq Row /\ MaxOnHand \in Nat
  BY InventoryAssumption
<1>2. NoOrder \in Orders /\ NoOne \in Order \cup {NoOne}
  BY DEF NoOrder, Orders, Status
<1>3. CASE StartSale(w)
  <2>1. PICK lines \in Basket : Start(w, SaleScript(lines), NoOne, NoOrder)
    BY <1>3 DEF StartSale
  <2> QED
    BY <2>1, <1>1, <1>2, LineScripts, StartTyped
<1>4. CASE StartReceipt(w)
  <2>1. PICK lots \in Delivery : Start(w, ReceiptScript(lots), NoOne, NoOrder)
    BY <1>4 DEF StartReceipt
  <2> QED
    BY <2>1, <1>1, <1>2, RowScripts, StartTyped
<1>5. CASE StartAdjustment(w)
  <2>1. CASE \E s \in Shelf, q \in 1..MaxOnHand :
               Start(w, ReduceScript([shelf |-> s, qty |-> q]), NoOne, NoOrder)
    <3>1. PICK s \in Shelf, q \in 1..MaxOnHand :
            Start(w, ReduceScript([shelf |-> s, qty |-> q]), NoOne, NoOrder)
      BY <2>1
    <3>2. q \in Nat
      BY <1>1
    <3>3. ReduceScript([shelf |-> s, qty |-> q]) \in Seq(Calls)
      BY <3>2, RowScripts
    <3> QED
      BY <3>1, <3>3, <1>2, StartTyped
  <2>2. CASE \E r \in Loose, q \in 1..MaxOnHand : Start(w, AddScript(r, q), NoOne, NoOrder)
    <3>1. PICK r \in Loose, q \in 1..MaxOnHand : Start(w, AddScript(r, q), NoOne, NoOrder)
      BY <2>2
    <3>2. q \in Nat /\ r \in Row
      BY <1>1
    <3>3. AddScript(r, q) \in Seq(Calls)
      BY <3>2, RowScripts
    <3> QED
      BY <3>1, <3>3, <1>2, StartTyped
  <2> QED
    BY <1>5, <2>1, <2>2 DEF StartAdjustment
<1>6. CASE StartTransfer(w)
  <2>1. PICK from \in Loose, to \in Loose, q \in 1..MaxOnHand :
          Start(w, TransferScript(from, to, q), NoOne, NoOrder)
    BY <1>6 DEF StartTransfer
  <2>2. q \in Nat /\ from \in Row /\ to \in Row
    BY <1>1
  <2>3. TransferScript(from, to, q) \in Seq(Calls)
    BY <2>2, RowScripts
  <2> QED
    BY <2>1, <2>3, <1>2, StartTyped
<1>7. CASE \E o \in Order : StartOrder(w, o)
  <2>1. PICK o \in Order, lines \in Basket :
          Start(w, OrderScript(lines), o, [status |-> "none", lines |-> lines])
    BY <1>7 DEF StartOrder
  <2>2. [status |-> "none", lines |-> lines] \in Orders
    BY <1>1 DEF Orders, Status
  <2> QED
    BY <2>1, <2>2, <1>1, LineScripts, StartTyped
<1>8. CASE \E o \in Order : StartDispatch(w, o)
  <2>1. PICK o \in Order : Start(w, DispatchScript(order[o].lines), o, order[o])
    BY <1>8 DEF StartDispatch
  <2>2. order[o] \in Orders
    BY DEF TypeOK
  <2>3. order[o].lines \in Seq(Line)
    BY <2>2 DEF Orders
  <2> QED
    BY <2>1, <2>2, <2>3, LineScripts, StartTyped
<1> QED
  BY <1>3, <1>4, <1>5, <1>6, <1>7, <1>8 DEF Request

-----------------------------------------------------------------------------
(* The inductive invariant.                                                *)

Inductive == TypeOK /\ IInv

\* The fields of a worker's transaction.
LEMMA WorkFields ==
  ASSUME TypeOK, NEW w \in Worker
  PROVE  /\ work[w] \in Work
         /\ work[w].pc \in {"idle", "call", "locking"}
         /\ work[w].script \in Seq(Calls)
         /\ work[w].order \in Order \cup {NoOne}
         /\ work[w].read \in Orders
         /\ work[w].todo \subseteq Row
         /\ work[w].got \subseteq Row
         /\ work[w].seen \in [Row -> Seen]
         /\ work[w].moved \in [Row -> Int]
         /\ \A r \in Row : /\ work[w].seen[r] \in Seen
                           /\ work[w].seen[r].on \in Int /\ work[w].seen[r].res \in Int
                           /\ work[w].moved[r] \in Int
<1>1. work[w] \in Work
  BY DEF TypeOK
<1>2. work[w].seen \in [Row -> Seen] /\ work[w].moved \in [Row -> Int]
  BY <1>1 DEF Work
<1>3. \A r \in Row : /\ work[w].seen[r] \in Seen
                    /\ work[w].seen[r].on \in Int /\ work[w].seen[r].res \in Int
  BY <1>2 DEF Seen
<1> QED
  BY <1>1, <1>2, <1>3 DEF Work

\* A transaction in the middle of a statement serves a well-formed call.
LEMMA CallFields ==
  ASSUME Inductive, NEW w \in Worker, work[w].pc = "locking"
  PROVE  /\ Now(w).qty \in Int
         /\ Tail(work[w].script) \in Seq(Calls)
<1>1. work[w].script \in Seq(Calls) /\ work[w].script # <<>>
  BY WorkFields DEF Inductive, IInv, InOrder
<1>2. Head(work[w].script) \in Calls /\ Tail(work[w].script) \in Seq(Calls)
  BY <1>1
<1> QED
  BY <1>2 DEF Now, Calls

\* An allocation gives every batch a quantity it can spare.
LEMMA TakesFields ==
  ASSUME NEW offer, NEW expiry, NEW from, NEW q \in Int,
         NEW take \in Takes(offer, expiry, from, q), NEW b \in DOMAIN offer
  PROVE  /\ take[b] \in Int /\ take[b] >= 0
         /\ take[b] <= IF b \in from THEN offer[b] ELSE 0
BY DEF Takes

\* The initial states satisfy the invariant.
LEMMA InitInductive ==
  ASSUME Init
  PROVE  Inductive
<1>1. MaxOnHand \in Nat /\ LastDay \in Nat /\ NoOne \notin Worker
  BY InventoryAssumption
<1>2. onHand \in [Row -> Int] /\ \A r \in Row : onHand[r] >= 0
  BY <1>1 DEF Init
<1>3. NoOrder \in Orders /\ Idle \in Work
  <2>1. <<>> \in Seq(Calls) /\ NoOrder \in Orders
    BY DEF NoOrder, Orders, Status
  <2> QED
    BY <2>1, FreshWork
<1>4. TypeOK
  BY <1>1, <1>2, <1>3 DEF Init, TypeOK
<1>5. Committed
  BY <1>1, <1>2 DEF Init, Committed
<1>6. ASSUME NEW w \in Worker
      PROVE  InOrder(w) /\ \A r \in Row : Knows(w, r)
  BY <1>1, <1>6 DEF Init, InOrder, Knows, Held, Idle, Blank, NoMoves
<1> QED
  BY <1>4, <1>5, <1>6 DEF Inductive, IInv

\* A step of w that touches no committed row keeps the invariant if it keeps
\* w's part of it and leaves the other transactions and their locks alone.
LEMMA OwnStep ==
  ASSUME IInv, NEW w \in Worker,
         UNCHANGED <<exists, onHand, reserved, ledger>>,
         \A v \in Worker \ {w} : /\ work'[v] = work[v]
                                /\ \A r \in Row : lock'[r] = v <=> lock[r] = v,
         InOrder(w)',
         \A r \in Row : Knows(w, r)'
  PROVE  IInv'
<1>1. Committed'
  BY DEF IInv, Committed
<1>2. ASSUME NEW v \in Worker, v # w
      PROVE  InOrder(v)' /\ \A r \in Row : Knows(v, r)'
  <2>1. work'[v] = work[v] /\ \A r \in Row : lock'[r] = v <=> lock[r] = v
    BY <1>2
  <2>2. Held(v)' = Held(v)
    BY <2>1 DEF Held
  <2>3. InOrder(v)'
    BY <2>1, <2>2 DEF IInv, InOrder
  <2>4. ASSUME NEW r \in Row
        PROVE  Knows(v, r)'
    BY <2>1 DEF IInv, Knows
  <2> QED
    BY <2>3, <2>4
<1> QED
  BY <1>1, <1>2 DEF IInv

\* Starting a request, whatever it is, keeps the invariant.
LEMMA StartKeeps ==
  ASSUME Inductive, NEW w \in Worker, NEW script, NEW o, NEW read, Start(w, script, o, read)
  PROVE  IInv'
<1>1. work[w].pc = "idle" /\ Held(w) = {} /\ UNCHANGED <<exists, onHand, reserved, ledger, lock>>
  BY DEF Start, Inductive, IInv, InOrder, database
<1>2. /\ work'[w].pc = "call" /\ work'[w].got = {}
      /\ work'[w].seen = Blank /\ work'[w].moved = NoMoves
  BY DEF Start, Inductive, TypeOK, Idle
<1>3. \A v \in Worker \ {w} : work'[v] = work[v]
  BY DEF Start, Inductive, TypeOK
<1>4. \A r \in Row : lock[r] # w
  BY <1>1 DEF Held
<1>5. InOrder(w)'
  BY <1>2 DEF InOrder
<1>6. \A r \in Row : Knows(w, r)'
  BY <1>1, <1>2, <1>4 DEF Knows, Blank, NoMoves
<1> QED
  BY <1>1, <1>3, <1>5, <1>6, OwnStep DEF Inductive

\* Every request starts in the invariant.
LEMMA RequestKeeps ==
  ASSUME Inductive, NEW w \in Worker, Request(w)
  PROVE  Inductive'
<1>1. \E script, o, read : Start(w, script, o, read)
  BY DEF Request, StartSale, StartReceipt, StartAdjustment, StartTransfer, StartOrder, StartDispatch
<1> QED
  BY <1>1, StartKeeps, RequestTyped DEF Inductive

\* A statement's snapshot locks nothing yet.
LEMMA ScanKeeps ==
  ASSUME Inductive, NEW w \in Worker, Scan(w)
  PROVE  Inductive'
<1> DEFINE todo == {r \in Visible(w) : Wanted(Head(work[w].script), r, Read(w, r))}
<1>1. work' = [work EXCEPT ![w].pc = "locking", ![w].asOf = day, ![w].todo = todo, ![w].got = {}]
  BY DEF Scan
<1>2. todo \subseteq Row
  BY DEF Visible, Held, Inductive, TypeOK
<1> HIDE DEF todo
<1>3. day \in Nat
  BY InventoryAssumption DEF Inductive, TypeOK
<1>4. work[w] \in Work /\ work \in [Worker -> Work]
  BY DEF Inductive, TypeOK
<1>5. [work[w] EXCEPT !.pc = "locking", !.asOf = day, !.todo = todo, !.got = {}] \in Work
  BY <1>2, <1>3, <1>4 DEF Work
<1>6. work' = [work EXCEPT ![w] =
        [work[w] EXCEPT !.pc = "locking", !.asOf = day, !.todo = todo, !.got = {}]]
  BY <1>1, <1>4 DEF Work
<1>7. work' \in [Worker -> Work]
  BY <1>4, <1>5, <1>6
<1>8. UNCHANGED <<day, exists, onHand, reserved, ledger, order, lock>>
  BY DEF Scan, database
<1>9. TypeOK'
  BY <1>7, <1>8 DEF Inductive, TypeOK
<1>10. /\ work'[w].pc = "locking" /\ work'[w].script = work[w].script /\ work'[w].got = {}
       /\ work'[w].seen = work[w].seen /\ work'[w].moved = work[w].moved
  BY <1>4, <1>6 DEF Work
<1>11. InOrder(w)'
  BY <1>10 DEF InOrder, Scan
<1>12. \A r \in Row : Knows(w, r)'
  BY <1>8, <1>10 DEF Knows, Inductive, IInv
<1>13. \A v \in Worker \ {w} : work'[v] = work[v]
  BY <1>4, <1>6
<1>14. IInv'
  BY <1>8, <1>11, <1>12, <1>13, OwnStep DEF Inductive
<1> QED
  BY <1>9, <1>14 DEF Inductive

\* Locking a row brings its latest version into the transaction.
LEMMA LockRowKeeps ==
  ASSUME Inductive, NEW w \in Worker, NEW r \in Row, LockRow(w, r)
  PROVE  Inductive'
<1> DEFINE got == IF Wanted(Head(work[w].script), r, Read(w, r))
                  THEN work[w].got \cup {r} ELSE work[w].got
           mine == [work[w] EXCEPT !.todo = @ \ {r}, !.got = got, !.seen[r] = Read(w, r)]
<1>1. work[w] \in Work /\ work \in [Worker -> Work] /\ lock \in [Row -> Worker \cup {NoOne}]
  BY DEF Inductive, TypeOK
<1>2. NoOne \notin Worker
  BY InventoryAssumption
<1>3. Read(w, r) \in Seen
  BY WorkFields DEF Read, Seen, Inductive, TypeOK
<1>4. got \subseteq work[w].got \cup {r} /\ got \subseteq Row
  BY <1>1 DEF Work
<1>5. /\ lock' = [lock EXCEPT ![r] = w] /\ lock[r] \in {NoOne, w} /\ work[w].pc = "locking"
      /\ UNCHANGED <<day, exists, onHand, reserved, ledger, order>>
  BY DEF LockRow, database
<1>6. work' = [work EXCEPT ![w].todo = @ \ {r}, ![w].got = got, ![w].seen[r] = Read(w, r)]
  BY DEF LockRow
<1> HIDE DEF got
<1>7. work' = [work EXCEPT ![w] = mine]
  BY <1>1, <1>6 DEF Work
<1>8. mine \in Work
  BY <1>1, <1>3, <1>4 DEF Work
<1>9. TypeOK'
  BY <1>1, <1>5, <1>7, <1>8 DEF Inductive, TypeOK
<1>10. /\ work'[w].pc = "locking" /\ work'[w].script = work[w].script /\ work'[w].got = got
       /\ work'[w].seen = [work[w].seen EXCEPT ![r] = Read(w, r)] /\ work'[w].moved = work[w].moved
  BY <1>1, <1>5, <1>7 DEF Work
<1>11. InOrder(w)'
  BY <1>1, <1>4, <1>5, <1>10 DEF InOrder, Held, Inductive, IInv
<1>12. ASSUME NEW x \in Row
       PROVE  Knows(w, x)'
  <2>1. Knows(w, x) /\ onHand[x] >= 0 /\ reserved[x] >= 0 /\ onHand[x] \in Int
    BY DEF Inductive, IInv, Committed, TypeOK
  <2>2. CASE x # r
    BY <1>1, <1>5, <1>10, <2>1, <2>2, WorkFields DEF Knows, Inductive
  <2>3. CASE x = r /\ lock[r] = w
    BY <1>1, <1>5, <1>10, <2>1, <2>3, WorkFields DEF Knows, Inductive, Read
  <2>4. CASE x = r /\ lock[r] # w
    <3>1. work[w].moved[r] = 0
      BY <2>1, <2>4 DEF Knows
    <3>2. work'[w].seen[r] = [on |-> onHand[r], res |-> reserved[r]] /\ lock'[r] = w
      BY <1>1, <1>5, <1>10, <2>4, WorkFields DEF Inductive, Read
    <3> QED
      BY <1>5, <1>10, <2>1, <2>4, <3>1, <3>2 DEF Knows
  <2> QED
    BY <2>2, <2>3, <2>4
<1>13. \A v \in Worker \ {w} : work'[v] = work[v] /\ \A x \in Row : lock'[x] = v <=> lock[x] = v
  BY <1>1, <1>2, <1>5, <1>7
<1>14. IInv'
  BY <1>5, <1>11, <1>12, <1>13, OwnStep DEF Inductive
<1> QED
  BY <1>9, <1>14 DEF Inductive

\* The return of a call keeps the invariant if what it leaves in the
\* transaction's rows is consistent with the rows it then holds.
LEMMA ReturnKeeps ==
  ASSUME Inductive, NEW w \in Worker, work[w].pc = "locking",
         NEW seen \in [Row -> Seen], NEW moved \in [Row -> Int],
         Return(w, seen, moved),
         UNCHANGED <<day, exists, onHand, reserved, ledger, order>>,
         lock' \in [Row -> Worker \cup {NoOne}],
         \A v \in Worker \ {w} : \A r \in Row : lock'[r] = v <=> lock[r] = v,
         \A r \in Row :
           IF lock'[r] = w
           THEN seen[r].on = onHand[r] + moved[r] /\ seen[r].on >= 0 /\ seen[r].res >= 0
           ELSE seen[r] = [on |-> 0, res |-> 0] /\ moved[r] = 0
  PROVE  Inductive'
<1> DEFINE mine == [work[w] EXCEPT !.pc = "call", !.script = Tail(@), !.todo = {}, !.got = {},
                                   !.seen = seen, !.moved = moved]
<1>1. work[w] \in Work /\ work \in [Worker -> Work]
  BY DEF Inductive, TypeOK
<1>2. work' = [work EXCEPT ![w] = mine]
  BY <1>1 DEF Return, Work
<1>3. Tail(work[w].script) \in Seq(Calls)
  BY CallFields
<1>4. mine \in Work
  BY <1>1, <1>3 DEF Work
<1>5. TypeOK'
  BY <1>1, <1>2, <1>4 DEF Inductive, TypeOK
<1>6. /\ work'[w].pc = "call" /\ work'[w].got = {}
      /\ work'[w].seen = seen /\ work'[w].moved = moved
  BY <1>1, <1>2 DEF Work
<1>7. InOrder(w)'
  BY <1>6 DEF InOrder
<1>8. \A r \in Row : Knows(w, r)'
  BY <1>6 DEF Knows
<1>9. \A v \in Worker \ {w} : work'[v] = work[v]
  BY <1>1, <1>2
<1>10. IInv'
  BY <1>7, <1>8, <1>9, OwnStep DEF Inductive
<1> QED
  BY <1>5, <1>10 DEF Inductive

\* What the service may take from a row that the statement returned: at most
\* what is not reserved there, or what is reserved when it releases.  It takes
\* nothing from a row the transaction does not hold.
LEMMA ChoiceFields ==
  ASSUME Inductive, NEW w \in Worker, Ready(w), NEW take \in Choices(w), NEW r \in Row
  PROVE  /\ take[r] \in Int /\ take[r] >= 0
         /\ lock[r] # w => take[r] = 0
         /\ lock[r] = w /\ Now(w).op = "release" => take[r] <= work[w].seen[r].res
         /\ lock[r] = w /\ Now(w).op # "release" => take[r] <= work[w].seen[r].on
<1>1. Now(w).qty \in Int
  BY CallFields DEF Ready
<1>2. DOMAIN Offer(w) = Row
  BY DEF Offer
<1>3. \E from : take \in Takes(Offer(w), ExpiryOf, from, Now(w).qty)
  BY DEF Choices
<1>4. /\ take[r] \in Int /\ take[r] >= 0
      /\ take[r] <= Offer(w)[r] \/ take[r] <= 0
  BY <1>1, <1>2, <1>3, TakesFields
<1>5. /\ work[w].seen[r].on \in Int /\ work[w].seen[r].res \in Int
      /\ Knows(w, r)
      /\ work[w].got \subseteq Held(w)
  BY WorkFields DEF Inductive, IInv, InOrder
<1>6. CASE r \notin work[w].got
  <2>1. Offer(w)[r] = 0
    BY <1>6 DEF Offer
  <2> QED
    BY <1>4, <1>5, <2>1 DEF Knows
<1>7. CASE r \in work[w].got
  <2>1. lock[r] = w
    BY <1>5, <1>7 DEF Held
  <2>2. Offer(w)[r] = IF Now(w).op = "release" THEN work[w].seen[r].res
                      ELSE work[w].seen[r].on - work[w].seen[r].res
    BY <1>7 DEF Offer
  <2>3. work[w].seen[r].on >= 0 /\ work[w].seen[r].res >= 0
    BY <1>5, <2>1 DEF Knows
  <2> QED
    BY <1>4, <1>5, <2>1, <2>2, <2>3
<1> QED
  BY <1>6, <1>7

\* Taking stock out of locked rows keeps the invariant.
LEMMA IssueKeeps ==
  ASSUME Inductive, NEW w \in Worker, Issue(w)
  PROVE  Inductive'
<1>1. Ready(w) /\ Now(w).op # "release" /\ UNCHANGED <<day, exists, onHand, reserved, ledger, order, lock>>
  BY DEF Issue, database
<1>2. PICK take \in Choices(w) :
        Return(w, [r \in Row |-> [work[w].seen[r] EXCEPT !.on = @ - take[r]]],
                  [r \in Row |-> work[w].moved[r] - take[r]])
  BY DEF Issue
<1> DEFINE seen == [r \in Row |-> [work[w].seen[r] EXCEPT !.on = @ - take[r]]]
           moved == [r \in Row |-> work[w].moved[r] - take[r]]
<1>3. ASSUME NEW r \in Row
      PROVE  /\ seen[r] \in Seen /\ moved[r] \in Int
             /\ IF lock[r] = w
                THEN seen[r].on = onHand[r] + moved[r] /\ seen[r].on >= 0 /\ seen[r].res >= 0
                ELSE seen[r] = [on |-> 0, res |-> 0] /\ moved[r] = 0
  <2>1. Knows(w, r) /\ onHand[r] \in Int
    BY DEF Inductive, IInv, TypeOK
  <2>2. /\ work[w].seen[r] \in Seen /\ work[w].moved[r] \in Int
        /\ work[w].seen[r].on \in Int /\ work[w].seen[r].res \in Int
    BY WorkFields DEF Inductive
  <2>3. /\ take[r] \in Int /\ take[r] >= 0
        /\ lock[r] # w => take[r] = 0
        /\ lock[r] = w => take[r] <= work[w].seen[r].on
    BY <1>1, ChoiceFields
  <2>4. seen[r] = [on |-> work[w].seen[r].on - take[r], res |-> work[w].seen[r].res]
    BY <2>2 DEF Seen
  <2> QED
    BY <2>1, <2>2, <2>3, <2>4 DEF Knows, Seen
<1>4. seen \in [Row -> Seen] /\ moved \in [Row -> Int]
  BY <1>3
<1>5. lock' \in [Row -> Worker \cup {NoOne}]
  BY <1>1 DEF Inductive, TypeOK
<1> HIDE DEF seen, moved
<1>6. Return(w, seen, moved)
  BY <1>2 DEF seen, moved
<1> QED
  BY <1>1, <1>3, <1>4, <1>5, <1>6, ReturnKeeps DEF Ready

\* A change of the reserved column of locked rows keeps the invariant as long
\* as no reservation gets negative.
LEMMA ReservedKeeps ==
  ASSUME Inductive, NEW w \in Worker, Ready(w),
         UNCHANGED <<day, exists, onHand, reserved, ledger, order, lock>>,
         NEW res \in [Row -> Int],
         \A r \in Row : IF lock[r] = w THEN res[r] >= 0 ELSE res[r] = 0,
         Return(w, [r \in Row |-> [work[w].seen[r] EXCEPT !.res = res[r]]], work[w].moved)
  PROVE  Inductive'
<1> DEFINE seen == [r \in Row |-> [work[w].seen[r] EXCEPT !.res = res[r]]]
<1>1. ASSUME NEW r \in Row
      PROVE  /\ seen[r] \in Seen
             /\ IF lock[r] = w
                THEN /\ seen[r].on = onHand[r] + work[w].moved[r]
                     /\ seen[r].on >= 0 /\ seen[r].res >= 0
                ELSE seen[r] = [on |-> 0, res |-> 0] /\ work[w].moved[r] = 0
  <2>1. Knows(w, r)
    BY DEF Inductive, IInv
  <2>2. work[w].seen[r] \in Seen /\ work[w].seen[r].on \in Int
    BY WorkFields DEF Inductive
  <2>3. seen[r] = [on |-> work[w].seen[r].on, res |-> res[r]]
    BY <2>2 DEF Seen
  <2> QED
    BY <2>1, <2>2, <2>3 DEF Knows, Seen
<1>2. seen \in [Row -> Seen] /\ work[w].moved \in [Row -> Int]
  BY <1>1, WorkFields DEF Inductive
<1>3. lock' \in [Row -> Worker \cup {NoOne}]
  BY DEF Inductive, TypeOK
<1>4. Return(w, seen, work[w].moved)
  OBVIOUS
<1> HIDE DEF seen
<1> QED
  BY <1>1, <1>2, <1>3, <1>4, ReturnKeeps DEF Ready

\* Reserving keeps the invariant.
LEMMA ReserveKeeps ==
  ASSUME Inductive, NEW w \in Worker, Reserve(w)
  PROVE  Inductive'
<1>1. Ready(w) /\ UNCHANGED <<day, exists, onHand, reserved, ledger, order, lock>>
  BY DEF Reserve, database
<1>2. PICK take \in Choices(w) :
        Return(w, [r \in Row |-> [work[w].seen[r] EXCEPT !.res = @ + take[r]]], work[w].moved)
  BY DEF Reserve
<1> DEFINE res == [r \in Row |-> work[w].seen[r].res + take[r]]
<1>3. ASSUME NEW r \in Row
      PROVE  res[r] \in Int /\ IF lock[r] = w THEN res[r] >= 0 ELSE res[r] = 0
  <2>1. take[r] \in Int /\ take[r] >= 0 /\ (lock[r] # w => take[r] = 0)
    BY <1>1, ChoiceFields
  <2>2. Knows(w, r) /\ work[w].seen[r].res \in Int
    BY WorkFields DEF Inductive, IInv
  <2> QED
    BY <2>1, <2>2 DEF Knows
<1>4. res \in [Row -> Int]
  BY <1>3
<1>5. Return(w, [r \in Row |-> [work[w].seen[r] EXCEPT !.res = res[r]]], work[w].moved)
  BY <1>2, Zenon
<1> HIDE DEF res
<1> QED
  BY <1>1, <1>3, <1>4, <1>5, ReservedKeeps

\* Releasing keeps the invariant.
LEMMA ReleaseKeeps ==
  ASSUME Inductive, NEW w \in Worker, Release(w)
  PROVE  Inductive'
<1>1. /\ Ready(w) /\ Now(w).op = "release"
      /\ UNCHANGED <<day, exists, onHand, reserved, ledger, order, lock>>
  BY DEF Release, database
<1>2. PICK take \in Choices(w) :
        Return(w, [r \in Row |-> [work[w].seen[r] EXCEPT !.res = @ - take[r]]], work[w].moved)
  BY DEF Release
<1> DEFINE res == [r \in Row |-> work[w].seen[r].res - take[r]]
<1>3. ASSUME NEW r \in Row
      PROVE  res[r] \in Int /\ IF lock[r] = w THEN res[r] >= 0 ELSE res[r] = 0
  <2>1. /\ take[r] \in Int /\ (lock[r] # w => take[r] = 0)
        /\ lock[r] = w => take[r] <= work[w].seen[r].res
    BY <1>1, ChoiceFields
  <2>2. Knows(w, r) /\ work[w].seen[r].res \in Int
    BY WorkFields DEF Inductive, IInv
  <2> QED
    BY <2>1, <2>2 DEF Knows
<1>4. res \in [Row -> Int]
  BY <1>3
<1>5. Return(w, [r \in Row |-> [work[w].seen[r] EXCEPT !.res = res[r]]], work[w].moved)
  BY <1>2, Zenon
<1> HIDE DEF res
<1> QED
  BY <1>1, <1>3, <1>4, <1>5, ReservedKeeps

\* A movement on one row keeps the invariant: the row is either held and read,
\* or it does not exist yet and is inserted with a positive quantity.
LEMMA PostKeeps ==
  ASSUME Inductive, NEW w \in Worker, Post(w)
  PROVE  Inductive'
<1> DEFINE x == Now(w).at
           q == Now(w).qty
           seen == [work[w].seen EXCEPT ![x].on = @ + q]
           moved == [work[w].moved EXCEPT ![x] = @ + q]
<1>1. /\ Ready(w) /\ lock[x] \in {NoOne, w} /\ CanPost(w)
      /\ lock' = [lock EXCEPT ![x] = w] /\ Return(w, seen, moved)
      /\ UNCHANGED <<day, exists, onHand, reserved, ledger, order>>
  BY DEF Post, database
<1>2. q \in Int
  BY <1>1, CallFields DEF Ready
<1>3. lock \in [Row -> Worker \cup {NoOne}] /\ NoOne \notin Worker
  BY InventoryAssumption DEF Inductive, TypeOK
<1>4. lock' \in [Row -> Worker \cup {NoOne}]
  BY <1>1, <1>3
<1>5. \A v \in Worker \ {w} : \A r \in Row : lock'[r] = v <=> lock[r] = v
  BY <1>1, <1>3
<1>6. ASSUME NEW r \in Row
      PROVE  /\ seen[r] \in Seen /\ moved[r] \in Int
             /\ IF lock'[r] = w
                THEN seen[r].on = onHand[r] + moved[r] /\ seen[r].on >= 0 /\ seen[r].res >= 0
                ELSE seen[r] = [on |-> 0, res |-> 0] /\ moved[r] = 0
  <2>1. /\ Knows(w, r) /\ onHand[r] \in Int /\ work[w].got \subseteq Held(w)
        /\ r \notin exists => onHand[r] = 0
    BY DEF Inductive, IInv, InOrder, Committed, TypeOK
  <2>2. /\ work[w].seen[r] \in Seen /\ work[w].moved[r] \in Int
        /\ work[w].seen[r].on \in Int /\ work[w].seen[r].res \in Int
        /\ work[w].seen \in [Row -> Seen] /\ work[w].moved \in [Row -> Int]
    BY WorkFields DEF Inductive
  <2>3. CASE r # x
    BY <1>1, <1>3, <2>1, <2>2, <2>3 DEF Knows
  <2>4. CASE r = x
    <3>1. /\ seen[r] = [on |-> work[w].seen[r].on + q, res |-> work[w].seen[r].res]
          /\ moved[r] = work[w].moved[r] + q /\ lock'[r] = w
      BY <1>1, <1>3, <2>2, <2>4 DEF Seen
    <3>2. IF r \in work[w].got THEN work[w].seen[r].on + q >= 0 ELSE q > 0 /\ r \notin exists
      BY <1>1, <2>4 DEF CanPost
    <3>3. r \in work[w].got => lock[r] = w
      BY <2>1 DEF Held
    <3> HIDE DEF x, q, seen, moved
    <3>4. CASE lock[r] = w
      BY <1>2, <2>1, <2>2, <3>1, <3>2, <3>4 DEF Knows, Seen
    <3>5. CASE lock[r] # w
      <4>1. q > 0 /\ onHand[r] = 0
        BY <2>1, <3>2, <3>3, <3>5
      <4>2. work[w].seen[r] = [on |-> 0, res |-> 0] /\ work[w].moved[r] = 0
        BY <2>1, <3>5 DEF Knows
      <4> QED
        BY <1>2, <3>1, <4>1, <4>2 DEF Seen
    <3> QED
      BY <3>4, <3>5
  <2> QED
    BY <2>3, <2>4
<1> HIDE DEF x, q, seen, moved
<1>7. seen \in [Row -> Seen] /\ moved \in [Row -> Int]
  <2>1. /\ work[w].seen \in [Row -> Seen] /\ work[w].moved \in [Row -> Int]
    BY WorkFields DEF Inductive
  <2>2. /\ seen = [r \in Row |-> seen[r]] /\ moved = [r \in Row |-> moved[r]]
    BY <2>1 DEF seen, moved
  <2> QED
    BY <1>6, <2>2
<1> QED
  BY <1>1, <1>4, <1>5, <1>6, <1>7, ReturnKeeps DEF Ready

\* Forgetting a transaction keeps the invariant.
LEMMA RollbackKeeps ==
  ASSUME Inductive, NEW w \in Worker, Rollback(w)
  PROVE  Inductive'
<1>1. /\ lock' = [r \in Row |-> IF lock[r] = w THEN NoOne ELSE lock[r]]
      /\ work' = [work EXCEPT ![w] = Idle]
      /\ UNCHANGED <<day, exists, onHand, reserved, ledger, order>>
  BY DEF Rollback, database
<1>2. /\ work \in [Worker -> Work] /\ lock \in [Row -> Worker \cup {NoOne}]
      /\ NoOne \notin Worker
  BY InventoryAssumption DEF Inductive, TypeOK
<1>3. Idle \in Work
  <2>1. <<>> \in Seq(Calls) /\ NoOrder \in Orders
    BY DEF NoOrder, Orders, Status
  <2> QED
    BY <2>1, FreshWork
<1>4. TypeOK'
  BY <1>1, <1>2, <1>3 DEF Inductive, TypeOK
<1>5. \A v \in Worker \ {w} : work'[v] = work[v] /\ \A r \in Row : lock'[r] = v <=> lock[r] = v
  BY <1>1, <1>2
<1>6. work'[w] = Idle /\ \A r \in Row : lock'[r] # w
  BY <1>1, <1>2
<1>7. InOrder(w)'
  BY <1>6 DEF InOrder, Held, Idle
<1>8. \A r \in Row : Knows(w, r)'
  BY <1>6 DEF Knows, Idle, Blank, NoMoves
<1>9. IInv'
  BY <1>1, <1>5, <1>7, <1>8, OwnStep DEF Inductive
<1> QED
  BY <1>4, <1>9 DEF Inductive

\* Committing keeps the invariant: the published version of a row is the
\* committed one plus the movements published with it.
LEMMA CommitKeeps ==
  ASSUME Inductive, NEW w \in Worker, Commit(w)
  PROVE  Inductive'
<1> DEFINE o == work[w].order
           mine == work[w].read
<1>1. /\ exists' = exists \cup Held(w)
      /\ onHand' = [r \in Row |-> IF lock[r] = w THEN work[w].seen[r].on ELSE onHand[r]]
      /\ reserved' = [r \in Row |-> IF lock[r] = w THEN work[w].seen[r].res ELSE reserved[r]]
      /\ ledger' = [r \in Row |-> ledger[r] + work[w].moved[r]]
      /\ order' = IF o = NoOne THEN order
                  ELSE [order EXCEPT ![o] = [status |-> After[mine.status], lines |-> mine.lines]]
      /\ lock' = [r \in Row |-> IF lock[r] = w THEN NoOne ELSE lock[r]]
      /\ work' = [work EXCEPT ![w] = Idle]
      /\ day' = day
  BY DEF Commit
<1>2. /\ work \in [Worker -> Work] /\ lock \in [Row -> Worker \cup {NoOne}]
      /\ NoOne \notin Worker
      /\ onHand \in [Row -> Int] /\ reserved \in [Row -> Int] /\ ledger \in [Row -> Int]
      /\ order \in [Order -> Orders] /\ exists \subseteq Row
  BY InventoryAssumption DEF Inductive, TypeOK
<1>3. \A r \in Row : /\ work[w].seen[r].on \in Int /\ work[w].seen[r].res \in Int
                    /\ work[w].moved[r] \in Int /\ Knows(w, r)
  BY WorkFields DEF Inductive, IInv
<1>4. TypeOK'
  <2>1. order' \in [Order -> Orders]
    <3>1. mine \in Orders
      BY WorkFields DEF Inductive
    <3>2. After[mine.status] \in Status /\ mine.lines \in Seq(Line)
      BY <3>1 DEF Orders, Status, After
    <3>3. [status |-> After[mine.status], lines |-> mine.lines] \in Orders
      BY <3>2 DEF Orders
    <3> HIDE DEF o, mine
    <3> QED
      BY <1>1, <1>2, <3>3
  <2>2. Idle \in Work
    <3>1. <<>> \in Seq(Calls) /\ NoOrder \in Orders
      BY DEF NoOrder, Orders, Status
    <3> QED
      BY <3>1, FreshWork
  <2>3. work' \in [Worker -> Work] /\ lock' \in [Row -> Worker \cup {NoOne}]
    BY <1>1, <1>2, <2>2
  <2>4. onHand' \in [Row -> Int] /\ reserved' \in [Row -> Int] /\ ledger' \in [Row -> Int]
    BY <1>1, <1>2, <1>3
  <2>5. exists' \subseteq Row
    BY <1>1, <1>2 DEF Held
  <2>6. day' \in 0..LastDay
    BY <1>1 DEF Inductive, TypeOK
  <2> QED
    BY <2>1, <2>3, <2>4, <2>5, <2>6 DEF TypeOK
<1>5. Committed'
  <2>1. ASSUME NEW r \in Row
        PROVE  /\ onHand'[r] = ledger'[r] /\ onHand'[r] >= 0 /\ reserved'[r] >= 0
               /\ r \notin exists' => onHand'[r] = 0 /\ reserved'[r] = 0
    <3>1. /\ onHand[r] = ledger[r] /\ onHand[r] >= 0 /\ reserved[r] >= 0
          /\ r \notin exists => onHand[r] = 0 /\ reserved[r] = 0
      BY DEF Inductive, IInv, Committed
    <3>2. CASE lock[r] = w
      <4>1. r \in exists'
        BY <1>1, <3>2 DEF Held
      <4> QED
        BY <1>1, <1>2, <1>3, <3>1, <3>2, <4>1 DEF Knows
    <3>3. CASE lock[r] # w
      BY <1>1, <1>2, <1>3, <3>1, <3>3 DEF Knows
    <3> QED
      BY <3>2, <3>3
  <2> QED
    BY <2>1 DEF Committed
<1>6. ASSUME NEW v \in Worker
      PROVE  InOrder(v)' /\ \A r \in Row : Knows(v, r)'
  <2>1. CASE v = w
    <3>1. work'[w] = Idle /\ \A r \in Row : lock'[r] # w
      BY <1>1, <1>2
    <3> QED
      BY <2>1, <3>1 DEF InOrder, Held, Knows, Idle, Blank, NoMoves
  <2>2. CASE v # w
    <3>1. work'[v] = work[v] /\ \A r \in Row : lock'[r] = v <=> lock[r] = v
      BY <1>1, <1>2, <2>2
    <3>2. InOrder(v) /\ \A r \in Row : Knows(v, r)
      BY DEF Inductive, IInv
    <3>3. Held(v)' = Held(v)
      BY <3>1 DEF Held
    <3>4. InOrder(v)'
      BY <3>1, <3>2, <3>3 DEF InOrder
    <3>5. ASSUME NEW r \in Row
          PROVE  Knows(v, r)'
      <4>1. lock[r] = v => onHand'[r] = onHand[r]
        BY <1>1, <2>2
      <4> QED
        BY <3>1, <3>2, <4>1 DEF Knows
    <3> QED
      BY <3>4, <3>5
  <2> QED
    BY <2>1, <2>2
<1> QED
  BY <1>4, <1>5, <1>6 DEF Inductive, IInv

-----------------------------------------------------------------------------
(* Results.                                                                *)

\* Every step keeps the invariant.
LEMMA NextKeeps ==
  ASSUME Inductive, [Next]_vars
  PROVE  Inductive'
<1>1. ASSUME NEW w \in Worker, Request(w)
      PROVE  Inductive'
  BY <1>1, RequestKeeps
<1>2. ASSUME NEW w \in Worker, Step(w)
      PROVE  Inductive'
  <2>1. CASE Scan(w)
    BY <2>1, ScanKeeps
  <2>2. CASE Serve(w)
    <3>1. Refuse(w) => Rollback(w)
      BY DEF Refuse
    <3> QED
      BY <2>2, <3>1, IssueKeeps, ReserveKeeps, ReleaseKeeps, PostKeeps, RollbackKeeps DEF Serve
  <2>3. CASE Commit(w)
    BY <2>3, CommitKeeps
  <2>4. CASE StaleOrder(w)
    BY <2>4, RollbackKeeps DEF StaleOrder
  <2> QED
    BY <1>2, <2>1, <2>2, <2>3, <2>4 DEF Step
<1>3. ASSUME NEW w \in Worker, DeadlockVictim(w) \/ Abort(w)
      PROVE  Inductive'
  BY <1>3, RollbackKeeps DEF DeadlockVictim, Abort
<1>4. CASE NextDay \/ UNCHANGED vars
  <2>1. UNCHANGED <<exists, onHand, reserved, ledger, order, lock, work>>
    BY <1>4 DEF NextDay, vars, database
  <2>2. day' \in 0..LastDay
    BY <1>4, InventoryAssumption DEF NextDay, vars, Inductive, TypeOK
  <2>3. TypeOK'
    BY <2>1, <2>2 DEF Inductive, TypeOK
  <2>4. IInv'
    BY <2>1 DEF Inductive, IInv, Committed, InOrder, Knows, Held
  <2> QED
    BY <2>3, <2>4 DEF Inductive
<1> QED
  BY <1>1, <1>2, <1>3, <1>4, LockRowKeeps DEF Next

\* The invariant of every reachable state.
THEOREM Invariance == Spec => []Inductive
<1>1. Init => Inductive
  BY InitInductive
<1>2. Inductive /\ [Next]_vars => Inductive'
  BY NextKeeps
<1> QED
  BY <1>1, <1>2, PTL DEF Spec

\* For any number of workers, rows, shelves and orders, and whatever requests
\* bring: the variables keep their types.
THEOREM TypeCorrect == Spec => []TypeOK
<1>1. Inductive => TypeOK
  BY DEF Inductive
<1> QED
  BY <1>1, Invariance, PTL

\* The invariant that InventoryMoves checks.
THEOREM StepsKeepBooks == Spec => []IInv
<1>1. Inductive => IInv
  BY DEF Inductive
<1> QED
  BY <1>1, Invariance, PTL

\* No request is lost in a balance: stock_balances is what its movements add
\* up to (ADR 0002), whatever interleaves, fails or deadlocks.
THEOREM BalancesRebuild == Spec => []BalanceIsLedger
<1>1. Inductive => BalanceIsLedger
  BY DEF Inductive, IInv, Committed, BalanceIsLedger
<1> QED
  BY <1>1, Invariance, PTL

\* Stock is never sold twice (test_concurrency.py).
THEOREM StockNeverNegative == Spec => []NeverOversold
<1>1. Inductive => NeverOversold
  BY DEF Inductive, IInv, Committed, NeverOversold
<1> QED
  BY <1>1, Invariance, PTL

\* A locked row is worked on at its latest version, so the version column of
\* stock_balances never makes a request fail.
THEOREM LocksGiveLatestRow == Spec => []LockedRowsAreFresh
<1>1. Inductive => LockedRowsAreFresh
  BY DEF Inductive, IInv, Knows, Held, LockedRowsAreFresh
<1> QED
  BY <1>1, Invariance, PTL

-----------------------------------------------------------------------------
(* What a request has promised: what its calls have done so far, and what  *)
(* the calls still to make will do, add up to what it was asked for.       *)

ReserveOf(call, s) ==
  IF call.at # s THEN 0
  ELSE IF call.op = "reserve" THEN call.qty
  ELSE IF call.op = "release" THEN -call.qty ELSE 0
IssueOf(call, s) == IF call.op \in {"issue", "reduce"} /\ call.at = s THEN call.qty ELSE 0
PostOf(call, r) == IF call.op = "post" /\ call.at = r THEN call.qty ELSE 0

ToReserve(script, s) == Total([i \in DOMAIN script |-> ReserveOf(script[i], s)], DOMAIN script)
ToIssue(script, s) == Total([i \in DOMAIN script |-> IssueOf(script[i], s)], DOMAIN script)
ToPost(script, r) == Total([i \in DOMAIN script |-> PostOf(script[i], r)], DOMAIN script)

\* What w has reserved, or released, in the rows it holds.
SetAside(w) == [r \in Row |-> IF lock[r] = w THEN work[w].seen[r].res - reserved[r] ELSE 0]

\* What x has taken out of stock.
Taken(x) == [r \in Row |-> -x.moved[r]]

Asks(lines) == [s \in Shelf |-> LineQty(lines, s)]
Back(lines) == [s \in Shelf |-> -LineQty(lines, s)]
Nothing == [s \in Shelf |-> 0]

Uses(x, ops) == \A i \in DOMAIN x.script : x.script[i].op \in ops

\* x sets aside and takes out, shelf by shelf, and never more than is unreserved.
Lined(x, put, ops, aside, out) ==
  /\ Uses(x, ops)
  /\ \A s \in Shelf :
       /\ Total(put, RowsOf(s)) + ToReserve(x.script, s) = aside[s]
       /\ Total(Taken(x), RowsOf(s)) + ToIssue(x.script, s) = out[s]
  /\ \A r \in Row :
       /\ "reserve" \notin ops => put[r] <= 0
       /\ "release" \notin ops => put[r] >= 0
       /\ x.moved[r] <= 0
       /\ "issue" \notin ops => x.moved[r] = 0
       /\ x.moved[r] < 0 \/ put[r] > 0 => x.seen[r].res <= x.seen[r].on

\* x moves delta, row by row, and reserves nothing.
Posted(x, put, delta) ==
  /\ Uses(x, {"post"})
  /\ \A r \in Row : put[r] = 0 /\ x.moved[r] + ToPost(x.script, r) = delta[r]

Cuts == {<<[shelf |-> s, qty |-> q]>> : s \in Shelf, q \in 1..MaxOnHand}

Brought(lots) == [r \in Row |-> Total([i \in DOMAIN lots |-> lots[i].qty],
                                      {i \in DOMAIN lots : lots[i].row = r})]
Added(x, q) == [r \in Row |-> IF r = x THEN q ELSE 0]
Carried(from, to, q) == [r \in Row |-> IF r = from THEN -q ELSE IF r = to THEN q ELSE 0]

\* The movements of a receipt, an addition or a transfer.
Arrives(delta) ==
  \/ \E lots \in Delivery : delta = Brought(lots)
  \/ \E r \in Loose, q \in 1..MaxOnHand : delta = Added(r, q)
  \/ \E from, to \in Loose, q \in 1..MaxOnHand : from # to /\ delta = Carried(from, to, q)

\* What an order was when x read it, it still is, or somebody has dispatched it.
Planned(x, put, rows) ==
  IF x.order # NoOne
  THEN \/ /\ x.read.status = "none" /\ x.read.lines \in Basket
          /\ Lined(x, put, {"reserve"}, Asks(x.read.lines), Nothing)
       \/ /\ x.read.status = "confirmed"
          /\ rows[x.order].status # "none" /\ rows[x.order].lines = x.read.lines
          /\ Lined(x, put, {"release", "issue"}, Back(x.read.lines), Asks(x.read.lines))
  ELSE \/ \E lines \in Basket \cup Cuts :
            Lined(x, put, {"issue", "reduce"}, Nothing, Asks(lines))
       \/ \E delta : Arrives(delta) /\ Posted(x, put, delta)

\* A statement about a shelf returns rows of the shelf.
Aimed(x) == x.pc = "locking" /\ Head(x.script).op # "post" =>
              \A r \in x.todo \cup x.got : ShelfOf[r] = Head(x.script).at

PlanInv == \A w \in Worker : /\ Aimed(work[w])
                             /\ work[w].pc # "idle" => Planned(work[w], SetAside(w), order)

-----------------------------------------------------------------------------
(* Sums over scripts.                                                      *)

\* The first term of a sum, and the others.
LEMMA SumHead ==
  ASSUME NEW n \in Nat, NEW f, NEW g, \A i \in 1..(n + 1) : f[i] \in Int,
         \A i \in 1..n : g[i] = f[1 + i]
  PROVE  Total(f, 1..(n + 1)) = f[1] + Total(g, 1..n)
<1>1. IsFiniteSet(1..n) /\ IsFiniteSet(1..(n + 1))
  <2>1. 1 \in Int /\ n \in Int /\ n + 1 \in Int
    OBVIOUS
  <2> QED
    BY <2>1, FS_Interval
<1>2. 1..(n + 1) \ {1} = Shifted(1, 1..n)
  <2>1. ASSUME NEW i \in 1..(n + 1), i # 1
        PROVE  i - 1 \in 1..n /\ i = 1 + (i - 1)
    BY <2>1
  <2>2. \A i \in 1..n : 1 + i \in 1..(n + 1) /\ 1 + i # 1
    OBVIOUS
  <2> QED
    BY <2>1, <2>2 DEF Shifted
<1>3. Total(f, 1..(n + 1)) = f[1] + Total(f, 1..(n + 1) \ {1})
  <2>1. 1 \in 1..(n + 1)
    OBVIOUS
  <2> QED
    BY ONLY <2>1, <1>1, SumTakeOut, \A i \in 1..(n + 1) : f[i] \in Int DEF Total
<1>4. \A i \in 1..n : g[i] \in Int /\ f[1 + i] = g[i]
  OBVIOUS
<1>5. 1..n \subseteq Int /\ 1 \in Int
  OBVIOUS
<1>6. Total(f, Shifted(1, 1..n)) = Total(g, 1..n)
  BY ONLY <1>1, <1>4, <1>5, SumShifted DEF Total
<1> QED
  BY <1>2, <1>3, <1>6

\* The shares of a call are numbers.
LEMMA CallTyped ==
  ASSUME NEW script \in Seq(Calls), NEW i \in DOMAIN script
  PROVE  /\ script[i].qty \in Int
         /\ script[i].op \in {"issue", "reduce", "reserve", "release", "post"}
         /\ \A s : ReserveOf(script[i], s) \in Int /\ IssueOf(script[i], s) \in Int
                   /\ PostOf(script[i], s) \in Int
<1>1. script[i] \in Calls
  OBVIOUS
<1> QED
  BY <1>1 DEF Calls, ReserveOf, IssueOf, PostOf

\* A call that returns takes its part out of what is still to do.
LEMMA ScriptTail ==
  ASSUME NEW script \in Seq(Calls), script # <<>>, NEW s
  PROVE  /\ ToReserve(script, s) = ReserveOf(Head(script), s) + ToReserve(Tail(script), s)
         /\ ToIssue(script, s) = IssueOf(Head(script), s) + ToIssue(Tail(script), s)
         /\ ToPost(script, s) = PostOf(Head(script), s) + ToPost(Tail(script), s)
<1> DEFINE n == Len(script) - 1
<1>1. /\ n \in Nat /\ DOMAIN script = 1..(n + 1) /\ DOMAIN Tail(script) = 1..n
      /\ Head(script) = script[1] /\ \A i \in 1..n : Tail(script)[i] = script[1 + i]
  <2>1. Len(script) \in Nat /\ Len(script) # 0
    OBVIOUS
  <2>2. /\ DOMAIN script = 1..Len(script) /\ Head(script) = script[1]
        /\ Len(Tail(script)) = Len(script) - 1 /\ Tail(script) \in Seq(Calls)
    OBVIOUS
  <2>3. \A i \in 1..(Len(script) - 1) : Tail(script)[i] = script[1 + i]
    OBVIOUS
  <2> QED
    BY <2>1, <2>2, <2>3
<1> HIDE DEF n
<1>2. \A i \in 1..n : i \in 1..(n + 1) /\ 1 + i \in 1..(n + 1)
  BY <1>1
<1>3. ToReserve(script, s) = ReserveOf(Head(script), s) + ToReserve(Tail(script), s)
  <2> DEFINE f == [i \in 1..(n + 1) |-> ReserveOf(script[i], s)]
             g == [i \in 1..n |-> ReserveOf(Tail(script)[i], s)]
  <2>1. \A i \in 1..(n + 1) : f[i] \in Int
    BY <1>1, CallTyped
  <2>2. \A i \in 1..n : g[i] = f[1 + i]
    BY <1>1, <1>2
  <2>3. f[1] = ReserveOf(Head(script), s)
    BY <1>1
  <2>4. ToReserve(script, s) = Total(f, 1..(n + 1)) /\ ToReserve(Tail(script), s) = Total(g, 1..n)
    BY <1>1 DEF ToReserve
  <2> HIDE DEF f, g
  <2>5. Total(f, 1..(n + 1)) = f[1] + Total(g, 1..n)
    BY ONLY <1>1, <2>1, <2>2, SumHead
  <2> QED
    BY ONLY <2>3, <2>4, <2>5
<1>4. ToIssue(script, s) = IssueOf(Head(script), s) + ToIssue(Tail(script), s)
  <2> DEFINE f == [i \in 1..(n + 1) |-> IssueOf(script[i], s)]
             g == [i \in 1..n |-> IssueOf(Tail(script)[i], s)]
  <2>1. \A i \in 1..(n + 1) : f[i] \in Int
    BY <1>1, CallTyped
  <2>2. \A i \in 1..n : g[i] = f[1 + i]
    BY <1>1, <1>2
  <2>3. f[1] = IssueOf(Head(script), s)
    BY <1>1
  <2>4. ToIssue(script, s) = Total(f, 1..(n + 1)) /\ ToIssue(Tail(script), s) = Total(g, 1..n)
    BY <1>1 DEF ToIssue
  <2> HIDE DEF f, g
  <2>5. Total(f, 1..(n + 1)) = f[1] + Total(g, 1..n)
    BY ONLY <1>1, <2>1, <2>2, SumHead
  <2> QED
    BY ONLY <2>3, <2>4, <2>5
<1>5. ToPost(script, s) = PostOf(Head(script), s) + ToPost(Tail(script), s)
  <2> DEFINE f == [i \in 1..(n + 1) |-> PostOf(script[i], s)]
             g == [i \in 1..n |-> PostOf(Tail(script)[i], s)]
  <2>1. \A i \in 1..(n + 1) : f[i] \in Int
    BY <1>1, CallTyped
  <2>2. \A i \in 1..n : g[i] = f[1 + i]
    BY <1>1, <1>2
  <2>3. f[1] = PostOf(Head(script), s)
    BY <1>1
  <2>4. ToPost(script, s) = Total(f, 1..(n + 1)) /\ ToPost(Tail(script), s) = Total(g, 1..n)
    BY <1>1 DEF ToPost
  <2> HIDE DEF f, g
  <2>5. Total(f, 1..(n + 1)) = f[1] + Total(g, 1..n)
    BY ONLY <1>1, <2>1, <2>2, SumHead
  <2> QED
    BY ONLY <2>3, <2>4, <2>5
<1> QED
  BY <1>3, <1>4, <1>5

\* What is still to do is a number, and nothing once the script is at its end.
LEMMA ScriptSums ==
  ASSUME NEW script \in Seq(Calls), NEW s
  PROVE  /\ ToReserve(script, s) \in Int /\ ToIssue(script, s) \in Int /\ ToPost(script, s) \in Int
         /\ script = <<>> => /\ ToReserve(script, s) = 0
                             /\ ToIssue(script, s) = 0 /\ ToPost(script, s) = 0
<1> DEFINE D == DOMAIN script
<1>1. IsFiniteSet(D)
  <2>1. D = 1..Len(script) /\ 1 \in Int /\ Len(script) \in Int
    OBVIOUS
  <2> QED
    BY <2>1, FS_Interval
<1> DEFINE f == [i \in D |-> ReserveOf(script[i], s)]
           g == [i \in D |-> IssueOf(script[i], s)]
           h == [i \in D |-> PostOf(script[i], s)]
<1>2. \A i \in D : f[i] \in Int /\ g[i] \in Int /\ h[i] \in Int
  BY CallTyped
<1>3. ToReserve(script, s) = Total(f, D) /\ ToIssue(script, s) = Total(g, D)
      /\ ToPost(script, s) = Total(h, D)
  BY DEF ToReserve, ToIssue, ToPost
<1>4. script = <<>> => D = {}
  OBVIOUS
<1> HIDE DEF f, g, h, D
<1>5. Total(f, D) \in Int /\ Total(g, D) \in Int /\ Total(h, D) \in Int
  BY <1>1, <1>2, SumInt DEF Total
<1>6. D = {} => Total(f, D) = 0 /\ Total(g, D) = 0 /\ Total(h, D) = 0
  BY SumOfNone DEF Total
<1> QED
  BY <1>3, <1>4, <1>5, <1>6

-----------------------------------------------------------------------------
(* One call of a request about lines.                                      *)

\* A shelf has finitely many rows.
LEMMA RowsFinite ==
  ASSUME NEW s
  PROVE  IsFiniteSet(RowsOf(s)) /\ RowsOf(s) \subseteq Row
BY InventoryAssumption, FS_Subset DEF RowsOf

\* Every call of the script is one the request makes, the next one too.
LEMMA UsesTail ==
  ASSUME NEW x, NEW y, NEW ops, x.script \in Seq(Calls), x.script # <<>>, Uses(x, ops),
         y.script = Tail(x.script)
  PROVE  Uses(y, ops) /\ Head(x.script).op \in ops /\ Head(x.script) \in Calls
<1> DEFINE script == x.script
<1>1. Len(script) \in Nat /\ Len(script) # 0 /\ DOMAIN script = 1..Len(script)
  OBVIOUS
<1>2. \A i \in DOMAIN Tail(script) : 1 + i \in DOMAIN script /\ Tail(script)[i] = script[1 + i]
  <2>1. DOMAIN Tail(script) = 1..(Len(script) - 1)
    OBVIOUS
  <2>2. \A i \in 1..(Len(script) - 1) : Tail(script)[i] = script[1 + i]
    OBVIOUS
  <2> QED
    BY <1>1, <2>1, <2>2
<1>3. Head(script) = script[1] /\ 1 \in DOMAIN script /\ script[1] \in Calls
  BY <1>1
<1> HIDE DEF script
<1> QED
  BY <1>2, <1>3 DEF script, Uses

\* The next call of x is about a shelf: it sets a aside and takes t, and x becomes y.
Called(x, y, put, put2, a, t) ==
  /\ x.script \in Seq(Calls) /\ x.script # <<>> /\ y.script = Tail(x.script)
  /\ y.order = x.order /\ y.read = x.read /\ Head(x.script).op # "post"
  /\ \A r \in Row : /\ x.seen[r].on \in Int /\ x.seen[r].res \in Int /\ x.moved[r] \in Int
                    /\ put[r] \in Int /\ a[r] \in Int /\ t[r] \in Int /\ t[r] >= 0
  /\ \A r \in Row : /\ y.seen[r].on = x.seen[r].on - t[r]
                    /\ y.seen[r].res = x.seen[r].res + a[r]
                    /\ y.moved[r] = x.moved[r] - t[r]
                    /\ put2[r] = put[r] + a[r]
  /\ \A r \in Row :
       /\ t[r] > 0 => /\ Head(x.script).op \in {"issue", "reduce"} /\ a[r] = 0
                      /\ t[r] <= x.seen[r].on - x.seen[r].res
       /\ a[r] > 0 => /\ Head(x.script).op = "reserve"
                      /\ a[r] <= x.seen[r].on - x.seen[r].res
       /\ a[r] < 0 => Head(x.script).op = "release"
  /\ \A s \in Shelf : /\ Total(a, RowsOf(s)) = ReserveOf(Head(x.script), s)
                      /\ Total(t, RowsOf(s)) = IssueOf(Head(x.script), s)

\* A call about a shelf keeps what a request about lines has promised.
LEMMA LinedCall ==
  ASSUME NEW x, NEW y, NEW put, NEW put2, NEW a, NEW t, NEW ops, NEW aside, NEW out,
         Called(x, y, put, put2, a, t), "reduce" \in ops => "issue" \in ops,
         Lined(x, put, ops, aside, out)
  PROVE  Lined(y, put2, ops, aside, out)
<1>0. /\ x.script \in Seq(Calls) /\ x.script # <<>> /\ y.script = Tail(x.script)
      /\ \A r \in Row : /\ x.seen[r].on \in Int /\ x.seen[r].res \in Int /\ x.moved[r] \in Int
                        /\ put[r] \in Int /\ a[r] \in Int /\ t[r] \in Int /\ t[r] >= 0
      /\ \A r \in Row : /\ y.seen[r].on = x.seen[r].on - t[r]
                        /\ y.seen[r].res = x.seen[r].res + a[r]
                        /\ y.moved[r] = x.moved[r] - t[r]
                        /\ put2[r] = put[r] + a[r]
      /\ \A s \in Shelf : /\ Total(a, RowsOf(s)) = ReserveOf(Head(x.script), s)
                          /\ Total(t, RowsOf(s)) = IssueOf(Head(x.script), s)
  BY Zenon DEF Called
<1>4. Head(x.script).op \in ops
  BY <1>0, UsesTail DEF Lined
<1>5. \A r \in Row :
        /\ t[r] > 0 => /\ "issue" \in ops /\ a[r] = 0
                       /\ t[r] <= x.seen[r].on - x.seen[r].res
        /\ a[r] > 0 => "reserve" \in ops /\ a[r] <= x.seen[r].on - x.seen[r].res
        /\ a[r] < 0 => "release" \in ops
  BY <1>4 DEF Called
<1>1. Uses(y, ops)
  BY <1>0, UsesTail DEF Lined
<1>2. ASSUME NEW s \in Shelf
      PROVE  /\ Total(put2, RowsOf(s)) + ToReserve(y.script, s) = aside[s]
             /\ Total(Taken(y), RowsOf(s)) + ToIssue(y.script, s) = out[s]
  <2> DEFINE S == RowsOf(s)
             tx == Taken(x)
             ty == Taken(y)
  <2>1. IsFiniteSet(S) /\ S \subseteq Row
    BY RowsFinite
  <2>2. \A r \in S : put[r] \in Int /\ a[r] \in Int /\ put2[r] = put[r] + a[r] /\ put2[r] \in Int
    BY <1>0, <2>1
  <2>3. \A r \in S : tx[r] \in Int /\ t[r] \in Int /\ ty[r] = tx[r] + t[r] /\ ty[r] \in Int
    <3>1. \A r \in Row : tx[r] = -x.moved[r] /\ ty[r] = -y.moved[r]
      BY DEF Taken
    <3>2. \A r \in Row : x.moved[r] \in Int /\ t[r] \in Int /\ y.moved[r] = x.moved[r] - t[r]
      BY <1>0
    <3> HIDE DEF tx, ty, S
    <3>3. ASSUME NEW r \in S
          PROVE  tx[r] \in Int /\ t[r] \in Int /\ ty[r] = tx[r] + t[r] /\ ty[r] \in Int
      <4>1. r \in Row
        BY <2>1
      <4> QED
        BY ONLY <4>1, <3>1, <3>2
    <3> QED
      BY <3>3
  <2>4. /\ Total(put, S) + ToReserve(x.script, s) = aside[s]
        /\ Total(tx, S) + ToIssue(x.script, s) = out[s]
    BY DEF Lined
  <2>5. /\ ToReserve(x.script, s) = ReserveOf(Head(x.script), s) + ToReserve(y.script, s)
        /\ ToIssue(x.script, s) = IssueOf(Head(x.script), s) + ToIssue(y.script, s)
    BY <1>0, ScriptTail
  <2>6. ToReserve(y.script, s) \in Int /\ ToIssue(y.script, s) \in Int
    <3>1. y.script \in Seq(Calls)
      BY <1>0
    <3> QED
      BY <3>1, ScriptSums
  <2>7. Total(a, S) = ReserveOf(Head(x.script), s) /\ Total(t, S) = IssueOf(Head(x.script), s)
    BY <1>0
  <2> HIDE DEF S, tx, ty
  <2>8. Total(put2, S) = Total(put, S) + Total(a, S)
    BY ONLY <2>1, <2>2, SumAdd DEF Total
  <2>9. Total(ty, S) = Total(tx, S) + Total(t, S)
    BY ONLY <2>1, <2>3, SumAdd DEF Total
  <2>10. Total(put, S) \in Int /\ Total(a, S) \in Int /\ Total(tx, S) \in Int /\ Total(t, S) \in Int
    BY ONLY <2>1, <2>2, <2>3, SumInt DEF Total
  <2>11. /\ Total(put2, S) + ToReserve(y.script, s) = aside[s]
         /\ Total(ty, S) + ToIssue(y.script, s) = out[s]
    BY ONLY <2>4, <2>5, <2>6, <2>7, <2>8, <2>9, <2>10
  <2> QED
    BY <2>11 DEF S, ty
<1>3. ASSUME NEW r \in Row
      PROVE  /\ "reserve" \notin ops => put2[r] <= 0
             /\ "release" \notin ops => put2[r] >= 0
             /\ y.moved[r] <= 0
             /\ "issue" \notin ops => y.moved[r] = 0
             /\ y.moved[r] < 0 \/ put2[r] > 0 => y.seen[r].res <= y.seen[r].on
  <2>1. /\ "reserve" \notin ops => put[r] <= 0
        /\ "release" \notin ops => put[r] >= 0
        /\ x.moved[r] <= 0
        /\ "issue" \notin ops => x.moved[r] = 0
        /\ x.moved[r] < 0 \/ put[r] > 0 => x.seen[r].res <= x.seen[r].on
    BY DEF Lined
  <2>2. /\ y.seen[r].on = x.seen[r].on - t[r]
        /\ y.seen[r].res = x.seen[r].res + a[r]
        /\ y.moved[r] = x.moved[r] - t[r]
        /\ put2[r] = put[r] + a[r]
        /\ x.seen[r].on \in Int /\ x.seen[r].res \in Int /\ x.moved[r] \in Int
        /\ put[r] \in Int /\ a[r] \in Int /\ t[r] \in Int /\ t[r] >= 0
    BY <1>0
  <2>3. /\ t[r] > 0 => /\ "issue" \in ops /\ a[r] = 0
                       /\ t[r] <= x.seen[r].on - x.seen[r].res
        /\ a[r] > 0 => "reserve" \in ops /\ a[r] <= x.seen[r].on - x.seen[r].res
        /\ a[r] < 0 => "release" \in ops
    BY <1>5
  <2> QED
    BY ONLY <2>1, <2>2, <2>3
<1> QED
  BY <1>1, <1>2, <1>3, Zenon DEF Lined

\* What the service takes from the rows of a shelf is what the call asks for.
LEMMA TakeSums ==
  ASSUME Inductive, NEW w \in Worker, Ready(w), Aimed(work[w]), Now(w).op # "post",
         NEW take \in Choices(w)
  PROVE  /\ \A s \in Shelf : Total(take, RowsOf(s)) = IF s = Now(w).at THEN Now(w).qty ELSE 0
         /\ \A r \in Row : take[r] > 0 /\ Now(w).op # "release" =>
                             take[r] <= work[w].seen[r].on - work[w].seen[r].res
<1>1. DOMAIN Offer(w) = Row
  BY DEF Offer
<1>2. PICK from : /\ take \in Takes(Offer(w), ExpiryOf, from, Now(w).qty)
                  /\ from \subseteq {r \in Row : Offer(w)[r] > 0}
  BY <1>1 DEF Choices, Sellable, Holding
<1>3. from \subseteq work[w].got
  BY <1>2 DEF Offer
<1>4. \A r \in from : r \in Row /\ ShelfOf[r] = Now(w).at
  BY <1>2, <1>3 DEF Aimed, Ready, Now
<1>5. /\ \A r \in Row : take[r] <= IF r \in from THEN Offer(w)[r] ELSE 0
      /\ \A r \in Row : take[r] \in Int /\ take[r] >= 0
      /\ Total(take, from) = Now(w).qty
  <2>1. Now(w).qty \in Int
    BY CallFields DEF Ready
  <2> QED
    BY <1>1, <1>2, <2>1 DEF Takes
<1>6. \A r \in Row \ from : take[r] = 0
  BY <1>5
<1>7. ASSUME NEW s \in Shelf
      PROVE  Total(take, RowsOf(s)) = IF s = Now(w).at THEN Now(w).qty ELSE 0
  <2> DEFINE S == RowsOf(s)
  <2>1. IsFiniteSet(S) /\ S \subseteq Row
    BY RowsFinite
  <2>2. CASE s = Now(w).at
    <3>1. from \in SUBSET S
      BY <1>4, <2>2 DEF RowsOf
    <3>2. \A r \in from : take[r] \in Int
      BY <1>4, <1>5
    <3>3. \A r \in S \ from : take[r] = 0
      BY <1>6, <2>1
    <3> HIDE DEF S
    <3>4. Total(take, S) = Total(take, from)
      BY ONLY <2>1, <3>1, <3>2, <3>3, SumPart DEF Total
    <3> QED
      BY <1>5, <2>2, <3>4 DEF S
  <2>3. CASE s # Now(w).at
    <3>1. \A r \in S : take[r] = 0
      BY <1>4, <1>6, <2>3 DEF RowsOf
    <3> HIDE DEF S
    <3>2. Total(take, S) = 0
      BY ONLY <2>1, <3>1, SumZero DEF Total
    <3> QED
      BY <2>3, <3>2 DEF S
  <2> QED
    BY <2>2, <2>3
<1>8. ASSUME NEW r \in Row, take[r] > 0, Now(w).op # "release"
      PROVE  take[r] <= work[w].seen[r].on - work[w].seen[r].res
  <2>1. r \in from /\ take[r] <= Offer(w)[r]
    BY <1>5, <1>6, <1>8
  <2> QED
    BY <1>3, <1>8, <2>1 DEF Offer
<1> QED
  BY <1>7, <1>8

-----------------------------------------------------------------------------
(* Steps that keep a promise.                                              *)

\* A promise does not depend on where a statement is, nor on rows that were
\* not touched, nor on orders of others.
LEMMA PlannedKept ==
  ASSUME NEW x, NEW y, NEW put, NEW rows, NEW rows2,
         y.script = x.script, y.moved = x.moved, y.order = x.order, y.read = x.read,
         \A r \in Row : y.seen[r] = x.seen[r] \/ (x.moved[r] = 0 /\ put[r] = 0),
         x.order \in Order \cup {NoOne},
         \A o \in Order : rows[o].status # "none" =>
                            rows2[o].status # "none" /\ rows2[o].lines = rows[o].lines,
         Planned(x, put, rows)
  PROVE  Planned(y, put, rows2)
<1>1. ASSUME NEW ops, NEW aside, NEW out, Lined(x, put, ops, aside, out)
      PROVE  Lined(y, put, ops, aside, out)
  <2>1. Uses(y, ops) /\ Taken(y) = Taken(x)
    BY <1>1 DEF Lined, Uses, Taken
  <2>2. \A s \in Shelf :
          /\ Total(put, RowsOf(s)) + ToReserve(y.script, s) = aside[s]
          /\ Total(Taken(y), RowsOf(s)) + ToIssue(y.script, s) = out[s]
    BY <1>1, <2>1 DEF Lined
  <2>3. ASSUME NEW r \in Row
        PROVE  /\ "reserve" \notin ops => put[r] <= 0
               /\ "release" \notin ops => put[r] >= 0
               /\ y.moved[r] <= 0
               /\ "issue" \notin ops => y.moved[r] = 0
               /\ y.moved[r] < 0 \/ put[r] > 0 => y.seen[r].res <= y.seen[r].on
    BY <1>1 DEF Lined
  <2> QED
    BY <2>1, <2>2, <2>3, Zenon DEF Lined
<1>2. ASSUME NEW delta, Posted(x, put, delta)
      PROVE  Posted(y, put, delta)
  BY <1>2 DEF Posted, Uses
<1>3. CASE x.order # NoOne
  BY <1>1, <1>3, Zenon DEF Planned
<1>4. CASE x.order = NoOne
  <2>1. CASE \E lines \in Basket \cup Cuts : Lined(x, put, {"issue", "reduce"}, Nothing, Asks(lines))
    BY <1>1, <1>4, <2>1, Zenon DEF Planned
  <2>2. CASE \E delta : Arrives(delta) /\ Posted(x, put, delta)
    BY <1>2, <1>4, <2>2, Zenon DEF Planned
  <2> QED
    BY <1>4, <2>1, <2>2, Zenon DEF Planned
<1> QED
  BY <1>3, <1>4

\* A step of w that commits nothing leaves the promises of the others alone.
LEMMA OwnPlan ==
  ASSUME PlanInv, NEW w \in Worker, UNCHANGED <<reserved, order>>,
         \A v \in Worker \ {w} : /\ work'[v] = work[v]
                                /\ \A r \in Row : lock'[r] = v <=> lock[r] = v,
         Aimed(work'[w]),
         work'[w].pc # "idle" => Planned(work'[w], SetAside(w)', order)
  PROVE  PlanInv'
<1>1. ASSUME NEW v \in Worker, v # w
      PROVE  /\ Aimed(work'[v])
             /\ work'[v].pc # "idle" => Planned(work'[v], SetAside(v)', order')
  <2>1. work'[v] = work[v] /\ \A r \in Row : lock'[r] = v <=> lock[r] = v
    BY <1>1
  <2>2. SetAside(v)' = SetAside(v)
    BY <2>1 DEF SetAside
  <2>3. Aimed(work[v]) /\ (work[v].pc # "idle" => Planned(work[v], SetAside(v), order))
    BY DEF PlanInv
  <2>4. order' = order
    OBVIOUS
  <2> QED
    BY ONLY <2>1, <2>2, <2>3, <2>4
<1>2. Aimed(work'[w]) /\ (work'[w].pc # "idle" => Planned(work'[w], SetAside(w)', order'))
  BY Zenon
<1>3. \A v \in Worker : /\ Aimed(work'[v])
                        /\ work'[v].pc # "idle" => Planned(work'[v], SetAside(v)', order')
  BY <1>1, <1>2, Zenon
<1> QED
  BY <1>3, Zenon DEF PlanInv

\* A statement's snapshot.
LEMMA ScanPlan ==
  ASSUME Inductive, PlanInv, NEW w \in Worker, Scan(w)
  PROVE  PlanInv'
<1> DEFINE x == work[w]
           todo == {r \in Visible(w) : Wanted(Head(x.script), r, Read(w, r))}
           y == [x EXCEPT !.pc = "locking", !.asOf = day, !.todo = todo, !.got = {}]
<1>1. x \in Work /\ work \in [Worker -> Work]
  BY DEF Inductive, TypeOK
<1>2. work' = [work EXCEPT ![w] = y] /\ UNCHANGED <<reserved, order, lock>>
  BY <1>1 DEF Scan, Work, database
<1>3. /\ x.script \in Seq(Calls) /\ x.script # <<>> /\ x.pc = "call"
      /\ x.order \in Order \cup {NoOne}
  BY WorkFields DEF Scan, Inductive
<1>4. Head(x.script).op \in {"issue", "reduce", "reserve", "release", "post"}
  <2>1. Head(x.script) \in Calls
    BY <1>3
  <2> QED
    BY <2>1 DEF Calls
<1>5. Head(x.script).op # "post" => \A r \in todo : ShelfOf[r] = Head(x.script).at
  BY <1>4 DEF Wanted
<1> HIDE DEF todo
<1>6. /\ y.script = x.script /\ y.moved = x.moved /\ y.order = x.order /\ y.read = x.read
      /\ y.seen = x.seen /\ y.todo = todo /\ y.got = {}
  BY <1>1 DEF Work
<1> HIDE DEF y
<1>7. Aimed(y)
  BY <1>5, <1>6 DEF Aimed
<1>8. SetAside(w)' = SetAside(w)
  <2>1. work'[w] = y
    BY <1>1, <1>2
  <2> QED
    BY <1>2, <1>6, <2>1 DEF SetAside
<1>9. Planned(x, SetAside(w), order)
  BY <1>3 DEF PlanInv
<1>10. Planned(y, SetAside(w), order)
  <2> HIDE DEF x
  <2> QED
    BY <1>3, <1>6, <1>9, PlannedKept
<1>11. work'[w] = y /\ \A v \in Worker \ {w} : work'[v] = work[v]
  BY <1>1, <1>2
<1>12. Planned(work'[w], SetAside(w)', order)
  BY ONLY <1>8, <1>10, <1>11
<1> QED
  BY <1>2, <1>7, <1>11, <1>12, OwnPlan

\* A row that is locked has not been touched before.
LEMMA LockRowPlan ==
  ASSUME Inductive, PlanInv, NEW w \in Worker, NEW r \in Row, LockRow(w, r)
  PROVE  PlanInv'
<1> DEFINE x == work[w]
           got == IF Wanted(Head(x.script), r, Read(w, r)) THEN x.got \cup {r} ELSE x.got
           y == [x EXCEPT !.todo = @ \ {r}, !.got = got, !.seen[r] = Read(w, r)]
<1>1. /\ x \in Work /\ work \in [Worker -> Work] /\ lock \in [Row -> Worker \cup {NoOne}]
      /\ NoOne \notin Worker
  BY InventoryAssumption DEF Inductive, TypeOK
<1>2. /\ work' = [work EXCEPT ![w] = y] /\ UNCHANGED <<reserved, order>>
      /\ lock' = [lock EXCEPT ![r] = w] /\ lock[r] \in {NoOne, w}
      /\ x.pc = "locking" /\ r \in x.todo
  BY <1>1 DEF LockRow, Work, database
<1>3. /\ x.seen \in [Row -> Seen] /\ x.order \in Order \cup {NoOne}
      /\ \A q \in Row : x.seen[q].res \in Int
  BY WorkFields DEF Inductive
<1>4. got \subseteq x.got \cup {r}
  OBVIOUS
<1> HIDE DEF got
<1>5. /\ y.script = x.script /\ y.moved = x.moved /\ y.order = x.order /\ y.read = x.read
      /\ y.seen = [x.seen EXCEPT ![r] = Read(w, r)] /\ y.todo = x.todo \ {r} /\ y.got = got
      /\ y.pc = x.pc
  BY <1>1 DEF Work
<1> HIDE DEF y
<1>6. Aimed(x) /\ Planned(x, SetAside(w), order)
  BY <1>2 DEF PlanInv
<1>7. Aimed(y)
  BY <1>2, <1>4, <1>5, <1>6 DEF Aimed
<1>8. work'[w] = y /\ \A v \in Worker \ {w} : work'[v] = work[v]
  BY <1>1, <1>2
<1>9. lock[r] # w => x.moved[r] = 0 /\ SetAside(w)[r] = 0
  BY DEF SetAside, Inductive, IInv, Knows
<1>10. \A q \in Row : y.seen[q] = x.seen[q] \/ (x.moved[q] = 0 /\ SetAside(w)[q] = 0)
  BY <1>3, <1>5, <1>9 DEF Read
<1>11. SetAside(w)' = SetAside(w)
  <2>1. ASSUME NEW q \in Row
        PROVE  (IF lock'[q] = w THEN y.seen[q].res - reserved[q] ELSE 0)
                 = IF lock[q] = w THEN x.seen[q].res - reserved[q] ELSE 0
    <3>1. CASE q # r
      BY <1>1, <1>2, <1>3, <1>5, <3>1
    <3>2. CASE q = r /\ lock[r] = w
      BY <1>1, <1>2, <1>3, <1>5, <3>2 DEF Read
    <3>3. CASE q = r /\ lock[r] # w
      <4>1. y.seen[r].res = reserved[r] /\ reserved[r] \in Int /\ lock'[r] = w
        BY <1>1, <1>2, <1>3, <1>5, <3>3 DEF Read, Inductive, TypeOK
      <4> QED
        BY <3>3, <4>1
    <3> QED
      BY <3>1, <3>2, <3>3
  <2> QED
    BY <1>2, <1>8, <2>1 DEF SetAside
<1>12. Planned(y, SetAside(w), order)
  <2> HIDE DEF x
  <2> QED
    BY <1>3, <1>5, <1>6, <1>10, PlannedKept
<1>13. \A v \in Worker \ {w} : \A q \in Row : lock'[q] = v <=> lock[q] = v
  BY <1>1, <1>2
<1>14. Planned(work'[w], SetAside(w)', order)
  BY ONLY <1>8, <1>11, <1>12
<1> QED
  BY <1>2, <1>7, <1>8, <1>13, <1>14, OwnPlan

\* Such a call keeps what x has promised.
LEMMA PlannedCall ==
  ASSUME NEW x, NEW y, NEW put, NEW put2, NEW a, NEW t, NEW rows,
         Called(x, y, put, put2, a, t), Planned(x, put, rows)
  PROVE  Planned(y, put2, rows)
<1>0. /\ y.order = x.order /\ y.read = x.read /\ Head(x.script).op # "post"
      /\ x.script \in Seq(Calls) /\ x.script # <<>> /\ y.script = Tail(x.script)
  BY Zenon DEF Called
<1>1. ASSUME NEW ops, NEW aside, NEW out, Lined(x, put, ops, aside, out),
             "reduce" \in ops => "issue" \in ops
      PROVE  Lined(y, put2, ops, aside, out)
  BY <1>1, LinedCall
<1>2. ASSUME NEW delta, Posted(x, put, delta)
      PROVE  FALSE
  <2>1. Uses(x, {"post"})
    BY <1>2 DEF Posted
  <2>2. Head(x.script).op \in {"post"}
    BY ONLY <1>0, <2>1, UsesTail
  <2> QED
    BY <1>0, <2>2
<1>3. CASE x.order # NoOne
  <2>1. CASE /\ x.read.status = "none" /\ x.read.lines \in Basket
             /\ Lined(x, put, {"reserve"}, Asks(x.read.lines), Nothing)
    <3>1. Lined(y, put2, {"reserve"}, Asks(x.read.lines), Nothing)
      BY <1>1, <2>1
    <3> QED
      BY <1>0, <1>3, <2>1, <3>1, Zenon DEF Planned
  <2>2. CASE /\ x.read.status = "confirmed"
             /\ rows[x.order].status # "none" /\ rows[x.order].lines = x.read.lines
             /\ Lined(x, put, {"release", "issue"}, Back(x.read.lines), Asks(x.read.lines))
    <3>1. Lined(y, put2, {"release", "issue"}, Back(x.read.lines), Asks(x.read.lines))
      BY <1>1, <2>2
    <3> QED
      BY <1>0, <1>3, <2>2, <3>1, Zenon DEF Planned
  <2> QED
    BY <1>3, <2>1, <2>2, Zenon DEF Planned
<1>4. CASE x.order = NoOne
  <2>1. PICK lines \in Basket \cup Cuts : Lined(x, put, {"issue", "reduce"}, Nothing, Asks(lines))
    BY <1>2, <1>4, Zenon DEF Planned
  <2>2. Lined(y, put2, {"issue", "reduce"}, Nothing, Asks(lines))
    BY <1>1, <2>1
  <2> QED
    BY <1>0, <1>4, <2>1, <2>2, Zenon DEF Planned
<1> QED
  BY <1>3, <1>4

\* What w holds, and what it has set aside, are numbers.
LEMMA PutTyped ==
  ASSUME Inductive, NEW w \in Worker, NEW r \in Row
  PROVE  SetAside(w)[r] \in Int /\ (lock[r] # w => SetAside(w)[r] = 0)
BY WorkFields DEF SetAside, Inductive, TypeOK

\* The return of a call about a shelf that changes reserved by a and on_hand by -t.
LEMMA ReturnPlan ==
  ASSUME Inductive, PlanInv, NEW w \in Worker, Ready(w), Now(w).op # "post",
         NEW a \in [Row -> Int], NEW t \in [Row -> Int], NEW seen, NEW moved,
         Return(w, seen, moved), UNCHANGED <<reserved, order, lock>>,
         \A r \in Row : /\ seen[r].on = work[w].seen[r].on - t[r]
                        /\ seen[r].res = work[w].seen[r].res + a[r]
                        /\ moved[r] = work[w].moved[r] - t[r],
         \A r \in Row : t[r] >= 0 /\ (lock[r] # w => a[r] = 0),
         \A r \in Row :
           /\ t[r] > 0 => /\ Now(w).op \in {"issue", "reduce"} /\ a[r] = 0
                          /\ t[r] <= work[w].seen[r].on - work[w].seen[r].res
           /\ a[r] > 0 => /\ Now(w).op = "reserve"
                          /\ a[r] <= work[w].seen[r].on - work[w].seen[r].res
           /\ a[r] < 0 => Now(w).op = "release",
         \A s \in Shelf : /\ Total(a, RowsOf(s)) = ReserveOf(Now(w), s)
                          /\ Total(t, RowsOf(s)) = IssueOf(Now(w), s)
  PROVE  PlanInv'
<1> DEFINE x == work[w]
           y == [x EXCEPT !.pc = "call", !.script = Tail(@), !.todo = {}, !.got = {},
                          !.seen = seen, !.moved = moved]
           put == SetAside(w)
           put2 == SetAside(w)'
<1>1. x \in Work /\ work \in [Worker -> Work]
  BY DEF Inductive, TypeOK
<1>2. work' = [work EXCEPT ![w] = y]
  BY <1>1 DEF Return, Work
<1>3. /\ y.script = Tail(x.script) /\ y.moved = moved /\ y.seen = seen
      /\ y.order = x.order /\ y.read = x.read /\ y.pc = "call"
  BY <1>1 DEF Work
<1>4. x.script \in Seq(Calls) /\ x.script # <<>> /\ x.pc = "locking"
  BY WorkFields DEF Inductive, IInv, InOrder, Ready
<1>5. \A r \in Row : /\ x.seen[r].on \in Int /\ x.seen[r].res \in Int /\ x.moved[r] \in Int
                     /\ put[r] \in Int /\ a[r] \in Int /\ t[r] \in Int /\ t[r] >= 0
  BY WorkFields, PutTyped DEF Inductive
<1>6. work'[w] = y /\ \A v \in Worker \ {w} : work'[v] = work[v]
  BY <1>1, <1>2
<1>7. \A r \in Row : put2[r] = put[r] + a[r]
  <2>1. ASSUME NEW r \in Row
        PROVE  put2[r] = put[r] + a[r]
    <3>1. put2[r] = IF lock[r] = w THEN seen[r].res - reserved[r] ELSE 0
      BY <1>3, <1>6 DEF SetAside
    <3>2. put[r] = IF lock[r] = w THEN x.seen[r].res - reserved[r] ELSE 0
      BY DEF SetAside
    <3>3. seen[r].res = x.seen[r].res + a[r] /\ (lock[r] # w => a[r] = 0)
      OBVIOUS
    <3>4. reserved[r] \in Int /\ x.seen[r].res \in Int /\ a[r] \in Int
      BY <1>5 DEF Inductive, TypeOK
    <3> HIDE DEF put, put2, x
    <3> QED
      BY ONLY <3>1, <3>2, <3>3, <3>4
  <2> QED
    BY <2>1
<1>8. Planned(x, put, order)
  BY <1>4 DEF PlanInv
<1>9. Head(x.script) = Now(w)
  BY DEF Now
<1>10. \A r \in Row : /\ y.seen[r].on = x.seen[r].on - t[r]
                      /\ y.seen[r].res = x.seen[r].res + a[r]
                      /\ y.moved[r] = x.moved[r] - t[r]
                      /\ put2[r] = put[r] + a[r]
  BY <1>3, <1>7
<1>11. \A r \in Row :
         /\ t[r] > 0 => /\ Head(x.script).op \in {"issue", "reduce"} /\ a[r] = 0
                        /\ t[r] <= x.seen[r].on - x.seen[r].res
         /\ a[r] > 0 => /\ Head(x.script).op = "reserve"
                        /\ a[r] <= x.seen[r].on - x.seen[r].res
         /\ a[r] < 0 => Head(x.script).op = "release"
  BY <1>9
<1>12. Head(x.script).op # "post"
  BY <1>9
<1>13. \A s \in Shelf : /\ Total(a, RowsOf(s)) = ReserveOf(Head(x.script), s)
                        /\ Total(t, RowsOf(s)) = IssueOf(Head(x.script), s)
  BY <1>9
<1>14. order' = order /\ reserved' = reserved /\ lock' = lock
  OBVIOUS
<1> HIDE DEF x, y, put, put2
<1>15. Called(x, y, put, put2, a, t)
  BY ONLY <1>3, <1>4, <1>5, <1>10, <1>11, <1>12, <1>13, Zenon DEF Called
<1>16. Planned(y, put2, order)
  BY ONLY PlannedCall, <1>8, <1>15
<1>17. Aimed(y)
  BY <1>3 DEF Aimed
<1>18. Planned(work'[w], SetAside(w)', order)
  BY <1>6, <1>16 DEF put2
<1>19. Aimed(work'[w])
  BY <1>6, <1>17
<1> QED
  BY ONLY PlanInv, <1>6, <1>14, <1>18, <1>19, OwnPlan, w \in Worker

\* A sum of nothing.
LEMMA NoneOfRows ==
  ASSUME NEW s, NEW f, \A r \in Row : f[r] = 0
  PROVE  Total(f, RowsOf(s)) = 0
<1> DEFINE S == RowsOf(s)
<1>1. IsFiniteSet(S) /\ \A r \in S : f[r] = 0
  BY RowsFinite
<1> HIDE DEF S
<1>2. Total(f, S) = 0
  BY ONLY <1>1, SumZero DEF Total
<1> QED
  BY <1>2 DEF S

\* Taking stock out.
LEMMA IssuePlan ==
  ASSUME Inductive, PlanInv, NEW w \in Worker, Issue(w)
  PROVE  PlanInv'
<1>1. Ready(w) /\ Now(w).op \in {"issue", "reduce"} /\ UNCHANGED <<reserved, order, lock>>
  BY DEF Issue, database
<1>2. PICK t \in Choices(w) :
        Return(w, [r \in Row |-> [work[w].seen[r] EXCEPT !.on = @ - t[r]]],
                  [r \in Row |-> work[w].moved[r] - t[r]])
  BY DEF Issue
<1> DEFINE seen == [r \in Row |-> [work[w].seen[r] EXCEPT !.on = @ - t[r]]]
           moved == [r \in Row |-> work[w].moved[r] - t[r]]
           a == [r \in Row |-> 0]
           t0 == [r \in Row |-> t[r]]
<1>3. \A r \in Row : t[r] \in Int /\ t[r] >= 0
  BY <1>1, <1>2, ChoiceFields
<1>4. Aimed(work[w])
  BY DEF PlanInv
<1>5. /\ \A s \in Shelf : Total(t, RowsOf(s)) = IF s = Now(w).at THEN Now(w).qty ELSE 0
      /\ \A r \in Row : t[r] > 0 => t[r] <= work[w].seen[r].on - work[w].seen[r].res
  BY <1>1, <1>2, <1>4, TakeSums
<1>6. \A r \in Row : /\ seen[r].on = work[w].seen[r].on - t0[r]
                     /\ seen[r].res = work[w].seen[r].res + a[r]
                     /\ moved[r] = work[w].moved[r] - t0[r]
  <2>1. \A r \in Row : work[w].seen[r] \in Seen
    BY WorkFields DEF Inductive
  <2> QED
    BY <2>1 DEF Seen
<1>7. a \in [Row -> Int] /\ t0 \in [Row -> Int]
  BY <1>3
<1>8. \A s \in Shelf : /\ Total(a, RowsOf(s)) = ReserveOf(Now(w), s)
                       /\ Total(t0, RowsOf(s)) = IssueOf(Now(w), s)
  <2>1. ASSUME NEW s \in Shelf
        PROVE  /\ Total(a, RowsOf(s)) = ReserveOf(Now(w), s)
               /\ Total(t0, RowsOf(s)) = IssueOf(Now(w), s)
    <3>1. Total(a, RowsOf(s)) = 0
      BY NoneOfRows
    <3>2. ReserveOf(Now(w), s) = 0 /\ IssueOf(Now(w), s) = IF s = Now(w).at THEN Now(w).qty ELSE 0
      BY <1>1 DEF ReserveOf, IssueOf
    <3>3. Total(t0, RowsOf(s)) = Total(t, RowsOf(s))
      <4> DEFINE S == RowsOf(s)
      <4>1. IsFiniteSet(S) /\ \A r \in S : t0[r] \in Int /\ t0[r] = t[r]
        BY <1>3, RowsFinite
      <4> HIDE DEF S, t0
      <4>2. Total(t0, S) = Total(t, S)
        BY ONLY <4>1, SumSame DEF Total
      <4> QED
        BY <4>2 DEF S
    <3> HIDE DEF a, t0
    <3> QED
      BY <1>5, <3>1, <3>2, <3>3
  <2> QED
    BY <2>1
<1>9. \A r \in Row : /\ t0[r] > 0 => /\ Now(w).op \in {"issue", "reduce"} /\ a[r] = 0
                                     /\ t0[r] <= work[w].seen[r].on - work[w].seen[r].res
                     /\ a[r] > 0 => /\ Now(w).op = "reserve"
                                    /\ a[r] <= work[w].seen[r].on - work[w].seen[r].res
                     /\ a[r] < 0 => Now(w).op = "release"
  BY <1>1, <1>5
<1>10. \A r \in Row : t0[r] >= 0 /\ (lock[r] # w => a[r] = 0)
  BY <1>3
<1>11. Now(w).op # "post"
  BY <1>1
<1> HIDE DEF seen, moved, a, t0
<1>12. Return(w, seen, moved)
  BY <1>2 DEF seen, moved
<1> QED
  BY ONLY Inductive, PlanInv, w \in Worker, <1>1, <1>6, <1>7, <1>8, <1>9, <1>10, <1>11, <1>12,
          ReturnPlan

\* Reserving and releasing: reserved changes by a.
LEMMA ReservedPlan ==
  ASSUME Inductive, PlanInv, NEW w \in Worker, Ready(w), NEW t \in Choices(w),
         UNCHANGED <<reserved, order, lock>>, NEW a \in [Row -> Int],
         \/ Now(w).op = "reserve" /\ \A r \in Row : a[r] = t[r]
         \/ Now(w).op = "release" /\ \A r \in Row : a[r] = -t[r],
         Return(w, [r \in Row |-> [work[w].seen[r] EXCEPT !.res = work[w].seen[r].res + a[r]]],
                work[w].moved)
  PROVE  PlanInv'
<1> DEFINE seen == [r \in Row |-> [work[w].seen[r] EXCEPT !.res = work[w].seen[r].res + a[r]]]
           moved == work[w].moved
           t0 == [r \in Row |-> 0]
<1>3. \A r \in Row : t[r] \in Int /\ t[r] >= 0 /\ (lock[r] # w => t[r] = 0)
  BY ChoiceFields
<1>4. Aimed(work[w])
  BY DEF PlanInv
<1>5. /\ \A s \in Shelf : Total(t, RowsOf(s)) = IF s = Now(w).at THEN Now(w).qty ELSE 0
      /\ \A r \in Row : t[r] > 0 /\ Now(w).op # "release" =>
                          t[r] <= work[w].seen[r].on - work[w].seen[r].res
  BY <1>4, TakeSums
<1>6. \A r \in Row : /\ seen[r].on = work[w].seen[r].on - t0[r]
                     /\ seen[r].res = work[w].seen[r].res + a[r]
                     /\ moved[r] = work[w].moved[r] - t0[r]
  <2>1. \A r \in Row : /\ work[w].seen[r] \in Seen /\ work[w].seen[r].on \in Int
                       /\ work[w].moved[r] \in Int
    BY WorkFields DEF Inductive
  <2> QED
    BY <2>1 DEF Seen
<1>7. t0 \in [Row -> Int]
  OBVIOUS
<1>8. \A s \in Shelf : /\ Total(a, RowsOf(s)) = ReserveOf(Now(w), s)
                       /\ Total(t0, RowsOf(s)) = IssueOf(Now(w), s)
  <2>1. ASSUME NEW s \in Shelf
        PROVE  /\ Total(a, RowsOf(s)) = ReserveOf(Now(w), s)
               /\ Total(t0, RowsOf(s)) = IssueOf(Now(w), s)
    <3> DEFINE S == RowsOf(s)
    <3>1. Total(t0, S) = 0 /\ IssueOf(Now(w), s) = 0
      BY NoneOfRows DEF IssueOf
    <3>2. IsFiniteSet(S) /\ S \subseteq Row
      BY RowsFinite
    <3>3. Total(t, S) = IF s = Now(w).at THEN Now(w).qty ELSE 0
      BY <1>5
    <3>4. Now(w).qty \in Int
      BY CallFields DEF Ready
    <3> HIDE DEF S, t0
    <3>5. CASE Now(w).op = "reserve" /\ \A r \in Row : a[r] = t[r]
      <4>1. \A r \in S : a[r] \in Int /\ a[r] = t[r]
        BY <3>2, <3>5
      <4>2. Total(a, S) = Total(t, S)
        BY ONLY <3>2, <4>1, SumSame DEF Total
      <4>3. ReserveOf(Now(w), s) = IF s = Now(w).at THEN Now(w).qty ELSE 0
        BY <3>5 DEF ReserveOf
      <4> QED
        BY <3>1, <3>3, <4>2, <4>3 DEF S
    <3>6. CASE Now(w).op = "release" /\ \A r \in Row : a[r] = -t[r]
      <4> DEFINE zero == [r \in Row |-> 0]
      <4>1. \A r \in S : a[r] \in Int /\ t[r] \in Int /\ zero[r] = a[r] + t[r]
        BY <1>3, <3>2, <3>6
      <4>2. \A r \in S : zero[r] = 0
        BY <3>2
      <4> HIDE DEF zero
      <4>3. Total(zero, S) = Total(a, S) + Total(t, S) /\ Total(zero, S) = 0
        BY ONLY <3>2, <4>1, <4>2, SumAdd, SumZero DEF Total
      <4>4. Total(a, S) \in Int /\ Total(t, S) \in Int
        BY ONLY <3>2, <4>1, SumInt DEF Total
      <4>5. ReserveOf(Now(w), s) = IF s = Now(w).at THEN -Now(w).qty ELSE 0
        BY <3>6 DEF ReserveOf
      <4>6. Total(a, S) = ReserveOf(Now(w), s)
        BY ONLY <3>3, <3>4, <4>3, <4>4, <4>5
      <4> QED
        BY <3>1, <4>6 DEF S
    <3> QED
      BY <3>5, <3>6
  <2> QED
    BY <2>1
<1>9. \A r \in Row : /\ t0[r] > 0 => /\ Now(w).op \in {"issue", "reduce"} /\ a[r] = 0
                                     /\ t0[r] <= work[w].seen[r].on - work[w].seen[r].res
                     /\ a[r] > 0 => /\ Now(w).op = "reserve"
                                    /\ a[r] <= work[w].seen[r].on - work[w].seen[r].res
                     /\ a[r] < 0 => Now(w).op = "release"
  BY <1>3, <1>5
<1>10. \A r \in Row : t0[r] >= 0 /\ (lock[r] # w => a[r] = 0)
  BY <1>3
<1>11. Now(w).op # "post"
  OBVIOUS
<1> HIDE DEF seen, moved, t0
<1>12. Return(w, seen, moved)
  BY DEF seen, moved
<1>13. a \in [Row -> Int] /\ Ready(w) /\ UNCHANGED <<reserved, order, lock>>
  OBVIOUS
<1> QED
  BY ONLY Inductive, PlanInv, w \in Worker, <1>6, <1>7, <1>8, <1>9, <1>10, <1>11, <1>12, <1>13,
          ReturnPlan

\* Reserving keeps the promises.
LEMMA ReservePlan ==
  ASSUME Inductive, PlanInv, NEW w \in Worker, Reserve(w)
  PROVE  PlanInv'
<1>1. Ready(w) /\ Now(w).op = "reserve" /\ UNCHANGED <<reserved, order, lock>>
  BY DEF Reserve, database
<1>2. PICK t \in Choices(w) :
        Return(w, [r \in Row |-> [work[w].seen[r] EXCEPT !.res = @ + t[r]]], work[w].moved)
  BY DEF Reserve
<1> DEFINE a == [r \in Row |-> t[r]]
<1>3. a \in [Row -> Int] /\ \A r \in Row : a[r] = t[r]
  BY <1>1, ChoiceFields
<1>4. Return(w, [r \in Row |-> [work[w].seen[r] EXCEPT !.res = work[w].seen[r].res + a[r]]],
             work[w].moved)
  BY <1>2, Zenon
<1> HIDE DEF a
<1> QED
  BY <1>1, <1>3, <1>4, ReservedPlan

\* Releasing keeps the promises.
LEMMA ReleasePlan ==
  ASSUME Inductive, PlanInv, NEW w \in Worker, Release(w)
  PROVE  PlanInv'
<1>1. Ready(w) /\ Now(w).op = "release" /\ UNCHANGED <<reserved, order, lock>>
  BY DEF Release, database
<1>2. PICK t \in Choices(w) :
        Return(w, [r \in Row |-> [work[w].seen[r] EXCEPT !.res = @ - t[r]]], work[w].moved)
  BY DEF Release
<1> DEFINE a == [r \in Row |-> -t[r]]
<1>3. \A r \in Row : t[r] \in Int
  BY <1>1, ChoiceFields
<1>4. a \in [Row -> Int] /\ \A r \in Row : a[r] = -t[r]
  BY <1>3
<1>5. [r \in Row |-> [work[w].seen[r] EXCEPT !.res = @ - t[r]]]
        = [r \in Row |-> [work[w].seen[r] EXCEPT !.res = work[w].seen[r].res + a[r]]]
  <2>1. ASSUME NEW r \in Row
        PROVE  [work[w].seen[r] EXCEPT !.res = @ - t[r]]
                 = [work[w].seen[r] EXCEPT !.res = work[w].seen[r].res + a[r]]
    <3>1. work[w].seen[r].res - t[r] = work[w].seen[r].res + a[r]
      BY <1>3, WorkFields DEF Inductive
    <3> HIDE DEF a
    <3> QED
      BY <3>1, Zenon
  <2> HIDE DEF a
  <2> QED
    BY <2>1, Zenon
<1>6. Return(w, [r \in Row |-> [work[w].seen[r] EXCEPT !.res = work[w].seen[r].res + a[r]]],
             work[w].moved)
  <2> HIDE DEF a
  <2> QED
    BY <1>2, <1>5, Zenon
<1> HIDE DEF a
<1> QED
  BY <1>1, <1>4, <1>6, ReservedPlan

\* A movement on one row.
LEMMA PostPlan ==
  ASSUME Inductive, PlanInv, NEW w \in Worker, Post(w)
  PROVE  PlanInv'
<1> DEFINE x == work[w]
           at == Now(w).at
           q == Now(w).qty
           seen == [x.seen EXCEPT ![at].on = @ + q]
           moved == [x.moved EXCEPT ![at] = @ + q]
           y == [x EXCEPT !.pc = "call", !.script = Tail(@), !.todo = {}, !.got = {},
                          !.seen = seen, !.moved = moved]
<1>1. /\ Ready(w) /\ Now(w).op = "post" /\ lock[at] \in {NoOne, w} /\ CanPost(w)
      /\ lock' = [lock EXCEPT ![at] = w] /\ Return(w, seen, moved)
      /\ UNCHANGED <<exists, reserved, order>>
  BY DEF Post, database
<1>2. /\ x \in Work /\ work \in [Worker -> Work] /\ lock \in [Row -> Worker \cup {NoOne}]
      /\ NoOne \notin Worker
  BY InventoryAssumption DEF Inductive, TypeOK
<1>3. work' = [work EXCEPT ![w] = y]
  BY <1>1, <1>2 DEF Return, Work
<1>4. /\ y.script = Tail(x.script) /\ y.moved = moved /\ y.seen = seen
      /\ y.order = x.order /\ y.read = x.read /\ y.pc = "call"
  BY <1>2 DEF Work
<1>5. x.script \in Seq(Calls) /\ x.script # <<>> /\ x.pc = "locking"
  BY <1>1, WorkFields DEF Inductive, IInv, InOrder, Ready
<1>6. Head(x.script) = Now(w) /\ q \in Int
  BY <1>5, CallFields DEF Now
<1>7. work'[w] = y /\ \A v \in Worker \ {w} : work'[v] = work[v]
  BY <1>2, <1>3
<1>8. \A v \in Worker \ {w} : \A r \in Row : lock'[r] = v <=> lock[r] = v
  BY <1>1, <1>2
<1>9. /\ x.seen \in [Row -> Seen] /\ x.moved \in [Row -> Int]
      /\ \A r \in Row : x.moved[r] \in Int /\ x.seen[r].res \in Int
  BY WorkFields DEF Inductive
<1>10. ASSUME NEW r \in Row
       PROVE  /\ moved[r] = x.moved[r] + PostOf(Now(w), r)
              /\ seen[r].res = x.seen[r].res
              /\ SetAside(w)'[r] = SetAside(w)[r]
  <2>1. moved[r] = x.moved[r] + PostOf(Now(w), r)
    <3>1. PostOf(Now(w), r) = IF at = r THEN q ELSE 0
      BY <1>1 DEF PostOf
    <3>2. moved[r] = IF at = r THEN x.moved[r] + q ELSE x.moved[r]
      BY <1>9
    <3> HIDE DEF moved, at, q
    <3> QED
      BY <1>6, <1>9, <3>1, <3>2
  <2>2. seen[r].res = x.seen[r].res
    BY <1>9 DEF Seen
  <2>3. SetAside(w)'[r] = IF lock'[r] = w THEN seen[r].res - reserved[r] ELSE 0
    BY <1>1, <1>4, <1>7 DEF SetAside
  <2>4. SetAside(w)[r] = IF lock[r] = w THEN x.seen[r].res - reserved[r] ELSE 0
    BY DEF SetAside
  <2>5. CASE lock'[r] = w <=> lock[r] = w
    <3> HIDE DEF seen, moved, x
    <3> QED
      BY ONLY <2>1, <2>2, <2>3, <2>4, <2>5
  <2>6. CASE lock'[r] = w /\ lock[r] # w
    <3>1. r = at
      BY <1>1, <1>2, <2>6
    <3>2. r \notin exists
      BY <1>1, <2>6, <3>1 DEF CanPost, Inductive, IInv, InOrder, Held
    <3>3. reserved[r] = 0 /\ x.seen[r].res = 0
      BY <2>6, <3>2 DEF Inductive, IInv, Committed, Knows
    <3> QED
      BY <2>1, <2>2, <2>3, <2>4, <2>6, <3>3
  <2>7. lock[r] = w => lock'[r] = w
    BY <1>1, <1>2
  <2> QED
    BY <2>1, <2>2, <2>5, <2>6, <2>7
<1>11. Planned(x, SetAside(w), order)
  BY <1>5 DEF PlanInv
<1> HIDE DEF y, seen, moved, at, q
<1>12. ASSUME NEW delta, Posted(x, SetAside(w), delta)
       PROVE  Posted(y, SetAside(w)', delta)
  <2>1. Uses(x, {"post"})
    BY <1>12 DEF Posted
  <2>2. Uses(y, {"post"})
    BY ONLY <1>4, <1>5, <2>1, UsesTail
  <2>3. ASSUME NEW r \in Row
        PROVE  SetAside(w)'[r] = 0 /\ y.moved[r] + ToPost(y.script, r) = delta[r]
    <3>1. SetAside(w)[r] = 0 /\ x.moved[r] + ToPost(x.script, r) = delta[r]
      BY <1>12 DEF Posted
    <3>2. ToPost(x.script, r) = PostOf(Now(w), r) + ToPost(y.script, r)
      BY <1>4, <1>5, <1>6, ScriptTail
    <3>3. ToPost(y.script, r) \in Int
      <4>1. y.script \in Seq(Calls)
        BY <1>4, <1>5
      <4> QED
        BY <4>1, ScriptSums
    <3>4. PostOf(Now(w), r) \in Int
      <4>1. 1 \in DOMAIN x.script /\ x.script[1] = Now(w)
        BY <1>5, <1>6
      <4> QED
        BY <1>5, <4>1, CallTyped
    <3>5. x.moved[r] \in Int /\ y.moved[r] = x.moved[r] + PostOf(Now(w), r)
          /\ SetAside(w)'[r] = SetAside(w)[r]
      BY <1>4, <1>9, <1>10
    <3> HIDE DEF x
    <3> QED
      BY ONLY <3>1, <3>2, <3>3, <3>4, <3>5
  <2> QED
    BY <2>2, <2>3, Zenon DEF Posted
<1>13. ASSUME NEW ops, NEW aside, NEW out, Lined(x, SetAside(w), ops, aside, out), "post" \notin ops
       PROVE  FALSE
  <2>1. Uses(x, ops)
    BY <1>13 DEF Lined
  <2>2. Head(x.script).op \in ops
    BY ONLY <1>4, <1>5, <2>1, UsesTail
  <2> QED
    BY <1>1, <1>6, <1>13, <2>2
<1>14. Planned(y, SetAside(w)', order)
  <2> DEFINE put == SetAside(w)
             put2 == SetAside(w)'
  <2> HIDE DEF x, put, put2
  <2>1. CASE x.order # NoOne
    <3>1. \E ops, aside, out : Lined(x, put, ops, aside, out) /\ "post" \notin ops
      <4>1. \/ Lined(x, put, {"reserve"}, Asks(x.read.lines), Nothing)
            \/ Lined(x, put, {"release", "issue"}, Back(x.read.lines), Asks(x.read.lines))
        BY <1>11, <2>1, Zenon DEF Planned, put
      <4> QED
        BY <4>1
    <3> QED
      BY <1>13, <3>1, Zenon DEF put
  <2>2. CASE x.order = NoOne
    <3>1. \A lines \in Basket \cup Cuts : ~Lined(x, put, {"issue", "reduce"}, Nothing, Asks(lines))
      BY <1>13 DEF put
    <3>2. PICK delta : Arrives(delta) /\ Posted(x, put, delta)
      BY <1>11, <2>2, <3>1, Zenon DEF Planned, put
    <3>3. Posted(y, put2, delta)
      BY <1>12, <3>2 DEF put, put2
    <3>4. Planned(y, put2, order)
      BY <1>4, <2>2, <3>2, <3>3, Zenon DEF Planned
    <3> QED
      BY <3>4 DEF put2
  <2> QED
    BY <2>1, <2>2
<1>15. Aimed(y)
  BY <1>4 DEF Aimed
<1>16. Planned(work'[w], SetAside(w)', order) /\ Aimed(work'[w])
  BY <1>7, <1>14, <1>15
<1>17. UNCHANGED <<reserved, order>>
  BY <1>1
<1> HIDE DEF x
<1> QED
  BY ONLY PlanInv, w \in Worker, <1>7, <1>8, <1>16, <1>17, OwnPlan

\* A transaction that is forgotten has promised nothing.
LEMMA RollbackPlan ==
  ASSUME Inductive, PlanInv, NEW w \in Worker, Rollback(w)
  PROVE  PlanInv'
<1>1. /\ lock' = [r \in Row |-> IF lock[r] = w THEN NoOne ELSE lock[r]]
      /\ work' = [work EXCEPT ![w] = Idle] /\ UNCHANGED <<reserved, order>>
  BY DEF Rollback, database
<1>2. /\ work \in [Worker -> Work] /\ lock \in [Row -> Worker \cup {NoOne}]
      /\ NoOne \notin Worker
  BY InventoryAssumption DEF Inductive, TypeOK
<1>3. work'[w] = Idle /\ \A v \in Worker \ {w} : work'[v] = work[v]
  BY <1>1, <1>2
<1>4. \A v \in Worker \ {w} : \A r \in Row : lock'[r] = v <=> lock[r] = v
  BY <1>1, <1>2
<1>5. Aimed(work'[w]) /\ work'[w].pc = "idle"
  BY <1>3 DEF Aimed, Idle
<1> QED
  BY <1>1, <1>3, <1>4, <1>5, OwnPlan

-----------------------------------------------------------------------------
(* What the scripts of the requests are to do.                             *)

\* The line's share of what is asked of s.
Share(lines, s) ==
  [i \in DOMAIN lines |-> IF lines[i].shelf = s THEN lines[i].qty ELSE 0]

\* What the lines ask of s is the sum of their shares.
LEMMA ShareSum ==
  ASSUME NEW lines \in Seq(Line), NEW s
  PROVE  /\ LineQty(lines, s) = Total(Share(lines, s), 1..Len(lines))
         /\ IsFiniteSet(1..Len(lines))
         /\ \A i \in 1..Len(lines) : Share(lines, s)[i] \in Nat
         /\ LineQty(lines, s) \in Nat
<1> DEFINE D == 1..Len(lines)
           E == {i \in D : lines[i].shelf = s}
           f == [i \in DOMAIN lines |-> lines[i].qty]
           h == Share(lines, s)
<1>1. DOMAIN lines = D /\ \A i \in D : lines[i].qty \in Nat
  BY LineFields
<1>2. IsFiniteSet(D)
  <2>1. 1 \in Int /\ Len(lines) \in Int
    BY LineFields
  <2> QED
    BY <2>1, FS_Interval
<1>3. \A i \in E : f[i] \in Int /\ f[i] = h[i]
  BY <1>1 DEF Share
<1>4. \A i \in D \ E : h[i] = 0
  BY <1>1 DEF Share
<1>5. \A i \in D : h[i] \in Nat
  BY <1>1 DEF Share
<1>6. E \in SUBSET D /\ IsFiniteSet(E)
  BY <1>2, FS_Subset
<1>7. LineQty(lines, s) = Total(f, E)
  BY <1>1 DEF LineQty
<1> HIDE DEF D, E, f, h
<1>8. Total(f, E) = Total(h, E)
  BY ONLY <1>3, <1>6, SumSame DEF Total
<1>9. Total(h, D) = Total(h, E)
  <2>1. \A i \in E : h[i] \in Int
    BY <1>3
  <2> QED
    BY ONLY <1>2, <1>4, <1>6, <2>1, SumPart DEF Total
<1>10. Total(h, D) \in Nat
  BY ONLY <1>2, <1>5, SumNat DEF Total
<1> QED
  BY <1>2, <1>5, <1>7, <1>8, <1>9, <1>10 DEF D, h

\* A script with one call for each line.
LEMMA LineByLine ==
  ASSUME NEW lines \in Seq(Line), NEW script, NEW s, DOMAIN script = 1..Len(lines)
  PROVE  /\ (\A i \in 1..Len(lines) : ReserveOf(script[i], s) = Share(lines, s)[i])
              => ToReserve(script, s) = LineQty(lines, s)
         /\ (\A i \in 1..Len(lines) : IssueOf(script[i], s) = Share(lines, s)[i])
              => ToIssue(script, s) = LineQty(lines, s)
         /\ (\A i \in 1..Len(lines) : ReserveOf(script[i], s) = 0) => ToReserve(script, s) = 0
         /\ (\A i \in 1..Len(lines) : IssueOf(script[i], s) = 0) => ToIssue(script, s) = 0
<1> DEFINE D == 1..Len(lines)
           f == [i \in D |-> ReserveOf(script[i], s)]
           g == [i \in D |-> IssueOf(script[i], s)]
           h == Share(lines, s)
<1>1. /\ IsFiniteSet(D) /\ LineQty(lines, s) = Total(h, D)
      /\ \A i \in D : h[i] \in Int
  BY ShareSum
<1>2. ToReserve(script, s) = Total(f, D) /\ ToIssue(script, s) = Total(g, D)
  BY DEF ToReserve, ToIssue
<1>3. ASSUME \A i \in D : ReserveOf(script[i], s) = h[i]
      PROVE  Total(f, D) = Total(h, D)
  <2>1. \A i \in D : f[i] \in Int /\ f[i] = h[i]
    BY <1>1, <1>3
  <2> HIDE DEF D, f, h
  <2> QED
    BY ONLY <1>1, <2>1, SumSame DEF Total
<1>4. ASSUME \A i \in D : IssueOf(script[i], s) = h[i]
      PROVE  Total(g, D) = Total(h, D)
  <2>1. \A i \in D : g[i] \in Int /\ g[i] = h[i]
    BY <1>1, <1>4
  <2> HIDE DEF D, g, h
  <2> QED
    BY ONLY <1>1, <2>1, SumSame DEF Total
<1>5. ASSUME \A i \in D : ReserveOf(script[i], s) = 0
      PROVE  Total(f, D) = 0
  <2>1. \A i \in D : f[i] = 0
    BY <1>5
  <2> HIDE DEF D, f
  <2> QED
    BY ONLY <1>1, <2>1, SumZero DEF Total
<1>6. ASSUME \A i \in D : IssueOf(script[i], s) = 0
      PROVE  Total(g, D) = 0
  <2>1. \A i \in D : g[i] = 0
    BY <1>6
  <2> HIDE DEF D, g
  <2> QED
    BY ONLY <1>1, <2>1, SumZero DEF Total
<1> HIDE DEF f, g
<1> QED
  BY <1>1, <1>2, <1>3, <1>4, <1>5, <1>6 DEF D, h

\* A sale or an order asks for its lines.
LEMMA SaleAsks ==
  ASSUME NEW lines \in Seq(Line), NEW s \in Shelf
  PROVE  /\ ToReserve(SaleScript(lines), s) = 0
         /\ ToIssue(SaleScript(lines), s) = LineQty(lines, s)
         /\ ToReserve(OrderScript(lines), s) = LineQty(lines, s)
         /\ ToIssue(OrderScript(lines), s) = 0
<1>1. DOMAIN lines = 1..Len(lines)
  BY LineFields
<1>2. DOMAIN SaleScript(lines) = 1..Len(lines) /\ DOMAIN OrderScript(lines) = 1..Len(lines)
  BY <1>1 DEF SaleScript, OrderScript
<1>3. \A i \in 1..Len(lines) :
        /\ ReserveOf(SaleScript(lines)[i], s) = 0
        /\ IssueOf(SaleScript(lines)[i], s) = Share(lines, s)[i]
        /\ ReserveOf(OrderScript(lines)[i], s) = Share(lines, s)[i]
        /\ IssueOf(OrderScript(lines)[i], s) = 0
  BY <1>1 DEF SaleScript, OrderScript, Call, Share, ReserveOf, IssueOf
<1> QED
  BY <1>2, <1>3, LineByLine

\* A correction takes one line.
LEMMA CutAsks ==
  ASSUME NEW s0 \in Shelf, NEW q \in Nat \ {0}, NEW s \in Shelf
  PROVE  LET line == [shelf |-> s0, qty |-> q]
         IN  /\ <<line>> \in Seq(Line)
             /\ ToReserve(ReduceScript(line), s) = 0
             /\ ToIssue(ReduceScript(line), s) = LineQty(<<line>>, s)
<1> DEFINE line == [shelf |-> s0, qty |-> q]
           lines == <<line>>
           script == ReduceScript(line)
<1>1. lines \in Seq(Line)
  <2>1. line \in Line
    BY DEF Line
  <2> HIDE DEF line
  <2> QED
    BY <2>1
<1>2. Len(lines) = 1 /\ lines[1] = line /\ DOMAIN lines = 1..1
  OBVIOUS
<1>3. script[1] = Call("reduce", s0, q) /\ DOMAIN script = 1..Len(lines)
  BY DEF ReduceScript
<1>4. \A i \in 1..Len(lines) : /\ ReserveOf(script[i], s) = 0
                               /\ IssueOf(script[i], s) = Share(lines, s)[i]
  <2>1. \A i \in 1..Len(lines) : i = 1
    BY <1>2
  <2>2. Share(lines, s)[1] = IF s0 = s THEN q ELSE 0
    BY <1>2 DEF Share
  <2>3. ReserveOf(script[1], s) = 0 /\ IssueOf(script[1], s) = IF s0 = s THEN q ELSE 0
    BY <1>3 DEF Call, ReserveOf, IssueOf
  <2> HIDE DEF lines, script
  <2> QED
    BY <2>1, <2>2, <2>3
<1> HIDE DEF lines, script
<1>5. ToReserve(script, s) = 0 /\ ToIssue(script, s) = LineQty(lines, s)
  BY <1>1, <1>3, <1>4, LineByLine
<1> QED
  BY <1>1, <1>5 DEF lines, script

\* A dispatch gives back as much as it takes.
LEMMA DispatchAsks ==
  ASSUME NEW lines \in Seq(Line), NEW s \in Shelf
  PROVE  /\ ToReserve(DispatchScript(lines), s) = -LineQty(lines, s)
         /\ ToIssue(DispatchScript(lines), s) = LineQty(lines, s)
<1> DEFINE n == Len(lines)
           D == 1..n
           script == DispatchScript(lines)
           S == 1..(2 * n)
           odd == [i \in D |-> 2 * i - 1]
           even == [i \in D |-> 2 * i]
           Odds == {odd[i] : i \in D}
           Evens == {even[i] : i \in D}
           h == Share(lines, s)
           minus == [i \in D |-> -h[i]]
           f == [i \in S |-> ReserveOf(script[i], s)]
           g == [i \in S |-> IssueOf(script[i], s)]
<1>1. /\ n \in Nat /\ DOMAIN lines = D /\ DOMAIN script = S
      /\ IsFiniteSet(D) /\ LineQty(lines, s) = Total(h, D) /\ LineQty(lines, s) \in Nat
      /\ \A i \in D : h[i] \in Nat
  BY LineFields, ShareSum DEF DispatchScript
<1>2. IsFiniteSet(S)
  <2>1. 1 \in Int /\ 2 * n \in Int
    BY <1>1
  <2> QED
    BY <2>1, FS_Interval
<1>3. \A i \in D : 2 * i - 1 \in S /\ 2 * i \in S
  BY <1>1
<1>4. ASSUME NEW i \in D
      PROVE  /\ script[2 * i - 1] = Call("release", lines[i].shelf, lines[i].qty)
             /\ script[2 * i] = Call("issue", lines[i].shelf, lines[i].qty)
  <2>1. /\ (2 * i - 1 + 1) \div 2 = i /\ (2 * i - 1) % 2 = 1
        /\ (2 * i + 1) \div 2 = i /\ (2 * i) % 2 = 0
    BY <1>1
  <2> QED
    BY <1>3, <2>1 DEF DispatchScript
<1>5. \A i \in D : /\ f[2 * i - 1] = -h[i] /\ f[2 * i] = 0
                   /\ g[2 * i - 1] = 0 /\ g[2 * i] = h[i]
  <2>1. ASSUME NEW i \in D
        PROVE  /\ f[2 * i - 1] = -h[i] /\ f[2 * i] = 0
               /\ g[2 * i - 1] = 0 /\ g[2 * i] = h[i]
    <3>1. h[i] = IF lines[i].shelf = s THEN lines[i].qty ELSE 0
      BY <1>1 DEF Share
    <3>2. /\ f[2 * i - 1] = ReserveOf(script[2 * i - 1], s) /\ f[2 * i] = ReserveOf(script[2 * i], s)
          /\ g[2 * i - 1] = IssueOf(script[2 * i - 1], s) /\ g[2 * i] = IssueOf(script[2 * i], s)
      BY <1>3
    <3>3. /\ script[2 * i - 1] = Call("release", lines[i].shelf, lines[i].qty)
          /\ script[2 * i] = Call("issue", lines[i].shelf, lines[i].qty)
      BY <1>4
    <3>4. /\ ReserveOf(Call("release", lines[i].shelf, lines[i].qty), s)
               = IF lines[i].shelf = s THEN -lines[i].qty ELSE 0
          /\ IssueOf(Call("issue", lines[i].shelf, lines[i].qty), s)
               = IF lines[i].shelf = s THEN lines[i].qty ELSE 0
          /\ IssueOf(Call("release", lines[i].shelf, lines[i].qty), s) = 0
          /\ ReserveOf(Call("issue", lines[i].shelf, lines[i].qty), s) = 0
      BY DEF Call, ReserveOf, IssueOf
    <3>5. lines[i].qty \in Nat
      BY LineFields
    <3> HIDE DEF f, g, h, script, D, S, n
    <3> QED
      BY ONLY <3>1, <3>2, <3>3, <3>4, <3>5
  <2> QED
    BY <2>1
<1>6. \A k \in S : \E i \in D : k = 2 * i - 1 \/ k = 2 * i
  <2>1. ASSUME NEW k \in S
        PROVE  \E i \in D : k = 2 * i - 1 \/ k = 2 * i
    <3>1. (k + 1) \div 2 \in D /\ (k = 2 * ((k + 1) \div 2) - 1 \/ k = 2 * ((k + 1) \div 2))
      BY <1>1
    <3> QED
      BY <3>1
  <2> QED
    BY <2>1
<1>7. /\ Odds \in SUBSET S /\ Evens \in SUBSET S
      /\ (\A k \in Odds : f[k] \in Int) /\ (\A k \in S \ Odds : f[k] = 0)
      /\ (\A k \in Evens : g[k] \in Int) /\ (\A k \in S \ Evens : g[k] = 0)
  <2>1. \A i \in D : odd[i] = 2 * i - 1 /\ even[i] = 2 * i
    OBVIOUS
  <2> HIDE DEF f, g, h, S, D, odd, even
  <2>2. \A k \in Odds : \E i \in D : k = 2 * i - 1
    BY <2>1
  <2>3. \A k \in Evens : \E i \in D : k = 2 * i
    BY <2>1
  <2>4. \A i \in D : 2 * i - 1 \in Odds /\ 2 * i \in Evens
    BY <2>1
  <2>5. \A i \in D : h[i] \in Int
    BY <1>1
  <2> HIDE DEF Odds, Evens
  <2>6. Odds \subseteq S /\ Evens \subseteq S
    BY ONLY <1>3, <2>2, <2>3
  <2>7. \A i \in D : -h[i] \in Int
    BY ONLY <2>5
  <2>8. \A k \in Odds : f[k] \in Int
    BY ONLY <1>5, <2>2, <2>7
  <2>9. \A k \in Evens : g[k] \in Int
    BY ONLY <1>5, <2>3, <2>5
  <2>10. \A k \in S \ Odds : \E i \in D : k = 2 * i
    BY ONLY <1>6, <2>4
  <2>11. \A k \in S \ Odds : f[k] = 0
    BY ONLY <1>5, <2>10
  <2>12. \A k \in S \ Evens : \E i \in D : k = 2 * i - 1
    BY ONLY <1>6, <2>4
  <2>13. \A k \in S \ Evens : g[k] = 0
    BY ONLY <1>5, <2>12
  <2> QED
    BY ONLY <2>6, <2>8, <2>9, <2>11, <2>13
<1>8. Total(f, Odds) = Total(minus, D)
  <2>1. \A i \in D : minus[i] \in Int /\ f[odd[i]] = minus[i]
    <3>1. \A i \in D : odd[i] = 2 * i - 1 /\ minus[i] = -h[i] /\ h[i] \in Nat
      BY <1>1
    <3> HIDE DEF D, odd, minus, h, f, g
    <3> QED
      BY <1>5, <3>1
  <2>2. \A i, j \in D : odd[i] = odd[j] => i = j
    OBVIOUS
  <2>3. Odds = {odd[i] : i \in D}
    OBVIOUS
  <2> HIDE DEF f, minus, odd, D, Odds
  <2> QED
    BY ONLY <1>1, <2>1, <2>2, <2>3, SumRenamed DEF Total
<1>9. Total(g, Evens) = Total(h, D)
  <2>1. \A i \in D : h[i] \in Int /\ g[even[i]] = h[i]
    <3>1. \A i \in D : even[i] = 2 * i /\ h[i] \in Nat
      BY <1>1
    <3> HIDE DEF D, even, h, f, g
    <3> QED
      BY <1>5, <3>1
  <2>2. \A i, j \in D : even[i] = even[j] => i = j
    OBVIOUS
  <2>3. Evens = {even[i] : i \in D}
    OBVIOUS
  <2> HIDE DEF g, h, even, D, Evens
  <2> QED
    BY ONLY <1>1, <2>1, <2>2, <2>3, SumRenamed DEF Total
<1>10. Total(minus, D) = -Total(h, D)
  <2> DEFINE zero == [i \in D |-> 0]
  <2>1. \A i \in D : minus[i] \in Int /\ h[i] \in Int /\ zero[i] = minus[i] + h[i] /\ zero[i] = 0
    BY <1>1
  <2> HIDE DEF minus, h, zero, D
  <2>2. Total(zero, D) = Total(minus, D) + Total(h, D) /\ Total(zero, D) = 0
    BY ONLY <1>1, <2>1, SumAdd, SumZero DEF Total
  <2>3. Total(minus, D) \in Int /\ Total(h, D) \in Int
    BY ONLY <1>1, <2>1, SumInt DEF Total
  <2> QED
    BY ONLY <2>2, <2>3
<1>11. ToReserve(script, s) = Total(f, S) /\ ToIssue(script, s) = Total(g, S)
  BY <1>1 DEF ToReserve, ToIssue
<1> HIDE DEF f, g, S, D, Odds, Evens, h, minus, script
<1>12. Total(f, S) = Total(f, Odds)
  BY ONLY <1>2, <1>7, SumPart DEF Total
<1>13. Total(g, S) = Total(g, Evens)
  BY ONLY <1>2, <1>7, SumPart DEF Total
<1>14. /\ ToReserve(script, s) = -LineQty(lines, s)
       /\ ToIssue(script, s) = LineQty(lines, s)
  BY ONLY <1>1, <1>8, <1>9, <1>10, <1>11, <1>12, <1>13
<1> QED
  BY <1>14 DEF script

\* A receipt, an addition and a transfer move what they are to bring.
LEMMA ReceiptAsks ==
  ASSUME NEW lots \in Seq(Lot), NEW r \in Row
  PROVE  ToPost(ReceiptScript(lots), r) = Brought(lots)[r]
<1> DEFINE D == 1..Len(lots)
           E == {i \in D : lots[i].row = r}
           script == ReceiptScript(lots)
           f == [i \in DOMAIN lots |-> lots[i].qty]
           h == [i \in DOMAIN script |-> PostOf(script[i], r)]
<1>1. /\ DOMAIN lots = D /\ DOMAIN script = D
      /\ \A i \in D : lots[i].qty \in Nat /\ script[i] = Call("post", lots[i].row, lots[i].qty)
  BY LotFields DEF ReceiptScript
<1>2. IsFiniteSet(D)
  <2>1. 1 \in Int /\ Len(lots) \in Int
    BY LotFields
  <2> QED
    BY <2>1, FS_Interval
<1>3. \A i \in D : /\ f[i] = lots[i].qty
                   /\ h[i] = IF lots[i].row = r THEN lots[i].qty ELSE 0
  <2>1. ASSUME NEW i \in D
        PROVE  PostOf(Call("post", lots[i].row, lots[i].qty), r)
                 = IF lots[i].row = r THEN lots[i].qty ELSE 0
    BY DEF Call, PostOf
  <2> QED
    BY <1>1, <2>1
<1>4. ToPost(script, r) = Total(h, D) /\ Brought(lots)[r] = Total(f, E)
  BY <1>1 DEF ToPost, Brought
<1>5. E \in SUBSET D /\ \A i \in E : lots[i].row = r
  OBVIOUS
<1>6. \A i \in D \ E : lots[i].row # r
  OBVIOUS
<1>7. \A i \in D : lots[i].qty \in Int
  BY <1>1
<1> HIDE DEF D, E, f, h, script
<1>8. \A i \in E : f[i] \in Int /\ f[i] = h[i] /\ h[i] \in Int
  BY <1>3, <1>5, <1>7
<1>9. \A i \in D \ E : h[i] = 0
  BY <1>3, <1>6
<1>10. IsFiniteSet(E)
  BY <1>2, <1>5, FS_Subset
<1>11. Total(f, E) = Total(h, E)
  BY ONLY <1>8, <1>10, SumSame DEF Total
<1>12. Total(h, D) = Total(h, E)
  BY ONLY <1>2, <1>5, <1>8, <1>9, SumPart DEF Total
<1> QED
  BY <1>4, <1>11, <1>12 DEF script

\* An addition brings its quantity.
LEMMA AddAsks ==
  ASSUME NEW x \in Row, NEW q \in Nat, NEW r \in Row
  PROVE  ToPost(AddScript(x, q), r) = Added(x, q)[r]
<1> DEFINE call == Call("post", x, q)
           script == AddScript(x, q)
<1>1. script \in Seq(Calls) /\ script = <<call>>
  BY RowScripts DEF AddScript
<1>2. script # <<>> /\ Head(script) = call /\ Tail(script) = <<>> /\ <<>> \in Seq(Calls)
  BY <1>1
<1>3. PostOf(call, r) = IF x = r THEN q ELSE 0
  BY DEF Call, PostOf
<1> HIDE DEF script, call
<1>4. ToPost(script, r) = PostOf(call, r) + ToPost(<<>>, r) /\ ToPost(<<>>, r) = 0
  BY <1>1, <1>2, ScriptTail, ScriptSums
<1>5. Added(x, q)[r] = IF r = x THEN q ELSE 0
  BY DEF Added
<1>6. ToPost(script, r) = IF x = r THEN q ELSE 0
  BY <1>3, <1>4
<1> QED
  BY <1>5, <1>6 DEF script

\* A transfer carries its quantity from one row to the other.
LEMMA TransferAsks ==
  ASSUME NEW from \in Row, NEW to \in Row, from # to, NEW q \in Nat, NEW r \in Row
  PROVE  ToPost(TransferScript(from, to, q), r) = Carried(from, to, q)[r]
<1> DEFINE call1 == Call("post", from, -q)
           call2 == Call("post", to, q)
           script == TransferScript(from, to, q)
           rest == <<call2>>
<1>1. script \in Seq(Calls) /\ script = <<call1, call2>> /\ call2 \in Calls
  BY RowScripts DEF TransferScript, Call, Calls
<1>2. /\ script # <<>> /\ Head(script) = call1 /\ Tail(script) = rest /\ rest \in Seq(Calls)
      /\ rest # <<>> /\ Head(rest) = call2 /\ Tail(rest) = <<>> /\ <<>> \in Seq(Calls)
  BY <1>1
<1>3. /\ PostOf(call1, r) = IF from = r THEN -q ELSE 0
      /\ PostOf(call2, r) = IF to = r THEN q ELSE 0
  BY DEF Call, PostOf
<1> HIDE DEF script, call1, call2, rest
<1>4. ToPost(script, r) = PostOf(call1, r) + ToPost(rest, r)
  BY <1>1, <1>2, ScriptTail
<1>5. ToPost(rest, r) = PostOf(call2, r) + ToPost(<<>>, r) /\ ToPost(<<>>, r) = 0
  BY <1>2, ScriptTail, ScriptSums
<1>6. Carried(from, to, q)[r] = IF r = from THEN -q ELSE IF r = to THEN q ELSE 0
  BY DEF Carried
<1>7. ToPost(script, r) = IF r = from THEN -q ELSE IF r = to THEN q ELSE 0
  <2>1. CASE r = from
    BY <1>3, <1>4, <1>5, <2>1
  <2>2. CASE r # from /\ r = to
    BY <1>3, <1>4, <1>5, <2>2
  <2>3. CASE r # from /\ r # to
    BY <1>3, <1>4, <1>5, <2>3
  <2> QED
    BY <2>1, <2>2, <2>3
<1> QED
  BY <1>6, <1>7 DEF script

-----------------------------------------------------------------------------
(* A request that starts promises what it asks for.                        *)

Fresh(script, o, read) ==
  [Idle EXCEPT !.pc = "call", !.script = script, !.order = o, !.read = read]

\* The fields of a request that has just started.
LEMMA FreshFields ==
  ASSUME NEW script, NEW o, NEW read
  PROVE  LET x == Fresh(script, o, read)
         IN  /\ x.script = script /\ x.order = o /\ x.read = read /\ x.pc = "call"
             /\ x.seen = Blank /\ x.moved = NoMoves
BY DEF Fresh, Idle

\* A request that starts with a promise keeps the invariant.
LEMMA StartPlan ==
  ASSUME Inductive, PlanInv, NEW w \in Worker, NEW script, NEW o, NEW read,
         Start(w, script, o, read), Planned(Fresh(script, o, read), NoMoves, order)
  PROVE  PlanInv'
<1> DEFINE y == Fresh(script, o, read)
<1>1. /\ work[w].pc = "idle" /\ work' = [work EXCEPT ![w] = y]
      /\ UNCHANGED <<reserved, order, lock>> /\ work \in [Worker -> Work]
  BY DEF Start, database, Fresh, Inductive, TypeOK
<1>2. y.pc = "call"
  BY FreshFields
<1> HIDE DEF y
<1>3. work'[w] = y /\ \A v \in Worker \ {w} : work'[v] = work[v]
  BY <1>1
<1>4. \A r \in Row : lock[r] # w
  BY <1>1 DEF Inductive, IInv, InOrder, Held
<1>5. SetAside(w)' = NoMoves
  BY <1>1, <1>4 DEF SetAside, NoMoves
<1>6. Aimed(work'[w])
  BY <1>2, <1>3 DEF Aimed
<1>7. Planned(work'[w], SetAside(w)', order)
  BY <1>3, <1>5 DEF y
<1>8. \A v \in Worker \ {w} : /\ work'[v] = work[v]
                             /\ \A r \in Row : lock'[r] = v <=> lock[r] = v
  BY <1>1, <1>3
<1>9. UNCHANGED <<reserved, order>>
  BY <1>1
<1> QED
  BY ONLY PlanInv, w \in Worker, <1>6, <1>7, <1>8, <1>9, OwnPlan

\* A transaction that has done nothing has only its script to do.
LEMMA FreshLined ==
  ASSUME NEW script \in Seq(Calls), NEW o, NEW read, NEW ops, NEW aside, NEW out,
         \A i \in DOMAIN script : script[i].op \in ops,
         \A s \in Shelf : ToReserve(script, s) = aside[s] /\ ToIssue(script, s) = out[s]
  PROVE  Lined(Fresh(script, o, read), NoMoves, ops, aside, out)
<1> DEFINE x == Fresh(script, o, read)
<1>1. x.script = script /\ x.seen = Blank /\ x.moved = NoMoves
  BY FreshFields
<1> HIDE DEF x
<1>2. Uses(x, ops)
  BY <1>1 DEF Uses
<1>3. ASSUME NEW s \in Shelf
      PROVE  /\ Total(NoMoves, RowsOf(s)) + ToReserve(x.script, s) = aside[s]
             /\ Total(Taken(x), RowsOf(s)) + ToIssue(x.script, s) = out[s]
  <2>1. Total(NoMoves, RowsOf(s)) = 0
    BY NoneOfRows DEF NoMoves
  <2>2. \A r \in Row : Taken(x)[r] = 0
    <3>1. \A r \in Row : x.moved[r] = 0
      BY <1>1 DEF NoMoves
    <3>2. \A r \in Row : Taken(x)[r] = -x.moved[r]
      BY DEF Taken
    <3> QED
      BY ONLY <3>1, <3>2
  <2>3. Total(Taken(x), RowsOf(s)) = 0
    BY <2>2, NoneOfRows
  <2>4. ToReserve(script, s) \in Int /\ ToIssue(script, s) \in Int
    BY ScriptSums
  <2> QED
    BY <1>1, <2>1, <2>3, <2>4
<1>4. ASSUME NEW r \in Row
      PROVE  /\ "reserve" \notin ops => NoMoves[r] <= 0
             /\ "release" \notin ops => NoMoves[r] >= 0
             /\ x.moved[r] <= 0
             /\ "issue" \notin ops => x.moved[r] = 0
             /\ x.moved[r] < 0 \/ NoMoves[r] > 0 => x.seen[r].res <= x.seen[r].on
  <2>1. NoMoves[r] = 0 /\ x.moved[r] = 0
    BY <1>1 DEF NoMoves
  <2> QED
    BY <2>1
<1>5. Lined(x, NoMoves, ops, aside, out)
  BY <1>2, <1>3, <1>4, Zenon DEF Lined
<1> QED
  BY <1>5 DEF x

\* A transaction that has moved nothing has its whole script to move.
LEMMA FreshPosted ==
  ASSUME NEW script \in Seq(Calls), NEW o, NEW read, NEW delta,
         \A i \in DOMAIN script : script[i].op = "post",
         \A r \in Row : ToPost(script, r) = delta[r]
  PROVE  Posted(Fresh(script, o, read), NoMoves, delta)
<1> DEFINE x == Fresh(script, o, read)
<1>1. x.script = script /\ x.moved = NoMoves
  BY FreshFields
<1> HIDE DEF x
<1>2. Uses(x, {"post"})
  BY <1>1 DEF Uses
<1>3. ASSUME NEW r \in Row
      PROVE  NoMoves[r] = 0 /\ x.moved[r] + ToPost(x.script, r) = delta[r]
  <2>1. NoMoves[r] = 0
    BY DEF NoMoves
  <2>2. ToPost(script, r) \in Int
    BY ScriptSums
  <2> QED
    BY <1>1, <2>1, <2>2
<1>4. Posted(x, NoMoves, delta)
  BY <1>2, <1>3 DEF Posted
<1> QED
  BY <1>4 DEF x

\* The promises of the requests that name no order.
LEMMA TradePlan ==
  ASSUME NEW script \in Seq(Calls), NEW rows
  PROVE  LET x == Fresh(script, NoOne, NoOrder)
         IN  /\ \A lines \in Basket \cup Cuts :
                  Lined(x, NoMoves, {"issue", "reduce"}, Nothing, Asks(lines))
                    => Planned(x, NoMoves, rows)
             /\ \A delta : Arrives(delta) /\ Posted(x, NoMoves, delta) => Planned(x, NoMoves, rows)
<1> DEFINE x == Fresh(script, NoOne, NoOrder)
<1>1. x.order = NoOne
  BY FreshFields
<1> HIDE DEF x
<1>2. /\ \A lines \in Basket \cup Cuts :
           Lined(x, NoMoves, {"issue", "reduce"}, Nothing, Asks(lines))
             => Planned(x, NoMoves, rows)
      /\ \A delta : Arrives(delta) /\ Posted(x, NoMoves, delta) => Planned(x, NoMoves, rows)
  BY <1>1, Zenon DEF Planned
<1> QED
  BY <1>2, Zenon DEF x

\* A sale promises its lines.
LEMMA SalePlan ==
  ASSUME NEW lines \in Basket, NEW rows
  PROVE  Planned(Fresh(SaleScript(lines), NoOne, NoOrder), NoMoves, rows)
<1>1. lines \in Seq(Line)
  BY InventoryAssumption
<1>2. SaleScript(lines) \in Seq(Calls)
  BY <1>1, LineScripts
<1>3. \A i \in DOMAIN SaleScript(lines) : SaleScript(lines)[i].op \in {"issue", "reduce"}
  BY DEF SaleScript, Call
<1>4. \A s \in Shelf : /\ ToReserve(SaleScript(lines), s) = Nothing[s]
                       /\ ToIssue(SaleScript(lines), s) = Asks(lines)[s]
  BY <1>1, SaleAsks DEF Nothing, Asks
<1>5. Lined(Fresh(SaleScript(lines), NoOne, NoOrder), NoMoves, {"issue", "reduce"},
            Nothing, Asks(lines))
  BY ONLY <1>2, <1>3, <1>4, FreshLined
<1> QED
  BY <1>2, <1>5, TradePlan

\* A correction downwards promises its line.
LEMMA CutPlan ==
  ASSUME NEW s0 \in Shelf, NEW q \in 1..MaxOnHand, NEW rows
  PROVE  Planned(Fresh(ReduceScript([shelf |-> s0, qty |-> q]), NoOne, NoOrder), NoMoves, rows)
<1> DEFINE line == [shelf |-> s0, qty |-> q]
           script == ReduceScript(line)
           lines == <<line>>
<1>1. q \in Nat \ {0} /\ q \in Nat
  BY InventoryAssumption
<1>2. script \in Seq(Calls)
  BY <1>1, RowScripts
<1>3. \A i \in DOMAIN script : script[i].op \in {"issue", "reduce"}
  BY DEF ReduceScript, Call
<1>4. \A s \in Shelf : ToReserve(script, s) = 0 /\ ToIssue(script, s) = LineQty(lines, s)
  BY <1>1, CutAsks
<1>5. lines \in Cuts
  BY DEF Cuts
<1> HIDE DEF script, lines
<1>6. \A s \in Shelf : ToReserve(script, s) = Nothing[s] /\ ToIssue(script, s) = Asks(lines)[s]
  BY <1>4 DEF Nothing, Asks
<1>7. Lined(Fresh(script, NoOne, NoOrder), NoMoves, {"issue", "reduce"}, Nothing, Asks(lines))
  BY ONLY <1>2, <1>3, <1>6, FreshLined
<1>8. Planned(Fresh(script, NoOne, NoOrder), NoMoves, rows)
  BY <1>2, <1>5, <1>7, TradePlan
<1> QED
  BY <1>8 DEF script

\* A request made of movements promises what they bring.
LEMMA ArrivalPlan ==
  ASSUME NEW script \in Seq(Calls), NEW rows, NEW delta, Arrives(delta),
         \A i \in DOMAIN script : script[i].op = "post",
         \A r \in Row : ToPost(script, r) = delta[r]
  PROVE  Planned(Fresh(script, NoOne, NoOrder), NoMoves, rows)
<1>1. Posted(Fresh(script, NoOne, NoOrder), NoMoves, delta)
  BY FreshPosted
<1> QED
  BY <1>1, TradePlan

\* An order being placed promises to set its lines aside.
LEMMA PlaceOrderPlan ==
  ASSUME NEW lines \in Basket, NEW o \in Order, NEW rows
  PROVE  Planned(Fresh(OrderScript(lines), o, [status |-> "none", lines |-> lines]), NoMoves, rows)
<1> DEFINE script == OrderScript(lines)
           read == [status |-> "none", lines |-> lines]
           x == Fresh(script, o, read)
<1>1. lines \in Seq(Line)
  BY InventoryAssumption
<1>2. script \in Seq(Calls)
  BY <1>1, LineScripts
<1>3. \A i \in DOMAIN script : script[i].op \in {"reserve"}
  BY DEF OrderScript, Call
<1>4. \A s \in Shelf : /\ ToReserve(script, s) = Asks(lines)[s] /\ ToIssue(script, s) = Nothing[s]
  BY <1>1, SaleAsks DEF Nothing, Asks
<1>5. x.order = o /\ x.read = read
  BY FreshFields
<1>6. read.status = "none" /\ read.lines = lines /\ o # NoOne
  BY InventoryAssumption
<1> HIDE DEF script, read
<1>7. Lined(x, NoMoves, {"reserve"}, Asks(lines), Nothing)
  BY ONLY <1>2, <1>3, <1>4, FreshLined
<1> HIDE DEF x
<1>8. Planned(x, NoMoves, rows)
  BY <1>5, <1>6, <1>7, Zenon DEF Planned
<1> QED
  BY <1>8 DEF x, script, read

\* A dispatch promises to give its lines back and to take them.
LEMMA DispatchPlan ==
  ASSUME NEW o \in Order, NEW rows, rows[o] \in Orders, rows[o].status = "confirmed"
  PROVE  Planned(Fresh(DispatchScript(rows[o].lines), o, rows[o]), NoMoves, rows)
<1> DEFINE lines == rows[o].lines
           script == DispatchScript(lines)
           x == Fresh(script, o, rows[o])
<1>1. lines \in Seq(Line)
  BY DEF Orders
<1>2. script \in Seq(Calls)
  BY <1>1, LineScripts
<1>3. \A i \in DOMAIN script : script[i].op \in {"release", "issue"}
  BY DEF DispatchScript, Call
<1>4. \A s \in Shelf : ToReserve(script, s) = -LineQty(lines, s) /\ ToIssue(script, s) = LineQty(lines, s)
  BY <1>1, DispatchAsks
<1>5. x.order = o /\ x.read = rows[o] /\ o # NoOne
  BY FreshFields, InventoryAssumption
<1> HIDE DEF script
<1>6. \A s \in Shelf : ToReserve(script, s) = Back(lines)[s] /\ ToIssue(script, s) = Asks(lines)[s]
  BY <1>4 DEF Back, Asks
<1>7. Lined(x, NoMoves, {"release", "issue"}, Back(lines), Asks(lines))
  BY ONLY <1>2, <1>3, <1>6, FreshLined
<1> HIDE DEF x
<1>8. rows[o].status # "none"
  OBVIOUS
<1>9. Planned(x, NoMoves, rows)
  BY <1>5, <1>7, <1>8, Zenon DEF Planned
<1> QED
  BY <1>9 DEF x, script

\* Whatever is asked for is promised.
LEMMA RequestPlan ==
  ASSUME Inductive, PlanInv, NEW w \in Worker, Request(w)
  PROVE  PlanInv'
<1>1. /\ Delivery \subseteq Seq(Lot) /\ Loose \subseteq Row /\ MaxOnHand \in Nat
  BY InventoryAssumption
<1>2. ASSUME NEW script, NEW o, NEW read, Start(w, script, o, read),
             Planned(Fresh(script, o, read), NoMoves, order)
      PROVE  PlanInv'
  BY ONLY Inductive, PlanInv, w \in Worker, <1>2, StartPlan
<1>3. CASE StartSale(w)
  <2>1. PICK lines \in Basket : Start(w, SaleScript(lines), NoOne, NoOrder)
    BY <1>3 DEF StartSale
  <2> QED
    BY ONLY <2>1, <1>2, SalePlan
<1>4. CASE StartReceipt(w)
  <2>1. PICK lots \in Delivery : Start(w, ReceiptScript(lots), NoOne, NoOrder)
    BY <1>4 DEF StartReceipt
  <2>2. lots \in Seq(Lot)
    BY <1>1
  <2>3. Arrives(Brought(lots))
    BY DEF Arrives
  <2>4. ReceiptScript(lots) \in Seq(Calls) /\ \A r \in Row : ToPost(ReceiptScript(lots), r) = Brought(lots)[r]
    BY <2>2, RowScripts, ReceiptAsks
  <2>5. \A i \in DOMAIN ReceiptScript(lots) : ReceiptScript(lots)[i].op = "post"
    BY DEF ReceiptScript, Call
  <2>6. Planned(Fresh(ReceiptScript(lots), NoOne, NoOrder), NoMoves, order)
    BY ONLY <2>3, <2>4, <2>5, ArrivalPlan
  <2> QED
    BY ONLY <2>1, <2>6, <1>2
<1>5. CASE StartAdjustment(w)
  <2>1. CASE \E s \in Shelf, q \in 1..MaxOnHand :
               Start(w, ReduceScript([shelf |-> s, qty |-> q]), NoOne, NoOrder)
    BY ONLY <2>1, <1>2, CutPlan
  <2>2. CASE \E r \in Loose, q \in 1..MaxOnHand : Start(w, AddScript(r, q), NoOne, NoOrder)
    <3>1. PICK x \in Loose, q \in 1..MaxOnHand : Start(w, AddScript(x, q), NoOne, NoOrder)
      BY <2>2
    <3>2. q \in Nat /\ x \in Row
      BY <1>1
    <3>3. Arrives(Added(x, q))
      BY DEF Arrives
    <3>4. AddScript(x, q) \in Seq(Calls) /\ \A r \in Row : ToPost(AddScript(x, q), r) = Added(x, q)[r]
      BY <3>2, RowScripts, AddAsks
    <3>5. \A i \in DOMAIN AddScript(x, q) : AddScript(x, q)[i].op = "post"
      BY DEF AddScript, Call
    <3>6. Planned(Fresh(AddScript(x, q), NoOne, NoOrder), NoMoves, order)
      BY ONLY <3>3, <3>4, <3>5, ArrivalPlan
    <3> QED
      BY ONLY <3>1, <3>6, <1>2
  <2> QED
    BY <1>5, <2>1, <2>2 DEF StartAdjustment
<1>6. CASE StartTransfer(w)
  <2>1. PICK from \in Loose, to \in Loose, q \in 1..MaxOnHand :
          from # to /\ Start(w, TransferScript(from, to, q), NoOne, NoOrder)
    BY <1>6 DEF StartTransfer
  <2>2. q \in Nat /\ from \in Row /\ to \in Row
    BY <1>1
  <2>3. Arrives(Carried(from, to, q))
    BY <2>1 DEF Arrives
  <2>4. /\ TransferScript(from, to, q) \in Seq(Calls)
        /\ \A r \in Row : ToPost(TransferScript(from, to, q), r) = Carried(from, to, q)[r]
    BY <2>1, <2>2, RowScripts, TransferAsks
  <2>5. \A i \in DOMAIN TransferScript(from, to, q) : TransferScript(from, to, q)[i].op = "post"
    BY DEF TransferScript, Call
  <2>6. Planned(Fresh(TransferScript(from, to, q), NoOne, NoOrder), NoMoves, order)
    BY ONLY <2>3, <2>4, <2>5, ArrivalPlan
  <2> QED
    BY ONLY <2>1, <2>6, <1>2
<1>7. CASE \E o \in Order : StartOrder(w, o)
  <2>1. PICK o \in Order, lines \in Basket :
          Start(w, OrderScript(lines), o, [status |-> "none", lines |-> lines])
    BY <1>7 DEF StartOrder
  <2> QED
    BY ONLY <2>1, <1>2, PlaceOrderPlan
<1>8. CASE \E o \in Order : StartDispatch(w, o)
  <2>1. PICK o \in Order : /\ Start(w, DispatchScript(order[o].lines), o, order[o])
                           /\ order[o].status = "confirmed"
    BY <1>8 DEF StartDispatch
  <2>2. order[o] \in Orders
    BY DEF Inductive, TypeOK
  <2> QED
    BY ONLY <2>1, <2>2, <1>2, DispatchPlan
<1> QED
  BY <1>3, <1>4, <1>5, <1>6, <1>7, <1>8 DEF Request

\* A commit changes no row another transaction holds, and no lines of an order.
LEMMA CommitFrame ==
  ASSUME Inductive, PlanInv, NEW w \in Worker, Commit(w)
  PROVE  /\ \A o \in Order : order[o].status # "none" =>
                               order'[o].status # "none" /\ order'[o].lines = order[o].lines
         /\ \A v \in Worker \ {w} : work'[v] = work[v] /\ SetAside(v)' = SetAside(v)
         /\ work'[w] = Idle
<1> DEFINE o == work[w].order
           mine == work[w].read
<1>1. /\ work[w].pc = "call" /\ (o # NoOne => order[o].status = mine.status)
      /\ reserved' = [r \in Row |-> IF lock[r] = w THEN work[w].seen[r].res ELSE reserved[r]]
      /\ order' = IF o = NoOne THEN order
                  ELSE [order EXCEPT ![o] = [status |-> After[mine.status], lines |-> mine.lines]]
      /\ lock' = [r \in Row |-> IF lock[r] = w THEN NoOne ELSE lock[r]]
      /\ work' = [work EXCEPT ![w] = Idle]
  BY DEF Commit
<1>2. /\ work \in [Worker -> Work] /\ lock \in [Row -> Worker \cup {NoOne}]
      /\ NoOne \notin Worker /\ reserved \in [Row -> Int] /\ order \in [Order -> Orders]
  BY InventoryAssumption DEF Inductive, TypeOK
<1>3. ASSUME NEW q \in Order, order[q].status # "none"
      PROVE  order'[q].status # "none" /\ order'[q].lines = order[q].lines
  <2>1. CASE o = NoOne
    BY <1>1, <1>3, <2>1
  <2>2. CASE o # NoOne /\ q # o
    BY <1>1, <1>2, <1>3, <2>2
  <2>3. CASE o # NoOne /\ q = o
    <3>1. mine.status # "none"
      BY <1>1, <1>3, <2>3
    <3>2. Planned(work[w], SetAside(w), order)
      BY <1>1 DEF PlanInv
    <3>3. mine.status = "confirmed" /\ order[o].lines = mine.lines
      BY <2>3, <3>1, <3>2, Zenon DEF Planned
    <3>4. After["confirmed"] = "invoiced"
      BY DEF After
    <3>5. order'[q] = [status |-> After[mine.status], lines |-> mine.lines]
      BY <1>1, <1>2, <2>3
    <3> QED
      BY <2>3, <3>3, <3>4, <3>5
  <2> QED
    BY <2>1, <2>2, <2>3
<1>4. ASSUME NEW v \in Worker, v # w
      PROVE  work'[v] = work[v] /\ SetAside(v)' = SetAside(v)
  <2>1. work'[v] = work[v] /\ \A r \in Row : lock'[r] = v <=> lock[r] = v
    BY <1>1, <1>2, <1>4
  <2>2. \A r \in Row : lock[r] = v => reserved'[r] = reserved[r]
    BY <1>1, <1>4
  <2> QED
    BY <2>1, <2>2 DEF SetAside
<1>5. work'[w] = Idle
  BY <1>1, <1>2
<1> HIDE DEF o, mine
<1> QED
  BY <1>3, <1>4, <1>5

\* A commit keeps the promises of the other transactions.
LEMMA CommitPlan ==
  ASSUME Inductive, PlanInv, NEW w \in Worker, Commit(w)
  PROVE  PlanInv'
<1>1. /\ \A o \in Order : order[o].status # "none" =>
                            order'[o].status # "none" /\ order'[o].lines = order[o].lines
      /\ \A v \in Worker \ {w} : work'[v] = work[v] /\ SetAside(v)' = SetAside(v)
      /\ work'[w] = Idle
  BY CommitFrame
<1>2. Idle.pc = "idle"
  BY DEF Idle
<1>3. ASSUME NEW v \in Worker, v # w
      PROVE  /\ Aimed(work'[v])
             /\ work'[v].pc # "idle" => Planned(work'[v], SetAside(v)', order')
  <2>1. Aimed(work[v]) /\ (work[v].pc # "idle" => Planned(work[v], SetAside(v), order))
    BY DEF PlanInv
  <2>2. work[v].order \in Order \cup {NoOne}
    BY WorkFields DEF Inductive
  <2>3. Planned(work[v], SetAside(v), order) => Planned(work[v], SetAside(v), order')
    BY ONLY <1>1, <2>2, PlannedKept
  <2>4. work'[v] = work[v] /\ SetAside(v)' = SetAside(v)
    BY <1>1, <1>3
  <2> QED
    BY ONLY <2>1, <2>3, <2>4
<1>4. Aimed(work'[w]) /\ work'[w].pc = "idle"
  BY <1>1, <1>2 DEF Aimed
<1>5. \A v \in Worker : /\ Aimed(work'[v])
                        /\ work'[v].pc # "idle" => Planned(work'[v], SetAside(v)', order')
  BY <1>3, <1>4, Zenon
<1> QED
  BY <1>5, Zenon DEF PlanInv

\* Nobody has promised anything at the start.
LEMMA InitPlan ==
  ASSUME Init
  PROVE  PlanInv
BY DEF Init, PlanInv, Aimed, Idle

\* Every step keeps the promises.
LEMMA NextPlan ==
  ASSUME Inductive, PlanInv, [Next]_vars
  PROVE  PlanInv'
<1>1. ASSUME NEW w \in Worker, Rollback(w)
      PROVE  PlanInv'
  BY <1>1, RollbackPlan
<1>2. ASSUME NEW w \in Worker, Step(w)
      PROVE  PlanInv'
  <2>1. CASE Serve(w)
    BY <1>1, <2>1, IssuePlan, ReservePlan, ReleasePlan, PostPlan DEF Serve, Refuse
  <2> QED
    BY <1>1, <1>2, <2>1, ScanPlan, CommitPlan DEF Step, StaleOrder
<1>3. ASSUME NEW w \in Worker, DeadlockVictim(w) \/ Abort(w)
      PROVE  PlanInv'
  BY <1>1, <1>3 DEF DeadlockVictim, Abort
<1>4. CASE NextDay \/ UNCHANGED vars
  <2>1. UNCHANGED <<reserved, order, lock, work>>
    BY <1>4 DEF NextDay, vars, database
  <2> QED
    BY <2>1 DEF PlanInv, SetAside
<1> QED
  BY <1>2, <1>3, <1>4, RequestPlan, LockRowPlan DEF Next

\* In every reachable state, every request is on its way to what it was asked for.
THEOREM PromisesKept == Spec => [](Inductive /\ PlanInv)
<1>1. Init => Inductive /\ PlanInv
  BY InitInductive, InitPlan
<1>2. Inductive /\ PlanInv /\ [Next]_vars => (Inductive /\ PlanInv)'
  BY NextKeeps, NextPlan
<1> QED
  BY <1>1, <1>2, PTL DEF Spec

-----------------------------------------------------------------------------
(* A commit does what was promised, in one step of the book.               *)

\* The book adds up the way the inventory does.
LEMMA SameTotal ==
  ASSUME NEW f, NEW S
  PROVE  Book!Total(f, S) = Total(f, S)
BY Zenon DEF Total, Book!Total, SumFunctionOnSet, Book!SumFunctionOnSet,
             FoldFunctionOnSet, Book!FoldFunctionOnSet, MapThenFoldSet, Book!MapThenFoldSet

\* A way of taking what the lines ask for out of the rows of their shelves.
LEMMA SpreadFits ==
  ASSUME NEW lines \in Seq(Line), NEW take, take = [r \in Row |-> take[r]], NEW limit,
         \A r \in Row : take[r] \in Nat /\ (take[r] > 0 => take[r] <= limit[r]),
         \A s \in Shelf : Total(take, RowsOf(s)) = LineQty(lines, s)
  PROVE  take \in Book!Spread(lines, limit)
<1> DEFINE D == DOMAIN lines
           f == [i \in D |-> lines[i].qty]
           E(s) == {i \in D : lines[i].shelf = s}
           all == Book!All(lines)
<1>1. IsFiniteSet(D) /\ \A i \in D : f[i] \in Nat
  <2>1. D = 1..Len(lines) /\ 1 \in Int /\ Len(lines) \in Int /\ \A i \in D : lines[i].qty \in Nat
    BY LineFields
  <2> QED
    BY <2>1, FS_Interval
<1>2. all = Total(f, D)
  BY SameTotal DEF Book!All
<1>3. \A s : E(s) \in SUBSET D /\ LineQty(lines, s) = Total(f, E(s))
  BY DEF LineQty
<1> HIDE DEF D, f, E, all
<1>4. ASSUME NEW s
      PROVE  Total(f, E(s)) <= all
  <2>1. /\ E(s) \in SUBSET D /\ D \ E(s) \in SUBSET D
        /\ E(s) \cap (D \ E(s)) = {} /\ E(s) \cup (D \ E(s)) = D
    BY <1>3
  <2>2. IsFiniteSet(E(s)) /\ IsFiniteSet(D \ E(s))
    BY <1>1, <2>1, FS_Subset
  <2>3. /\ \A i \in E(s) \cup (D \ E(s)) : f[i] \in Int
        /\ \A i \in E(s) : f[i] \in Nat
        /\ \A i \in D \ E(s) : f[i] \in Nat
    BY <1>1, <2>1
  <2>4. Total(f, E(s) \cup (D \ E(s))) = Total(f, E(s)) + Total(f, D \ E(s))
    BY ONLY <2>1, <2>2, <2>3, SumUnion DEF Total
  <2>5. Total(f, E(s)) \in Nat /\ Total(f, D \ E(s)) \in Nat
    BY ONLY <2>2, <2>3, SumNat DEF Total
  <2>6. Total(f, D) = Total(f, E(s)) + Total(f, D \ E(s))
    BY ONLY <2>1, <2>4
  <2> QED
    BY ONLY <1>2, <2>5, <2>6
<1>5. all \in Nat
  BY <1>1, <1>2, SumNat DEF Total
<1>6. ASSUME NEW r \in Row
      PROVE  take[r] \in 0..all
  <2> DEFINE s == ShelfOf[r]
             S == RowsOf(s)
  <2>1. s \in Shelf /\ r \in S
    BY InventoryAssumption DEF RowsOf
  <2>2. IsFiniteSet(S) /\ S \subseteq Row
    BY RowsFinite
  <2>3. Total(take, S) = Total(f, E(s))
    BY <1>3, <2>1
  <2> HIDE DEF S, s
  <2>4. \A q \in S : take[q] \in Nat
    BY <2>2
  <2>5. Total(take, S) \in Nat /\ take[r] <= Total(take, S)
    BY ONLY <2>1, <2>2, <2>4, SumNat DEF Total
  <2>6. Total(take, S) <= all
    BY <1>4, <2>3
  <2> QED
    BY <1>5, <2>5, <2>6
<1>7. take \in [Row -> 0..all]
  BY <1>6
<1>8. \A s \in Shelf : Book!Total(take, {r \in Row : ShelfOf[r] = s}) = Book!Asked(lines, s)
  BY SameTotal DEF RowsOf, LineQty, Book!Asked
<1> QED
  BY <1>7, <1>8 DEF Book!Spread, all

\* What a commit does to the balances.
LEMMA CommitEffect ==
  ASSUME Inductive, NEW w \in Worker, Commit(w)
  PROVE  /\ onHand' = [r \in Row |-> onHand[r] + work[w].moved[r]]
         /\ ledger' = [r \in Row |-> ledger[r] + work[w].moved[r]]
         /\ reserved' = [r \in Row |-> reserved[r] + SetAside(w)[r]]
         /\ \A r \in Row :
              /\ onHand[r] \in Int /\ reserved[r] \in Int /\ ledger[r] \in Int
              /\ work[w].moved[r] \in Int /\ SetAside(w)[r] \in Int
              /\ onHand[r] + work[w].moved[r] >= 0 /\ reserved[r] + SetAside(w)[r] >= 0
              /\ work[w].moved[r] # 0 \/ SetAside(w)[r] # 0 =>
                   /\ work[w].seen[r].on = onHand[r] + work[w].moved[r]
                   /\ work[w].seen[r].res = reserved[r] + SetAside(w)[r]
<1>1. /\ onHand' = [r \in Row |-> IF lock[r] = w THEN work[w].seen[r].on ELSE onHand[r]]
      /\ reserved' = [r \in Row |-> IF lock[r] = w THEN work[w].seen[r].res ELSE reserved[r]]
      /\ ledger' = [r \in Row |-> ledger[r] + work[w].moved[r]]
  BY DEF Commit
<1>2. ASSUME NEW r \in Row
      PROVE  /\ onHand[r] \in Int /\ reserved[r] \in Int /\ ledger[r] \in Int
             /\ work[w].moved[r] \in Int /\ work[w].seen[r].on \in Int /\ work[w].seen[r].res \in Int
             /\ onHand[r] >= 0 /\ reserved[r] >= 0
             /\ Knows(w, r)
  BY WorkFields DEF Inductive, TypeOK, IInv, Committed
<1>3. ASSUME NEW r \in Row
      PROVE  /\ SetAside(w)[r] \in Int
             /\ (IF lock[r] = w THEN work[w].seen[r].on ELSE onHand[r]) = onHand[r] + work[w].moved[r]
             /\ (IF lock[r] = w THEN work[w].seen[r].res ELSE reserved[r])
                  = reserved[r] + SetAside(w)[r]
             /\ onHand[r] + work[w].moved[r] >= 0 /\ reserved[r] + SetAside(w)[r] >= 0
             /\ work[w].moved[r] # 0 \/ SetAside(w)[r] # 0 =>
                  /\ work[w].seen[r].on = onHand[r] + work[w].moved[r]
                  /\ work[w].seen[r].res = reserved[r] + SetAside(w)[r]
  <2>1. CASE lock[r] = w
    <3>1. SetAside(w)[r] = work[w].seen[r].res - reserved[r]
      BY <2>1 DEF SetAside
    <3>2. /\ work[w].seen[r].on = onHand[r] + work[w].moved[r]
          /\ work[w].seen[r].on >= 0 /\ work[w].seen[r].res >= 0
      BY <1>2, <2>1 DEF Knows
    <3> QED
      BY <1>2, <2>1, <3>1, <3>2
  <2>2. CASE lock[r] # w
    <3>1. SetAside(w)[r] = 0 /\ work[w].moved[r] = 0
      BY <1>2, <2>2 DEF SetAside, Knows
    <3> QED
      BY <1>2, <2>2, <3>1
  <2> QED
    BY <2>1, <2>2
<1>4. /\ onHand' = [r \in Row |-> onHand[r] + work[w].moved[r]]
      /\ reserved' = [r \in Row |-> reserved[r] + SetAside(w)[r]]
  BY <1>1, <1>3
<1> QED
  BY <1>1, <1>2, <1>3, <1>4

\* At the end of its script a request has done what it promised.
LEMMA LinedEnd ==
  ASSUME NEW x, NEW put, NEW ops, NEW aside, NEW out, Lined(x, put, ops, aside, out),
         x.script = <<>>, \A r \in Row : put[r] \in Int /\ x.moved[r] \in Int
  PROVE  \A s \in Shelf : /\ Total(put, RowsOf(s)) = aside[s]
                          /\ Total(Taken(x), RowsOf(s)) = out[s]
<1> SUFFICES ASSUME NEW s \in Shelf
             PROVE  Total(put, RowsOf(s)) = aside[s] /\ Total(Taken(x), RowsOf(s)) = out[s]
  OBVIOUS
<1> DEFINE S == RowsOf(s)
           t == Taken(x)
<1>1. /\ Total(put, S) + ToReserve(x.script, s) = aside[s]
      /\ Total(t, S) + ToIssue(x.script, s) = out[s]
  BY DEF Lined
<1>2. <<>> \in Seq(Calls)
  OBVIOUS
<1>3. ToReserve(x.script, s) = 0 /\ ToIssue(x.script, s) = 0
  BY <1>2, ScriptSums
<1>4. IsFiniteSet(S) /\ S \subseteq Row
  BY RowsFinite
<1>5. \A r \in Row : t[r] \in Int
  BY DEF Taken
<1> HIDE DEF S, t
<1>6. \A r \in S : put[r] \in Int /\ t[r] \in Int
  BY <1>4, <1>5
<1>7. Total(put, S) \in Int /\ Total(t, S) \in Int
  BY ONLY <1>4, <1>6, SumInt DEF Total
<1> QED
  BY <1>1, <1>3, <1>7 DEF S, t

\* What x has taken is a way of taking what the lines ask for.
LEMMA SpreadTaken ==
  ASSUME NEW x, NEW lines \in Seq(Line), NEW limit,
         \A r \in Row : /\ x.moved[r] \in Int /\ x.moved[r] <= 0
                        /\ x.moved[r] < 0 => -x.moved[r] <= limit[r],
         \A s \in Shelf : Total(Taken(x), RowsOf(s)) = LineQty(lines, s)
  PROVE  Taken(x) \in Book!Spread(lines, limit)
<1> DEFINE t == Taken(x)
<1>1. t = [r \in Row |-> t[r]] /\ \A r \in Row : t[r] = -x.moved[r]
  BY DEF Taken
<1> HIDE DEF t
<1>2. \A r \in Row : t[r] \in Nat /\ (t[r] > 0 => t[r] <= limit[r])
  BY <1>1
<1>3. \A s \in Shelf : Total(t, RowsOf(s)) = LineQty(lines, s)
  BY DEF t
<1>4. t \in Book!Spread(lines, limit)
  BY ONLY <1>1, <1>2, <1>3, SpreadFits, lines \in Seq(Line)
<1> QED
  BY <1>4 DEF t

\* The movements of x, as the book sees them.
LEMMA TakenMoves ==
  ASSUME NEW x, \A r \in Row : x.moved[r] \in Int /\ onHand[r] + x.moved[r] >= 0,
         onHand' = [r \in Row |-> onHand[r] + x.moved[r]],
         ledger' = [r \in Row |-> ledger[r] + x.moved[r]]
  PROVE  Book!Move([r \in Row |-> -Taken(x)[r]])
<1> DEFINE delta == [r \in Row |-> -Taken(x)[r]]
<1>1. ASSUME NEW r \in Row
      PROVE  delta[r] = x.moved[r]
  <2>1. Taken(x)[r] = -x.moved[r]
    BY DEF Taken
  <2> QED
    BY <2>1
<1> HIDE DEF delta
<1>2. /\ \A r \in Row : delta[r] < 0 => onHand[r] + delta[r] >= 0
      /\ onHand' = [r \in Row |-> onHand[r] + delta[r]]
      /\ ledger' = [r \in Row |-> ledger[r] + delta[r]]
  BY <1>1
<1>3. Book!Move(delta)
  BY <1>2 DEF Book!Move, Book!Add
<1> QED
  BY <1>3 DEF delta

\* The request of w, named no order, is done.
LEMMA TradeEnds ==
  ASSUME Inductive, PlanInv, NEW w \in Worker, Commit(w), work[w].order = NoOne
  PROVE  Book!Next
<1> DEFINE x == work[w]
           put == SetAside(w)
<1>1. /\ onHand' = [r \in Row |-> onHand[r] + x.moved[r]]
      /\ ledger' = [r \in Row |-> ledger[r] + x.moved[r]]
      /\ reserved' = [r \in Row |-> reserved[r] + put[r]]
      /\ \A r \in Row :
           /\ onHand[r] \in Int /\ reserved[r] \in Int /\ ledger[r] \in Int
           /\ x.moved[r] \in Int /\ put[r] \in Int
           /\ onHand[r] + x.moved[r] >= 0 /\ reserved[r] + put[r] >= 0
           /\ x.moved[r] # 0 \/ put[r] # 0 =>
                x.seen[r].on = onHand[r] + x.moved[r] /\ x.seen[r].res = reserved[r] + put[r]
  BY CommitEffect
<1>2. x.script = <<>> /\ order' = order /\ x.order = NoOne /\ x.pc = "call"
  BY DEF Commit
<1>3. Planned(x, put, order)
  BY <1>2 DEF PlanInv
<1>4. reserved \in [Row -> Int]
  BY DEF Inductive, TypeOK
<1>5. /\ Basket \subseteq Seq(Line) /\ Cuts \subseteq Seq(Line)
  <2>1. ASSUME NEW lines \in Cuts
        PROVE  lines \in Seq(Line)
    <3>1. PICK s \in Shelf, q \in 1..MaxOnHand : lines = <<[shelf |-> s, qty |-> q]>>
      BY DEF Cuts
    <3>2. q \in Nat \ {0}
      BY InventoryAssumption
    <3> QED
      BY <3>1, <3>2, CutAsks
  <2>2. Basket \subseteq Seq(Line)
    BY InventoryAssumption
  <2> QED
    BY ONLY <2>1, <2>2
<1> HIDE DEF x, put
<1>6. (\A r \in Row : put[r] = 0) => reserved' = reserved
  BY <1>1, <1>4
<1>7. CASE \E lines \in Basket \cup Cuts : Lined(x, put, {"issue", "reduce"}, Nothing, Asks(lines))
  <2>1. PICK lines \in Basket \cup Cuts :
               Lined(x, put, {"issue", "reduce"}, Nothing, Asks(lines))
    BY <1>7
  <2>2. \A r \in Row : put[r] <= 0 /\ put[r] >= 0 /\ x.moved[r] <= 0
                       /\ (x.moved[r] < 0 => x.seen[r].res <= x.seen[r].on)
    BY <2>1 DEF Lined
  <2>3. \A r \in Row : put[r] = 0
    BY <1>1, <2>2
  <2>4. \A r \in Row : x.moved[r] < 0 => -x.moved[r] <= Book!Unreserved[r]
    <3>1. ASSUME NEW r \in Row, x.moved[r] < 0
          PROVE  -x.moved[r] <= onHand[r] - reserved[r]
      <4>1. /\ x.seen[r].on = onHand[r] + x.moved[r] /\ x.seen[r].res = reserved[r]
            /\ x.seen[r].res <= x.seen[r].on
            /\ onHand[r] \in Int /\ reserved[r] \in Int /\ x.moved[r] \in Int
        BY <1>1, <2>2, <2>3, <3>1
      <4> QED
        BY ONLY <4>1
    <3> QED
      BY <3>1 DEF Book!Unreserved
  <2>5. \A s \in Shelf : Total(Taken(x), RowsOf(s)) = Asks(lines)[s]
    <3>1. \A r \in Row : put[r] \in Int /\ x.moved[r] \in Int
      BY <1>1
    <3> QED
      BY ONLY <1>2, <2>1, <3>1, LinedEnd
  <2>6. \A s \in Shelf : Total(Taken(x), RowsOf(s)) = LineQty(lines, s)
    BY <2>5 DEF Asks
  <2>7. lines \in Seq(Line)
    BY <1>5, <2>1
  <2>8. Taken(x) \in Book!Spread(lines, Book!Unreserved)
    <3>1. \A r \in Row : /\ x.moved[r] \in Int /\ x.moved[r] <= 0
                         /\ x.moved[r] < 0 => -x.moved[r] <= Book!Unreserved[r]
      BY <1>1, <2>2, <2>4
    <3> QED
      BY ONLY <2>6, <2>7, <3>1, SpreadTaken
  <2>9. Book!Move([r \in Row |-> -Taken(x)[r]])
    BY <1>1, TakenMoves
  <2>10. Book!Sell(lines)
    BY <1>2, <1>6, <2>3, <2>8, <2>9, Zenon DEF Book!Sell
  <2>11. CASE lines \in Basket
    BY <2>10, <2>11, Zenon DEF Book!Next
  <2>12. CASE lines \in Cuts
    <3>1. PICK s \in Shelf, q \in 1..MaxOnHand : lines = <<[shelf |-> s, qty |-> q]>>
      BY <2>12 DEF Cuts
    <3>2. Book!Reduce(s, q)
      BY <2>10, <3>1, Zenon DEF Book!Reduce
    <3> QED
      BY <3>2, Zenon DEF Book!Next
  <2> QED
    BY <2>1, <2>11, <2>12
<1>8. CASE \E delta : Arrives(delta) /\ Posted(x, put, delta)
  <2>1. PICK delta : Arrives(delta) /\ Posted(x, put, delta)
    BY <1>8
  <2>2. \A r \in Row : put[r] = 0 /\ x.moved[r] + ToPost(x.script, r) = delta[r]
    BY <2>1 DEF Posted
  <2>3. \A r \in Row : ToPost(x.script, r) = 0
    <3>1. <<>> \in Seq(Calls)
      OBVIOUS
    <3> QED
      BY <1>2, <3>1, ScriptSums
  <2>4. \A r \in Row : x.moved[r] = delta[r]
    BY <1>1, <2>2, <2>3
  <2>5. /\ \A r \in Row : delta[r] < 0 => onHand[r] + delta[r] >= 0
        /\ onHand' = [r \in Row |-> onHand[r] + delta[r]]
        /\ ledger' = [r \in Row |-> ledger[r] + delta[r]]
    BY <1>1, <2>4
  <2>6. Book!Move(delta)
    BY <2>5 DEF Book!Move, Book!Add
  <2>7. UNCHANGED <<reserved, order>>
    BY <1>2, <1>6, <2>2
  <2>8. CASE \E lots \in Delivery : delta = Brought(lots)
    <3>1. PICK lots \in Delivery : delta = Brought(lots)
      BY <2>8
    <3>2. delta = [r \in Row |-> Book!Total([i \in DOMAIN lots |-> lots[i].qty],
                                            {i \in DOMAIN lots : lots[i].row = r})]
      BY <3>1, SameTotal DEF Brought
    <3>3. Book!Receive(lots)
      BY <2>6, <2>7, <3>2, Zenon DEF Book!Receive
    <3> QED
      BY <3>3, Zenon DEF Book!Next
  <2>9. CASE \E r \in Loose, q \in 1..MaxOnHand : delta = Added(r, q)
    <3>1. PICK r \in Loose, q \in 1..MaxOnHand : delta = Added(r, q)
      BY <2>9
    <3>2. Book!AddLoose(r, q)
      BY <2>6, <2>7, <3>1, Zenon DEF Book!AddLoose, Added
    <3> QED
      BY <3>2, Zenon DEF Book!Next
  <2>10. CASE \E from, to \in Loose, q \in 1..MaxOnHand : from # to /\ delta = Carried(from, to, q)
    <3>1. PICK from \in Loose, to \in Loose, q \in 1..MaxOnHand :
            from # to /\ delta = Carried(from, to, q)
      BY <2>10
    <3>2. Book!Transfer(from, to, q)
      BY <2>6, <2>7, <3>1, Zenon DEF Book!Transfer, Carried
    <3> QED
      BY <3>1, <3>2, Zenon DEF Book!Next
  <2> QED
    BY <2>1, <2>8, <2>9, <2>10 DEF Arrives
<1> QED
  BY <1>2, <1>3, <1>7, <1>8, Zenon DEF Planned

\* A placed order is confirmed in the book.
LEMMA OrderEnds ==
  ASSUME Inductive, PlanInv, NEW w \in Worker, Commit(w), work[w].order # NoOne,
         work[w].read.status = "none"
  PROVE  Book!Next
<1> DEFINE x == work[w]
           put == SetAside(w)
           o == x.order
           lines == x.read.lines
<1>1. /\ onHand' = [r \in Row |-> onHand[r] + x.moved[r]]
      /\ ledger' = [r \in Row |-> ledger[r] + x.moved[r]]
      /\ reserved' = [r \in Row |-> reserved[r] + put[r]]
      /\ \A r \in Row :
           /\ onHand[r] \in Int /\ reserved[r] \in Int /\ ledger[r] \in Int
           /\ x.moved[r] \in Int /\ put[r] \in Int
           /\ onHand[r] + x.moved[r] >= 0 /\ reserved[r] + put[r] >= 0
           /\ x.moved[r] # 0 \/ put[r] # 0 =>
                x.seen[r].on = onHand[r] + x.moved[r] /\ x.seen[r].res = reserved[r] + put[r]
  BY CommitEffect
<1>2. /\ x.script = <<>> /\ x.pc = "call" /\ x.order # NoOne /\ order[o].status = x.read.status
      /\ order' = [order EXCEPT ![o] = [status |-> After[x.read.status], lines |-> lines]]
      /\ x.read.status = "none"
  BY DEF Commit
<1>3. Planned(x, put, order)
  BY <1>2 DEF PlanInv
<1>4. onHand \in [Row -> Int] /\ ledger \in [Row -> Int] /\ o \in Order
  BY <1>2, WorkFields DEF Inductive, TypeOK
<1>5. /\ order[o].status = "none"
      /\ order' = [order EXCEPT ![o] = [status |-> "confirmed", lines |-> lines]]
  BY <1>2 DEF After
<1> HIDE DEF x, put, o, lines
<1>6. lines \in Basket /\ Lined(x, put, {"reserve"}, Asks(lines), Nothing)
  BY <1>2, <1>3, Zenon DEF Planned, lines
<1>7. lines \in Seq(Line)
  BY <1>6, InventoryAssumption
<1>8. \A r \in Row : x.moved[r] = 0 /\ put[r] >= 0
                     /\ (put[r] > 0 => x.seen[r].res <= x.seen[r].on)
  BY <1>6 DEF Lined
<1>9. onHand' = onHand /\ ledger' = ledger
  BY <1>1, <1>4, <1>8
<1>10. put = [r \in Row |-> put[r]]
  BY DEF put, SetAside
<1>11. \A r \in Row : put[r] \in Nat /\ (put[r] > 0 => put[r] <= Book!Unreserved[r])
  <2>1. ASSUME NEW r \in Row
        PROVE  put[r] \in Nat /\ (put[r] > 0 => put[r] <= onHand[r] - reserved[r])
    <3>1. /\ put[r] \in Int /\ put[r] >= 0 /\ x.moved[r] = 0
          /\ onHand[r] \in Int /\ reserved[r] \in Int
          /\ put[r] # 0 => x.seen[r].on = onHand[r] + x.moved[r] /\ x.seen[r].res = reserved[r] + put[r]
          /\ put[r] > 0 => x.seen[r].res <= x.seen[r].on
      BY <1>1, <1>8
    <3> QED
      BY ONLY <3>1
  <2> QED
    BY <2>1 DEF Book!Unreserved
<1>12. \A s \in Shelf : Total(put, RowsOf(s)) = LineQty(lines, s)
  <2>1. \A r \in Row : put[r] \in Int /\ x.moved[r] \in Int
    BY <1>1
  <2>2. \A s \in Shelf : Total(put, RowsOf(s)) = Asks(lines)[s]
    BY ONLY <1>2, <1>6, <2>1, LinedEnd
  <2> QED
    BY <2>2 DEF Asks
<1>13. put \in Book!Spread(lines, Book!Unreserved)
  BY ONLY <1>7, <1>10, <1>11, <1>12, SpreadFits
<1>14. reserved' = Book!Add(reserved, put)
  BY <1>1 DEF Book!Add
<1>15. Book!Confirm(o, lines)
  BY <1>5, <1>9, <1>13, <1>14, Zenon DEF Book!Confirm
<1> QED
  BY <1>4, <1>6, <1>15, Zenon DEF Book!Next

\* A dispatched order is invoiced in the book.
LEMMA DispatchEnds ==
  ASSUME Inductive, PlanInv, NEW w \in Worker, Commit(w), work[w].order # NoOne,
         work[w].read.status # "none"
  PROVE  Book!Next
<1> DEFINE x == work[w]
           put == SetAside(w)
           give == [r \in Row |-> -put[r]]
           o == x.order
           lines == x.read.lines
           limit == Book!Add(Book!Unreserved, give)
<1>1. /\ onHand' = [r \in Row |-> onHand[r] + x.moved[r]]
      /\ ledger' = [r \in Row |-> ledger[r] + x.moved[r]]
      /\ reserved' = [r \in Row |-> reserved[r] + put[r]]
      /\ \A r \in Row :
           /\ onHand[r] \in Int /\ reserved[r] \in Int /\ ledger[r] \in Int
           /\ x.moved[r] \in Int /\ put[r] \in Int
           /\ onHand[r] + x.moved[r] >= 0 /\ reserved[r] + put[r] >= 0
           /\ x.moved[r] # 0 \/ put[r] # 0 =>
                x.seen[r].on = onHand[r] + x.moved[r] /\ x.seen[r].res = reserved[r] + put[r]
  BY CommitEffect
<1>2. /\ x.script = <<>> /\ x.pc = "call" /\ x.order # NoOne /\ order[o].status = x.read.status
      /\ order' = [order EXCEPT ![o] = [status |-> After[x.read.status], lines |-> lines]]
      /\ x.read.status # "none"
  BY DEF Commit
<1>3. Planned(x, put, order)
  BY <1>2 DEF PlanInv
<1>4. o \in Order /\ order \in [Order -> Orders] /\ order[o] \in Orders
  BY <1>2, WorkFields DEF Inductive, TypeOK
<1> HIDE DEF x, put, o, lines
<1>5. /\ x.read.status = "confirmed" /\ order[o].lines = lines
      /\ Lined(x, put, {"release", "issue"}, Back(lines), Asks(lines))
  BY <1>2, <1>3, Zenon DEF Planned, lines, o
<1>6. lines \in Seq(Line)
  BY <1>4, <1>5 DEF Orders
<1>7. order[o].status = "confirmed" /\ order' = [order EXCEPT ![o].status = "invoiced"]
  <2>1. [status |-> After[x.read.status], lines |-> lines] = [order[o] EXCEPT !.status = "invoiced"]
    BY <1>4, <1>5 DEF After, Orders
  <2> QED
    BY <1>2, <1>4, <1>5, <2>1
<1>8. \A r \in Row : x.moved[r] <= 0 /\ put[r] <= 0
                     /\ (x.moved[r] < 0 => x.seen[r].res <= x.seen[r].on)
  BY <1>5 DEF Lined
<1>9. \A s \in Shelf : /\ Total(put, RowsOf(s)) = Back(lines)[s]
                       /\ Total(Taken(x), RowsOf(s)) = Asks(lines)[s]
  <2>1. \A r \in Row : put[r] \in Int /\ x.moved[r] \in Int
    BY <1>1
  <2> QED
    BY ONLY <1>2, <1>5, <2>1, LinedEnd
<1>10. \A r \in Row : give[r] = -put[r] /\ give[r] \in Nat /\ (give[r] > 0 => give[r] <= reserved[r])
  <2>1. ASSUME NEW r \in Row
        PROVE  give[r] = -put[r] /\ give[r] \in Nat /\ (give[r] > 0 => give[r] <= reserved[r])
    <3>1. put[r] \in Int /\ put[r] <= 0 /\ reserved[r] \in Int /\ reserved[r] + put[r] >= 0
      BY <1>1, <1>8
    <3>2. give[r] = -put[r]
      OBVIOUS
    <3> HIDE DEF give
    <3> QED
      BY ONLY <3>1, <3>2
  <2> QED
    BY <2>1
<1>11. \A s \in Shelf : Total(give, RowsOf(s)) = LineQty(lines, s)
  <2>1. ASSUME NEW s \in Shelf
        PROVE  Total(give, RowsOf(s)) = LineQty(lines, s)
    <3> DEFINE S == RowsOf(s)
               zero == [r \in Row |-> 0]
    <3>1. IsFiniteSet(S) /\ S \subseteq Row
      BY RowsFinite
    <3>2. \A r \in Row : zero[r] = 0 /\ give[r] \in Int /\ put[r] \in Int /\ zero[r] = put[r] + give[r]
      <4>1. \A r \in Row : zero[r] = 0
        OBVIOUS
      <4> HIDE DEF zero, give
      <4> QED
        BY <1>1, <1>10, <4>1
    <3> HIDE DEF S, zero, give
    <3>3. \A r \in S : zero[r] = 0 /\ give[r] \in Int /\ put[r] \in Int /\ zero[r] = put[r] + give[r]
      BY ONLY <3>1, <3>2
    <3>4. Total(zero, S) = Total(put, S) + Total(give, S) /\ Total(zero, S) = 0
      BY ONLY <3>1, <3>3, SumAdd, SumZero DEF Total
    <3>5. Total(put, S) \in Int /\ Total(give, S) \in Int
      BY ONLY <3>1, <3>3, SumInt DEF Total
    <3>6. Total(put, S) = -LineQty(lines, s) /\ LineQty(lines, s) \in Nat
      BY <1>6, <1>9, ShareSum DEF Back, S
    <3>7. Total(give, S) = LineQty(lines, s)
      BY ONLY <3>4, <3>5, <3>6
    <3> QED
      BY <3>7 DEF S
  <2> QED
    BY <2>1
<1>12. give \in Book!Spread(lines, reserved)
  <2>1. give = [r \in Row |-> give[r]]
    OBVIOUS
  <2> HIDE DEF give
  <2> QED
    BY ONLY <1>6, <1>10, <1>11, <2>1, SpreadFits
<1>13. reserved' = Book!Subtract(reserved, give)
  <2>1. ASSUME NEW r \in Row
        PROVE  reserved[r] + put[r] = reserved[r] - give[r]
    <3>1. give[r] = -put[r] /\ put[r] \in Int /\ reserved[r] \in Int
      BY <1>1, <1>10
    <3> HIDE DEF give
    <3> QED
      BY ONLY <3>1
  <2> HIDE DEF give
  <2> QED
    BY <1>1, <2>1 DEF Book!Subtract
<1>14. \A r \in Row : x.moved[r] < 0 => -x.moved[r] <= limit[r]
  <2>1. ASSUME NEW r \in Row, x.moved[r] < 0
        PROVE  -x.moved[r] <= limit[r]
    <3>1. /\ x.seen[r].on = onHand[r] + x.moved[r] /\ x.seen[r].res = reserved[r] + put[r]
          /\ x.seen[r].res <= x.seen[r].on
          /\ onHand[r] \in Int /\ reserved[r] \in Int /\ x.moved[r] \in Int /\ put[r] \in Int
      BY <1>1, <1>8, <2>1
    <3>2. limit[r] = (onHand[r] - reserved[r]) + give[r]
      BY DEF Book!Add, Book!Unreserved
    <3>3. give[r] = -put[r]
      BY <1>10
    <3> HIDE DEF limit, give
    <3> QED
      BY ONLY <3>1, <3>2, <3>3
  <2> QED
    BY <2>1
<1>15. \A s \in Shelf : Total(Taken(x), RowsOf(s)) = LineQty(lines, s)
  BY <1>9 DEF Asks
<1> HIDE DEF limit, give
<1>16. Taken(x) \in Book!Spread(lines, limit)
  <2>1. \A r \in Row : /\ x.moved[r] \in Int /\ x.moved[r] <= 0
                       /\ x.moved[r] < 0 => -x.moved[r] <= limit[r]
    BY <1>1, <1>8, <1>14
  <2> QED
    BY ONLY <1>6, <1>15, <2>1, SpreadTaken
<1>17. Book!Move([r \in Row |-> -Taken(x)[r]])
  BY <1>1, TakenMoves
<1>18. Book!Invoice(o)
  BY <1>5, <1>7, <1>12, <1>13, <1>16, <1>17, Zenon DEF Book!Invoice, limit
<1> QED
  BY <1>4, <1>18, Zenon DEF Book!Next

\* No other step shows.
LEMMA EveryStepKeepsBook ==
  ASSUME Inductive, PlanInv, [Next]_vars
  PROVE  [Book!Next]_(Book!vars)
<1>1. UNCHANGED database => UNCHANGED Book!vars
  BY DEF database, Book!vars
<1>2. ASSUME NEW w \in Worker, Commit(w)
      PROVE  Book!Next
  BY <1>2, TradeEnds, OrderEnds, DispatchEnds
<1>3. ASSUME NEW w \in Worker, Rollback(w)
      PROVE  UNCHANGED database
  BY <1>3 DEF Rollback
<1>4. ASSUME NEW w \in Worker, Request(w)
      PROVE  UNCHANGED database
  BY <1>4 DEF Request, StartSale, StartReceipt, StartAdjustment, StartTransfer, StartOrder,
              StartDispatch, Start
<1>5. ASSUME NEW w \in Worker, Scan(w) \/ Serve(w) \/ StaleOrder(w)
      PROVE  UNCHANGED database
  BY <1>3, <1>5 DEF Scan, Serve, Issue, Reserve, Release, Post, Refuse, StaleOrder
<1>6. ASSUME NEW w \in Worker, DeadlockVictim(w) \/ Abort(w) \/ \E r \in Row : LockRow(w, r)
      PROVE  UNCHANGED database
  BY <1>3, <1>6 DEF DeadlockVictim, Abort, LockRow
<1>7. CASE NextDay \/ UNCHANGED vars
  BY <1>7 DEF NextDay, vars, database, Book!vars
<1>8. CASE Next
  BY <1>1, <1>2, <1>4, <1>5, <1>6, <1>7, <1>8 DEF Next, Step
<1> QED
  BY <1>7, <1>8

\* For any number of workers, rows, shelves and orders: seen from outside, a
\* request takes effect at once or not at all, and takes exactly what its
\* lines say out of stock nobody has reserved.
THEOREM ImplementsStockBook == Spec => BookSpec
<1>1. Init => Book!Init
  BY DEF Init, Book!Init, NoOrder
<1>2. Inductive /\ PlanInv /\ [Next]_vars => [Book!Next]_(Book!vars)
  BY EveryStepKeepsBook
<1> QED
  BY <1>1, <1>2, PromisesKept, PTL DEF Spec, BookSpec, Book!Spec

-----------------------------------------------------------------------------
(* What is reserved on a shelf is what confirmed orders wait for.          *)

\* What order q, as rows has it, waits for on shelf s.
Due(rows, s) ==
  [q \in Order |-> IF rows[q].status = "confirmed" THEN LineQty(rows[q].lines, s) ELSE 0]

\* What an order waits for is a number.
LEMMA DueTyped ==
  ASSUME NEW rows \in [Order -> Orders], NEW s
  PROVE  \A q \in Order : Due(rows, s)[q] \in Int
<1> SUFFICES ASSUME NEW q \in Order
             PROVE  Due(rows, s)[q] \in Int
  OBVIOUS
<1>1. rows[q] \in Orders
  OBVIOUS
<1>2. rows[q].lines \in Seq(Line)
  BY <1>1 DEF Orders
<1>3. LineQty(rows[q].lines, s) \in Nat
  BY <1>2, ShareSum
<1> QED
  BY <1>3 DEF Due

\* An order that changes by itself changes what is due by its own share.
LEMMA DueChanges ==
  ASSUME NEW rows \in [Order -> Orders], NEW rows2 \in [Order -> Orders], NEW o \in Order,
         \A q \in Order : q # o => rows2[q] = rows[q], NEW s
  PROVE  Total(Due(rows2, s), Order) = Total(Due(rows, s), Order)
                                         + (Due(rows2, s)[o] - Due(rows, s)[o])
<1> DEFINE f == Due(rows, s)
           h == Due(rows2, s)
<1>1. \A q \in Order : f[q] \in Int /\ h[q] \in Int
  BY DueTyped
<1>2. \A q \in Order : q # o => h[q] = f[q]
  BY DEF Due
<1>3. IsFiniteSet(Order) /\ o \in Order
  BY InventoryAssumption
<1> HIDE DEF f, h
<1>4. Total(h, Order) = Total(f, Order) + (h[o] - f[o])
  BY ONLY <1>1, <1>2, <1>3, SumChange DEF Total
<1> QED
  BY <1>4 DEF f, h

\* The parts of a spread.
LEMMA SpreadSums ==
  ASSUME NEW lines, NEW limit, NEW take \in Book!Spread(lines, limit)
  PROVE  /\ \A s \in Shelf : Total(take, RowsOf(s)) = LineQty(lines, s)
         /\ Book!All(lines) \in Int => \A r \in Row : take[r] \in Int
<1>1. /\ take \in [Row -> 0..Book!All(lines)]
      /\ \A s \in Shelf : Book!Total(take, {r \in Row : ShelfOf[r] = s}) = Book!Asked(lines, s)
  BY DEF Book!Spread
<1>2. \A s \in Shelf : Total(take, RowsOf(s)) = LineQty(lines, s)
  BY <1>1, SameTotal DEF RowsOf, LineQty, Book!Asked
<1> QED
  BY <1>1, <1>2

\* The total of the lines is a number.
LEMMA AllTyped ==
  ASSUME NEW lines \in Seq(Line)
  PROVE  Book!All(lines) \in Nat
<1> DEFINE D == DOMAIN lines
           f == [i \in D |-> lines[i].qty]
<1>1. IsFiniteSet(D) /\ \A i \in D : f[i] \in Nat
  <2>1. D = 1..Len(lines) /\ 1 \in Int /\ Len(lines) \in Int /\ \A i \in D : lines[i].qty \in Nat
    BY LineFields
  <2> QED
    BY <2>1, FS_Interval
<1>2. Book!All(lines) = Total(f, D)
  BY SameTotal DEF Book!All
<1> HIDE DEF D, f
<1> QED
  BY <1>1, <1>2, SumNat DEF Total

\* A confirmed order sets aside what it waits for.
LEMMA ConfirmMatches ==
  ASSUME TypeOK, TypeOK', ReservationsMatchOrders, NEW o \in Order, NEW lines \in Basket,
         Book!Confirm(o, lines)
  PROVE  ReservationsMatchOrders'
<1>1. lines \in Seq(Line) /\ reserved \in [Row -> Int]
      /\ order \in [Order -> Orders] /\ order' \in [Order -> Orders]
  BY InventoryAssumption DEF TypeOK
<1>2. PICK take \in Book!Spread(lines, Book!Unreserved) : reserved' = Book!Add(reserved, take)
  BY Zenon DEF Book!Confirm
<1>3. /\ order[o].status = "none"
      /\ order' = [order EXCEPT ![o] = [status |-> "confirmed", lines |-> lines]]
  BY DEF Book!Confirm
<1>4. ASSUME NEW s \in Shelf
      PROVE  Total(reserved', RowsOf(s)) = Total(Due(order', s), Order)
  <2> DEFINE S == RowsOf(s)
             t == LineQty(lines, s)
  <2>1. Total(reserved, S) = Total(Due(order, s), Order)
    BY DEF ReservationsMatchOrders, Due
  <2>2. Total(take, S) = t /\ \A r \in Row : take[r] \in Int
    BY <1>1, <1>2, SpreadSums, AllTyped
  <2>3. IsFiniteSet(S) /\ S \subseteq Row
    BY RowsFinite
  <2>4. \A r \in Row : reserved'[r] = reserved[r] + take[r]
    BY <1>2 DEF Book!Add
  <2>5. Due(order, s)[o] = 0 /\ Due(order', s)[o] = t
    BY <1>1, <1>3 DEF Due
  <2>6. t \in Nat
    BY <1>1, ShareSum
  <2>7. \A q \in Order : q # o => order'[q] = order[q]
    BY <1>1, <1>3
  <2>8. Total(Due(order', s), Order)
          = Total(Due(order, s), Order) + (Due(order', s)[o] - Due(order, s)[o])
    BY ONLY <1>1, <2>7, DueChanges, o \in Order
  <2> HIDE DEF S, t
  <2>9. \A r \in S : reserved[r] \in Int /\ take[r] \in Int /\ reserved'[r] = reserved[r] + take[r]
    BY <1>1, <2>2, <2>3, <2>4
  <2>10. Total(reserved', S) = Total(reserved, S) + Total(take, S)
    BY ONLY <2>3, <2>9, SumAdd DEF Total
  <2>11. Total(reserved, S) \in Int
    BY ONLY <2>3, <2>9, SumInt DEF Total
  <2>12. Total(reserved', S) = Total(Due(order', s), Order)
    BY ONLY <2>1, <2>2, <2>5, <2>6, <2>8, <2>10, <2>11
  <2> QED
    BY <2>12 DEF S
<1> QED
  BY <1>4 DEF ReservationsMatchOrders, Due, RowsOf

\* An invoiced order gives back what it was waiting for.
LEMMA InvoiceMatches ==
  ASSUME TypeOK, TypeOK', ReservationsMatchOrders, NEW o \in Order, Book!Invoice(o)
  PROVE  ReservationsMatchOrders'
<1> DEFINE lines == order[o].lines
<1>1. lines \in Seq(Line) /\ reserved \in [Row -> Int]
      /\ order \in [Order -> Orders] /\ order' \in [Order -> Orders]
  BY DEF TypeOK, Orders
<1>2. PICK give \in Book!Spread(lines, reserved) : reserved' = Book!Subtract(reserved, give)
  BY Zenon DEF Book!Invoice
<1>3. order[o].status = "confirmed" /\ order' = [order EXCEPT ![o].status = "invoiced"]
  BY DEF Book!Invoice
<1>4. ASSUME NEW s \in Shelf
      PROVE  Total(reserved', RowsOf(s)) = Total(Due(order', s), Order)
  <2> DEFINE S == RowsOf(s)
             t == LineQty(lines, s)
  <2>1. Total(reserved, S) = Total(Due(order, s), Order)
    BY DEF ReservationsMatchOrders, Due
  <2>2. Total(give, S) = t /\ \A r \in Row : give[r] \in Int
    BY <1>1, <1>2, SpreadSums, AllTyped
  <2>3. IsFiniteSet(S) /\ S \subseteq Row
    BY RowsFinite
  <2>4. \A r \in Row : reserved'[r] = reserved[r] - give[r]
    BY <1>2 DEF Book!Subtract
  <2>5. Due(order, s)[o] = t /\ Due(order', s)[o] = 0
    <3>1. order'[o].status = "invoiced"
      BY <1>1, <1>3 DEF Orders
    <3> QED
      BY <1>3, <3>1 DEF Due
  <2>6. t \in Nat
    BY <1>1, ShareSum
  <2>7. \A q \in Order : q # o => order'[q] = order[q]
    BY <1>1, <1>3
  <2>8. Total(Due(order', s), Order)
          = Total(Due(order, s), Order) + (Due(order', s)[o] - Due(order, s)[o])
    BY ONLY <1>1, <2>7, DueChanges, o \in Order
  <2> HIDE DEF S, t
  <2>9. \A r \in S : reserved'[r] \in Int /\ give[r] \in Int /\ reserved[r] = reserved'[r] + give[r]
    BY <1>1, <2>2, <2>3, <2>4
  <2>10. Total(reserved, S) = Total(reserved', S) + Total(give, S)
    BY ONLY <2>3, <2>9, SumAdd DEF Total
  <2>11. Total(reserved', S) \in Int
    BY ONLY <2>3, <2>9, SumInt DEF Total
  <2>12. Total(reserved', S) = Total(Due(order', s), Order)
    BY ONLY <2>1, <2>2, <2>5, <2>6, <2>8, <2>10, <2>11
  <2> QED
    BY <2>12 DEF S
<1> QED
  BY <1>4 DEF ReservationsMatchOrders, Due, RowsOf

\* The book never lets reservations and orders part.
LEMMA BookMatches ==
  ASSUME TypeOK, TypeOK', ReservationsMatchOrders, [Book!Next]_(Book!vars)
  PROVE  ReservationsMatchOrders'
<1>1. CASE UNCHANGED <<reserved, order>>
  BY <1>1 DEF ReservationsMatchOrders
<1>2. CASE \E o \in Order, lines \in Basket : Book!Confirm(o, lines)
  BY <1>2, ConfirmMatches
<1>3. CASE \E o \in Order : Book!Invoice(o)
  BY <1>3, InvoiceMatches
<1>4. CASE Book!Next
  BY <1>1, <1>2, <1>3, <1>4, Zenon
  DEF Book!Next, Book!Sell, Book!Reduce, Book!AddLoose, Book!Receive, Book!Transfer
<1>5. CASE UNCHANGED Book!vars
  BY <1>1, <1>5 DEF Book!vars
<1> QED
  BY <1>4, <1>5

\* Nothing is reserved and nothing is due at the start.
LEMMA InitMatches ==
  ASSUME Init
  PROVE  ReservationsMatchOrders
<1> SUFFICES ASSUME NEW s \in Shelf
             PROVE  Total(reserved, RowsOf(s)) = Total(Due(order, s), Order)
  BY DEF ReservationsMatchOrders, Due
<1>1. \A r \in Row : reserved[r] = 0
  BY DEF Init
<1>2. Total(reserved, RowsOf(s)) = 0
  BY <1>1, NoneOfRows
<1> DEFINE f == Due(order, s)
<1>3. IsFiniteSet(Order) /\ \A q \in Order : f[q] = 0
  BY InventoryAssumption DEF Init, NoOrder, Due
<1> HIDE DEF f
<1>4. Total(f, Order) = 0
  BY ONLY <1>3, SumZero DEF Total
<1> QED
  BY <1>2, <1>4 DEF f

\* Whatever dispatches race or fail, and whatever is transferred meanwhile.
THEOREM ReservationsAreOrders == Spec => []ReservationsMatchOrders
<1>1. Init => ReservationsMatchOrders
  BY InitMatches
<1>2. Inductive /\ Inductive' /\ ReservationsMatchOrders /\ [Book!Next]_(Book!vars)
        => ReservationsMatchOrders'
  BY BookMatches DEF Inductive
<1>3. Inductive /\ PlanInv /\ ReservationsMatchOrders /\ [Next]_vars => ReservationsMatchOrders'
  BY <1>2, NextKeeps, EveryStepKeepsBook
<1> QED
  BY <1>1, <1>3, PromisesKept, PTL DEF Spec

-----------------------------------------------------------------------------
(* Every reservation is backed, as long as nothing is transferred.         *)

\* x leaves in each row it works on what is reserved there, and brings in goods
\* with every movement still to make.
Sound(x) ==
  /\ \A r \in Row : x.seen[r].res <= x.seen[r].on
  /\ \A i \in DOMAIN x.script : x.script[i].op = "post" => x.script[i].qty >= 0

BackedInv == ReservationsBacked /\ \A w \in Worker : Sound(work[w])

\* A step of w that commits nothing.
LEMMA OwnBacked ==
  ASSUME BackedInv, NEW w \in Worker, UNCHANGED <<reserved, onHand>>,
         \A v \in Worker \ {w} : work'[v] = work[v], Sound(work'[w])
  PROVE  BackedInv'
BY DEF BackedInv, ReservationsBacked, Sound

\* The script goes on.
LEMMA SoundTail ==
  ASSUME NEW x, NEW y, x.script \in Seq(Calls), x.script # <<>>, y.script = Tail(x.script),
         Sound(x), \A r \in Row : y.seen[r].res <= y.seen[r].on
  PROVE  Sound(y)
<1> DEFINE script == x.script
<1>1. Len(script) \in Nat /\ Len(script) # 0 /\ DOMAIN script = 1..Len(script)
  OBVIOUS
<1>2. \A i \in DOMAIN Tail(script) : 1 + i \in DOMAIN script /\ Tail(script)[i] = script[1 + i]
  <2>1. DOMAIN Tail(script) = 1..(Len(script) - 1)
    OBVIOUS
  <2>2. \A i \in 1..(Len(script) - 1) : Tail(script)[i] = script[1 + i]
    OBVIOUS
  <2> QED
    BY <1>1, <2>1, <2>2
<1> HIDE DEF script
<1> QED
  BY <1>2 DEF script, Sound

\* The return of a call.
LEMMA ReturnBacked ==
  ASSUME Inductive, BackedInv, NEW w \in Worker, Ready(w), NEW seen, NEW moved,
         Return(w, seen, moved), UNCHANGED <<reserved, onHand>>,
         \A r \in Row : seen[r].res <= seen[r].on
  PROVE  BackedInv'
<1> DEFINE x == work[w]
           y == [x EXCEPT !.pc = "call", !.script = Tail(@), !.todo = {}, !.got = {},
                          !.seen = seen, !.moved = moved]
<1>1. x \in Work /\ work \in [Worker -> Work]
  BY DEF Inductive, TypeOK
<1>2. work' = [work EXCEPT ![w] = y]
  BY <1>1 DEF Return, Work
<1>3. y.script = Tail(x.script) /\ y.seen = seen
  BY <1>1 DEF Work
<1>4. x.script \in Seq(Calls) /\ x.script # <<>>
  BY WorkFields DEF Inductive, IInv, InOrder, Ready
<1>5. Sound(x)
  BY DEF BackedInv
<1> HIDE DEF x, y
<1>6. \A r \in Row : y.seen[r].res <= y.seen[r].on
  BY <1>3
<1>7. Sound(y)
  BY ONLY <1>3, <1>4, <1>5, <1>6, SoundTail
<1>8. work'[w] = y /\ \A v \in Worker \ {w} : work'[v] = work[v]
  BY <1>1, <1>2
<1>9. Sound(work'[w])
  BY <1>7, <1>8
<1> QED
  BY <1>8, <1>9, OwnBacked

\* What a held row leaves unreserved, as w sees it.
LEMMA SeenFields ==
  ASSUME Inductive, BackedInv, NEW w \in Worker, NEW r \in Row
  PROVE  /\ work[w].seen[r] = [on |-> work[w].seen[r].on, res |-> work[w].seen[r].res]
         /\ work[w].seen[r].on \in Int /\ work[w].seen[r].res \in Int
         /\ work[w].seen[r].res <= work[w].seen[r].on
<1>1. work[w].seen[r] \in Seen
  BY WorkFields DEF Inductive
<1> QED
  BY <1>1 DEF Seen, BackedInv, Sound

\* Issuing and reserving take only what is not reserved.
LEMMA ServeBacked ==
  ASSUME Inductive, PlanInv, BackedInv, NEW w \in Worker,
         Issue(w) \/ Reserve(w) \/ Release(w)
  PROVE  BackedInv'
<1>1. Ready(w) /\ Now(w).op # "post" /\ UNCHANGED <<reserved, onHand>>
  BY DEF Issue, Reserve, Release, database
<1>2. Aimed(work[w])
  BY DEF PlanInv
<1>3. ASSUME NEW take \in Choices(w), NEW r \in Row
      PROVE  /\ take[r] \in Int /\ take[r] >= 0
             /\ take[r] > 0 /\ Now(w).op # "release" =>
                  take[r] <= work[w].seen[r].on - work[w].seen[r].res
  BY <1>1, <1>2, ChoiceFields, TakeSums
<1>7. ASSUME NEW r \in Row
      PROVE  /\ work[w].seen[r] \in Seen
             /\ work[w].seen[r].on \in Int /\ work[w].seen[r].res \in Int
             /\ work[w].seen[r].res <= work[w].seen[r].on
  BY WorkFields DEF Inductive, BackedInv, Sound
<1>4. CASE Issue(w)
  <2>1. PICK take \in Choices(w) :
          Return(w, [r \in Row |-> [work[w].seen[r] EXCEPT !.on = @ - take[r]]],
                    [r \in Row |-> work[w].moved[r] - take[r]])
    BY <1>4 DEF Issue
  <2> DEFINE seen == [r \in Row |-> [work[w].seen[r] EXCEPT !.on = @ - take[r]]]
             moved == [r \in Row |-> work[w].moved[r] - take[r]]
  <2>2. ASSUME NEW r \in Row
        PROVE  seen[r].res <= seen[r].on
    <3>1. seen[r].res = work[w].seen[r].res /\ seen[r].on = work[w].seen[r].on - take[r]
      BY <1>7 DEF Seen
    <3>2. Now(w).op # "release"
      BY <1>4 DEF Issue
    <3> HIDE DEF seen
    <3>3. /\ take[r] \in Int /\ take[r] >= 0
          /\ take[r] > 0 /\ Now(w).op # "release" =>
               take[r] <= work[w].seen[r].on - work[w].seen[r].res
          /\ work[w].seen[r].on \in Int /\ work[w].seen[r].res \in Int
          /\ work[w].seen[r].res <= work[w].seen[r].on
      BY <1>3, <1>7
    <3> QED
      BY ONLY <3>1, <3>2, <3>3
  <2> HIDE DEF seen, moved
  <2>3. Return(w, seen, moved)
    BY <2>1 DEF seen, moved
  <2> QED
    BY <1>1, <2>2, <2>3, ReturnBacked
<1>5. CASE Reserve(w)
  <2>1. PICK take \in Choices(w) :
          Return(w, [r \in Row |-> [work[w].seen[r] EXCEPT !.res = @ + take[r]]], work[w].moved)
    BY <1>5 DEF Reserve
  <2> DEFINE seen == [r \in Row |-> [work[w].seen[r] EXCEPT !.res = @ + take[r]]]
  <2>2. ASSUME NEW r \in Row
        PROVE  seen[r].res <= seen[r].on
    <3>1. seen[r].res = work[w].seen[r].res + take[r] /\ seen[r].on = work[w].seen[r].on
      BY <1>7 DEF Seen
    <3>2. Now(w).op # "release"
      BY <1>5 DEF Reserve
    <3> HIDE DEF seen
    <3>3. /\ take[r] \in Int /\ take[r] >= 0
          /\ take[r] > 0 /\ Now(w).op # "release" =>
               take[r] <= work[w].seen[r].on - work[w].seen[r].res
          /\ work[w].seen[r].on \in Int /\ work[w].seen[r].res \in Int
          /\ work[w].seen[r].res <= work[w].seen[r].on
      BY <1>3, <1>7
    <3> QED
      BY ONLY <3>1, <3>2, <3>3
  <2> HIDE DEF seen
  <2>3. Return(w, seen, work[w].moved)
    BY <2>1 DEF seen
  <2> QED
    BY <1>1, <2>2, <2>3, ReturnBacked
<1>6. CASE Release(w)
  <2>1. PICK take \in Choices(w) :
          Return(w, [r \in Row |-> [work[w].seen[r] EXCEPT !.res = @ - take[r]]], work[w].moved)
    BY <1>6 DEF Release
  <2> DEFINE seen == [r \in Row |-> [work[w].seen[r] EXCEPT !.res = @ - take[r]]]
  <2>2. ASSUME NEW r \in Row
        PROVE  seen[r].res <= seen[r].on
    <3>1. seen[r].res = work[w].seen[r].res - take[r] /\ seen[r].on = work[w].seen[r].on
      BY <1>7 DEF Seen
    <3> HIDE DEF seen
    <3>3. /\ take[r] \in Int /\ take[r] >= 0
          /\ take[r] > 0 /\ Now(w).op # "release" =>
               take[r] <= work[w].seen[r].on - work[w].seen[r].res
          /\ work[w].seen[r].on \in Int /\ work[w].seen[r].res \in Int
          /\ work[w].seen[r].res <= work[w].seen[r].on
      BY <1>3, <1>7
    <3> QED
      BY ONLY <3>1, <3>3
  <2> HIDE DEF seen
  <2>3. Return(w, seen, work[w].moved)
    BY <2>1 DEF seen
  <2> QED
    BY <1>1, <2>2, <2>3, ReturnBacked
<1> QED
  BY <1>4, <1>5, <1>6

\* A movement that brings goods uncovers no reservation.
LEMMA PostBacked ==
  ASSUME Inductive, BackedInv, NEW w \in Worker, Post(w)
  PROVE  BackedInv'
<1> DEFINE x == work[w]
           at == Now(w).at
           q == Now(w).qty
           seen == [x.seen EXCEPT ![at].on = @ + q]
           moved == [x.moved EXCEPT ![at] = @ + q]
<1>1. Ready(w) /\ Now(w).op = "post" /\ Return(w, seen, moved) /\ UNCHANGED <<reserved, onHand>>
  BY DEF Post, database
<1>2. q \in Int /\ q >= 0
  <2>1. x.script \in Seq(Calls) /\ x.script # <<>> /\ Sound(x)
    BY <1>1, WorkFields DEF Inductive, IInv, InOrder, Ready, BackedInv
  <2>2. 1 \in DOMAIN x.script /\ x.script[1] = Now(w)
    BY <2>1 DEF Now
  <2>3. q \in Int
    BY <1>1, CallFields DEF Ready
  <2> QED
    BY <1>1, <2>1, <2>2, <2>3 DEF Sound
<1>3. ASSUME NEW r \in Row
      PROVE  seen[r].res <= seen[r].on
  <2>1. x.seen \in [Row -> Seen]
    BY WorkFields DEF Inductive
  <2>2. /\ x.seen[r] = [on |-> x.seen[r].on, res |-> x.seen[r].res]
        /\ x.seen[r].on \in Int /\ x.seen[r].res \in Int /\ x.seen[r].res <= x.seen[r].on
    BY SeenFields
  <2>3. CASE r = at
    <3>1. seen[r].res = x.seen[r].res /\ seen[r].on = x.seen[r].on + q
      BY <2>1, <2>2, <2>3
    <3> HIDE DEF seen, q, x
    <3> QED
      BY <1>2, <2>2, <3>1
  <2>4. CASE r # at
    BY <2>1, <2>2, <2>4
  <2> QED
    BY <2>3, <2>4
<1> HIDE DEF seen, moved
<1> QED
  BY <1>1, <1>3, ReturnBacked

\* A locked row is read as it was committed.
LEMMA LockBacked ==
  ASSUME Inductive, BackedInv, NEW w \in Worker, NEW r \in Row, LockRow(w, r)
  PROVE  BackedInv'
<1>1. work[w] \in Work /\ work \in [Worker -> Work] /\ UNCHANGED <<reserved, onHand>>
  BY DEF Inductive, TypeOK, LockRow, database
<1>2. /\ \A v \in Worker \ {w} : work'[v] = work[v]
      /\ work'[w].script = work[w].script
      /\ work'[w].seen = [work[w].seen EXCEPT ![r] = Read(w, r)]
  BY <1>1 DEF LockRow, Work
<1>3. Read(w, r).res <= Read(w, r).on
  <2>1. work[w].seen[r].res <= work[w].seen[r].on /\ reserved[r] <= onHand[r]
    BY SeenFields DEF BackedInv, ReservationsBacked
  <2> QED
    BY <2>1 DEF Read
<1>4. work[w].seen \in [Row -> Seen] /\ Sound(work[w])
  BY WorkFields DEF Inductive, BackedInv
<1>5. Sound(work'[w])
  BY <1>2, <1>3, <1>4 DEF Sound
<1> QED
  BY <1>1, <1>2, <1>5, OwnBacked

\* A worker between requests has seen nothing.
LEMMA IdleSound ==
  Sound(Idle)
BY DEF Sound, Idle, Blank

\* A transaction that is forgotten uncovers nothing.
LEMMA RollbackBacked ==
  ASSUME Inductive, BackedInv, NEW w \in Worker, Rollback(w)
  PROVE  BackedInv'
<1>1. work'[w] = Idle /\ (\A v \in Worker \ {w} : work'[v] = work[v])
      /\ UNCHANGED <<reserved, onHand>>
  BY DEF Rollback, database, Inductive, TypeOK
<1>2. Sound(work'[w])
  BY <1>1, IdleSound
<1> QED
  BY <1>1, <1>2, OwnBacked

\* A commit publishes rows whose reservations are backed.
LEMMA CommitBacked ==
  ASSUME Inductive, BackedInv, NEW w \in Worker, Commit(w)
  PROVE  BackedInv'
<1>1. /\ onHand' = [r \in Row |-> IF lock[r] = w THEN work[w].seen[r].on ELSE onHand[r]]
      /\ reserved' = [r \in Row |-> IF lock[r] = w THEN work[w].seen[r].res ELSE reserved[r]]
      /\ work' = [work EXCEPT ![w] = Idle] /\ work \in [Worker -> Work]
  BY DEF Commit, Inductive, TypeOK
<1>2. ASSUME NEW r \in Row
      PROVE  0 <= reserved'[r] /\ reserved'[r] <= onHand'[r]
  <2>1. 0 <= reserved[r] /\ reserved[r] <= onHand[r]
    BY DEF BackedInv, ReservationsBacked
  <2>2. work[w].seen[r].res <= work[w].seen[r].on
    BY SeenFields
  <2>3. lock[r] = w => 0 <= work[w].seen[r].res
    <3>1. Knows(w, r) /\ work[w].seen[r].res \in Int
      BY WorkFields DEF Inductive, IInv
    <3> QED
      BY <3>1 DEF Knows
  <2> QED
    BY <1>1, <2>1, <2>2, <2>3
<1>3. ASSUME NEW v \in Worker
      PROVE  Sound(work'[v])
  <2>1. CASE v = w
    BY <1>1, <2>1, IdleSound
  <2>2. CASE v # w
    BY <1>1, <2>2 DEF BackedInv
  <2> QED
    BY <2>1, <2>2
<1> QED
  BY <1>2, <1>3 DEF BackedInv, ReservationsBacked, Sound

\* Nothing but a transfer takes stock without asking what is reserved.
LEMMA StartBacked ==
  ASSUME Inductive, BackedInv, NEW w \in Worker, NEW script, NEW o, NEW read,
         Start(w, script, o, read),
         \A i \in DOMAIN script : script[i].op = "post" => script[i].qty >= 0
  PROVE  BackedInv'
<1>1. /\ work' = [work EXCEPT ![w] = Fresh(script, o, read)] /\ work \in [Worker -> Work]
      /\ UNCHANGED <<reserved, onHand>>
  BY DEF Start, Fresh, database, Inductive, TypeOK
<1>2. Fresh(script, o, read).script = script /\ Fresh(script, o, read).seen = Blank
  BY FreshFields
<1>3. Sound(Fresh(script, o, read))
  BY <1>2 DEF Sound, Blank
<1>4. work'[w] = Fresh(script, o, read) /\ \A v \in Worker \ {w} : work'[v] = work[v]
  BY <1>1
<1>5. Sound(work'[w])
  BY <1>3, <1>4
<1> QED
  BY <1>1, <1>4, <1>5, OwnBacked

\* Every request but a transfer starts with movements that bring goods.
LEMMA RequestBacked ==
  ASSUME Inductive, BackedInv, NEW w \in Worker, Request(w), "transfer" \notin Kind
  PROVE  BackedInv'
<1>1. ASSUME NEW script, NEW o, NEW read, Start(w, script, o, read),
             \A i \in DOMAIN script : script[i].op = "post" => script[i].qty >= 0
      PROVE  BackedInv'
  BY ONLY Inductive, BackedInv, w \in Worker, <1>1, StartBacked
<1>2. \A lines, i : /\ i \in DOMAIN SaleScript(lines) => SaleScript(lines)[i].op # "post"
                    /\ i \in DOMAIN OrderScript(lines) => OrderScript(lines)[i].op # "post"
                    /\ i \in DOMAIN DispatchScript(lines) => DispatchScript(lines)[i].op # "post"
  BY DEF SaleScript, OrderScript, DispatchScript, Call
<1>3. CASE StartSale(w)
  <2>1. PICK lines \in Basket : Start(w, SaleScript(lines), NoOne, NoOrder)
    BY <1>3 DEF StartSale
  <2> QED
    BY ONLY <2>1, <1>1, <1>2
<1>4. CASE StartReceipt(w)
  <2>1. PICK lots \in Delivery : Start(w, ReceiptScript(lots), NoOne, NoOrder)
    BY <1>4 DEF StartReceipt
  <2>2. lots \in Seq(Lot)
    BY InventoryAssumption
  <2>3. \A i \in DOMAIN ReceiptScript(lots) : ReceiptScript(lots)[i].qty >= 0
    BY <2>2, LotFields DEF ReceiptScript, Call
  <2> QED
    BY ONLY <2>1, <2>3, <1>1
<1>5. CASE StartAdjustment(w)
  <2>1. CASE \E s \in Shelf, q \in 1..MaxOnHand :
               Start(w, ReduceScript([shelf |-> s, qty |-> q]), NoOne, NoOrder)
    <3>1. PICK s \in Shelf, q \in 1..MaxOnHand :
               Start(w, ReduceScript([shelf |-> s, qty |-> q]), NoOne, NoOrder)
      BY <2>1
    <3>2. \A i \in DOMAIN ReduceScript([shelf |-> s, qty |-> q]) :
            ReduceScript([shelf |-> s, qty |-> q])[i].op # "post"
      BY DEF ReduceScript, Call
    <3> QED
      BY ONLY <3>1, <3>2, <1>1
  <2>2. CASE \E r \in Loose, q \in 1..MaxOnHand : Start(w, AddScript(r, q), NoOne, NoOrder)
    <3>1. PICK r \in Loose, q \in 1..MaxOnHand : Start(w, AddScript(r, q), NoOne, NoOrder)
      BY <2>2
    <3>2. \A i \in DOMAIN AddScript(r, q) : AddScript(r, q)[i].qty >= 0
      BY InventoryAssumption DEF AddScript, Call
    <3> QED
      BY ONLY <3>1, <3>2, <1>1
  <2> QED
    BY <1>5, <2>1, <2>2 DEF StartAdjustment
<1>6. ~StartTransfer(w)
  BY DEF StartTransfer
<1>7. CASE \E o \in Order : StartOrder(w, o) \/ StartDispatch(w, o)
  <2>1. PICK lines, o, read : \/ Start(w, OrderScript(lines), o, read)
                              \/ Start(w, DispatchScript(lines), o, read)
    BY <1>7 DEF StartOrder, StartDispatch
  <2> QED
    BY ONLY <2>1, <1>1, <1>2
<1> QED
  BY <1>3, <1>4, <1>5, <1>6, <1>7 DEF Request

\* Every step keeps reservations backed while nothing is transferred.
LEMMA NextBacked ==
  ASSUME Inductive, PlanInv, BackedInv, [Next]_vars, "transfer" \notin Kind
  PROVE  BackedInv'
<1>1. ASSUME NEW w \in Worker, Rollback(w)
      PROVE  BackedInv'
  BY <1>1, RollbackBacked
<1>2. ASSUME NEW w \in Worker, Scan(w)
      PROVE  BackedInv'
  <2>1. work[w] \in Work /\ work \in [Worker -> Work] /\ UNCHANGED <<reserved, onHand>>
    BY <1>2 DEF Inductive, TypeOK, Scan, database
  <2>2. /\ \A v \in Worker \ {w} : work'[v] = work[v]
        /\ work'[w].script = work[w].script /\ work'[w].seen = work[w].seen
    BY <1>2, <2>1 DEF Scan, Work
  <2>3. Sound(work'[w])
    BY <2>2 DEF Sound, BackedInv
  <2> QED
    BY <2>1, <2>2, <2>3, OwnBacked
<1>3. ASSUME NEW w \in Worker, Step(w)
      PROVE  BackedInv'
  <2>1. CASE Serve(w)
    BY <1>1, <2>1, ServeBacked, PostBacked DEF Serve, Refuse
  <2> QED
    BY <1>1, <1>2, <1>3, <2>1, CommitBacked DEF Step, StaleOrder
<1>4. ASSUME NEW w \in Worker, DeadlockVictim(w) \/ Abort(w)
      PROVE  BackedInv'
  BY <1>1, <1>4 DEF DeadlockVictim, Abort
<1>5. CASE NextDay \/ UNCHANGED vars
  <2>1. UNCHANGED <<reserved, onHand, work>>
    BY <1>5 DEF NextDay, vars, database
  <2> QED
    BY <2>1 DEF BackedInv, ReservationsBacked, Sound
<1> QED
  BY <1>3, <1>4, <1>5, RequestBacked, LockBacked DEF Next

\* Nothing is reserved at the start.
LEMMA InitBacked ==
  ASSUME Init
  PROVE  BackedInv
BY InventoryAssumption, IdleSound DEF Init, BackedInv, ReservationsBacked

\* As long as nothing is transferred, what orders have set aside is set aside,
\* no more and no less, and is there.
THEOREM ReservationsAreStock ==
  ASSUME "transfer" \notin Kind
  PROVE  Spec => []ReservationsHold
<1>1. Init => BackedInv
  BY InitBacked
<1>2. Inductive /\ PlanInv /\ BackedInv /\ [Next]_vars => BackedInv'
  BY NextBacked
<1>3. BackedInv /\ ReservationsMatchOrders => ReservationsHold
  BY DEF BackedInv, ReservationsHold
<1> QED
  BY <1>1, <1>2, <1>3, PromisesKept, ReservationsAreOrders, PTL DEF Spec
=============================================================================
