----------------------------- MODULE Inventory ------------------------------
(***************************************************************************)
(* Stock under concurrent requests: the inventory service and the callers  *)
(* that move or reserve stock (sales/service.py, sales/wholesale_service.py*)
(* purchases/service.py, inventory/api.py), statement by statement.        *)
(*                                                                         *)
(* A worker serves one HTTP request in one PostgreSQL transaction at READ  *)
(* COMMITTED.  Each call it makes to the inventory service is a locking    *)
(* SELECT (Scan, then LockRow for one row after the other) followed by the *)
(* service's own code (Issue, Reserve, Release, Post, or Refuse when it    *)
(* raises).  What a transaction wrote stays private until Commit; Abort    *)
(* forgets it.  A shelf is one product in one warehouse; a row is one      *)
(* stock_balances row of a shelf, the un-batched one (batch_id NULL) among *)
(* them.  Each shelf has at most one un-batched row here.                  *)
(***************************************************************************)
EXTENDS Allocation, Sequences

CONSTANTS
  Worker,      \* request handlers
  Shelf, Row,
  ShelfOf,     \* the shelf of each row
  ExpiryOf,    \* the expiry date of each row's batch
  Loose,       \* the un-batched rows
  Order,       \* wholesale orders that may be placed
  Basket,      \* what a sale or an order may ask for: sequences of lines
  Delivery,    \* what a goods receipt may bring: sequences of row quantities
  Kind,        \* which requests are made
  MaxOnHand,   \* bound: opening stock of a row, largest correction or transfer
  MaxStock,    \* bound: goods come in only while the shop holds less than this
  LastDay,     \* the clock stops here
  NoOne        \* holder of a free lock

Line == [shelf : Shelf, qty : Nat \ {0}]
Lot == [row : Row, qty : Nat \ {0}]

\* What the lines ask of shelf s.
LineQty(lines, s) ==
  Total([i \in DOMAIN lines |-> lines[i].qty], {i \in DOMAIN lines : lines[i].shelf = s})

RowsOf(s) == {r \in Row : ShelfOf[r] = s}

ASSUME InventoryAssumption ==
  /\ IsFiniteSet(Row) /\ IsFiniteSet(Order)
  /\ NoOne \notin Worker /\ NoOne \notin Order
  /\ ShelfOf \in [Row -> Shelf]
  /\ ExpiryOf \in [Row -> Nat]
  /\ Loose \subseteq Row
  /\ Basket \subseteq Seq(Line)
  /\ Delivery \subseteq Seq(Lot)
  /\ MaxOnHand \in Nat
  /\ MaxStock \in Nat
  /\ LastDay \in Nat

VARIABLES
  day,         \* today's date
  exists,      \* rows of stock_balances that are committed
  onHand,      \* their on_hand (0 where there is no row)
  reserved,    \* their reserved
  ledger,      \* sum of the committed stock_movements of the row
  order,       \* committed wholesale orders
  lock,        \* the transaction that holds each row's lock
  work         \* the transaction of each worker

database == <<exists, onHand, reserved, ledger, order>>
vars == <<day, exists, onHand, reserved, ledger, order, lock, work>>

-----------------------------------------------------------------------------
(* Calls to the inventory service, and the scripts of the endpoints.       *)

Call(op, at, q) == [op |-> op, at |-> at, qty |-> q]

Calls == [op : {"issue", "reduce", "reserve", "release", "post"}, at : Shelf \cup Row, qty : Int]

\* A retail sale makes one issue_fefo per line.
SaleScript(lines) == [i \in DOMAIN lines |-> Call("issue", lines[i].shelf, lines[i].qty)]

\* A confirmed order reserves line by line.
OrderScript(lines) == [i \in DOMAIN lines |-> Call("reserve", lines[i].shelf, lines[i].qty)]

\* Dispatch releases and then issues, line by line.
DispatchScript(lines) ==
  [i \in 1..(2 * Len(lines)) |->
     LET line == lines[(i + 1) \div 2]
     IN  Call(IF i % 2 = 1 THEN "release" ELSE "issue", line.shelf, line.qty)]

ReceiptScript(lots) == [i \in DOMAIN lots |-> Call("post", lots[i].row, lots[i].qty)]

\* A correction: a reduction looks for batches the way a sale does, an
\* addition goes to the un-batched row.
ReduceScript(line) == <<Call("reduce", line.shelf, line.qty)>>
AddScript(r, q) == <<Call("post", r, q)>>

TransferScript(from, to, q) == <<Call("post", from, -q), Call("post", to, q)>>

-----------------------------------------------------------------------------
Status == {"none", "confirmed", "invoiced"}
Orders == [status : Status, lines : Seq(Line)]
NoOrder == [status |-> "none", lines |-> <<>>]

\* Slip: a dispatch leaves the order in a status nothing else knows.
AfterUnknown == [none |-> "confirmed", confirmed |-> "dispatched", invoiced |-> "dispatched"]

\* What committing a request makes of the status of its order.
After == [none |-> "confirmed", confirmed |-> "invoiced", invoiced |-> "invoiced"]

Seen == [on : Int, res : Int]
Blank == [r \in Row |-> [on |-> 0, res |-> 0]]
NoMoves == [r \in Row |-> 0]

Idle == [pc |-> "idle", script |-> <<>>, order |-> NoOne, read |-> NoOrder, asOf |-> 0,
         todo |-> {}, got |-> {}, seen |-> Blank, moved |-> NoMoves]

Work == [pc : {"idle", "call", "locking"},
         script : Seq(Calls),         \* the calls still to make
         order : Order \cup {NoOne},  \* the order being placed or dispatched
         read : Orders,               \* that order: as to be placed, or as read
         asOf : Nat,                  \* date.today() of the current call
         todo : SUBSET Row,           \* rows the statement has still to lock
         got : SUBSET Row,            \* rows it returns
         seen : [Row -> Seen],        \* the row as this transaction sees it
         moved : [Row -> Int]]        \* movements this transaction has inserted

TypeOK ==
  /\ day \in 0..LastDay
  /\ exists \subseteq Row
  /\ onHand \in [Row -> Int]
  /\ reserved \in [Row -> Int]
  /\ ledger \in [Row -> Int]
  /\ order \in [Order -> Orders]
  /\ lock \in [Row -> Worker \cup {NoOne}]
  /\ work \in [Worker -> Work]

\* Rows with opening stock exist; a batch that has not arrived has no row.
Init ==
  /\ day = 0
  /\ exists \in SUBSET Row
  /\ onHand \in [Row -> 0..MaxOnHand]
  /\ \A r \in Row : r \in exists <=> onHand[r] > 0
  /\ reserved = [r \in Row |-> 0]
  /\ ledger = onHand
  /\ order = [o \in Order |-> NoOrder]
  /\ lock = [r \in Row |-> NoOne]
  /\ work = [w \in Worker |-> Idle]

-----------------------------------------------------------------------------
(* Requests.                                                               *)

Start(w, script, o, read) ==
  /\ work[w].pc = "idle"
  /\ work' = [work EXCEPT ![w] =
       [Idle EXCEPT !.pc = "call", !.script = script, !.order = o, !.read = read]]
  /\ UNCHANGED <<day, database, lock>>

Room == Total(onHand, Row) < MaxStock

StartSale(w) ==
  /\ "sale" \in Kind
  /\ \E lines \in Basket : Start(w, SaleScript(lines), NoOne, NoOrder)

StartReceipt(w) ==
  /\ "receipt" \in Kind
  /\ Room
  /\ \E lots \in Delivery : Start(w, ReceiptScript(lots), NoOne, NoOrder)

StartAdjustment(w) ==
  /\ "adjust" \in Kind
  /\ \/ \E s \in Shelf, q \in 1..MaxOnHand :
          Start(w, ReduceScript([shelf |-> s, qty |-> q]), NoOne, NoOrder)
     \/ Room /\ \E r \in Loose, q \in 1..MaxOnHand : Start(w, AddScript(r, q), NoOne, NoOrder)

\* POST /transfers names no batch: it moves un-batched stock only.
StartTransfer(w) ==
  /\ "transfer" \in Kind
  /\ \E from, to \in Loose, q \in 1..MaxOnHand :
       /\ ShelfOf[from] # ShelfOf[to]
       /\ Start(w, TransferScript(from, to, q), NoOne, NoOrder)

\* A new order has an identity no other transaction uses.
StartOrder(w, o) ==
  /\ "order" \in Kind
  /\ order[o].status = "none"
  /\ \A v \in Worker : work[v].order # o
  /\ \E lines \in Basket :
       Start(w, OrderScript(lines), o, [status |-> "none", lines |-> lines])

\* dispatch_and_invoice reads the order without a lock.
StartDispatch(w, o) ==
  /\ "order" \in Kind
  /\ order[o].status = "confirmed"
  /\ Start(w, DispatchScript(order[o].lines), o, order[o])

-----------------------------------------------------------------------------
(* The locking SELECT.                                                     *)

Held(w) == {r \in Row : lock[r] = w}

\* A transaction sees committed rows and the ones it has inserted itself.
Visible(w) == exists \cup Held(w)

\* A row as w reads it: its own version if it holds the lock, else the
\* committed one.
Read(w, r) == IF lock[r] = w THEN work[w].seen[r]
              ELSE [on |-> onHand[r], res |-> reserved[r]]

\* The WHERE clause of the statement that serves a call.
Wanted(call, r, balance) ==
  CASE call.op \in {"issue", "reduce", "reserve"} -> ShelfOf[r] = call.at /\ balance.on > balance.res
    [] call.op = "release" -> ShelfOf[r] = call.at /\ balance.res > 0
    [] call.op = "post" -> r = call.at

\* The statement's snapshot: rows that become visible or come to satisfy the
\* WHERE clause later are not returned.
Scan(w) ==
  /\ work[w].pc = "call"
  /\ work[w].script # <<>>
  /\ work' = [work EXCEPT
       ![w].pc = "locking",
       ![w].asOf = day,
       ![w].todo = {r \in Visible(w) : Wanted(Head(work[w].script), r, Read(w, r))},
       ![w].got = {}]
  /\ UNCHANGED <<day, database, lock>>

\* Slip: the SELECT has no FOR UPDATE, so nobody waits for anybody.
LockRowUnlocked(w, r) ==
  /\ work[w].pc = "locking"
  /\ r \in work[w].todo
  /\ lock' = [lock EXCEPT ![r] = w]
  /\ work' = [work EXCEPT
       ![w].todo = @ \ {r},
       ![w].got = IF Wanted(Head(work[w].script), r, Read(w, r)) THEN @ \cup {r} ELSE @,
       ![w].seen[r] = Read(w, r)]
  /\ UNCHANGED <<day, database>>

\* FOR UPDATE: wait for the row, then test its latest version again.
LockRow(w, r) ==
  /\ work[w].pc = "locking"
  /\ r \in work[w].todo
  /\ lock[r] \in {NoOne, w}
  /\ lock' = [lock EXCEPT ![r] = w]
  /\ work' = [work EXCEPT
       ![w].todo = @ \ {r},
       ![w].got = IF Wanted(Head(work[w].script), r, Read(w, r)) THEN @ \cup {r} ELSE @,
       ![w].seen[r] = Read(w, r)]
  /\ UNCHANGED <<day, database>>

-----------------------------------------------------------------------------
(* The service's code, run on the rows the statement returned.             *)

Ready(w) == work[w].pc = "locking" /\ work[w].todo = {}
Now(w) == Head(work[w].script)

\* Slip: batch_availability reports on_hand, reserved or not.
OfferReservedToo(w) ==
  [r \in Row |-> IF r \notin work[w].got THEN 0
                 ELSE IF Now(w).op = "release" THEN work[w].seen[r].res
                 ELSE work[w].seen[r].on]

\* What each returned row offers to the call.
Offer(w) ==
  [r \in Row |-> IF r \notin work[w].got THEN 0
                 ELSE IF Now(w).op = "release" THEN work[w].seen[r].res
                 ELSE work[w].seen[r].on - work[w].seen[r].res]

\* The allocations the call may make; none when it has to raise.
Choices(w) ==
  IF Now(w).op = "release"
  THEN Takes(Offer(w), ExpiryOf, Holding(Offer(w)), Now(w).qty)
  ELSE Takes(Offer(w), ExpiryOf, Sellable(Offer(w), ExpiryOf, work[w].asOf), Now(w).qty)

\* The call returns; the script goes on.
Return(w, seen, moved) ==
  work' = [work EXCEPT ![w].pc = "call", ![w].script = Tail(@),
                       ![w].todo = {}, ![w].got = {}, ![w].seen = seen, ![w].moved = moved]

\* Slip: the balance is changed without a movement.
IssueUnrecorded(w) ==
  /\ Ready(w)
  /\ Now(w).op \in {"issue", "reduce"}
  /\ \E take \in Choices(w) :
       Return(w, [r \in Row |-> [work[w].seen[r] EXCEPT !.on = @ - take[r]]], work[w].moved)
  /\ UNCHANGED <<day, database, lock>>

\* issue_fefo, and adjust when it reduces: one movement per batch, each
\* applied to its balance row.
Issue(w) ==
  /\ Ready(w)
  /\ Now(w).op \in {"issue", "reduce"}
  /\ \E take \in Choices(w) :
       Return(w,
              [r \in Row |-> [work[w].seen[r] EXCEPT !.on = @ - take[r]]],
              [r \in Row |-> work[w].moved[r] - take[r]])
  /\ UNCHANGED <<day, database, lock>>

\* reserve: no movement, only the reserved column.
Reserve(w) ==
  /\ Ready(w)
  /\ Now(w).op = "reserve"
  /\ \E take \in Choices(w) :
       Return(w, [r \in Row |-> [work[w].seen[r] EXCEPT !.res = @ + take[r]]], work[w].moved)
  /\ UNCHANGED <<day, database, lock>>

\* release_reservation: any reservation of the shelf, earliest expiry first.
Release(w) ==
  /\ Ready(w)
  /\ Now(w).op = "release"
  /\ \E take \in Choices(w) :
       Return(w, [r \in Row |-> [work[w].seen[r] EXCEPT !.res = @ - take[r]]], work[w].moved)
  /\ UNCHANGED <<day, database, lock>>

\* Slip: an outbound movement is not compared with on_hand.
CanPostUnchecked(w) ==
  Now(w).at \in work[w].got \/ (Now(w).qty > 0 /\ Now(w).at \notin exists)

\* post_movement on one named row.  A missing row is inserted, which waits
\* for another transaction that is inserting it.  An outbound movement looks
\* at on_hand only.
CanPost(w) ==
  LET r == Now(w).at
      on == work[w].seen[r].on
  IN  IF r \in work[w].got
      THEN on + Now(w).qty >= 0
      ELSE Now(w).qty > 0 /\ r \notin exists

Post(w) ==
  /\ Ready(w)
  /\ Now(w).op = "post"
  /\ lock[Now(w).at] \in {NoOne, w}
  /\ CanPost(w)
  /\ lock' = [lock EXCEPT ![Now(w).at] = w]
  /\ Return(w,
            [work[w].seen EXCEPT ![Now(w).at].on = @ + Now(w).qty],
            [work[w].moved EXCEPT ![Now(w).at] = @ + Now(w).qty])
  /\ UNCHANGED <<day, database>>

\* The transaction ends without a trace.
Rollback(w) ==
  /\ lock' = [r \in Row |-> IF lock[r] = w THEN NoOne ELSE lock[r]]
  /\ work' = [work EXCEPT ![w] = Idle]
  /\ UNCHANGED <<day, database>>

\* Slip: a call that finds too little stock tries again, with its locks held.
RefuseRetries(w) ==
  /\ Ready(w)
  /\ IF Now(w).op = "post"
     THEN lock[Now(w).at] \in {NoOne, w} /\ ~CanPost(w)
     ELSE Choices(w) = {}
  /\ work' = [work EXCEPT ![w].pc = "call", ![w].got = {}]
  /\ UNCHANGED <<day, database, lock>>

\* insufficient_stock, over_release, or the unique key of the balance row.
Refuse(w) ==
  /\ Ready(w)
  /\ IF Now(w).op = "post"
     THEN lock[Now(w).at] \in {NoOne, w} /\ ~CanPost(w)
     ELSE Choices(w) = {}
  /\ Rollback(w)

-----------------------------------------------------------------------------
(* The end of the request.                                                 *)

\* Slip: the order has no version column.
CommitUnversioned(w) ==
  LET o == work[w].order
      mine == work[w].read
  IN  /\ work[w].pc = "call"
      /\ work[w].script = <<>>
      /\ exists' = exists \cup Held(w)
      /\ onHand' = [r \in Row |-> IF lock[r] = w THEN work[w].seen[r].on ELSE onHand[r]]
      /\ reserved' = [r \in Row |-> IF lock[r] = w THEN work[w].seen[r].res ELSE reserved[r]]
      /\ ledger' = [r \in Row |-> ledger[r] + work[w].moved[r]]
      /\ order' = IF o = NoOne THEN order
                  ELSE [order EXCEPT ![o] = [status |-> After[mine.status], lines |-> mine.lines]]
      /\ lock' = [r \in Row |-> IF lock[r] = w THEN NoOne ELSE lock[r]]
      /\ work' = [work EXCEPT ![w] = Idle]
      /\ UNCHANGED day

\* COMMIT publishes the rows the transaction holds, its movements and its
\* order.  The ORM's version check refuses the update of an order that has
\* changed since it was read.
Commit(w) ==
  LET o == work[w].order
      mine == work[w].read
  IN  /\ work[w].pc = "call"
      /\ work[w].script = <<>>
      /\ o # NoOne => order[o].status = mine.status
      /\ exists' = exists \cup Held(w)
      /\ onHand' = [r \in Row |-> IF lock[r] = w THEN work[w].seen[r].on ELSE onHand[r]]
      /\ reserved' = [r \in Row |-> IF lock[r] = w THEN work[w].seen[r].res ELSE reserved[r]]
      /\ ledger' = [r \in Row |-> ledger[r] + work[w].moved[r]]
      /\ order' = IF o = NoOne THEN order
                  ELSE [order EXCEPT ![o] = [status |-> After[mine.status], lines |-> mine.lines]]
      /\ lock' = [r \in Row |-> IF lock[r] = w THEN NoOne ELSE lock[r]]
      /\ work' = [work EXCEPT ![w] = Idle]
      /\ UNCHANGED day

\* StaleDataError: somebody else dispatched the order meanwhile.
StaleOrder(w) ==
  /\ work[w].pc = "call"
  /\ work[w].script = <<>>
  /\ work[w].order # NoOne
  /\ order[work[w].order].status # work[w].read.status
  /\ Rollback(w)

\* A lost connection, a crash of the process or any other exception.
Abort(w) == work[w].pc # "idle" /\ Rollback(w)

\* Rows w waits for: the ones its statement may lock next, or the row another
\* transaction is inserting.
Waiting(w) ==
  IF work[w].pc # "locking" THEN {}
  ELSE IF work[w].todo # {} THEN work[w].todo
  ELSE IF Now(w).op = "post" THEN {Now(w).at} ELSE {}

\* PostgreSQL ends a circle of waiting transactions by failing one of them.
Deadlocked ==
  {w \in Worker : \E S \in SUBSET Worker :
     /\ w \in S
     /\ \A v \in S : Waiting(v) # {} /\ \A r \in Waiting(v) : lock[r] \in S \ {v}}

DeadlockVictim(w) == w \in Deadlocked /\ Rollback(w)

NextDay ==
  /\ day < LastDay
  /\ day' = day + 1
  /\ UNCHANGED <<database, lock, work>>

Serve(w) == Issue(w) \/ Reserve(w) \/ Release(w) \/ Post(w) \/ Refuse(w)

\* What a request does once it has started.
Step(w) ==
  \/ Scan(w)
  \/ Serve(w)
  \/ Commit(w)
  \/ StaleOrder(w)

Request(w) ==
  \/ StartSale(w)
  \/ StartReceipt(w)
  \/ StartAdjustment(w)
  \/ StartTransfer(w)
  \/ \E o \in Order : StartOrder(w, o) \/ StartDispatch(w, o)

Next ==
  \/ \E w \in Worker :
       \/ Request(w)
       \/ Step(w)
       \/ \E r \in Row : LockRow(w, r)
       \/ DeadlockVictim(w)
       \/ Abort(w)
  \/ NextDay

Spec == Init /\ [][Next]_vars

\* A started request keeps running: PostgreSQL queues the waiters of a row, so
\* a waiter that finds it free again and again gets it, and its deadlock
\* detector always runs.  Clients, the clock and failures owe nothing.
Run(w) == Step(w) \/ \E r \in Row : LockRow(w, r)

Fairness == \A w \in Worker : SF_vars(Run(w)) /\ WF_vars(DeadlockVictim(w))

FairSpec == Spec /\ Fairness

-----------------------------------------------------------------------------
(* Properties.                                                             *)

\* ADR 0002: on-hand balances can be rebuilt from the movements.  Balances
\* are written as absolute values computed from a row read earlier, so this
\* fails as soon as two transactions work from the same version of a row.
BalanceIsLedger == \A r \in Row : onHand[r] = ledger[r]

\* No interleaving sells a unit twice: "two simultaneous sales cannot
\* oversell stock" (test_concurrency.py).
NeverOversold == \A r \in Row : onHand[r] >= 0

\* A transaction that has locked a row works on the committed row plus its
\* own movements, so the version check on stock_balances never fires and a
\* stock request is never turned away with a conflict.
LockedRowsAreFresh ==
  \A w \in Worker : \A r \in Held(w) : work[w].seen[r].on = onHand[r] + work[w].moved[r]

\* What is committed adds up, and a row that does not exist holds nothing.
Committed ==
  \A r \in Row :
    /\ onHand[r] = ledger[r]
    /\ onHand[r] >= 0 /\ reserved[r] >= 0
    /\ r \notin exists => onHand[r] = 0 /\ reserved[r] = 0

\* w knows a row it holds at its latest version, and no other row.
Knows(w, r) ==
  IF lock[r] = w
  THEN /\ work[w].seen[r].on = onHand[r] + work[w].moved[r]
       /\ work[w].seen[r].on >= 0 /\ work[w].seen[r].res >= 0
  ELSE /\ work[w].seen[r] = [on |-> 0, res |-> 0]
       /\ work[w].moved[r] = 0

\* A statement has a call to serve and returns only rows it has locked; a
\* worker that serves no request holds no lock.
InOrder(w) ==
  /\ work[w].pc = "locking" => work[w].script # <<>>
  /\ work[w].pc = "idle" => Held(w) = {}
  /\ work[w].got \subseteq Held(w)

\* The inductive invariant behind the three properties above: a transaction
\* differs from the committed state only in rows it holds, what it holds it
\* has read at its latest version, and no quantity in sight is negative.
IInv ==
  /\ Committed
  /\ \A w \in Worker : InOrder(w) /\ \A r \in Row : Knows(w, r)

\* Reservations are anonymous: a release takes any reservation of the shelf.
\* Still, what is reserved on a shelf is exactly what the confirmed orders
\* are waiting for, whatever dispatches race or fail.
ReservationsMatchOrders ==
  \A s \in Shelf :
    Total(reserved, RowsOf(s))
      = Total([o \in Order |-> IF order[o].status = "confirmed"
                               THEN LineQty(order[o].lines, s) ELSE 0], Order)

\* Every reservation is backed by stock in the same row ("it makes it
\* unavailable to other orders", reserve).  Holds as long as nothing is
\* transferred: post_movement looks at on_hand only.
ReservationsBacked == \A r \in Row : 0 <= reserved[r] /\ reserved[r] <= onHand[r]

\* What orders have set aside is set aside, no more and no less, and is there.
ReservationsHold == ReservationsMatchOrders /\ ReservationsBacked

Quiet == \A w \in Worker : work[w].pc = "idle"
Free == [r \in Row |-> onHand[r] - reserved[r]]

\* Whether a dispatch of q on shelf s, alone in the system, would go through.
CanShip(s, q) ==
  LET held == [r \in Row |-> IF ShelfOf[r] = s THEN reserved[r] ELSE 0]
  IN  \E give \in Takes(held, ExpiryOf, Holding(held), q) :
        LET offer == [r \in Row |-> IF ShelfOf[r] = s THEN Free[r] + give[r] ELSE 0]
        IN  Takes(offer, ExpiryOf, Sellable(offer, ExpiryOf, day), q) # {}

\* A confirmed one-line order for which enough unexpired stock is set aside
\* on its shelf can be dispatched ("Dispatch releases the reservation,
\* deducts stock via FEFO", wholesale_service.py).  Holds while nothing
\* expires; an expired reservation is released first and frees nothing.
ReservedStockShips ==
  Quiet => \A o \in Order :
    LET line == order[o].lines[1]
        fresh == {r \in RowsOf(line.shelf) : ExpiryOf[r] > day}
    IN  order[o].status = "confirmed" /\ Len(order[o].lines) = 1 =>
          (Total(reserved, fresh) >= line.qty => CanShip(line.shelf, line.qty))

\* reserve "raises when available (on_hand - reserved) cannot cover the
\* request".  It may raise when it could: its statement keeps to the rows of its
\* snapshot, and a dispatch that frees one batch while it empties another one
\* leaves as much stock available as before, in rows the snapshot lacks.
RefusedOnlyWhenShort ==
  \A w \in Worker :
    Ready(w) /\ Now(w).op = "reserve" /\ Choices(w) = {} =>
      LET offer == [r \in Row |-> IF ShelfOf[r] = Now(w).at /\ lock[r] \in {NoOne, w}
                                  THEN Read(w, r).on - Read(w, r).res ELSE 0]
      IN  Total(offer, Sellable(offer, ExpiryOf, work[w].asOf)) < Now(w).qty

\* Every request that starts ends: no set of requests waits for each other
\* for ever, and none is overtaken for ever.
EveryRequestEnds == \A w \in Worker : (work[w].pc # "idle") ~> (work[w].pc = "idle")

\* Seen from outside, a request takes effect at once or not at all, and takes
\* exactly what its lines say out of stock nobody has reserved.
Book == INSTANCE StockBook
BookSpec == Book!Spec
=============================================================================
