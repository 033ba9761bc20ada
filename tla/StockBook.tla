----------------------------- MODULE StockBook ------------------------------
(***************************************************************************)
(* What the stock of a shop promises, without transactions: every request  *)
(* happens in one step, takes from or reserves unreserved stock only, and  *)
(* moves exactly the quantities of its lines.  Which rows give is left     *)
(* open.  Inventory implements this.                                       *)
(***************************************************************************)
EXTENDS Allocation, Sequences

CONSTANTS Shelf, Row, ShelfOf, Loose, Order, Basket, Delivery, MaxOnHand

VARIABLES onHand, reserved, ledger, order

stock == <<onHand, reserved, ledger>>
vars == <<onHand, reserved, ledger, order>>

Asked(lines, s) ==
  Total([i \in DOMAIN lines |-> lines[i].qty], {i \in DOMAIN lines : lines[i].shelf = s})

All(lines) == Total([i \in DOMAIN lines |-> lines[i].qty], DOMAIN lines)

\* The ways of spreading the lines over rows that each give at most limit[r].
Spread(lines, limit) ==
  {take \in [Row -> 0..All(lines)] :
     /\ \A r \in Row : take[r] > 0 => take[r] <= limit[r]
     /\ \A s \in Shelf : Total(take, {r \in Row : ShelfOf[r] = s}) = Asked(lines, s)}

Unreserved == [r \in Row |-> onHand[r] - reserved[r]]

Add(f, g) == [r \in Row |-> f[r] + g[r]]
Subtract(f, g) == [r \in Row |-> f[r] - g[r]]

Init ==
  /\ onHand \in [Row -> 0..MaxOnHand]
  /\ reserved = [r \in Row |-> 0]
  /\ ledger = onHand
  /\ order = [o \in Order |-> [status |-> "none", lines |-> <<>>]]

\* A movement and the balance change together.
Move(delta) ==
  /\ \A r \in Row : delta[r] < 0 => onHand[r] + delta[r] >= 0
  /\ onHand' = Add(onHand, delta)
  /\ ledger' = Add(ledger, delta)

\* A retail sale.
Sell(lines) ==
  /\ \E take \in Spread(lines, Unreserved) : Move([r \in Row |-> -take[r]])
  /\ UNCHANGED <<reserved, order>>

\* A correction takes away the way a sale does, or adds to an un-batched row.
Reduce(s, q) == Sell(<<[shelf |-> s, qty |-> q]>>)

AddLoose(r, q) ==
  /\ Move([x \in Row |-> IF x = r THEN q ELSE 0])
  /\ UNCHANGED <<reserved, order>>

Receive(lots) ==
  /\ Move([r \in Row |-> Total([i \in DOMAIN lots |-> lots[i].qty],
                               {i \in DOMAIN lots : lots[i].row = r})])
  /\ UNCHANGED <<reserved, order>>

Transfer(from, to, q) ==
  /\ Move([r \in Row |-> IF r = from THEN -q ELSE IF r = to THEN q ELSE 0])
  /\ UNCHANGED <<reserved, order>>

Confirm(o, lines) ==
  /\ order[o].status = "none"
  /\ order' = [order EXCEPT ![o] = [status |-> "confirmed", lines |-> lines]]
  /\ \E take \in Spread(lines, Unreserved) : reserved' = Add(reserved, take)
  /\ UNCHANGED <<onHand, ledger>>

\* Dispatch: give back as much reservation as the lines say, take as much
\* stock out of what is then unreserved.  An order is dispatched once.
Invoice(o) ==
  /\ order[o].status = "confirmed"
  /\ order' = [order EXCEPT ![o].status = "invoiced"]
  /\ \E give \in Spread(order[o].lines, reserved) :
       /\ reserved' = Subtract(reserved, give)
       /\ \E take \in Spread(order[o].lines, Add(Unreserved, give)) :
            Move([r \in Row |-> -take[r]])

Next ==
  \/ \E lines \in Basket : Sell(lines)
  \/ \E s \in Shelf, q \in 1..MaxOnHand : Reduce(s, q)
  \/ \E r \in Loose, q \in 1..MaxOnHand : AddLoose(r, q)
  \/ \E lots \in Delivery : Receive(lots)
  \/ \E from, to \in Loose, q \in 1..MaxOnHand : from # to /\ Transfer(from, to, q)
  \/ \E o \in Order :
       \/ \E lines \in Basket : Confirm(o, lines)
       \/ Invoice(o)

Spec == Init /\ [][Next]_vars
=============================================================================
