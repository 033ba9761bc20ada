----------------------------- MODULE Allocation -----------------------------
(***************************************************************************)
(* What a first-expiry-first-out allocation is, said without a loop.       *)
(*                                                                         *)
(* An offer gives each batch the quantity that may be taken from it.  An   *)
(* expiry date is a natural number; a batch that never expires (expiry     *)
(* None in the code) carries a date later than every other one, which is   *)
(* how _sort_key of fefo.py orders it.                                     *)
(***************************************************************************)
EXTENDS Integers, FiniteSets, Functions

Total(f, S) == SumFunctionOnSet(f, S)

Least(a, b) == IF a <= b THEN a ELSE b

\* Slip: the day of expiry still counts as sellable.
SellableOnExpiryDay(offer, expiry, asOf) ==
  {b \in DOMAIN offer : offer[b] > 0 /\ expiry[b] >= asOf}

\* The batches a sale may draw on: something to give, and not expired on asOf.
Sellable(offer, expiry, asOf) ==
  {b \in DOMAIN offer : offer[b] > 0 /\ expiry[b] > asOf}

\* The batches a release may draw on: every one that holds a reservation.
Holding(offer) == {b \in DOMAIN offer : offer[b] > 0}

\* Nothing is taken from c while an earlier-expiring batch still has some left.
InExpiryOrder(take, offer, expiry, from) ==
  \A b, c \in from : expiry[b] < expiry[c] /\ take[c] > 0 => take[b] = offer[b]

\* Batches with the same date are emptied one after the other, in an order
\* the code leaves to the database: at most one of them is taken in part.
TiesInTurn(take, offer, expiry, from) ==
  \A b, c \in from :
    b # c /\ expiry[b] = expiry[c] =>
      take[b] \in {0, offer[b]} \/ take[c] \in {0, offer[c]}

\* Slip: min(available, remaining) is missing, a batch gives what it lacks.
TakesUnlimited(offer, expiry, from, required) ==
  {take \in [DOMAIN offer -> 0..required] :
     /\ \A b \in DOMAIN offer : take[b] > 0 => b \in from
     /\ Total(take, from) = required}

\* The allocations of required out of the batches in from, earliest first.
\* There is none when these batches cannot cover it.
Takes(offer, expiry, from, required) ==
  {take \in [DOMAIN offer -> 0..required] :
     /\ \A b \in DOMAIN offer : take[b] <= (IF b \in from THEN offer[b] ELSE 0)
     /\ Total(take, from) = required
     /\ InExpiryOrder(take, offer, expiry, from)
     /\ TiesInTurn(take, offer, expiry, from)}
=============================================================================
