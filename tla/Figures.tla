------------------------------- MODULE Figures -------------------------------
(***************************************************************************)
(* The arithmetic of money and quantities: rounding, discounts, tax and    *)
(* the split of a total (common/money/decimal.py), the price of a line     *)
(* (pricing/engine.py), landed cost (purchases/landed_cost.py) and units   *)
(* (common/units/conversion.py).                                           *)
(*                                                                         *)
(* Amounts and prices are whole paise, as the columns keep them; a         *)
(* quantity, a percentage and a purchase rate are Decimals, given here in  *)
(* parts of a unit, of a percent and of a paisa.  Each calculation is an   *)
(* operator; the state machine computes one of a set of calls, so that     *)
(* what they promise is checked over bounded inputs.                       *)
(***************************************************************************)
EXTENDS Integers, Sequences, FiniteSets, Functions

CONSTANTS
  Call,     \* the calls that are computed
  Unit,     \* parts of a unit in a quantity
  Percent,  \* parts of a percent in a percentage
  Paisa     \* parts of a paisa in a purchase rate

\* A hundred percent.
Full == 100 * Percent

\* What the callers let through: quantities above zero, percentages of a discount
\* up to 100, nothing negative (the schemas of the API, and the checks of the
\* functions themselves); a price or threshold of -1 is None.
PriceCalls ==
  [kind : {"price"}, qty : Nat \ {0}, retail : Nat, mrp : Nat, wholesale : Nat \cup {-1},
   from : Nat \cup {-1}, contract : Nat \cup {-1}, listed : Nat \cup {-1}, discount : 0 .. Full,
   slabs : SUBSET [from : Nat, price : Nat], gst : Nat, inclusive : BOOLEAN]

AllocateCalls == [kind : {"allocate"}, total : Nat, weights : Seq(Nat) \ {<<>>}]

ReceivedLines ==
  [billed : Nat \ {0}, free : Nat, rate : Nat, trade : 0 .. Full, cash : 0 .. Full]

\* Freight, loading and other charges in one sum.
LandedCalls == [kind : {"landed"}, lines : Seq(ReceivedLines) \ {<<>>}, overhead : Nat]

\* Factors have four decimals.
FactorParts == 10000

DisplayCalls == [kind : {"display"}, base : Nat, factor : Nat \ {0}]

ASSUME FiguresAssumption ==
  /\ Unit \in Nat \ {0} /\ Percent \in Nat \ {0} /\ Paisa \in Nat \ {0}
  /\ \A c \in Call :
       \/ c \in PriceCalls /\ IsFiniteSet(c.slabs)
       \/ c \in AllocateCalls
       \/ c \in LandedCalls
       \/ c \in DisplayCalls

VARIABLES
  asked,   \* the arguments of the call
  answer   \* <<what it returned>>, <<>> before

\* quantize(.., ROUND_HALF_UP) of n / d.
Round(n, d) == (2 * n + d) \div (2 * d)

\* quantize(..) with the decimal module's default, ROUND_HALF_EVEN.
RoundHalfEven(n, d) ==
  LET q == n \div d  r == n % d IN
  IF 2 * r > d \/ (2 * r = d /\ q % 2 = 1) THEN q + 1 ELSE q

AfterDiscount(amount, percent) == Round(amount * (Full - percent), Full)
TaxOnExclusive(amount, gst) == Round(amount * gst, Full)

\* Slip: both parts are rounded on their own.
SplitRoundedApart(gross, gst) ==
  <<Round(gross * Full, Full + gst), Round(gross * gst, Full + gst)>>

\* split_tax_from_inclusive: the tax is what the net leaves.
SplitInclusive(gross, gst) ==
  LET net == Round(gross * Full, Full + gst) IN <<net, gross - net>>

-----------------------------------------------------------------------------
(* allocate: shares by weight, the largest remainders rounded up.  Equal   *)
(* remainders are served in list order.                                    *)

\* The indices before i in sorted(.., key = remainder, reverse = True).
Ahead(rem, i) == {j \in DOMAIN rem : rem[j] > rem[i] \/ (rem[j] = rem[i] /\ j < i)}

\* Slip: the pennies go to the first lines.
AllocateInOrder(total, weights) ==
  LET sum == SumFunction(weights)
      floor == [i \in DOMAIN weights |-> (total * weights[i]) \div sum]
  IN IF sum = 0 THEN [i \in DOMAIN weights |-> IF i = 1 THEN total ELSE 0]
     ELSE [i \in DOMAIN weights |-> floor[i] + IF i <= total - SumFunction(floor) THEN 1 ELSE 0]

Allocate(total, weights) ==
  LET sum == SumFunction(weights)
      floor == [i \in DOMAIN weights |-> (total * weights[i]) \div sum]
      rem == [i \in DOMAIN weights |-> (total * weights[i]) % sum]
      pennies == total - SumFunction(floor)
  IN IF sum = 0 THEN [i \in DOMAIN weights |-> IF i = 1 THEN total ELSE 0]
     ELSE [i \in DOMAIN weights |-> floor[i] + IF Cardinality(Ahead(rem, i)) < pennies THEN 1 ELSE 0]

\* compute_landed_cost: overheads are spread by net value, and the cost of a
\* unit (in hundredths of a paisa) by all units, the free ones included.
NetValue(line) ==
  AfterDiscount(AfterDiscount(Round(line.rate * line.billed, Paisa * Unit), line.trade), line.cash)

\* Hundredths of a paisa for each of so many parts of a unit.
UnitCost(landed, units) == RoundHalfEven(100 * Unit * landed, units)

\* Slip: free units carry no cost.
LandedPerBilledUnit(lines, overhead) ==
  LET net == [i \in DOMAIN lines |-> NetValue(lines[i])]
      share == Allocate(overhead, net)
  IN [i \in DOMAIN lines |->
       [landed |-> net[i] + share[i],
        unit |-> UnitCost(net[i] + share[i], lines[i].billed)]]

LandedCost(lines, overhead) ==
  LET net == [i \in DOMAIN lines |-> NetValue(lines[i])]
      share == Allocate(overhead, net)
  IN [i \in DOMAIN lines |->
       [landed |-> net[i] + share[i],
        unit |-> UnitCost(net[i] + share[i], lines[i].billed + lines[i].free)]]

-----------------------------------------------------------------------------
(* price_line.  A price of -1 stands for None.                             *)

\* Slip: the cheapest reached slab.
CheapestSlab(slabs, qty) ==
  LET reached == {s \in slabs : qty >= s.from} IN
  CHOOSE s \in reached : \A t \in reached : s.price <= t.price

\* The slab with the highest threshold that qty reaches.
BestSlab(slabs, qty) ==
  LET reached == {s \in slabs : qty >= s.from} IN
  CHOOSE s \in reached : \A t \in reached : s.from >= t.from

UnitPrice(c) ==
  CASE c.contract >= 0 -> c.contract
    [] c.contract < 0 /\ c.listed >= 0 -> c.listed
    [] c.contract < 0 /\ c.listed < 0 /\ \E s \in c.slabs : c.qty >= s.from ->
         BestSlab(c.slabs, c.qty).price
    [] OTHER ->
         IF c.wholesale >= 0 /\ c.from >= 0 /\ c.qty >= c.from THEN c.wholesale
         ELSE IF c.retail > 0 THEN c.retail ELSE c.mrp

PriceLine(c) ==
  LET gross == Round(UnitPrice(c) * c.qty, Unit)
      after == AfterDiscount(gross, c.discount)
      split == IF c.inclusive THEN SplitInclusive(after, c.gst)
               ELSE <<after, TaxOnExclusive(after, c.gst)>>
  IN [gross |-> gross, discount |-> gross - after, net |-> split[1], tax |-> split[2],
      total |-> split[1] + split[2]]

\* Base units in a quantity, in parts of the product of both scales: nothing is rounded.
ToBase(quantity, factor) == quantity * factor

\* Slip: rounded like money.
ToDisplayRounded(base, factor) == Round(base * FactorParts, factor)

\* to_display_quantity rounds down.
ToDisplay(base, factor) == (base * FactorParts) \div factor

-----------------------------------------------------------------------------
Compute(c) ==
  CASE c.kind = "price" -> PriceLine(c)
    [] c.kind = "allocate" -> Allocate(c.total, c.weights)
    [] c.kind = "landed" -> LandedCost(c.lines, c.overhead)
    [] c.kind = "display" -> ToDisplay(c.base, c.factor)

FiguresInit == asked \in Call /\ answer = <<>>

Answer ==
  /\ answer = <<>>
  /\ answer' = <<Compute(asked)>>
  /\ UNCHANGED asked

FiguresSpec == FiguresInit /\ [][Answer]_<<asked, answer>>

-----------------------------------------------------------------------------
(* Properties.                                                             *)

Answered(kind) == asked.kind = kind /\ answer # <<>>

Distance(m, n) == IF m >= n THEN m - n ELSE n - m

\* Of all the ways to round shares down or up that lose nothing, the split is
\* one that favours the largest remainders (decimal.py:72-74, "The returned
\* shares always sum exactly to total").
SharesAddUp ==
  Answered("allocate") =>
    LET share == answer[1]
        sum == SumFunction(asked.weights)
        over(i) == sum * share[i] - asked.total * asked.weights[i]
    IN /\ SumFunction(share) = asked.total
       /\ sum > 0 => \A i, j \in DOMAIN share :
            /\ Distance(sum * share[i], asked.total * asked.weights[i]) < sum
            /\ over(i) > 0 /\ over(j) < 0 => over(i) - over(j) <= sum

\* Goods and overheads all end in the landed cost of some line, and what the
\* stock is valued at by unit is off by rounding alone (landed_cost.py:82-90).
LandedCostCoversAll ==
  Answered("landed") =>
    LET lines == asked.lines IN
    /\ SumFunction([i \in DOMAIN lines |-> answer[1][i].landed])
         = SumFunction([i \in DOMAIN lines |-> NetValue(lines[i])]) + asked.overhead
    /\ \A i \in DOMAIN lines :
         2 * Distance(answer[1][i].unit * (lines[i].billed + lines[i].free),
                      100 * Unit * answer[1][i].landed) <= lines[i].billed + lines[i].free

\* A line is price times quantity less discount: each of the three roundings is
\* off by half a paisa at most, they leave no paisa between the parts, and a
\* tax-inclusive price is charged as printed (decimal.py:59-60).
PriceAddsUp ==
  Answered("price") =>
    LET r == answer[1] IN
    /\ 2 * Distance(Unit * r.gross, UnitPrice(asked) * asked.qty) <= Unit
    /\ r.discount \in 0..r.gross
    /\ 2 * Distance(Full * r.discount, r.gross * asked.discount) <= Full
    /\ 2 * Full * r.tax - 2 * r.net * asked.gst \in -(Full + asked.gst)..(Full + asked.gst)
    /\ r.gross - r.discount = IF asked.inclusive THEN r.total ELSE r.net
    /\ r.total = r.net + r.tax

\* Buying more, within one slab or into a deeper one, takes the price of the
\* deepest threshold that is reached, of one of them if there are several
\* (engine.py:80).
DeepestSlabPrices ==
  Answered("price") /\ asked.contract < 0 /\ asked.listed < 0 =>
    LET reached == {s \in asked.slabs : asked.qty >= s.from} IN
    reached # {} => \E s \in reached : /\ \A t \in reached : t.from <= s.from
                                       /\ answer[1].gross = Round(s.price * asked.qty, Unit)

\* What is shown can be sold (conversion.py:49, "never overstates real stock"),
\* and no whole unit is hidden.
DisplayedStockIsThere ==
  Answered("display") =>
    /\ ToBase(answer[1], asked.factor) <= FactorParts * asked.base
    /\ ToBase(answer[1] + 1, asked.factor) > FactorParts * asked.base

\* No paisa of a total is lost or made when it is split over lines
\* (decimal.py:72-74, landed_cost.py:82-90).
SplitsLoseNothing == SharesAddUp /\ LandedCostCoversAll

\* What the counter shows is right: the price of a line, and the stock in the
\* unit it is sold in (engine.py:107-150, conversion.py:41-54).
CounterFiguresRight == PriceAddsUp /\ DeepestSlabPrices /\ DisplayedStockIsThere
=============================================================================
