----------------------------- MODULE MCCounter ------------------------------
(***************************************************************************)
(* What a sale at the counter consists of: the screen of the till          *)
(* (MCPointOfSale), the loop that takes its goods from batches (Fefo) and  *)
(* the arithmetic of its amounts (Figures).  The three share no state; a   *)
(* behaviour is about one of them.                                         *)
(*                                                                         *)
(* FEFO over three batches, two dates and "no expiry", quantities up to 2: *)
(* enough for ties, for a batch taken in part, for an expired batch in     *)
(* front of a fresh one and for a requirement above what is on offer.      *)
(* Figures in thousandths of a unit, hundredths of a percent and of a      *)
(* paisa, around their boundaries.                                         *)
(***************************************************************************)
EXTENDS MCPointOfSale, Fefo, Figures

Slab(q, p) == [from |-> q, price |-> p]

\* Fractions of a unit and amounts that end in half a paisa, GST slabs of the seed
\* and the code's tests, discounts, prices None and zero, thresholds below, at and
\* above qty.
Prices ==
  [kind : {"price"}, qty : {500, 1333, 2000, 5000}, retail : {0, 16, 99}, mrp : {105},
   wholesale : {-1, 7}, from : {2000}, contract : {-1}, listed : {-1, 3},
   discount : {0, 1250, 5000, 10000},
   slabs : {{}, {Slab(2000, 13), Slab(5000, 9)}, {Slab(1333, 8), Slab(3000, 10)}},
   gst : {0, 500, 1800, 2800}, inclusive : BOOLEAN]

Splits == [kind : {"allocate"}, total : 0..12, weights : [1..3 -> {0, 1, 2, 5}]]

Line == [billed : {1000, 2500}, free : {0, 1000}, rate : {0, 1000, 3333}, trade : {0, 1550},
         cash : {0, 200}]

Receipts == [kind : {"landed"}, lines : [1..2 -> Line], overhead : {0, 1, 10}]

Displays == [kind : {"display"}, base : 0..25, factor : {10000, 12500, 40000}]

Calls == Prices \cup Splits \cup Receipts \cup Displays

VARIABLE
  matter   \* "screen", "loop" or "figures"

counterVars == <<allVars, loopVars, asked, answer, matter>>

\* What the parts hold that a behaviour is not about.
NoScreen ==
  /\ Init /\ price = CHOOSE p \in Price : TRUE
  /\ till = [t \in Till |-> Empty(NoKey)] /\ sale = [t \in Till |-> NoOne]
  /\ told = {} /\ sent = [t \in Till |-> {}]

NoLoop ==
  /\ call = "allocate" /\ asOf = 0 /\ expiry = [b \in Batch |-> NoExpiry]
  /\ offer = [b \in Batch |-> 0] /\ required = 1 /\ todo = {}
  /\ take = offer /\ remaining = 1 /\ pc = "refused"

NoFigures ==
  /\ asked = [kind |-> "display", base |-> 0, factor |-> FactorParts]
  /\ answer = <<0>>

CounterInit ==
  \/ matter = "screen" /\ PosInit /\ NoLoop /\ NoFigures
  \/ matter = "loop" /\ LoopInit /\ NoScreen /\ NoFigures
  \/ matter = "figures" /\ FiguresInit /\ NoScreen /\ NoLoop

CounterNext ==
  \/ matter = "screen" /\ PosNext /\ UNCHANGED <<loopVars, asked, answer, matter>>
  \/ matter = "loop" /\ LoopNext /\ UNCHANGED <<allVars, asked, answer, matter>>
  \/ matter = "figures" /\ Answer /\ UNCHANGED <<allVars, loopVars, matter>>
  \/ matter = "figures" /\ answer # <<>> /\ UNCHANGED counterVars

CounterSpec == CounterInit /\ [][CounterNext]_counterVars
=============================================================================
