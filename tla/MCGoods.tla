------------------------------- MODULE MCGoods -------------------------------
(***************************************************************************)
(* Goods that come in and spare parts that go out.  One order of two items *)
(* is received by two clerks of two branches, one receipt after the other  *)
(* or at once; two mechanics work on a job under warranty and on one       *)
(* without; three workers receive and sell a product without batches that  *)
(* has no row of stock yet.  A behaviour does one of the three: they meet  *)
(* only in the stock, and how rows of stock are shared is in Inventory.    *)
(***************************************************************************)
EXTENDS Purchases, ServiceJobs, UnbatchedRows, TLC

CONSTANTS o1, i1, i2, b1, b2, j1, j2

VARIABLE shift   \* what this behaviour does

Got(r, i, n, free) == [row |-> r, item |-> i, billed |-> n, free |-> free]

From(b, o, lines) == [branch |-> b, order |-> o, lines |-> lines]

\* A batch of the first item, stock of the second without one, both at once,
\* and goods that nobody ordered.
Arriving ==
  {From(b1, o1, <<Got("p1/n1", i1, 1, 1)>>), From(b1, o1, <<Got("p2", i2, 1, 0)>>),
   From(b2, o1, <<Got("p1/n1", i1, 1, 0), Got("p2", i2, 1, 0)>>),
   From(b1, o1, <<Got("p1/n2", i1, 1, 0)>>), From(b1, NoOrder, <<Got("p1/n1", NoItem, 1, 0)>>)}

OrderedOf == [i \in {i1, i2} |-> IF i = i1 THEN 2 ELSE 1]

Parent == [i \in {i1, i2} |-> o1]

Warranties == {[serial |-> "s1", from |-> 1, to |-> 1]}

PriceOf == [p \in {"p1"} |-> 2]

OpeningOf == [p \in {"p1"} |-> 2]

Doing ==
  {[kind |-> "consume", job |-> j1, part |-> "p1", quantity |-> 1],
   [kind |-> "consume", job |-> j2, part |-> "p1", quantity |-> 2],
   [kind |-> "complete", job |-> j1, labour |-> 1]}
  \cup {[kind |-> "return", line |-> n] : n \in {1, 2}}
  \cup {[kind |-> "status", job |-> j1, status |-> s] : s \in {"in_progress", "delivered"}}

Interchangeable ==
  Permutations(Clerk) \cup Permutations(Mechanic) \cup Permutations(Worker) \cup Permutations(RowId)

GoodsInit == PurchasesInit /\ JobInit /\ LooseInit /\ shift \in {"buying", "repairs", "loose"}

GoodsNext ==
  \/ shift = "buying" /\ PurchasesNext /\ UNCHANGED <<jobVars, looseVars, shift>>
  \/ shift = "repairs" /\ JobNext /\ UNCHANGED <<vars, looseVars, shift>>
  \/ shift = "loose" /\ LooseNext /\ UNCHANGED <<vars, jobVars, shift>>

GoodsSpec == GoodsInit /\ [][GoodsNext]_<<vars, jobVars, looseVars, shift>>

\* Received and billed quantities, rows of stock and repair jobs keep their types.
GoodsTypeOK == PurchasesTypeOK /\ LooseTypeOK /\ JobTypeOK
=============================================================================
