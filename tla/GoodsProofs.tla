----------------------------- MODULE GoodsProofs -----------------------------
(***************************************************************************)
(* Proofs about the goods that come in and the parts that go out, each for *)
(* any number of actors, rows and items: Purchases, UnbatchedRows,         *)
(* ServiceJobs, and last the composition of the three.                     *)
(*                                                                         *)
(* A receipt finds or inserts the batch of one line after the other and    *)
(* commits them all at the end: Right says how far it is, OrdersInv what   *)
(* it has counted so far, as sums over the receipts.  LooseInv relates     *)
(* what is in a row of stock without a batch, and what transactions that   *)
(* hold it will still write, to the ledger.  JobInv says that a request    *)
(* holds the job in the version it has read, and the rows it takes from.   *)
(***************************************************************************)
EXTENDS MCGoods, Sums

-----------------------------------------------------------------------------
(* Purchases: one line after the other.                                    *)

\* The batch of line n is there, or the transaction brings it.
There(t, n) ==
  t.req.lines[n].row \in Batched => t.req.lines[n].row \in batches \cup t.new

\* The transaction has resolved the batch of line n.
Resolved(t, n) ==
  \/ t.pc \in {"order", "tally", "commit"}
  \/ t.pc \in {"row", "item", "flush"} /\ n <= t.at
  \/ t.pc \in {"number", "batch", "insert"} /\ n < t.at

Lined == {"number", "batch", "insert", "row", "item", "flush"}

\* A receipt is one of those that come in and stands at one of its lines, the
\* batches of the lines behind it are there, and only lines with a batch
\* insert one.
Right(t) ==
  /\ t.pc \in Lined \cup {"order", "tally", "commit"} => t.req \in Receipt
  /\ t.pc \in Lined => t.at \in DOMAIN t.req.lines
  /\ t.pc = "insert" => t.req.lines[t.at].row \in Batched
  /\ \A n \in DOMAIN t.req.lines : Resolved(t, n) => There(t, n)

\* An invoice that is inserted and not committed is nobody else's.
BillsApart ==
  \A c \in Clerk : tx[c].pc = "recorded" =>
    /\ ~Recorded(tx[c].bill)
    /\ \A d \in Clerk \ {c} : ~(tx[d].pc = "recorded" /\ tx[d].bill = tx[c].bill)

LocksTyped ==
  /\ counter \in [Branch -> Clerk \cup {NoOne}]
  /\ row \in [Row -> Clerk \cup {NoOne}]
  /\ itemRow \in [Item -> Clerk \cup {NoOne}]

BooksTyped ==
  /\ orders \in [Order -> [status : Status, version : Nat]]
  /\ received \in [Item -> Nat]
  /\ batches \subseteq Batched
  /\ receipts \in Seq([branch : Branch, row : Row, item : Item \cup {NoItem}, total : Nat])
  /\ bills \in Seq(SupplierBill)

PurchasesInv ==
  /\ PurchasesTypeOK
  /\ BatchesOnce /\ BillsOnce /\ BillsApart
  /\ \A c \in Clerk : Right(tx[c])

LEMMA TypesOfParts == PurchasesTypeOK <=> BooksTyped /\ LocksTyped /\ tx \in [Clerk -> Tx]
BY DEF PurchasesTypeOK, BooksTyped, LocksTyped

LEMMA Elements ==
  ASSUME NEW S, NEW s \in Seq(S), NEW n \in DOMAIN s
  PROVE  s[n] \in S
OBVIOUS

LEMMA ReceiptTyped ==
  ASSUME NEW r \in Receipt
  PROVE  /\ r \in Receipts /\ r.branch \in Branch /\ r.order \in Order \cup {NoOrder}
         /\ r.lines \in Seq(Lines) /\ Len(r.lines) \in Nat /\ DOMAIN r.lines = 1 .. Len(r.lines)
         /\ 1 \in DOMAIN r.lines
         /\ \A n \in DOMAIN r.lines : /\ r.lines[n] \in Lines /\ r.lines[n].row \in Row
                                      /\ r.lines[n].item \in Item \cup {NoItem}
                                      /\ Quantity(r.lines[n]) \in Nat
<1>1. r \in Receipts /\ r.lines # <<>>
  BY PurchasesAssumption
<1>2. r.branch \in Branch /\ r.order \in Order \cup {NoOrder} /\ r.lines \in Seq(Lines)
  BY <1>1 DEF Receipts
<1>3. \A n \in DOMAIN r.lines : r.lines[n] \in Lines
  BY <1>2, Elements
<1>4. \A l \in Lines : l.row \in Row /\ l.item \in Item \cup {NoItem} /\ Quantity(l) \in Nat
  BY DEF Lines, Quantity
<1>5. Len(r.lines) \in Nat /\ DOMAIN r.lines = 1 .. Len(r.lines) /\ 1 \in DOMAIN r.lines
  BY <1>1, <1>2
<1> QED
  BY <1>1, <1>2, <1>3, <1>4, <1>5

LEMMA IdleRight == Idle \in Tx /\ Right(Idle) /\ Right(Idle)' /\ Idle.new = {} /\ Idle.pc = "idle"
<1>1. (CHOOSE b \in SupplierBill : TRUE) \in SupplierBill
  BY PurchasesAssumption
<1>2. Idle \in Tx
  BY <1>1 DEF Idle, Tx, Status
<1>3. Idle.new = {} /\ Idle.pc = "idle" /\ Idle.req.lines = <<>>
  BY DEF Idle, NoReceipt
<1>4. Right(Idle) /\ Right(Idle)'
  BY <1>3 DEF Right, Lined, Resolved
<1> QED
  BY <1>2, <1>3, <1>4

LEMMA InitInv == PurchasesInit => PurchasesInv
<1> SUFFICES ASSUME PurchasesInit PROVE PurchasesInv
  OBVIOUS
<1>1. tx \in [Clerk -> Tx] /\ \A c \in Clerk : tx[c] = Idle
  BY IdleRight DEF PurchasesInit
<1>2. BooksTyped /\ LocksTyped
  BY DEF PurchasesInit, BooksTyped, LocksTyped, Status
<1>3. \A c \in Clerk : Right(tx[c])
  BY <1>1, IdleRight
<1>4. BatchesOnce /\ BillsOnce
  BY <1>1, IdleRight DEF PurchasesInit, BatchesOnce, BillsOnce
<1>5. BillsApart
  BY <1>1, IdleRight DEF BillsApart
<1> QED
  BY <1>1, <1>2, <1>3, <1>4, <1>5, TypesOfParts DEF PurchasesInv

-----------------------------------------------------------------------------
(* Steps in general.                                                       *)

\* One clerk goes on to t, the others stay where they are; batches only come.
LEMMA OwnStep ==
  ASSUME PurchasesInv, NEW c \in Clerk, NEW t \in Tx, tx' = [tx EXCEPT ![c] = t],
         Right(t)', batches \subseteq batches'
  PROVE  /\ tx' \in [Clerk -> Tx] /\ tx'[c] = t
         /\ \A d \in Clerk : d # c => tx'[d] = tx[d]
         /\ \A d \in Clerk : Right(tx[d])'
<1>1. tx \in [Clerk -> Tx] /\ \A d \in Clerk : Right(tx[d])
  BY DEF PurchasesInv, PurchasesTypeOK
<1>2. tx' \in [Clerk -> Tx] /\ tx'[c] = t /\ \A d \in Clerk : d # c => tx'[d] = tx[d]
  BY <1>1
<1>3. \A u : Right(u) => Right(u)'
  BY DEF Right, Resolved, There
<1>4. ASSUME NEW d \in Clerk PROVE Right(tx[d])'
  <2> DEFINE u == tx[d]
  <2>1. CASE d = c
    BY <1>2, <2>1 DEF Right, Resolved, There
  <2>2. CASE d # c
    <3>1. Right(u)
      BY <1>1
    <3>2. Right(u)'
      BY <1>2, <1>3, <2>2, <3>1 DEF Right, Resolved, There
    <3> QED
      BY <1>2, <2>2, <3>2 DEF Right, Resolved, There
  <2> QED
    BY <2>1, <2>2
<1> QED
  BY <1>2, <1>4

\* A step that commits nothing and inserts nothing.
LEMMA QuietStep ==
  ASSUME PurchasesInv, NEW c \in Clerk, NEW t \in Tx, tx' = [tx EXCEPT ![c] = t],
         t.new \subseteq tx[c].new, t.pc # "recorded", Right(t),
         UNCHANGED Books, LocksTyped'
  PROVE  PurchasesInv'
<1>1. UNCHANGED <<orders, received, batches, receipts, bills>>
  BY DEF Books
<1>2. Right(t)'
  BY <1>1 DEF Right, Resolved, There
<1>3. /\ tx' \in [Clerk -> Tx] /\ tx'[c] = t /\ \A d \in Clerk : d # c => tx'[d] = tx[d]
      /\ \A d \in Clerk : Right(tx[d])'
  BY <1>1, <1>2, OwnStep
<1>4. PurchasesTypeOK'
  BY <1>1, <1>3 DEF PurchasesInv, PurchasesTypeOK, LocksTyped
<1>5. \A d \in Clerk : tx'[d].new \subseteq tx[d].new
  BY <1>3
<1>6. BatchesOnce' /\ BillsOnce'
  BY <1>1, <1>5 DEF PurchasesInv, BatchesOnce, BillsOnce
<1>7. \A d \in Clerk : tx'[d].pc = "recorded" => tx[d].pc = "recorded" /\ tx'[d].bill = tx[d].bill
  BY <1>3
<1>8. BillsApart'
  BY <1>1, <1>7 DEF PurchasesInv, BillsApart, Recorded
<1> QED
  BY <1>3, <1>4, <1>6, <1>8 DEF PurchasesInv

\* What the types say of a transaction.
LEMMA TxTyped ==
  ASSUME PurchasesInv, NEW c \in Clerk
  PROVE  /\ tx[c] \in Tx /\ Right(tx[c])
         /\ tx[c].at \in Nat \ {0} /\ tx[c].loaded \subseteq Item /\ tx[c].got \in [Item -> Nat]
         /\ tx[c].new \subseteq Batched /\ tx[c].seen \in [status : Status, version : Nat]
         /\ tx[c].status \in Status /\ tx[c].bill \in SupplierBill
         /\ received \in [Item -> Nat] /\ \A i \in Item : Seen(c, i) \in Nat
<1>1. tx[c] \in Tx /\ Right(tx[c]) /\ received \in [Item -> Nat]
  BY DEF PurchasesInv, PurchasesTypeOK
<1>2. /\ tx[c].at \in Nat \ {0} /\ tx[c].loaded \subseteq Item /\ tx[c].got \in [Item -> Nat]
      /\ tx[c].new \subseteq Batched /\ tx[c].seen \in [status : Status, version : Nat]
      /\ tx[c].status \in Status /\ tx[c].bill \in SupplierBill
  BY <1>1 DEF Tx
<1>3. \A i \in Item : Seen(c, i) \in Nat
  BY <1>1, <1>2 DEF Seen
<1> QED
  BY <1>1, <1>2, <1>3

\* A transaction that goes on to another point and keeps all the rest.
LEMMA Moved ==
  ASSUME PurchasesInv, NEW c \in Clerk,
         NEW pc \in {"batch", "insert", "row", "item", "tally", "order", "commit", "recorded"},
         NEW t, t = [tx[c] EXCEPT !.pc = pc]
  PROVE  /\ t \in Tx /\ t.pc = pc /\ t.req = tx[c].req /\ t.at = tx[c].at
         /\ t.new = tx[c].new /\ t.bill = tx[c].bill
<1>1. tx[c] \in Tx
  BY TxTyped
<1> QED
  BY <1>1 DEF Tx

\* The line a receipt stands at.
LEMMA LineTyped ==
  ASSUME PurchasesInv, NEW c \in Clerk, tx[c].pc \in Lined
  PROVE  /\ Req(c) \in Receipt /\ Req(c).branch \in Branch /\ Req(c).order \in Order \cup {NoOrder}
         /\ tx[c].at \in Nat /\ tx[c].at \in 1 .. Len(Req(c).lines) /\ Len(Req(c).lines) \in Nat
         /\ DOMAIN Req(c).lines = 1 .. Len(Req(c).lines)
         /\ LineOf(c).row \in Row /\ LineOf(c).item \in Item \cup {NoItem}
         /\ Quantity(LineOf(c)) \in Nat
<1>1. tx[c].req \in Receipt /\ tx[c].at \in DOMAIN tx[c].req.lines /\ tx[c].at \in Nat
  BY TxTyped DEF Right
<1> QED
  BY <1>1, ReceiptTyped DEF Req, LineOf

-----------------------------------------------------------------------------
(* create_goods_receipt, up to its commit.                                 *)

LEMMA StepBeginReceipt ==
  ASSUME PurchasesInv, NEW c \in Clerk, BeginReceipt(c)
  PROVE  PurchasesInv'
<1>1. PICK r \in Receipt : tx' = [tx EXCEPT ![c] = [Idle EXCEPT !.pc = "number", !.req = r]]
  BY DEF BeginReceipt
<1> DEFINE t == [Idle EXCEPT !.pc = "number", !.req = r]
<1>2. r \in Receipts /\ DOMAIN r.lines = 1 .. Len(r.lines) /\ 1 \in DOMAIN r.lines
      /\ Len(r.lines) \in Nat
  BY ReceiptTyped
<1>3. t \in Tx /\ t.pc = "number" /\ t.req = r /\ t.at = 1 /\ t.new = {}
  <2>1. Idle \in Tx /\ Idle.at = 1 /\ Idle.new = {}
    BY IdleRight DEF Idle
  <2> QED
    BY <1>2, <2>1 DEF Tx
<1>4. tx' = [tx EXCEPT ![c] = t]
  BY <1>1
<1> HIDE DEF t
<1>5. Right(t)
  BY <1>2, <1>3 DEF Right, Lined, Resolved, There
<1>6. LocksTyped'
  BY TypesOfParts DEF BeginReceipt, Locks, PurchasesInv, LocksTyped
<1> QED
  BY <1>3, <1>4, <1>5, <1>6, QuietStep DEF BeginReceipt

LEMMA StepTakeNumber ==
  ASSUME PurchasesInv, NEW c \in Clerk, TakeNumber(c)
  PROVE  PurchasesInv'
<1> DEFINE t == [tx[c] EXCEPT !.pc = "batch"]
<1>1. t \in Tx /\ t.pc = "batch" /\ t.req = tx[c].req /\ t.at = tx[c].at /\ t.new = tx[c].new
  BY Moved
<1>2. tx' = [tx EXCEPT ![c] = t]
  BY DEF TakeNumber, Go
<1> HIDE DEF t
<1>3. Right(t)
  BY <1>1, TxTyped DEF TakeNumber, Right, Lined, Resolved, There
<1>4. LocksTyped'
  BY TypesOfParts DEF TakeNumber, PurchasesInv, LocksTyped
<1> QED
  BY <1>1, <1>2, <1>3, <1>4, QuietStep DEF TakeNumber

LEMMA StepFindBatch ==
  ASSUME PurchasesInv, NEW c \in Clerk, FindBatch(c)
  PROVE  PurchasesInv'
<1> DEFINE pc == IF LineOf(c).row \in (Row \ Batched) \cup batches \cup tx[c].new
                 THEN "row" ELSE "insert"
           t == [tx[c] EXCEPT !.pc = pc]
<1>1. t \in Tx /\ t.pc = pc /\ t.req = tx[c].req /\ t.at = tx[c].at /\ t.new = tx[c].new
  BY Moved
<1>2. tx' = [tx EXCEPT ![c] = t] /\ tx[c].pc = "batch"
  BY DEF FindBatch, Go
<1>3. \/ pc = "row" /\ There(tx[c], tx[c].at)
      \/ pc = "insert" /\ LineOf(c).row \in Batched
  BY <1>2, LineTyped DEF There, Lined, LineOf, Req
<1> HIDE DEF t, pc
<1>4. Right(t)
  <2>1. t.req \in Receipt /\ t.at \in DOMAIN t.req.lines
    BY <1>1, <1>2, TxTyped DEF Right, Lined
  <2>2. \A n \in DOMAIN t.req.lines : n < t.at => There(t, n)
    BY <1>1, <1>2, TxTyped DEF Right, Lined, Resolved, There
  <2>3. pc = "row" => There(t, t.at)
    BY <1>1, <1>3 DEF There
  <2>4. \A n \in DOMAIN t.req.lines : n <= t.at => n < t.at \/ n = t.at
    BY <1>1, <1>2, LineTyped DEF Lined, Req
  <2>5. pc = "insert" => t.req.lines[t.at].row \in Batched
    BY <1>1, <1>3 DEF LineOf, Req
  <2> QED
    BY <1>1, <1>3, <2>1, <2>2, <2>3, <2>4, <2>5 DEF Right, Lined, Resolved
<1>5. LocksTyped' /\ t.pc # "recorded"
  BY <1>1, <1>3, TypesOfParts DEF FindBatch, Locks, PurchasesInv, LocksTyped
<1> QED
  BY <1>1, <1>2, <1>4, <1>5, QuietStep DEF FindBatch

LEMMA StepLockRow ==
  ASSUME PurchasesInv, NEW c \in Clerk, LockRow(c)
  PROVE  PurchasesInv'
<1> DEFINE t == [tx[c] EXCEPT !.pc = "item"]
<1>1. t \in Tx /\ t.pc = "item" /\ t.req = tx[c].req /\ t.at = tx[c].at /\ t.new = tx[c].new
  BY Moved
<1>2. tx' = [tx EXCEPT ![c] = t]
  BY DEF LockRow, Go
<1> HIDE DEF t
<1>3. Right(t)
  BY <1>1, TxTyped DEF LockRow, Right, Lined, Resolved, There
<1>4. LocksTyped'
  BY TypesOfParts DEF LockRow, PurchasesInv, LocksTyped
<1> QED
  BY <1>1, <1>2, <1>3, <1>4, QuietStep DEF LockRow

\* A receipt that is through with a line goes to the next one or to the order.
LEMMA NextLine ==
  ASSUME PurchasesInv, NEW c \in Clerk, tx[c].pc \in {"item", "flush"},
         NEW t, t = [tx[c] EXCEPT !.pc = After(c), !.at = @ + 1]
  PROVE  t \in Tx /\ t.new = tx[c].new /\ t.pc # "recorded" /\ Right(t)
<1>1. After(c) \in {"batch", "order"} /\ tx[c] \in Tx /\ tx[c].at + 1 \in Nat \ {0}
  BY TxTyped DEF After
<1>2. /\ t \in Tx /\ t.pc = After(c) /\ t.at = tx[c].at + 1 /\ t.req = tx[c].req
      /\ t.new = tx[c].new
  BY <1>1 DEF Tx
<1>3. t.req \in Receipt /\ tx[c].at \in Nat /\ tx[c].at <= Len(t.req.lines)
      /\ Len(t.req.lines) \in Nat /\ DOMAIN t.req.lines = 1 .. Len(t.req.lines)
  BY <1>2, LineTyped DEF Lined, Req
<1>4. \A n \in DOMAIN t.req.lines : n <= tx[c].at => There(t, n)
  BY <1>2, TxTyped DEF Right, Resolved, There
<1>5. CASE tx[c].at < Len(t.req.lines)
  <2>1. t.pc = "batch" /\ t.at \in DOMAIN t.req.lines
    BY <1>2, <1>3, <1>5 DEF After, Req
  <2>2. \A n \in DOMAIN t.req.lines : n < t.at => There(t, n)
    BY <1>2, <1>3, <1>4
  <2>3. Right(t)
    BY <1>3, <2>1, <2>2 DEF Right, Lined, Resolved
  <2> QED
    BY <1>2, <2>1, <2>3
<1>6. CASE ~(tx[c].at < Len(t.req.lines))
  <2>1. t.pc = "order"
    BY <1>2, <1>3, <1>6 DEF After, Req
  <2>2. \A n \in DOMAIN t.req.lines : There(t, n)
    BY <1>3, <1>4, <1>6
  <2>3. Right(t)
    BY <1>3, <2>1, <2>2 DEF Right, Lined
  <2> QED
    BY <1>2, <2>1, <2>3
<1> QED
  BY <1>5, <1>6

LEMMA StepReadItem ==
  ASSUME PurchasesInv, NEW c \in Clerk, ReadItem(c)
  PROVE  PurchasesInv'
<1> DEFINE i == LineOf(c).item
<1>1. tx[c].pc = "item" /\ LocksTyped' /\ UNCHANGED Books
  BY TypesOfParts DEF ReadItem, Locks, PurchasesInv, LocksTyped
<1>2. CASE i = NoItem
  <2> DEFINE t == [tx[c] EXCEPT !.pc = After(c), !.at = @ + 1]
  <2>1. tx' = [tx EXCEPT ![c] = t]
    BY <1>2, TxTyped DEF ReadItem, PurchasesInv, PurchasesTypeOK
  <2>2. t \in Tx /\ t.new = tx[c].new /\ t.pc # "recorded" /\ Right(t)
    BY <1>1, NextLine
  <2> HIDE DEF t
  <2> QED
    BY <1>1, <2>1, <2>2, QuietStep
<1>3. CASE i # NoItem
  <2>1. i \in Item /\ Raised(c, i, Quantity(LineOf(c))) \in Nat
    BY <1>1, <1>3, LineTyped, TxTyped DEF Lined, Raised
  <2> DEFINE loaded == tx[c].loaded \cup {i}
             got == [tx[c].got EXCEPT ![i] = Raised(c, i, Quantity(LineOf(c)))]
             t == [tx[c] EXCEPT !.pc = "flush", !.loaded = loaded, !.got = got]
  <2>2. tx' = [tx EXCEPT ![c] = t]
    <3>1. tx' = [tx EXCEPT ![c].pc = "flush", ![c].loaded = @ \cup {i},
                           ![c].got[i] = Raised(c, i, Quantity(LineOf(c)))]
      BY <1>3 DEF ReadItem
    <3>2. tx \in [Clerk -> Tx] /\ tx[c] \in Tx
      BY DEF PurchasesInv, PurchasesTypeOK
    <3> QED
      BY <3>1, <3>2 DEF Tx
  <2>3. loaded \in SUBSET Item /\ got \in [Item -> Nat]
    BY <2>1, TxTyped
  <2> HIDE DEF loaded, got
  <2>4. /\ t \in Tx /\ t.pc = "flush" /\ t.req = tx[c].req /\ t.at = tx[c].at
        /\ t.new = tx[c].new
    BY <2>3, TxTyped DEF Tx
  <2> HIDE DEF t
  <2>5. Right(t)
    BY <1>1, <2>4, TxTyped DEF Right, Lined, Resolved, There
  <2> QED
    BY <1>1, <2>2, <2>4, <2>5, QuietStep
<1> QED
  BY <1>2, <1>3

LEMMA StepFlushItem ==
  ASSUME PurchasesInv, NEW c \in Clerk, FlushItem(c)
  PROVE  PurchasesInv'
<1> DEFINE t == [tx[c] EXCEPT !.pc = After(c), !.at = @ + 1]
<1>1. tx' = [tx EXCEPT ![c] = t] /\ UNCHANGED Books /\ tx[c].pc = "flush"
  BY DEF FlushItem, PurchasesInv, PurchasesTypeOK
<1>2. t \in Tx /\ t.new = tx[c].new /\ t.pc # "recorded" /\ Right(t)
  BY <1>1, NextLine
<1>3. LocksTyped'
  BY TypesOfParts DEF FlushItem, PurchasesInv, LocksTyped
<1> HIDE DEF t
<1> QED
  BY <1>1, <1>2, <1>3, QuietStep

\* The transaction brings one batch more, which nobody else brings.
LEMMA StepInsertBatch ==
  ASSUME PurchasesInv, NEW c \in Clerk, InsertBatch(c)
  PROVE  PurchasesInv'
<1> DEFINE new == tx[c].new \cup {LineOf(c).row}
           t == [tx[c] EXCEPT !.pc = "row", !.new = new]
<1>1. tx' = [tx EXCEPT ![c] = t]
  BY DEF InsertBatch, PurchasesInv, PurchasesTypeOK
<1>2. UNCHANGED <<orders, received, batches, receipts, bills, counter, row, itemRow>>
  BY DEF InsertBatch, Books, Locks
<1>3. /\ tx[c].pc = "insert" /\ LineOf(c).row \in Batched /\ LineOf(c).row \notin batches
      /\ \A d \in Clerk \ {c} : LineOf(c).row \notin tx[d].new
  BY TxTyped DEF InsertBatch, BatchContested, Right, LineOf, Req
<1>4. new \in SUBSET Batched /\ tx[c].new \subseteq new /\ LineOf(c).row \in new
  BY <1>3, TxTyped
<1>5. \A d \in Clerk \ {c} : new \cap tx[d].new = {}
  BY <1>3 DEF PurchasesInv, BatchesOnce
<1>6. new \cap batches = {}
  BY <1>3 DEF PurchasesInv, BatchesOnce
<1> HIDE DEF new
<1>7. t \in Tx /\ t.pc = "row" /\ t.req = tx[c].req /\ t.at = tx[c].at /\ t.new = new
  BY <1>4, TxTyped DEF Tx
<1> HIDE DEF t
<1>8. PICK u \in Tx : /\ tx' = [tx EXCEPT ![c] = u] /\ u.pc = "row" /\ u.req = tx[c].req
                     /\ u.at = tx[c].at /\ u.new = new
  BY <1>1, <1>7
<1>9. Right(u)'
  <2>1. u.req \in Receipt /\ u.at \in DOMAIN u.req.lines
    BY <1>3, <1>8, TxTyped DEF Right, Lined
  <2>2. \A n \in DOMAIN u.req.lines : n < u.at => There(u, n)'
    BY <1>2, <1>3, <1>4, <1>8, TxTyped DEF Right, Resolved, There
  <2>3. There(u, u.at)'
    BY <1>2, <1>4, <1>8 DEF There, LineOf, Req
  <2>4. \A n \in DOMAIN u.req.lines : n <= u.at => n < u.at \/ n = u.at
    BY <1>3, <1>8, LineTyped DEF Lined, Req
  <2> QED
    BY <1>8, <2>1, <2>2, <2>3, <2>4 DEF Right, Lined, Resolved
<1>10. /\ tx' \in [Clerk -> Tx] /\ tx'[c] = u /\ \A d \in Clerk : d # c => tx'[d] = tx[d]
       /\ \A d \in Clerk : Right(tx[d])'
  BY <1>2, <1>8, <1>9, OwnStep
<1>11. PurchasesTypeOK'
  BY <1>2, <1>10 DEF PurchasesInv, PurchasesTypeOK
<1>12. BatchesOnce'
  BY <1>2, <1>5, <1>6, <1>8, <1>10 DEF PurchasesInv, BatchesOnce
<1>13. BillsOnce' /\ BillsApart'
  BY <1>2, <1>8, <1>10 DEF PurchasesInv, BillsOnce, BillsApart, Recorded
<1> QED
  BY <1>10, <1>11, <1>12, <1>13 DEF PurchasesInv

LEMMA StepReadOrder ==
  ASSUME PurchasesInv, NEW c \in Clerk, ReadOrder(c)
  PROVE  PurchasesInv'
<1>1. tx[c].pc = "order" /\ LocksTyped' /\ UNCHANGED Books
  BY TypesOfParts DEF ReadOrder, Locks, PurchasesInv, LocksTyped
<1>2. CASE Req(c).order = NoOrder
  <2> DEFINE t == [tx[c] EXCEPT !.pc = "commit"]
  <2>1. tx' = [tx EXCEPT ![c] = t]
    BY <1>2 DEF ReadOrder, Go
  <2>2. t \in Tx /\ t.pc = "commit" /\ t.req = tx[c].req /\ t.at = tx[c].at /\ t.new = tx[c].new
    BY Moved
  <2> HIDE DEF t
  <2>3. Right(t)
    BY <1>1, <2>2, TxTyped DEF Right, Lined, Resolved, There
  <2> QED
    BY <1>1, <2>1, <2>2, <2>3, QuietStep
<1>3. CASE Req(c).order # NoOrder
  <2> DEFINE o == orders[Req(c).order]
             t == [tx[c] EXCEPT !.pc = "tally", !.seen = o]
  <2>1. tx' = [tx EXCEPT ![c] = t]
    BY <1>3 DEF ReadOrder, PurchasesInv, PurchasesTypeOK
  <2>2. o \in [status : Status, version : Nat]
    <3>1. Req(c) \in Receipt
      BY <1>1, TxTyped DEF Right, Req
    <3>2. Req(c).order \in Order
      BY <1>3, <3>1, ReceiptTyped
    <3> QED
      BY <3>2 DEF PurchasesInv, PurchasesTypeOK
  <2> HIDE DEF o
  <2>3. t \in Tx /\ t.pc = "tally" /\ t.req = tx[c].req /\ t.at = tx[c].at /\ t.new = tx[c].new
    BY <2>2, TxTyped DEF Tx
  <2> HIDE DEF t
  <2>4. Right(t)
    BY <1>1, <2>3, TxTyped DEF Right, Lined, Resolved, There
  <2> QED
    BY <1>1, <2>1, <2>3, <2>4, QuietStep
<1> QED
  BY <1>2, <1>3

LEMMA StepTally ==
  ASSUME PurchasesInv, NEW c \in Clerk, Tally(c)
  PROVE  PurchasesInv'
<1> DEFINE s == Progress(Req(c).order, [i \in Item |-> Seen(c, i)], tx[c].seen.status)
           t == [tx[c] EXCEPT !.pc = "commit", !.status = s]
<1>1. tx' = [tx EXCEPT ![c] = t] /\ tx[c].pc = "tally"
  BY DEF Tally, PurchasesInv, PurchasesTypeOK
<1>2. LocksTyped' /\ UNCHANGED Books
  BY TypesOfParts DEF Tally, Locks, PurchasesInv, LocksTyped
<1>3. s \in Status
  <2>1. tx[c].seen.status \in Status
    BY TxTyped
  <2> QED
    BY <2>1 DEF Progress, Status
<1> HIDE DEF s
<1>4. t \in Tx /\ t.pc = "commit" /\ t.req = tx[c].req /\ t.at = tx[c].at /\ t.new = tx[c].new
  BY <1>3, TxTyped DEF Tx
<1> HIDE DEF t
<1>5. Right(t)
  BY <1>1, <1>4, TxTyped DEF Right, Lined, Resolved, There
<1> QED
  BY <1>1, <1>2, <1>4, <1>5, QuietStep

-----------------------------------------------------------------------------
(* Ends of transactions, and invoices.                                     *)

LEMMA StepRelease ==
  ASSUME PurchasesInv, NEW c \in Clerk, Release(c)
  PROVE  LocksTyped' /\ tx' = [tx EXCEPT ![c] = Idle]
BY TypesOfParts DEF PurchasesInv, LocksTyped, Release

LEMMA StepRollback ==
  ASSUME PurchasesInv, NEW c \in Clerk, Rollback(c)
  PROVE  PurchasesInv'
BY StepRelease, IdleRight, QuietStep DEF Rollback

LEMMA PostedTyped ==
  ASSUME NEW r \in Receipt
  PROVE  /\ Posted(r) \in Seq([branch : Branch, row : Row, item : Item \cup {NoItem}, total : Nat])
         /\ DOMAIN Posted(r) = DOMAIN r.lines
         /\ \A n \in DOMAIN r.lines : Posted(r)[n].row = r.lines[n].row
<1>1. DOMAIN r.lines = 1 .. Len(r.lines) /\ Len(r.lines) \in Nat
  BY ReceiptTyped
<1>2. ASSUME NEW n \in DOMAIN r.lines
      PROVE  [branch |-> r.branch, row |-> r.lines[n].row, item |-> r.lines[n].item,
              total |-> Quantity(r.lines[n])]
                \in [branch : Branch, row : Row, item : Item \cup {NoItem}, total : Nat]
  BY ReceiptTyped
<1> QED
  BY <1>1, <1>2 DEF Posted

LEMMA StepCommitReceipt ==
  ASSUME PurchasesInv, NEW c \in Clerk, CommitReceipt(c)
  PROVE  PurchasesInv'
<1> DEFINE r == Req(c)
<1>1. /\ tx[c].pc = "commit" /\ orders' = Refreshed(c) /\ received' = [i \in Item |-> Seen(c, i)]
      /\ batches' = batches \cup tx[c].new /\ receipts' = receipts \o Posted(r)
      /\ Release(c) /\ bills' = bills
  BY DEF CommitReceipt
<1>2. r \in Receipt /\ \A n \in DOMAIN r.lines : There(tx[c], n)
  BY <1>1, TxTyped DEF Right, Resolved, Req
<1>3. LocksTyped' /\ tx' = [tx EXCEPT ![c] = Idle]
  BY <1>1, StepRelease
<1>4. /\ tx' \in [Clerk -> Tx] /\ tx'[c] = Idle /\ \A d \in Clerk : d # c => tx'[d] = tx[d]
      /\ \A d \in Clerk : Right(tx[d])'
  BY <1>1, <1>3, IdleRight, OwnStep
<1>5. orders' \in [Order -> [status : Status, version : Nat]]
  <2> DEFINE o == [status |-> tx[c].status, version |-> tx[c].seen.version + 1]
  <2>1. o \in [status : Status, version : Nat]
    BY TxTyped
  <2>2. orders' = orders \/ orders' = [orders EXCEPT ![r.order] = o]
    BY <1>1 DEF Refreshed
  <2> HIDE DEF o
  <2> QED
    BY <2>1, <2>2 DEF PurchasesInv, PurchasesTypeOK
<1>6. received' \in [Item -> Nat] /\ batches' \subseteq Batched
  BY <1>1, TxTyped DEF PurchasesInv, PurchasesTypeOK
<1> DEFINE Posting == [branch : Branch, row : Row, item : Item \cup {NoItem}, total : Nat]
<1>7. receipts \in Seq(Posting) /\ Posted(r) \in Seq(Posting)
  BY <1>2, PostedTyped DEF PurchasesInv, PurchasesTypeOK
<1>8. receipts' \in Seq(Posting)
  <2> HIDE DEF Posting
  <2> QED
    BY <1>1, <1>7
<1>9. PurchasesTypeOK'
  BY <1>1, <1>3, <1>4, <1>5, <1>6, <1>8 DEF PurchasesInv, PurchasesTypeOK, LocksTyped
<1>10. ASSUME NEW n \in DOMAIN receipts', receipts'[n].row \in Batched
       PROVE  receipts'[n].row \in batches'
  <2>1. \/ n \in DOMAIN receipts /\ receipts'[n] = receipts[n]
        \/ \E m \in DOMAIN Posted(r) : receipts'[n] = Posted(r)[m]
    <3> HIDE DEF Posting
    <3>1. n \in 1 .. Len(receipts) + Len(Posted(r))
      BY <1>1, <1>7
    <3>2. CASE n <= Len(receipts)
      BY <1>1, <1>7, <3>1, <3>2
    <3>3. CASE n > Len(receipts)
      <4>1. n - Len(receipts) \in DOMAIN Posted(r) /\ receipts'[n] = Posted(r)[n - Len(receipts)]
        BY <1>1, <1>7, <3>1, <3>3
      <4> QED
        BY <4>1
    <3> QED
      BY <1>7, <3>1, <3>2, <3>3
  <2>2. CASE n \in DOMAIN receipts /\ receipts'[n] = receipts[n]
    BY <1>1, <1>10, <2>2 DEF PurchasesInv, BatchesOnce
  <2>3. ASSUME NEW m \in DOMAIN Posted(r), receipts'[n] = Posted(r)[m]
        PROVE  receipts'[n].row \in batches'
    <3>1. m \in DOMAIN r.lines /\ Posted(r)[m].row = r.lines[m].row
      BY <1>2, <2>3, PostedTyped
    <3> QED
      BY <1>1, <1>2, <1>10, <2>3, <3>1 DEF There, Req
  <2> QED
    BY <2>1, <2>2, <2>3
<1>11. BatchesOnce'
  <2>1. \A d \in Clerk : tx'[d].new \subseteq tx[d].new /\ tx'[c].new = {}
    BY <1>4, IdleRight
  <2>2. \A d, e \in Clerk : d # e => tx'[d].new \cap tx'[e].new = {}
    BY <2>1 DEF PurchasesInv, BatchesOnce
  <2>3. \A d \in Clerk : tx'[d].new \cap batches' = {}
    BY <1>1, <1>4, <2>1 DEF PurchasesInv, BatchesOnce
  <2> QED
    BY <1>10, <2>2, <2>3 DEF BatchesOnce
<1>12. BillsOnce' /\ BillsApart'
  BY <1>1, <1>4, IdleRight DEF PurchasesInv, BillsOnce, BillsApart, Recorded
<1> QED
  BY <1>4, <1>9, <1>11, <1>12 DEF PurchasesInv

LEMMA StepBeginBill ==
  ASSUME PurchasesInv, NEW c \in Clerk, BeginBill(c)
  PROVE  PurchasesInv'
<1>1. PICK b \in SupplierBill : tx' = [tx EXCEPT ![c] = [Idle EXCEPT !.pc = "bill", !.bill = b]]
  BY DEF BeginBill
<1> DEFINE t == [Idle EXCEPT !.pc = "bill", !.bill = b]
<1>2. t \in Tx /\ t.pc = "bill" /\ t.req = Idle.req /\ t.new = {}
  BY IdleRight DEF Tx
<1>3. tx' = [tx EXCEPT ![c] = t]
  BY <1>1
<1> HIDE DEF t
<1>4. Right(t)
  BY <1>2 DEF Right, Lined, Resolved, There
<1>5. LocksTyped'
  BY TypesOfParts DEF BeginBill, Locks, PurchasesInv, LocksTyped
<1> QED
  BY <1>2, <1>3, <1>4, <1>5, QuietStep DEF BeginBill

\* The constraint is checked against committed rows and those in flight.
LEMMA StepInsertBill ==
  ASSUME PurchasesInv, NEW c \in Clerk, InsertBill(c)
  PROVE  PurchasesInv'
<1> DEFINE t == [tx[c] EXCEPT !.pc = "recorded"]
<1>1. tx' = [tx EXCEPT ![c] = t]
  BY DEF InsertBill, Go
<1>2. t \in Tx /\ t.pc = "recorded" /\ t.new = tx[c].new /\ t.bill = tx[c].bill
  BY Moved
<1> HIDE DEF t
<1>3. PICK u \in Tx : /\ tx' = [tx EXCEPT ![c] = u] /\ u.pc = "recorded" /\ u.new = tx[c].new
                     /\ u.bill = tx[c].bill
  BY <1>1, <1>2
<1>4. UNCHANGED <<orders, received, batches, receipts, bills, counter, row, itemRow>>
  BY DEF InsertBill, Books, Locks
<1>5. Right(u)'
  BY <1>3 DEF Right, Lined, Resolved, There
<1>6. /\ tx' \in [Clerk -> Tx] /\ tx'[c] = u /\ \A d \in Clerk : d # c => tx'[d] = tx[d]
      /\ \A d \in Clerk : Right(tx[d])'
  BY <1>3, <1>4, <1>5, OwnStep
<1>7. PurchasesTypeOK'
  BY <1>4, <1>6 DEF PurchasesInv, PurchasesTypeOK
<1>8. BatchesOnce'
  <2>1. \A d \in Clerk : tx'[d].new = tx[d].new
    BY <1>3, <1>6
  <2> QED
    BY <1>4, <2>1 DEF PurchasesInv, BatchesOnce
<1>9. BillsOnce' /\ BillsApart'
  BY <1>3, <1>4, <1>6 DEF InsertBill, PurchasesInv, BillsOnce, BillsApart, Recorded
<1> QED
  BY <1>6, <1>7, <1>8, <1>9 DEF PurchasesInv

LEMMA StepCommitBill ==
  ASSUME PurchasesInv, NEW c \in Clerk, CommitBill(c)
  PROVE  PurchasesInv'
<1> DEFINE b == tx[c].bill
<1>1. /\ tx[c].pc = "recorded" /\ bills' = Append(bills, b) /\ Release(c)
      /\ UNCHANGED <<orders, received, batches, receipts>>
  BY DEF CommitBill
<1>2. LocksTyped' /\ tx' = [tx EXCEPT ![c] = Idle]
  BY <1>1, StepRelease
<1>3. /\ tx' \in [Clerk -> Tx] /\ tx'[c] = Idle /\ \A d \in Clerk : d # c => tx'[d] = tx[d]
      /\ \A d \in Clerk : Right(tx[d])'
  BY <1>1, <1>2, IdleRight, OwnStep
<1>4. b \in SupplierBill /\ bills \in Seq(SupplierBill)
  BY TxTyped DEF PurchasesInv, PurchasesTypeOK
<1>5. PurchasesTypeOK'
  BY <1>1, <1>2, <1>3, <1>4 DEF PurchasesInv, PurchasesTypeOK, LocksTyped
<1>6. BatchesOnce'
  BY <1>1, <1>3, IdleRight DEF PurchasesInv, BatchesOnce
<1>7. ~Recorded(b) /\ \A d \in Clerk \ {c} : ~(tx[d].pc = "recorded" /\ tx[d].bill = b)
  BY <1>1 DEF PurchasesInv, BillsApart
<1>8. /\ Len(bills) \in Nat /\ DOMAIN bills = 1 .. Len(bills)
      /\ DOMAIN bills' = 1 .. Len(bills) + 1 /\ bills'[Len(bills) + 1] = b
      /\ \A n \in DOMAIN bills : bills'[n] = bills[n]
  BY <1>1, <1>4
<1>9. \A n \in DOMAIN bills' : n \in DOMAIN bills \/ n = Len(bills) + 1
  BY <1>8
<1>10. BillsOnce'
  BY <1>7, <1>8, <1>9 DEF PurchasesInv, BillsOnce, Recorded
<1>11. BillsApart'
  BY <1>3, <1>7, <1>8, <1>9, IdleRight DEF PurchasesInv, BillsApart, Recorded
<1> QED
  BY <1>3, <1>5, <1>6, <1>10, <1>11 DEF PurchasesInv

LEMMA StepPlaceOrder ==
  ASSUME PurchasesInv, NEW o \in Order, PlaceOrder(o)
  PROVE  PurchasesInv'
<1>1. /\ orders' = [orders EXCEPT ![o].status = "confirmed"]
      /\ UNCHANGED <<received, batches, receipts, bills, counter, row, itemRow, tx>>
  BY DEF PlaceOrder, Locks
<1>2. orders' \in [Order -> [status : Status, version : Nat]]
  BY <1>1 DEF PurchasesInv, PurchasesTypeOK, Status
<1>3. PurchasesTypeOK'
  BY <1>1, <1>2 DEF PurchasesInv, PurchasesTypeOK
<1>4. (BatchesOnce /\ BillsOnce /\ BillsApart /\ \A c \in Clerk : Right(tx[c]))'
  BY <1>1 DEF PurchasesInv, BatchesOnce, BillsOnce, BillsApart, Recorded, Right, Resolved, There
<1> QED
  BY <1>3, <1>4 DEF PurchasesInv

-----------------------------------------------------------------------------
LEMMA NextInv == PurchasesInv /\ [PurchasesNext]_vars => PurchasesInv'
<1> SUFFICES ASSUME PurchasesInv, [PurchasesNext]_vars PROVE PurchasesInv'
  OBVIOUS
<1>1. ASSUME NEW o \in Order, PlaceOrder(o) PROVE PurchasesInv'
  BY <1>1, StepPlaceOrder
<1>2. ASSUME NEW c \in Clerk, BeginReceipt(c) \/ BeginBill(c) PROVE PurchasesInv'
  BY <1>2, StepBeginReceipt, StepBeginBill
<1>3. ASSUME NEW c \in Clerk, Process(c) PROVE PurchasesInv'
  <2>1. CASE TakeNumber(c) \/ FindBatch(c) \/ InsertBatch(c) \/ LockRow(c)
    BY <2>1, StepTakeNumber, StepFindBatch, StepInsertBatch, StepLockRow
  <2>2. CASE ReadItem(c) \/ FlushItem(c) \/ ReadOrder(c) \/ Tally(c)
    BY <2>2, StepReadItem, StepFlushItem, StepReadOrder, StepTally
  <2>3. CASE CommitReceipt(c) \/ InsertBill(c) \/ CommitBill(c)
    BY <2>3, StepCommitReceipt, StepInsertBill, StepCommitBill
  <2>4. CASE Fail(c)
    BY <2>4, StepRollback DEF Fail
  <2> QED
    BY <1>3, <2>1, <2>2, <2>3, <2>4 DEF Process
<1>4. ASSUME NEW c \in Clerk, Abort(c) PROVE PurchasesInv'
  BY <1>4, StepRollback DEF Abort
<1>5. CASE UNCHANGED vars
  BY <1>5 DEF vars, PurchasesInv, PurchasesTypeOK, BatchesOnce, BillsOnce, BillsApart, Recorded,
              Right, Resolved, There
<1> QED
  BY <1>1, <1>2, <1>3, <1>4, <1>5 DEF PurchasesNext

\* The invariant the properties below rest on: the batches of the lines a
\* receipt has been through are there when it commits, and what is inserted
\* and not committed yet is nobody else's.
THEOREM PurchasesInvariant == PurchasesSpec => []PurchasesInv
BY InitInv, NextInv, PTL DEF PurchasesSpec

\* Orders, receipts, invoices, locks and transactions keep their types.
THEOREM PurchasesTypeCorrect == PurchasesSpec => []PurchasesTypeOK
<1>1. PurchasesInv => PurchasesTypeOK
  BY DEF PurchasesInv
<1> QED
  BY <1>1, PurchasesInvariant, PTL

\* Of any number of clerks that receive goods and record invoices at once, no
\* two create the same batch or record the same invoice of a supplier, and all
\* the stock that is committed goes to batches that exist (service.py:222-247,
\* models.py uq_batch and uq_supplier_invoice).
THEOREM NothingTwice == PurchasesSpec => []CreatedOnce
<1>1. PurchasesInv => CreatedOnce
  BY DEF PurchasesInv, CreatedOnce
<1> QED
  BY <1>1, PurchasesInvariant, PTL

-----------------------------------------------------------------------------
(* What an order says is what its receipts brought.                        *)

\* The receipt lines that bring item i, and how much they bring.
Bringing(rs, i) == {n \in DOMAIN rs : rs[n].item = i}
Brought(rs, i) == SumFunctionOnSet([n \in DOMAIN rs |-> rs[n].total], Bringing(rs, i))

\* The same of the first k lines of one receipt.
First(lines, k, i) == {n \in DOMAIN lines : n <= k /\ lines[n].item = i}
Brings(lines, k, i) ==
  SumFunctionOnSet([n \in DOMAIN lines |-> Quantity(lines[n])], First(lines, k, i))

\* All that came of an item came from one branch, all of an order from one.
ItemFrom(rs, i, b) == \A n \in Bringing(rs, i) : rs[n].branch = b
ItemOnce(rs, i) == \A m, n \in Bringing(rs, i) : rs[m].branch = rs[n].branch
OrderFrom(rs, o, b) == \A i \in ItemsOf(o) : ItemFrom(rs, i, b)
OrderOnce(rs, o) ==
  \A i, j \in ItemsOf(o) : \A m \in Bringing(rs, i), n \in Bringing(rs, j) :
    rs[m].branch = rs[n].branch

\* A receipt that has its number, and one that has read its order.
Busy == {"batch", "insert", "row", "item", "flush", "order", "tally", "commit"}
Reading == {"tally", "commit"}

\* The lines whose items are in the session.
Behind(t) ==
  IF t.pc \in {"order", "tally", "commit"} THEN Len(t.req.lines)
  ELSE IF t.pc = "flush" THEN t.at ELSE t.at - 1

\* The number of the branch is held from the first line on.
Numbered(c, t, cnt) == t.pc \in Busy => cnt[t.req.branch] = c

\* The session has the items of the lines behind it.
Loaded(t) ==
  t.pc \in Busy \cup {"number"} =>
    /\ t.loaded = {i \in Item : First(t.req.lines, Behind(t), i) # {}}
    /\ \A i \in t.loaded : t.got[i] > 0
    /\ t.pc = "number" => t.at = 1

\* What it computed of an item that only its branch receives is up to date.
Computed(t, rs) ==
  t.pc \in Busy => \A i \in t.loaded : ItemFrom(rs, i, t.req.branch) =>
    t.got[i] = Brought(rs, i) + Brings(t.req.lines, Behind(t), i)

\* The order exists and was read in this version or an earlier one.
Read(t, ords) ==
  LET o == t.req.order IN
  t.pc \in Busy \cup {"number"} /\ o # NoOrder =>
    /\ ords[o].status # "none"
    /\ t.pc \in Reading => /\ t.seen.status # "none" /\ t.seen.version <= ords[o].version
                           /\ t.seen.version = ords[o].version => t.seen = ords[o]
    /\ t.pc = "commit" => t.status # "none"

SeenOf(t, rec) == [i \in Item |-> IF i \in t.loaded THEN t.got[i] ELSE rec[i]]

\* Nobody writes the order of a receipt that brings some of it.
Alone(t, ords, rec, rs) ==
  LET o == t.req.order IN
  t.pc \in Reading /\ o # NoOrder /\ Asks(o) /\ t.loaded # {} /\ OrderFrom(rs, o, t.req.branch) =>
    /\ t.seen = ords[o]
    /\ t.pc = "commit" => t.status = Progress(o, SeenOf(t, rec), t.seen.status)

\* A receipt that brings nothing of its order has nothing to write to it.
Harmless(t, ords, rs) ==
  LET o == t.req.order IN
  t.pc = "commit" /\ o # NoOrder /\ Asks(o) /\ t.loaded = {} /\ OrderOnce(rs, o)
    /\ t.status # t.seen.status => t.seen.version # ords[o].version

Fits(c, t, ords, rec, rs, cnt) ==
  /\ Numbered(c, t, cnt) /\ Loaded(t) /\ Computed(t, rs)
  /\ Read(t, ords) /\ Alone(t, ords, rec, rs) /\ Harmless(t, ords, rs)

\* The items and the status of an order, as the receipts rs have it.
ItemTold(i, rec, rs) == ItemOnce(rs, i) => rec[i] = Brought(rs, i)
OrderTold(o, ords, rec, rs) ==
  Asks(o) /\ OrderOnce(rs, o) /\ ords[o].status # "none" =>
    /\ ords[o].status = "received" <=> \A i \in ItemsOf(o) : rec[i] >= Ordered[i]
    /\ ords[o].status = "confirmed" <=> \A i \in ItemsOf(o) : rec[i] = 0
Unplaced(i, ords, rec) == ords[OrderOf[i]].status = "none" => rec[i] = 0

OrdersInv ==
  /\ PurchasesInv
  /\ \A i \in Item : ItemTold(i, received, receipts) /\ Unplaced(i, orders, received)
  /\ \A o \in Order : OrderTold(o, orders, received, receipts)
  /\ \A c \in Clerk : Fits(c, tx[c], orders, received, receipts, counter)

-----------------------------------------------------------------------------
Posting == [branch : Branch, row : Row, item : Item \cup {NoItem}, total : Nat]

\* Receipt lines bring natural numbers, of finitely many lines.
LEMMA BroughtTyped ==
  ASSUME NEW rs \in Seq(Posting), NEW i
  PROVE  /\ IsFiniteSet(Bringing(rs, i)) /\ Brought(rs, i) \in Nat
         /\ \A n \in DOMAIN rs : rs[n].total \in Nat
<1>1. DOMAIN rs = 1 .. Len(rs) /\ Len(rs) \in Nat
  OBVIOUS
<1>2. IsFiniteSet(DOMAIN rs) /\ Bringing(rs, i) \in SUBSET DOMAIN rs
  BY <1>1, FS_Interval, 1 \in Int, Len(rs) \in Int DEF Bringing
<1>3. IsFiniteSet(Bringing(rs, i))
  BY <1>2, FS_Subset
<1> DEFINE f == [m \in DOMAIN rs |-> rs[m].total]
<1>4. \A n \in DOMAIN rs : f[n] \in Nat /\ f[n] = rs[n].total
  <2>1. \A n \in DOMAIN rs : rs[n] \in Posting
    BY Elements
  <2> QED
    BY <2>1 DEF Posting
<1> HIDE DEF f
<1>5. SumFunctionOnSet(f, Bringing(rs, i)) \in Nat
  BY <1>2, <1>3, <1>4, SumNat
<1> QED
  BY <1>3, <1>4, <1>5 DEF Brought, f

\* The sum of the property is the sum of the proofs.
LEMMA BroughtIsSum ==
  ASSUME receipts \in Seq(Posting), NEW i
  PROVE  MapThenSumSet(LAMBDA n : receipts[n].total, ReceiptsOf(i)) = Brought(receipts, i)
<1> DEFINE S == ReceiptsOf(i)
           f == [n \in S |-> receipts[n].total]
           h == [n \in DOMAIN receipts |-> receipts[n].total]
<1>1. S = Bringing(receipts, i) /\ S \subseteq DOMAIN receipts
  BY DEF ReceiptsOf, Bringing
<1>2. IsFiniteSet(S) /\ \A n \in S : receipts[n].total \in Nat
  BY <1>1, BroughtTyped
<1> HIDE DEF S
<1>3. MapThenSumSet(LAMBDA n : receipts[n].total, S) = SumFunctionOnSet(f, S)
  BY Zenon DEF MapThenSumSet, MapThenFoldSet, SumFunctionOnSet, FoldFunctionOnSet
<1>4. \A n \in S : h[n] \in Int /\ h[n] = f[n]
  BY <1>1, <1>2
<1> HIDE DEF f, h
<1>5. SumFunctionOnSet(h, S) = SumFunctionOnSet(f, S)
  BY <1>2, <1>4, SumSame
<1> QED
  BY <1>1, <1>3, <1>5 DEF Brought, h, S

\* The lines of a receipt, one after the other.
LEMMA BringsStep ==
  ASSUME NEW r \in Receipt, NEW i
  PROVE  /\ \A k \in Int : /\ Brings(r.lines, k, i) \in Nat
                           /\ First(r.lines, k, i) = {} => Brings(r.lines, k, i) = 0
         /\ \A k \in DOMAIN r.lines :
              /\ r.lines[k].item = i =>
                   Brings(r.lines, k, i) = Brings(r.lines, k - 1, i) + Quantity(r.lines[k])
              /\ r.lines[k].item # i => Brings(r.lines, k, i) = Brings(r.lines, k - 1, i)
<1> DEFINE lines == r.lines
           f == [n \in DOMAIN lines |-> Quantity(lines[n])]
<1>1. /\ DOMAIN lines = 1 .. Len(lines) /\ Len(lines) \in Nat
      /\ \A n \in DOMAIN lines : f[n] \in Nat /\ f[n] = Quantity(lines[n])
  BY ReceiptTyped
<1> HIDE DEF f
<1>2. IsFiniteSet(DOMAIN lines)
  BY <1>1, FS_Interval, 1 \in Int, Len(lines) \in Int
<1>3. \A k \in Int : First(lines, k, i) \in SUBSET DOMAIN lines /\ IsFiniteSet(First(lines, k, i))
  BY <1>2, FS_Subset, \A k \in Int : First(lines, k, i) \in SUBSET DOMAIN lines DEF First
<1>4. \A k \in Int : Brings(lines, k, i) = SumFunctionOnSet(f, First(lines, k, i))
  BY DEF Brings, f
<1>5. ASSUME NEW k \in Int
      PROVE  /\ Brings(lines, k, i) \in Nat
             /\ First(lines, k, i) = {} => Brings(lines, k, i) = 0
  <2>1. IsFiniteSet(First(lines, k, i)) /\ \A n \in First(lines, k, i) : f[n] \in Nat
    BY <1>1, <1>3
  <2>2. SumFunctionOnSet(f, First(lines, k, i)) \in Nat
    BY <2>1, SumNat
  <2> QED
    BY <1>4, <2>2, SumOfNone
<1>6. ASSUME NEW k \in DOMAIN lines
      PROVE  /\ lines[k].item = i =>
                   Brings(lines, k, i) = Brings(lines, k - 1, i) + Quantity(lines[k])
             /\ lines[k].item # i => Brings(lines, k, i) = Brings(lines, k - 1, i)
  <2> DEFINE F == First(lines, k - 1, i)
  <2>1. k \in Int /\ k - 1 \in Int /\ f[k] \in Int /\ f[k] = Quantity(lines[k])
    BY <1>1
  <2>2. IsFiniteSet(F) /\ k \notin F /\ \A n \in F : f[n] \in Int
    BY <1>1, <1>3, <2>1 DEF First
  <2>3. CASE lines[k].item = i
    <3>1. First(lines, k, i) = F \cup {k}
      BY <1>1, <2>1, <2>3 DEF First
    <3> HIDE DEF F
    <3>2. SumFunctionOnSet(f, F \cup {k}) = SumFunctionOnSet(f, F) + f[k]
      BY <2>1, <2>2, SumPlus
    <3> QED
      BY <1>4, <2>1, <2>3, <3>1, <3>2 DEF F
  <2>4. CASE lines[k].item # i
    <3>1. First(lines, k, i) = F
      BY <1>1, <2>1, <2>4 DEF First
    <3> QED
      BY <1>4, <2>1, <2>4, <3>1
  <2> QED
    BY <2>3, <2>4
<1> QED
  BY <1>5, <1>6

\* A receipt brings what its lines bring, on top of what the receipts before
\* it brought.
LEMMA BroughtGrows ==
  ASSUME NEW rs \in Seq(Posting), NEW r \in Receipt, NEW i
  PROVE  /\ Brought(rs \o Posted(r), i) = Brought(rs, i) + Brings(r.lines, Len(r.lines), i)
         /\ First(r.lines, Len(r.lines), i) = {} =>
              Bringing(rs \o Posted(r), i) = Bringing(rs, i)
         /\ \A n \in Bringing(rs, i) : /\ n \in Bringing(rs \o Posted(r), i)
                                       /\ (rs \o Posted(r))[n] = rs[n]
<1> DEFINE all == rs \o Posted(r)
           lines == r.lines
           L == Len(rs)
           K == Len(lines)
           f == [n \in DOMAIN lines |-> Quantity(lines[n])]
           g == [n \in DOMAIN rs |-> rs[n].total]
           h == [n \in DOMAIN all |-> all[n].total]
           m == [n \in DOMAIN lines |-> L + n]
           A == Bringing(rs, i)
           B == First(lines, K, i)
<1>1. /\ DOMAIN lines = 1 .. K /\ K \in Nat /\ DOMAIN rs = 1 .. L /\ L \in Nat
      /\ \A n \in DOMAIN lines : f[n] \in Nat
  BY ReceiptTyped
<1>2. Posted(r) \in Seq(Posting) /\ DOMAIN Posted(r) = 1 .. K /\ Len(Posted(r)) = K
  <2>1. Posted(r) \in Seq(Posting) /\ DOMAIN Posted(r) = DOMAIN lines
    BY PostedTyped DEF Posting
  <2> QED
    BY <1>1, <2>1
<1>3. \A n \in 1 .. K : /\ Posted(r)[n].item = lines[n].item /\ Posted(r)[n].total = f[n]
                        /\ Posted(r)[n].branch = r.branch
  BY <1>1 DEF Posted
<1>4. /\ DOMAIN all = 1 .. L + K
      /\ \A n \in 1 .. L : all[n] = rs[n]
      /\ \A n \in 1 .. K : all[L + n] = Posted(r)[n]
  BY <1>1, <1>2
<1>5. all \in Seq(Posting)
  BY <1>2
<1> HIDE DEF all, f
<1>6. IsFiniteSet(A) /\ A \subseteq 1 .. L /\ \A n \in A : g[n] \in Int /\ g[n] = h[n]
  <2>1. IsFiniteSet(A) /\ A \subseteq 1 .. L
    BY <1>1, BroughtTyped DEF Bringing
  <2>2. ASSUME NEW n \in A PROVE g[n] \in Int /\ g[n] = h[n]
    <3>1. n \in DOMAIN rs /\ n \in DOMAIN all /\ all[n] = rs[n]
      BY <1>1, <1>4, <2>1
    <3>2. rs[n].total \in Nat
      BY <3>1, BroughtTyped
    <3> QED
      BY <3>1, <3>2
  <2> QED
    BY <2>1, <2>2
<1>7. \A n \in DOMAIN all : h[n] \in Int
  BY <1>5, BroughtTyped
<1>8. IsFiniteSet(B) /\ B \subseteq 1 .. K
  <2>1. IsFiniteSet(1 .. K) /\ B \in SUBSET (1 .. K)
    BY <1>1, FS_Interval, 1 \in Int, K \in Int DEF First
  <2> QED
    BY <2>1, FS_Subset
<1>9. \A n \in B : f[n] \in Int /\ h[m[n]] = f[n] /\ m[n] = L + n
  <2> SUFFICES ASSUME NEW n \in B PROVE f[n] \in Int /\ h[m[n]] = f[n] /\ m[n] = L + n
    OBVIOUS
  <2>1. n \in 1 .. K /\ n \in DOMAIN lines
    BY <1>1, <1>8
  <2>2. L + n \in DOMAIN all /\ all[L + n].total = f[n] /\ f[n] \in Nat
    BY <1>1, <1>3, <1>4, <2>1
  <2>3. m[n] = L + n
    BY <2>1
  <2> QED
    BY <2>2, <2>3
<1>10. \A x, y \in B : m[x] = m[y] => x = y
  BY <1>1, <1>8, <1>9
<1> DEFINE C == {m[n] : n \in B}
<1>11. Bringing(all, i) = A \cup C
  <2>1. ASSUME NEW n \in Bringing(all, i) PROVE n \in A \cup C
    <3>1. n \in 1 .. L + K /\ all[n].item = i
      BY <1>4 DEF Bringing
    <3>2. CASE n <= L
      BY <1>1, <1>4, <3>1, <3>2 DEF Bringing
    <3>3. CASE n > L
      <4>1. n - L \in 1 .. K /\ n = L + (n - L)
        BY <1>1, <3>1, <3>3
      <4>2. n - L \in B
        <5> DEFINE q == n - L
        <5>1. q \in 1 .. K /\ n = L + q
          BY <4>1
        <5> HIDE DEF q
        <5>2. all[n] = Posted(r)[q]
          BY <1>4, <5>1
        <5>3. lines[q].item = i /\ q \in DOMAIN lines /\ q <= K
          BY <1>1, <1>3, <3>1, <5>1, <5>2
        <5>4. q \in B
          BY <5>3 DEF First
        <5> QED
          BY <5>4 DEF q
      <4> QED
        BY <1>9, <4>1, <4>2
    <3> QED
      BY <1>1, <3>1, <3>2, <3>3
  <2>2. ASSUME NEW n \in A PROVE n \in Bringing(all, i)
    BY <1>1, <1>4, <1>6 DEF Bringing
  <2>3. ASSUME NEW n \in B PROVE m[n] \in Bringing(all, i)
    BY <1>1, <1>3, <1>4, <1>8, <1>9 DEF Bringing, First
  <2> QED
    BY <2>1, <2>2, <2>3
<1>12. A \cap C = {} /\ C \subseteq DOMAIN all
  <2>1. ASSUME NEW n \in B PROVE m[n] \in 1 .. L + K /\ m[n] \notin 1 .. L
    <3>1. n \in 1 .. K /\ m[n] = L + n
      BY <1>8, <1>9
    <3> HIDE DEF m
    <3> QED
      BY <1>1, <3>1
  <2> HIDE DEF A, B, m
  <2> QED
    BY <1>4, <1>6, <2>1
<1> HIDE DEF A, B, g, h, m
<1>13. IsFiniteSet(C) /\ SumFunctionOnSet(h, C) = SumFunctionOnSet(f, B)
  <2>1. C = Shifted(L, B) /\ B \subseteq Int /\ L \in Int
    BY <1>1, <1>8, <1>9 DEF Shifted
  <2>2. \A n \in B : f[n] \in Int /\ h[L + n] = f[n]
    BY <1>9
  <2> HIDE DEF C, L
  <2> QED
    BY <1>8, <2>1, <2>2, SumShifted
<1>14. SumFunctionOnSet(h, A \cup C) = SumFunctionOnSet(h, A) + SumFunctionOnSet(h, C)
  <2>1. \A n \in A \cup C : h[n] \in Int
    BY <1>6, <1>7, <1>12
  <2> HIDE DEF C
  <2> QED
    BY <1>6, <1>12, <1>13, <2>1, SumUnion
<1>15. SumFunctionOnSet(h, A) = SumFunctionOnSet(g, A)
  BY <1>6, SumSame
<1>16. /\ Brought(all, i) = SumFunctionOnSet(h, A \cup C)
       /\ Brought(rs, i) = SumFunctionOnSet(g, A) /\ Brings(lines, K, i) = SumFunctionOnSet(f, B)
  <2> HIDE DEF C
  <2> QED
    BY <1>11 DEF Brought, Brings, f, g, h, A, B
<1>17. B = {} => C = {}
  OBVIOUS
<1>18. \A n \in A : n \in Bringing(all, i) /\ all[n] = rs[n]
  BY <1>4, <1>6, <1>11
<1> HIDE DEF C
<1> QED
  BY <1>11, <1>13, <1>14, <1>15, <1>16, <1>17, <1>18 DEF A, B, all

-----------------------------------------------------------------------------
(* Steps up to the commit.                                                 *)

\* A step that commits nothing: one transaction goes on to t, and who holds a
\* number keeps it.
LEMMA QuietOrders ==
  ASSUME OrdersInv, PurchasesInv', NEW c \in Clerk, NEW t, tx' = [tx EXCEPT ![c] = t],
         UNCHANGED <<orders, received, receipts>>,
         Fits(c, t, orders, received, receipts, counter'),
         \A d \in Clerk \ {c} : \A b \in Branch : counter[b] = d => counter'[b] = d
  PROVE  OrdersInv'
<1>1. UNCHANGED <<orders, received, receipts>>
  OBVIOUS
<1>2. ASSUME NEW d \in Clerk
      PROVE  Fits(d, tx[d], orders, received, receipts, counter)'
  <2>1. CASE d = c
    <3>1. tx'[d] = t
      BY <2>1 DEF OrdersInv, PurchasesInv, PurchasesTypeOK
    <3>2. Fits(d, tx'[d], orders, received, receipts, counter')
      BY <2>1, <3>1
    <3> QED
      BY <1>1, <3>2 DEF Fits, Numbered, Loaded, Computed, Read, Alone, Harmless
  <2>2. CASE d # c
    <3>1. tx'[d] = tx[d] /\ Fits(d, tx[d], orders, received, receipts, counter)
      BY <2>2 DEF OrdersInv, PurchasesInv, PurchasesTypeOK
    <3>2. tx[d].pc \in Busy => tx[d].req.branch \in Branch
      <4>1. PurchasesInv
        BY DEF OrdersInv
      <4> QED
        BY <4>1, TxTyped, ReceiptTyped DEF Busy, Right, Lined
    <3>3. Numbered(d, tx[d], counter')
      BY <2>2, <3>1, <3>2 DEF Fits, Numbered
    <3>4. Fits(d, tx'[d], orders, received, receipts, counter')
      BY <3>1, <3>3 DEF Fits
    <3> QED
      BY <1>1, <3>4 DEF Fits, Numbered, Loaded, Computed, Read, Alone, Harmless
  <2> QED
    BY <2>1, <2>2
<1>3. /\ \A i \in Item : (ItemTold(i, received, receipts) /\ Unplaced(i, orders, received))'
      /\ \A o \in Order : OrderTold(o, orders, received, receipts)'
  BY <1>1 DEF OrdersInv, ItemTold, Unplaced, OrderTold
<1> QED
  BY <1>2, <1>3 DEF OrdersInv

\* A transaction without a receipt has nothing to fit.
LEMMA FitsIdle ==
  ASSUME NEW c, NEW t, t.pc \notin Busy \cup {"number"}, NEW cnt
  PROVE  Fits(c, t, orders, received, receipts, cnt)
BY DEF Fits, Numbered, Loaded, Computed, Read, Alone, Harmless, Busy, Reading

\* What is known of a receipt on its way.
LEMMA FitsKnown ==
  ASSUME OrdersInv, NEW c \in Clerk, tx[c].pc \in Busy \cup {"number"}
  PROVE  /\ PurchasesInv /\ tx[c] \in Tx /\ tx[c].req \in Receipt /\ tx[c].at \in Nat \ {0}
         /\ Fits(c, tx[c], orders, received, receipts, counter)
         /\ tx[c].req.order # NoOrder => /\ tx[c].req.order \in Order
                                         /\ orders[tx[c].req.order].status # "none"
<1>1. /\ PurchasesInv /\ tx[c] \in Tx /\ tx[c].req \in Receipt /\ tx[c].at \in Nat \ {0}
      /\ Fits(c, tx[c], orders, received, receipts, counter)
  BY TxTyped DEF OrdersInv, Right, Lined, Busy
<1> QED
  BY <1>1, ReceiptTyped DEF Fits, Read

\* A receipt at one of its lines fits when its session does.
LEMMA FitsAtLine ==
  ASSUME OrdersInv, NEW c \in Clerk, tx[c].pc \in Busy \cup {"number"},
         NEW t, t.pc \in {"batch", "insert", "row", "item", "flush", "order"},
         t.req = tx[c].req, Loaded(t), Computed(t, receipts), NEW cnt, cnt[t.req.branch] = c
  PROVE  Fits(c, t, orders, received, receipts, cnt)
BY FitsKnown DEF Fits, Numbered, Read, Alone, Harmless, Busy, Reading

\* It goes on within a line.
LEMMA FitsMoved ==
  ASSUME OrdersInv, NEW c \in Clerk, tx[c].pc \in {"number", "batch", "insert", "row"},
         NEW t, t.pc \in {"batch", "insert", "row", "item"},
         t.req = tx[c].req, t.at = tx[c].at, t.loaded = tx[c].loaded, t.got = tx[c].got,
         NEW cnt, cnt[t.req.branch] = c
  PROVE  Fits(c, t, orders, received, receipts, cnt)
<1>1. Fits(c, tx[c], orders, received, receipts, counter) /\ tx[c].pc \in Busy \cup {"number"}
  BY FitsKnown DEF Busy
<1>2. Behind(t) = Behind(tx[c])
  BY DEF Behind
<1>3. Loaded(t)
  BY <1>1, <1>2 DEF Fits, Loaded, Busy
<1>4. tx[c].pc = "number" => tx[c].loaded = {}
  <2> SUFFICES ASSUME tx[c].pc = "number" PROVE tx[c].loaded = {}
    OBVIOUS
  <2>1. Behind(tx[c]) = 0 /\ tx[c].loaded = {i \in Item : First(tx[c].req.lines, Behind(tx[c]), i) # {}}
    BY <1>1 DEF Fits, Loaded, Behind
  <2>2. DOMAIN tx[c].req.lines = 1 .. Len(tx[c].req.lines) /\ Len(tx[c].req.lines) \in Nat
    BY <1>1, FitsKnown, ReceiptTyped
  <2>3. \A i : First(tx[c].req.lines, 0, i) = {}
    BY <2>2 DEF First
  <2> QED
    BY <2>1, <2>3
<1>5. Computed(t, receipts)
  BY <1>1, <1>2, <1>4 DEF Fits, Computed, Busy
<1> QED
  BY <1>1, <1>3, <1>5, FitsAtLine

LEMMA OrdersTakeNumber ==
  ASSUME OrdersInv, PurchasesInv', NEW c \in Clerk, TakeNumber(c)
  PROVE  OrdersInv'
<1> DEFINE t == [tx[c] EXCEPT !.pc = "batch"]
<1>1. tx' = [tx EXCEPT ![c] = t] /\ UNCHANGED Books /\ tx[c].pc = "number"
  BY DEF TakeNumber, Go
<1>2. /\ tx[c] \in Tx /\ tx[c].req \in Receipt /\ tx[c].req.branch \in Branch
      /\ counter \in [Branch -> Clerk \cup {NoOne}] /\ NoOne \notin Clerk
  BY <1>1, FitsKnown, ReceiptTyped, PurchasesAssumption DEF PurchasesInv, PurchasesTypeOK
<1>3. /\ counter'[tx[c].req.branch] = c
      /\ \A d \in Clerk \ {c} : \A b \in Branch : counter[b] = d => counter'[b] = d
  BY <1>2 DEF TakeNumber, Req
<1>4. /\ t.pc = "batch" /\ t.req = tx[c].req /\ t.at = tx[c].at /\ t.loaded = tx[c].loaded
      /\ t.got = tx[c].got
  BY <1>2 DEF Tx
<1> HIDE DEF t
<1>5. Fits(c, t, orders, received, receipts, counter')
  BY <1>1, <1>3, <1>4, FitsMoved
<1> QED
  BY <1>1, <1>3, <1>5, QuietOrders DEF Books

\* The number is kept by all steps that leave the counters alone.
LEMMA Kept ==
  ASSUME OrdersInv, NEW c \in Clerk, tx[c].pc \in Busy, counter' = counter
  PROVE  /\ counter'[tx[c].req.branch] = c /\ tx[c] \in Tx
         /\ \A d \in Clerk \ {c} : \A b \in Branch : counter[b] = d => counter'[b] = d
BY FitsKnown DEF Fits, Numbered

LEMMA OrdersWithinLine ==
  ASSUME OrdersInv, PurchasesInv', NEW c \in Clerk, FindBatch(c) \/ InsertBatch(c) \/ LockRow(c)
  PROVE  OrdersInv'
<1>1. tx[c].pc \in {"batch", "insert", "row"} /\ UNCHANGED Books /\ counter' = counter
  BY DEF FindBatch, InsertBatch, LockRow, Locks
<1>2. /\ counter'[tx[c].req.branch] = c /\ tx[c] \in Tx /\ tx \in [Clerk -> Tx]
      /\ \A d \in Clerk \ {c} : \A b \in Branch : counter[b] = d => counter'[b] = d
  BY <1>1, Kept DEF Busy, OrdersInv, PurchasesInv, PurchasesTypeOK
<1>3. \E pc \in {"batch", "insert", "row", "item"} : \E new :
        tx' = [tx EXCEPT ![c] = [tx[c] EXCEPT !.pc = pc, !.new = new]]
  <2>1. ASSUME NEW pc \in {"batch", "insert", "row", "item"}, Go(c, pc)
        PROVE  tx' = [tx EXCEPT ![c] = [tx[c] EXCEPT !.pc = pc, !.new = tx[c].new]]
    <3>1. [tx[c] EXCEPT !.pc = pc] = [tx[c] EXCEPT !.pc = pc, !.new = tx[c].new]
      BY <1>2 DEF Tx
    <3> QED
      BY <2>1, <3>1 DEF Go
  <2>2. FindBatch(c) => Go(c, "row") \/ Go(c, "insert")
    BY DEF FindBatch
  <2>3. LockRow(c) => Go(c, "item")
    BY DEF LockRow
  <2>4. CASE FindBatch(c) \/ LockRow(c)
    BY <2>1, <2>2, <2>3, <2>4
  <2>5. CASE InsertBatch(c)
    <3>1. tx' = [tx EXCEPT ![c] = [tx[c] EXCEPT !.pc = "row",
                                   !.new = tx[c].new \cup {LineOf(c).row}]]
      BY <1>2, <2>5 DEF InsertBatch
    <3> QED
      BY <3>1
  <2> QED
    BY <2>4, <2>5
<1>4. PICK u : /\ tx' = [tx EXCEPT ![c] = u] /\ u.pc \in {"batch", "insert", "row", "item"}
               /\ u.req = tx[c].req /\ u.at = tx[c].at /\ u.loaded = tx[c].loaded
               /\ u.got = tx[c].got
  <2>1. PICK pc \in {"batch", "insert", "row", "item"} : \E new :
          tx' = [tx EXCEPT ![c] = [tx[c] EXCEPT !.pc = pc, !.new = new]]
    BY <1>3
  <2>2. PICK new : tx' = [tx EXCEPT ![c] = [tx[c] EXCEPT !.pc = pc, !.new = new]]
    BY <2>1
  <2> DEFINE u == [tx[c] EXCEPT !.pc = pc, !.new = new]
  <2>3. /\ u.pc = pc /\ u.req = tx[c].req /\ u.at = tx[c].at /\ u.loaded = tx[c].loaded
        /\ u.got = tx[c].got
    BY <1>2 DEF Tx
  <2>4. tx' = [tx EXCEPT ![c] = u]
    BY <2>2
  <2> HIDE DEF u
  <2> QED
    BY <2>3, <2>4
<1>5. Fits(c, u, orders, received, receipts, counter')
  BY <1>1, <1>2, <1>4, FitsMoved
<1> QED
  BY <1>1, <1>2, <1>4, <1>5, QuietOrders DEF Books

\* One line more is behind.
LEMMA LineBehind ==
  ASSUME NEW r \in Receipt, NEW k \in DOMAIN r.lines
  PROVE  /\ k \in Nat /\ k - 1 \in Int /\ Quantity(r.lines[k]) \in Nat /\ Quantity(r.lines[k]) > 0
         /\ \A j : First(r.lines, k, j) # {} <=>
                     First(r.lines, k - 1, j) # {} \/ r.lines[k].item = j
<1>1. DOMAIN r.lines = 1 .. Len(r.lines) /\ Len(r.lines) \in Nat /\ r.lines[k] \in Lines
  BY ReceiptTyped
<1>2. k \in Nat /\ k - 1 \in Int /\ \A n \in DOMAIN r.lines : n <= k <=> n <= k - 1 \/ n = k
  BY <1>1
<1>3. Quantity(r.lines[k]) \in Nat /\ Quantity(r.lines[k]) > 0
  BY <1>1 DEF Quantity, Lines
<1> QED
  BY <1>2, <1>3 DEF First

LEMMA OrdersReadItem ==
  ASSUME OrdersInv, PurchasesInv', NEW c \in Clerk, ReadItem(c)
  PROVE  OrdersInv'
<1> DEFINE i == LineOf(c).item
           r == tx[c].req
           k == tx[c].at
<1>1. tx[c].pc = "item" /\ UNCHANGED Books /\ counter' = counter /\ tx \in [Clerk -> Tx]
  BY DEF ReadItem, Locks, OrdersInv, PurchasesInv, PurchasesTypeOK
<1>2. /\ counter'[r.branch] = c /\ tx[c] \in Tx
      /\ \A d \in Clerk \ {c} : \A b \in Branch : counter[b] = d => counter'[b] = d
  BY <1>1, Kept DEF Busy
<1>3. PurchasesInv /\ r \in Receipt /\ Fits(c, tx[c], orders, received, receipts, counter)
  BY <1>1, FitsKnown DEF Busy
<1>4. k \in DOMAIN r.lines /\ k \in Nat /\ r.lines[k].item = i /\ Len(r.lines) \in Nat
      /\ DOMAIN r.lines = 1 .. Len(r.lines)
  BY <1>1, <1>3, LineTyped DEF Lined, Req, LineOf
<1>5. /\ Behind(tx[c]) = k - 1 /\ tx[c].loaded \subseteq Item /\ tx[c].got \in [Item -> Nat]
      /\ tx[c].loaded = {j \in Item : First(r.lines, k - 1, j) # {}}
      /\ \A j \in tx[c].loaded : tx[c].got[j] > 0
      /\ \A j \in tx[c].loaded : ItemFrom(receipts, j, r.branch) =>
           tx[c].got[j] = Brought(receipts, j) + Brings(r.lines, k - 1, j)
  BY <1>1, <1>3, TxTyped DEF Fits, Loaded, Computed, Behind, Busy
<1>6. CASE i = NoItem
  <2> DEFINE t == [tx[c] EXCEPT !.pc = After(c), !.at = @ + 1]
  <2>1. tx' = [tx EXCEPT ![c] = t]
    BY <1>1, <1>6 DEF ReadItem
  <2>2. /\ t.pc = After(c) /\ t.at = k + 1 /\ t.req = r /\ t.loaded = tx[c].loaded
        /\ t.got = tx[c].got
    BY <1>2 DEF Tx
  <2>3. t.pc \in {"batch", "order"} /\ Behind(t) = k
    <3>1. CASE k < Len(r.lines)
      BY <1>4, <2>2, <3>1 DEF After, Req, Behind
    <3>2. CASE ~(k < Len(r.lines))
      BY <1>4, <2>2, <3>2 DEF After, Req, Behind
    <3> QED
      BY <3>1, <3>2
  <2> HIDE DEF t
  <2>4. \A j \in Item : /\ First(r.lines, k, j) # {} <=> First(r.lines, k - 1, j) # {}
                        /\ Brings(r.lines, k, j) = Brings(r.lines, k - 1, j)
    BY <1>3, <1>4, <1>6, LineBehind, BringsStep, PurchasesAssumption
  <2>5. Loaded(t)
    BY <1>5, <2>2, <2>3, <2>4 DEF Loaded
  <2>6. Computed(t, receipts)
    BY <1>5, <2>2, <2>3, <2>4 DEF Computed
  <2>7. Fits(c, t, orders, received, receipts, counter')
    BY <1>1, <1>2, <2>2, <2>3, <2>5, <2>6, FitsAtLine DEF Busy
  <2> QED
    BY <1>1, <1>2, <2>1, <2>7, QuietOrders DEF Books
<1>7. CASE i # NoItem
  <2> DEFINE q == Quantity(LineOf(c))
             sum == Raised(c, i, q)
             got == [tx[c].got EXCEPT ![i] = sum]
             loaded == tx[c].loaded \cup {i}
             t == [tx[c] EXCEPT !.pc = "flush", !.loaded = loaded, !.got = got]
  <2>1. tx' = [tx EXCEPT ![c] = t]
    BY <1>1, <1>2, <1>7 DEF ReadItem, Tx
  <2>2. t.pc = "flush" /\ t.at = k /\ t.req = r /\ t.loaded = loaded /\ t.got = got
    BY <1>2 DEF Tx
  <2> HIDE DEF t
  <2>3. i \in Item /\ q \in Nat /\ q > 0 /\ Behind(t) = k
    BY <1>3, <1>4, <1>7, <2>2, LineBehind, ReceiptTyped DEF Behind, LineOf, Req
  <2>4. /\ \A j \in Item : First(r.lines, k, j) # {} <=> First(r.lines, k - 1, j) # {} \/ j = i
        /\ Brings(r.lines, k, i) = Brings(r.lines, k - 1, i) + q
        /\ \A j \in Item : j # i => Brings(r.lines, k, j) = Brings(r.lines, k - 1, j)
    <3>1. q = Quantity(r.lines[k])
      BY DEF LineOf, Req
    <3> DEFINE ls == r.lines
    <3>2. r \in Receipt /\ k \in DOMAIN ls /\ ls[k].item = i /\ q = Quantity(ls[k])
      BY <1>3, <1>4, <3>1
    <3>3. \A j \in Item : First(ls, k, j) # {} <=> First(ls, k - 1, j) # {} \/ j = i
      BY <3>2, LineBehind
    <3>4. ASSUME NEW j
          PROVE  /\ ls[k].item = j => Brings(ls, k, j) = Brings(ls, k - 1, j) + Quantity(ls[k])
                 /\ ls[k].item # j => Brings(ls, k, j) = Brings(ls, k - 1, j)
      BY <3>2, BringsStep, Zenon
    <3> HIDE DEF i, r, k, q, ls
    <3>5. \A j : /\ i = j => Brings(ls, k, j) = Brings(ls, k - 1, j) + q
                 /\ i # j => Brings(ls, k, j) = Brings(ls, k - 1, j)
      BY ONLY <3>2, <3>4
    <3> QED
      BY ONLY <3>3, <3>5, <3>2 DEF ls
  <2>5. received \in [Item -> Nat] /\ received[i] \in Nat
    BY <1>3, <2>3 DEF PurchasesInv, PurchasesTypeOK
  <2>6. /\ i \in tx[c].loaded => sum = tx[c].got[i] + q /\ tx[c].got[i] \in Nat
        /\ i \notin tx[c].loaded => sum = received[i] + q
    BY <1>5, <2>3 DEF Raised, Seen
  <2>7. got[i] = sum /\ \A j \in Item : j # i => got[j] = tx[c].got[j]
    BY <1>5, <2>3
  <2> HIDE DEF sum, got, q
  <2>8. Loaded(t)
    <3>1. loaded = {j \in Item : First(r.lines, k, j) # {}}
      BY <1>5, <2>3, <2>4
    <3>2. \A j \in loaded : got[j] > 0
      BY <1>5, <2>3, <2>5, <2>6, <2>7
    <3> QED
      BY <2>2, <2>3, <3>1, <3>2 DEF Loaded
  <2>9. ASSUME NEW j \in loaded, ItemFrom(receipts, j, r.branch)
        PROVE  got[j] = Brought(receipts, j) + Brings(r.lines, k, j)
    <3>1. CASE j # i
      BY <1>5, <2>4, <2>7, <2>9, <3>1
    <3>2. CASE j = i /\ i \in tx[c].loaded
      <4>1. receipts \in Seq(Posting) /\ k - 1 \in Int
        BY <1>3, <1>4 DEF PurchasesInv, PurchasesTypeOK, Posting
      <4>2. Brought(receipts, i) \in Nat /\ Brings(r.lines, k - 1, i) \in Nat
        BY <1>3, <4>1, BroughtTyped, BringsStep
      <4>3. tx[c].got[i] = Brought(receipts, i) + Brings(r.lines, k - 1, i)
        BY <1>5, <2>9, <3>2
      <4> QED
        BY <2>3, <2>4, <2>6, <2>7, <3>2, <4>2, <4>3
    <3>3. CASE j = i /\ i \notin tx[c].loaded
      <4>1. First(r.lines, k - 1, i) = {} /\ k - 1 \in Int
        BY <1>4, <1>5, <2>3, <3>3
      <4>2. Brings(r.lines, k - 1, i) = 0
        BY <1>3, <4>1, BringsStep
      <4>3. ItemOnce(receipts, i)
        BY <2>9, <3>3 DEF ItemFrom, ItemOnce
      <4>4. received[i] = Brought(receipts, i)
        BY <2>3, <4>3 DEF OrdersInv, ItemTold
      <4> QED
        BY <2>3, <2>4, <2>5, <2>6, <2>7, <3>3, <4>2, <4>4
    <3> QED
      BY <3>1, <3>2, <3>3
  <2>10. Computed(t, receipts)
    BY <2>2, <2>3, <2>9 DEF Computed
  <2>11. Fits(c, t, orders, received, receipts, counter')
    BY <1>1, <1>2, <2>2, <2>8, <2>10, FitsAtLine DEF Busy
  <2> QED
    BY <1>1, <1>2, <2>1, <2>11, QuietOrders DEF Books
<1> QED
  BY <1>6, <1>7

LEMMA OrdersFlushItem ==
  ASSUME OrdersInv, PurchasesInv', NEW c \in Clerk, FlushItem(c)
  PROVE  OrdersInv'
<1> DEFINE t == [tx[c] EXCEPT !.pc = After(c), !.at = @ + 1]
<1>1. tx' = [tx EXCEPT ![c] = t] /\ UNCHANGED Books /\ tx[c].pc = "flush" /\ counter' = counter
  BY DEF FlushItem, OrdersInv, PurchasesInv, PurchasesTypeOK
<1>2. /\ counter'[tx[c].req.branch] = c /\ tx[c] \in Tx
      /\ \A d \in Clerk \ {c} : \A b \in Branch : counter[b] = d => counter'[b] = d
  BY <1>1, Kept DEF Busy
<1>3. PurchasesInv /\ Fits(c, tx[c], orders, received, receipts, counter)
  BY <1>1, FitsKnown DEF Busy
<1>4. tx[c].at \in Nat /\ Len(tx[c].req.lines) \in Nat /\ tx[c].at <= Len(tx[c].req.lines)
  BY <1>1, <1>3, LineTyped DEF Lined, Req
<1>5. /\ t.pc = After(c) /\ t.at = tx[c].at + 1 /\ t.req = tx[c].req /\ t.loaded = tx[c].loaded
      /\ t.got = tx[c].got
  BY <1>2 DEF Tx
<1>6. t.pc \in {"batch", "order"} /\ Behind(t) = tx[c].at /\ Behind(tx[c]) = tx[c].at
  <2>1. CASE tx[c].at < Len(tx[c].req.lines)
    BY <1>1, <1>4, <1>5, <2>1 DEF After, Req, Behind
  <2>2. CASE ~(tx[c].at < Len(tx[c].req.lines))
    BY <1>1, <1>4, <1>5, <2>2 DEF After, Req, Behind
  <2> QED
    BY <2>1, <2>2
<1> HIDE DEF t
<1>7. Loaded(t) /\ Computed(t, receipts)
  BY <1>1, <1>3, <1>5, <1>6 DEF Fits, Loaded, Computed, Busy
<1>8. Fits(c, t, orders, received, receipts, counter')
  BY <1>1, <1>2, <1>5, <1>6, <1>7, FitsAtLine DEF Busy
<1> QED
  BY <1>1, <1>2, <1>8, QuietOrders DEF Books

\* A status that says what the items say stays what it is.
LEMMA ProgressStays ==
  ASSUME NEW o \in Order, Asks(o), NEW rec \in [Item -> Nat], NEW s \in Status, s # "none",
         s = "received" <=> \A i \in ItemsOf(o) : rec[i] >= Ordered[i],
         s = "confirmed" <=> \A i \in ItemsOf(o) : rec[i] = 0
  PROVE  Progress(o, rec, s) = s
<1>1. ItemsOf(o) # {} /\ \A i \in ItemsOf(o) : rec[i] \in Nat
  BY DEF Asks, ItemsOf
<1>2. (\A i \in ItemsOf(o) : rec[i] = 0) <=> ~\E i \in ItemsOf(o) : rec[i] > 0
  BY <1>1
<1> QED
  BY <1>1, <1>2 DEF Progress, Status

\* Once something has come, the new status says what the items say.
LEMMA ProgressTells ==
  ASSUME NEW o \in Order, NEW rec \in [Item -> Nat], NEW s, NEW k \in ItemsOf(o), rec[k] > 0
  PROVE  /\ Progress(o, rec, s) \in {"received", "partially_received"}
         /\ Progress(o, rec, s) = "received" <=> \A i \in ItemsOf(o) : rec[i] >= Ordered[i]
         /\ ~\A i \in ItemsOf(o) : rec[i] = 0
BY DEF Progress

\* It depends on the items of the order alone.
LEMMA ProgressSame ==
  ASSUME NEW o, NEW rec, NEW other, NEW s, \A i \in ItemsOf(o) : rec[i] = other[i]
  PROVE  Progress(o, rec, s) = Progress(o, other, s)
BY Zenon DEF Progress

LEMMA OrdersReadOrder ==
  ASSUME OrdersInv, PurchasesInv', NEW c \in Clerk, ReadOrder(c)
  PROVE  OrdersInv'
<1> DEFINE o == tx[c].req.order
<1>1. tx[c].pc = "order" /\ UNCHANGED Books /\ counter' = counter /\ tx \in [Clerk -> Tx]
  BY DEF ReadOrder, Locks, OrdersInv, PurchasesInv, PurchasesTypeOK
<1>2. /\ counter'[tx[c].req.branch] = c /\ tx[c] \in Tx
      /\ \A d \in Clerk \ {c} : \A b \in Branch : counter[b] = d => counter'[b] = d
  BY <1>1, Kept DEF Busy
<1>3. /\ PurchasesInv /\ Fits(c, tx[c], orders, received, receipts, counter)
      /\ o # NoOrder => o \in Order /\ orders[o].status # "none"
  BY <1>1, FitsKnown DEF Busy
<1>4. CASE o = NoOrder
  <2> DEFINE t == [tx[c] EXCEPT !.pc = "commit"]
  <2>1. tx' = [tx EXCEPT ![c] = t]
    BY <1>4 DEF ReadOrder, Go, Req
  <2>2. /\ t.pc = "commit" /\ t.req = tx[c].req /\ t.loaded = tx[c].loaded /\ t.got = tx[c].got
    BY <1>2 DEF Tx
  <2> HIDE DEF t
  <2>3. Behind(t) = Behind(tx[c])
    BY <1>1, <2>2 DEF Behind
  <2>4. Fits(c, t, orders, received, receipts, counter')
    BY <1>1, <1>2, <1>3, <1>4, <2>2, <2>3
       DEF Fits, Numbered, Loaded, Computed, Read, Alone, Harmless, Busy, Reading
  <2> QED
    BY <1>1, <1>2, <2>1, <2>4, QuietOrders DEF Books
<1>5. CASE o # NoOrder
  <2> DEFINE seen == orders[o]
             t == [tx[c] EXCEPT !.pc = "tally", !.seen = seen]
  <2>1. tx' = [tx EXCEPT ![c] = t]
    BY <1>1, <1>5 DEF ReadOrder, Req
  <2>2. /\ t.pc = "tally" /\ t.req = tx[c].req /\ t.loaded = tx[c].loaded /\ t.got = tx[c].got
        /\ t.seen = seen
    BY <1>2 DEF Tx
  <2>3. seen.version \in Nat
    BY <1>3, <1>5 DEF PurchasesInv, PurchasesTypeOK
  <2> HIDE DEF t
  <2>4. Behind(t) = Behind(tx[c]) /\ seen.version <= orders[o].version
    BY <1>1, <2>2, <2>3 DEF Behind
  <2>5. Numbered(c, t, counter') /\ Loaded(t) /\ Computed(t, receipts)
    BY <1>1, <1>2, <1>3, <2>2, <2>4 DEF Fits, Numbered, Loaded, Computed, Busy
  <2>6. Read(t, orders) /\ Alone(t, orders, received, receipts) /\ Harmless(t, orders, receipts)
    BY <1>3, <1>5, <2>2, <2>4 DEF Read, Alone, Harmless, Busy, Reading
  <2> QED
    BY <1>1, <1>2, <2>1, <2>5, <2>6, QuietOrders DEF Books, Fits
<1> QED
  BY <1>4, <1>5

LEMMA OrdersTally ==
  ASSUME OrdersInv, PurchasesInv', NEW c \in Clerk, Tally(c)
  PROVE  OrdersInv'
<1> DEFINE o == tx[c].req.order
           status == Progress(o, [i \in Item |-> Seen(c, i)], tx[c].seen.status)
           t == [tx[c] EXCEPT !.pc = "commit", !.status = status]
<1>1. tx[c].pc = "tally" /\ UNCHANGED Books /\ counter' = counter /\ tx' = [tx EXCEPT ![c] = t]
  BY DEF Tally, Locks, Req, OrdersInv, PurchasesInv, PurchasesTypeOK
<1>2. /\ counter'[tx[c].req.branch] = c /\ tx[c] \in Tx
      /\ \A d \in Clerk \ {c} : \A b \in Branch : counter[b] = d => counter'[b] = d
  BY <1>1, Kept DEF Busy
<1>3. /\ PurchasesInv /\ Fits(c, tx[c], orders, received, receipts, counter)
      /\ o # NoOrder => o \in Order /\ orders[o].status # "none"
  BY <1>1, FitsKnown DEF Busy
<1>4. /\ t.pc = "commit" /\ t.req = tx[c].req /\ t.loaded = tx[c].loaded /\ t.got = tx[c].got
      /\ t.seen = tx[c].seen /\ t.status = status
  BY <1>2 DEF Tx
<1>5. [i \in Item |-> Seen(c, i)] = SeenOf(t, received)
  BY <1>4 DEF Seen, SeenOf
<1>6. status \in {"received", "partially_received", tx[c].seen.status}
  BY DEF Progress
<1>7. status = Progress(o, SeenOf(t, received), tx[c].seen.status)
  BY <1>5
<1> HIDE DEF t, status
<1>8. Behind(t) = Behind(tx[c])
  BY <1>1, <1>4 DEF Behind
<1>9. Numbered(c, t, counter') /\ Loaded(t) /\ Computed(t, receipts)
  BY <1>1, <1>2, <1>3, <1>4, <1>8 DEF Fits, Numbered, Loaded, Computed, Busy
<1>10. Read(t, orders)
  BY <1>1, <1>3, <1>4, <1>6 DEF Fits, Read, Busy, Reading
<1>11. Alone(t, orders, received, receipts)
  BY <1>1, <1>3, <1>4, <1>7 DEF Fits, Alone, Reading
<1>12. Harmless(t, orders, receipts)
  <2> SUFFICES ASSUME o # NoOrder, Asks(o), t.loaded = {}, OrderOnce(receipts, o),
                      tx[c].seen.version = orders[o].version
               PROVE  status = tx[c].seen.status
    BY <1>4 DEF Harmless
  <2>1. tx[c].seen = orders[o] /\ o \in Order
    BY <1>1, <1>3 DEF Fits, Read, Busy, Reading
  <2>2. received \in [Item -> Nat] /\ orders[o].status \in Status /\ orders[o].status # "none"
    BY <1>3, <2>1 DEF PurchasesInv, PurchasesTypeOK
  <2>3. SeenOf(t, received) = received
    BY <2>2 DEF SeenOf
  <2>4. /\ orders[o].status = "received" <=> \A i \in ItemsOf(o) : received[i] >= Ordered[i]
        /\ orders[o].status = "confirmed" <=> \A i \in ItemsOf(o) : received[i] = 0
    BY <2>1, <2>2 DEF OrdersInv, OrderTold
  <2>5. Progress(o, received, orders[o].status) = orders[o].status
    BY <2>1, <2>2, <2>4, ProgressStays
  <2> QED
    BY <1>7, <2>1, <2>3, <2>5
<1> QED
  BY <1>1, <1>2, <1>9, <1>10, <1>11, <1>12, QuietOrders DEF Books, Fits

-----------------------------------------------------------------------------
(* Beginnings, ends and invoices.                                          *)

LEMMA OrdersRelease ==
  ASSUME OrdersInv, PurchasesInv', NEW c \in Clerk, Release(c),
         UNCHANGED <<orders, received, receipts>>
  PROVE  OrdersInv'
<1>1. tx' = [tx EXCEPT ![c] = Idle] /\ counter \in [Branch -> Clerk \cup {NoOne}]
  BY DEF Release, OrdersInv, PurchasesInv, PurchasesTypeOK
<1>2. \A d \in Clerk \ {c} : \A b \in Branch : counter[b] = d => counter'[b] = d
  BY <1>1 DEF Release
<1>3. Idle.pc \notin Busy \cup {"number"}
  BY DEF Idle, Busy
<1>4. Fits(c, Idle, orders, received, receipts, counter')
  BY <1>3, FitsIdle
<1> QED
  BY <1>1, <1>2, <1>4, QuietOrders

LEMMA OrdersBeginReceipt ==
  ASSUME OrdersInv, PurchasesInv', NEW c \in Clerk, BeginReceipt(c)
  PROVE  OrdersInv'
<1>1. PICK r \in Receipt :
        /\ r.order # NoOrder => orders[r.order].status # "none"
        /\ tx' = [tx EXCEPT ![c] = [Idle EXCEPT !.pc = "number", !.req = r]]
  BY DEF BeginReceipt
<1> DEFINE t == [Idle EXCEPT !.pc = "number", !.req = r]
<1>2. t.pc = "number" /\ t.req = r /\ t.at = 1 /\ t.loaded = {}
  BY DEF Idle
<1>3. tx' = [tx EXCEPT ![c] = t]
  BY <1>1
<1>4. UNCHANGED <<orders, received, receipts>> /\ counter' = counter
  BY DEF BeginReceipt, Books, Locks
<1> HIDE DEF t
<1>5. Behind(t) = 0 /\ DOMAIN r.lines = 1 .. Len(r.lines) /\ Len(r.lines) \in Nat
  BY <1>2, ReceiptTyped DEF Behind
<1>6. \A i : First(r.lines, 0, i) = {}
  BY <1>5 DEF First
<1>7. Loaded(t)
  BY <1>2, <1>5, <1>6 DEF Loaded
<1>8. Fits(c, t, orders, received, receipts, counter')
  BY <1>1, <1>2, <1>7 DEF Fits, Numbered, Computed, Read, Alone, Harmless, Busy, Reading
<1> QED
  BY <1>3, <1>4, <1>8, QuietOrders

LEMMA OrdersBill ==
  ASSUME OrdersInv, PurchasesInv', NEW c \in Clerk, BeginBill(c) \/ InsertBill(c)
  PROVE  OrdersInv'
<1>1. UNCHANGED <<orders, received, receipts, counter>>
  BY DEF BeginBill, InsertBill, Books, Locks
<1>2. \E t : tx' = [tx EXCEPT ![c] = t] /\ t.pc \in {"bill", "recorded"}
  <2>1. CASE BeginBill(c)
    <3>1. PICK b \in SupplierBill : tx' = [tx EXCEPT ![c] = [Idle EXCEPT !.pc = "bill", !.bill = b]]
      BY <2>1 DEF BeginBill
    <3> DEFINE t == [Idle EXCEPT !.pc = "bill", !.bill = b]
    <3>2. t.pc = "bill" /\ tx' = [tx EXCEPT ![c] = t]
      BY <3>1 DEF Idle
    <3> QED
      BY <3>2
  <2>2. CASE InsertBill(c)
    <3> DEFINE t == [tx[c] EXCEPT !.pc = "recorded"]
    <3>1. tx[c] \in Tx
      BY DEF OrdersInv, PurchasesInv, PurchasesTypeOK
    <3>2. t.pc = "recorded" /\ tx' = [tx EXCEPT ![c] = t]
      BY <2>2, <3>1 DEF InsertBill, Go, Tx
    <3> QED
      BY <3>2
  <2> QED
    BY <2>1, <2>2
<1>3. PICK t : tx' = [tx EXCEPT ![c] = t] /\ t.pc \in {"bill", "recorded"}
  BY <1>2
<1>4. Fits(c, t, orders, received, receipts, counter')
  BY <1>3, FitsIdle DEF Busy
<1> QED
  BY <1>1, <1>3, <1>4, QuietOrders

LEMMA OrdersPlaceOrder ==
  ASSUME OrdersInv, PurchasesInv', NEW o \in Order, PlaceOrder(o)
  PROVE  OrdersInv'
<1>1. /\ orders[o].status = "none" /\ orders' = [orders EXCEPT ![o].status = "confirmed"]
      /\ UNCHANGED <<received, receipts, counter, tx>>
  BY DEF PlaceOrder, Locks
<1>2. /\ orders \in [Order -> [status : Status, version : Nat]] /\ received \in [Item -> Nat]
      /\ PurchasesInv
  BY DEF OrdersInv, PurchasesInv, PurchasesTypeOK
<1>3. orders'[o].status = "confirmed" /\ \A p \in Order : p # o => orders'[p] = orders[p]
  BY <1>1, <1>2
<1>4. \A i \in ItemsOf(o) : received[i] = 0
  BY <1>1 DEF OrdersInv, Unplaced, ItemsOf
<1>5. Asks(o) => ~\A i \in ItemsOf(o) : received[i] >= Ordered[i]
  <2> SUFFICES ASSUME NEW i \in ItemsOf(o), Ordered[i] > 0 PROVE ~(received[i] >= Ordered[i])
    BY DEF Asks
  <2>1. Ordered[i] \in Nat /\ received[i] = 0
    BY <1>4, PurchasesAssumption DEF ItemsOf
  <2> QED
    BY <2>1
<1>6. OrderTold(o, orders', received, receipts)
  BY <1>3, <1>4, <1>5 DEF OrderTold
<1>7. \A p \in Order : OrderTold(p, orders, received, receipts)'
  BY <1>1, <1>3, <1>6 DEF OrdersInv, OrderTold
<1>8. \A i \in Item : (ItemTold(i, received, receipts) /\ Unplaced(i, orders, received))'
  <2>1. \A i \in Item : OrderOf[i] \in Order
    BY PurchasesAssumption
  <2> QED
    BY <1>1, <1>3, <2>1 DEF OrdersInv, ItemTold, Unplaced
<1>9. ASSUME NEW d \in Clerk PROVE Fits(d, tx[d], orders, received, receipts, counter)'
  <2>1. CASE tx[d].pc \in Busy \cup {"number"} /\ tx[d].req.order # NoOrder
    <3>1. orders'[tx[d].req.order] = orders[tx[d].req.order]
      BY <1>1, <1>3, <2>1, FitsKnown
    <3>2. Fits(d, tx[d], orders, received, receipts, counter)
      BY DEF OrdersInv
    <3>3. Fits(d, tx[d], orders', received, receipts, counter)
      BY <3>1, <3>2 DEF Fits, Read, Alone, Harmless
    <3> QED
      BY <1>1, <3>3 DEF Fits, Numbered, Loaded, Computed, Read, Alone, Harmless
  <2>2. CASE ~(tx[d].pc \in Busy \cup {"number"} /\ tx[d].req.order # NoOrder)
    <3>1. Fits(d, tx[d], orders, received, receipts, counter)
      BY DEF OrdersInv
    <3>2. Fits(d, tx[d], orders', received, receipts, counter)
      BY <2>2, <3>1 DEF Fits, Read, Alone, Harmless, Busy, Reading
    <3> QED
      BY <1>1, <3>2 DEF Fits, Numbered, Loaded, Computed, Read, Alone, Harmless
  <2> QED
    BY <2>1, <2>2
<1> QED
  BY <1>7, <1>8, <1>9 DEF OrdersInv

-----------------------------------------------------------------------------
(* The commit.                                                             *)

\* What a commit does to the items the receipt brings, to the other ones, and
\* to the orders.
LEMMA Committed ==
  ASSUME OrdersInv, PurchasesInv', NEW c \in Clerk, CommitReceipt(c)
  PROVE  LET r == tx[c].req IN
         /\ r \in Receipt /\ tx[c].loaded \subseteq Item /\ received' = SeenOf(tx[c], received)
         /\ received' \in [Item -> Nat]
         /\ \A i \in Item \ tx[c].loaded :
              /\ received'[i] = received[i] /\ Brought(receipts', i) = Brought(receipts, i)
              /\ Bringing(receipts', i) = Bringing(receipts, i)
         /\ \A i \in Item : \A n \in Bringing(receipts, i) :
              n \in Bringing(receipts', i) /\ receipts'[n] = receipts[n]
         /\ \A i \in tx[c].loaded :
              /\ OrderOf[i] = r.order /\ received'[i] > 0
              /\ \E n \in Bringing(receipts', i) : receipts'[n].branch = r.branch
              /\ ItemFrom(receipts, i, r.branch) => received'[i] = Brought(receipts', i)
<1> DEFINE r == tx[c].req
           K == Len(r.lines)
<1>1. /\ tx[c].pc = "commit" /\ received' = [i \in Item |-> Seen(c, i)]
      /\ receipts' = receipts \o Posted(r)
  BY DEF CommitReceipt, Req
<1>2. /\ PurchasesInv /\ tx[c] \in Tx /\ r \in Receipt
      /\ Fits(c, tx[c], orders, received, receipts, counter)
  BY <1>1, FitsKnown DEF Busy
<1>3. receipts \in Seq(Posting) /\ received' \in [Item -> Nat]
  BY <1>2 DEF PurchasesInv, PurchasesTypeOK, Posting
<1>4. /\ tx[c].loaded = {i \in Item : First(r.lines, K, i) # {}}
      /\ \A i \in tx[c].loaded : tx[c].got[i] > 0
      /\ \A i \in tx[c].loaded : ItemFrom(receipts, i, r.branch) =>
           tx[c].got[i] = Brought(receipts, i) + Brings(r.lines, K, i)
  BY <1>1, <1>2 DEF Fits, Loaded, Computed, Behind, Busy
<1>5. received' = SeenOf(tx[c], received)
  BY <1>1 DEF Seen, SeenOf
<1>6. ASSUME NEW i \in Item \ tx[c].loaded
      PROVE  /\ received'[i] = received[i] /\ Brought(receipts', i) = Brought(receipts, i)
             /\ Bringing(receipts', i) = Bringing(receipts, i)
  <2>1. First(r.lines, K, i) = {} /\ K \in Int
    BY <1>2, <1>4, ReceiptTyped
  <2>2. Brings(r.lines, K, i) = 0 /\ Brought(receipts, i) \in Nat
    BY <1>2, <1>3, <2>1, BringsStep, BroughtTyped
  <2>3. /\ Brought(receipts', i) = Brought(receipts, i) + Brings(r.lines, K, i)
        /\ Bringing(receipts', i) = Bringing(receipts, i)
    BY <1>1, <1>2, <1>3, <2>1, BroughtGrows
  <2>4. received'[i] = received[i]
    BY <1>5 DEF SeenOf
  <2> QED
    BY <2>2, <2>3, <2>4
<1>7. ASSUME NEW i \in Item, NEW n \in Bringing(receipts, i)
      PROVE  n \in Bringing(receipts', i) /\ receipts'[n] = receipts[n]
  BY <1>1, <1>2, <1>3, BroughtGrows
<1>8. ASSUME NEW i \in tx[c].loaded
      PROVE  /\ OrderOf[i] = r.order /\ received'[i] > 0
             /\ \E n \in Bringing(receipts', i) : receipts'[n].branch = r.branch
             /\ ItemFrom(receipts, i, r.branch) => received'[i] = Brought(receipts', i)
  <2>1. i \in Item /\ First(r.lines, K, i) # {}
    BY <1>4
  <2>2. OrderOf[i] = r.order
    <3>1. PICK n \in DOMAIN r.lines : r.lines[n].item = i
      BY <2>1 DEF First
    <3> QED
      BY <1>2, <2>1, <3>1, PurchasesAssumption
  <2>3. received'[i] = tx[c].got[i] /\ received'[i] > 0
    BY <1>4, <1>5, <2>1 DEF SeenOf
  <2>4. Brought(receipts', i) = Brought(receipts, i) + Brings(r.lines, K, i)
    BY <1>1, <1>2, <1>3, BroughtGrows
  <2>5. PICK k \in First(r.lines, Len(r.lines), i) : TRUE
    BY <2>1
  <2>6. \E n \in Bringing(receipts', i) : receipts'[n].branch = r.branch
    <3>1. DOMAIN r.lines = 1 .. K /\ K \in Nat /\ k \in DOMAIN r.lines
      BY <1>2, ReceiptTyped DEF First
    <3>2. /\ Posted(r) \in Seq(Posting) /\ DOMAIN Posted(r) = DOMAIN r.lines
          /\ Posted(r)[k].item = i /\ Posted(r)[k].branch = r.branch
      BY <1>2, <3>1, PostedTyped DEF Posted, Posting, First
    <3>3. Len(Posted(r)) = K
      BY <3>1, <3>2
    <3>4. Len(receipts) + k \in DOMAIN receipts' /\ receipts'[Len(receipts) + k] = Posted(r)[k]
      <4> HIDE DEF Posting
      <4> QED
        BY <1>1, <1>3, <3>1, <3>2, <3>3
    <3> QED
      BY <3>2, <3>4 DEF Bringing
  <2> QED
    BY <1>4, <2>2, <2>3, <2>4, <2>6
<1>9. tx[c].loaded \subseteq Item
  BY <1>4
<1> HIDE DEF K
<1> QED
  BY <1>2, <1>3, <1>5, <1>6, <1>7, <1>8, <1>9

\* Only the order of the receipt is written, and its version counts up.
LEMMA VersionsGrow ==
  ASSUME OrdersInv, PurchasesInv', NEW c \in Clerk, CommitReceipt(c), NEW p \in Order
  PROVE  /\ orders[p].version \in Nat /\ orders'[p].version \in Nat
         /\ orders[p].version <= orders'[p].version
         /\ p # tx[c].req.order => orders'[p] = orders[p]
         /\ orders'[p] # orders[p] => orders[p].version < orders'[p].version
         /\ orders[p].status # "none" => orders'[p].status # "none"
<1> DEFINE o == tx[c].req.order
           w == [status |-> tx[c].status, version |-> tx[c].seen.version + 1]
<1>1. tx[c].pc = "commit" /\ orders' = Refreshed(c) /\ ~Stale(c)
  BY DEF CommitReceipt
<1>2. /\ PurchasesInv /\ Fits(c, tx[c], orders, received, receipts, counter)
      /\ o # NoOrder => o \in Order
  BY <1>1, FitsKnown DEF Busy
<1>3. orders \in [Order -> [status : Status, version : Nat]] /\ orders[p].version \in Nat
  BY <1>2 DEF PurchasesInv, PurchasesTypeOK
<1>4. CASE orders' = orders
  BY <1>3, <1>4
<1>5. CASE orders' # orders
  <2>1. /\ o # NoOrder /\ tx[c].seen.version = orders[o].version
        /\ orders' = [orders EXCEPT ![o] = w]
    BY <1>1, <1>5 DEF Refreshed, Stale, Req
  <2>2. orders'[o] = w /\ (p # o => orders'[p] = orders[p])
    BY <1>2, <1>3, <2>1
  <2>3. w.version = orders[o].version + 1 /\ w.status # "none"
    BY <1>1, <1>2, <2>1 DEF Fits, Read, Busy
  <2> HIDE DEF w
  <2>4. CASE p = o
    BY <1>3, <2>2, <2>3, <2>4
  <2>5. CASE p # o
    BY <1>3, <2>2, <2>5
  <2> QED
    BY <2>4, <2>5
<1> QED
  BY <1>4, <1>5

\* The order gets the status of the receipt, and a receipt that brings nothing
\* of it leaves it alone.
LEMMA OrderWritten ==
  ASSUME OrdersInv, PurchasesInv', NEW c \in Clerk, CommitReceipt(c),
         tx[c].req.order # NoOrder
  PROVE  LET o == tx[c].req.order IN
         /\ o \in Order /\ orders[o].status # "none"
         /\ tx[c].seen = orders[o] => orders'[o].status = tx[c].status
         /\ Asks(o) /\ tx[c].loaded = {} /\ OrderOnce(receipts, o) => orders' = orders
<1> DEFINE o == tx[c].req.order
           w == [status |-> tx[c].status, version |-> tx[c].seen.version + 1]
<1>1. tx[c].pc = "commit" /\ orders' = Refreshed(c) /\ ~Stale(c)
  BY DEF CommitReceipt
<1>2. /\ PurchasesInv /\ Fits(c, tx[c], orders, received, receipts, counter)
      /\ o \in Order /\ orders[o].status # "none"
  BY <1>1, FitsKnown DEF Busy
<1>3. orders \in [Order -> [status : Status, version : Nat]]
  BY <1>2 DEF PurchasesInv, PurchasesTypeOK
<1>4. CASE tx[c].status = tx[c].seen.status
  <2>1. orders' = orders
    BY <1>1, <1>4 DEF Refreshed, Req
  <2> QED
    BY <1>2, <1>4, <2>1
<1>5. CASE tx[c].status # tx[c].seen.status
  <2>1. tx[c].seen.version = orders[o].version /\ orders' = [orders EXCEPT ![o] = w]
    BY <1>1, <1>5 DEF Refreshed, Stale, Req
  <2>2. orders'[o].status = tx[c].status
    BY <1>2, <1>3, <2>1
  <2>3. ~(Asks(o) /\ tx[c].loaded = {} /\ OrderOnce(receipts, o))
    BY <1>1, <1>2, <1>5, <2>1 DEF Fits, Harmless
  <2> QED
    BY <1>2, <2>2, <2>3
<1> QED
  BY <1>4, <1>5

\* A receipt only takes away from who has been the only one.
LEMMA OnceBefore ==
  ASSUME OrdersInv, PurchasesInv', NEW c \in Clerk, CommitReceipt(c)
  PROVE  /\ \A i \in Item : \A b : ItemFrom(receipts', i, b) => ItemFrom(receipts, i, b)
         /\ \A i \in tx[c].loaded : \A b : ItemFrom(receipts', i, b) => b = tx[c].req.branch
         /\ \A i \in tx[c].loaded : ItemOnce(receipts', i) => ItemFrom(receipts, i, tx[c].req.branch)
         /\ \A o : OrderOnce(receipts', o) => OrderOnce(receipts, o)
         /\ \A o : OrderOnce(receipts', o) /\ tx[c].loaded # {} /\ o = tx[c].req.order =>
              OrderFrom(receipts, o, tx[c].req.branch)
<1>1. /\ tx[c].loaded \subseteq Item
      /\ \A i \in Item : \A n \in Bringing(receipts, i) :
           n \in Bringing(receipts', i) /\ receipts'[n] = receipts[n]
      /\ \A i \in tx[c].loaded :
           /\ OrderOf[i] = tx[c].req.order
           /\ \E n \in Bringing(receipts', i) : receipts'[n].branch = tx[c].req.branch
  BY Committed
<1>2. /\ \A i \in Item : \A b : ItemFrom(receipts', i, b) => ItemFrom(receipts, i, b)
      /\ \A i \in tx[c].loaded : \A b : ItemFrom(receipts', i, b) => b = tx[c].req.branch
  BY <1>1 DEF ItemFrom
<1>3. \A i \in tx[c].loaded : ItemOnce(receipts', i) => ItemFrom(receipts, i, tx[c].req.branch)
  BY <1>1 DEF ItemFrom, ItemOnce
<1>4. \A o : OrderOnce(receipts', o) => OrderOnce(receipts, o)
  <2>1. \A o : \A i \in ItemsOf(o) : i \in Item
    BY DEF ItemsOf
  <2> QED
    BY <1>1, <2>1 DEF OrderOnce
<1>5. ASSUME NEW o, OrderOnce(receipts', o), tx[c].loaded # {}, o = tx[c].req.order
      PROVE  OrderFrom(receipts, o, tx[c].req.branch)
  <2>1. PICK j \in tx[c].loaded : TRUE
    BY <1>5
  <2>2. j \in ItemsOf(o)
    BY <1>1, <1>5, <2>1 DEF ItemsOf
  <2>3. PICK n \in Bringing(receipts', j) : receipts'[n].branch = tx[c].req.branch
    BY <1>1, <2>1
  <2>4. \A i \in ItemsOf(o) : \A m \in Bringing(receipts', i) :
          receipts'[m].branch = tx[c].req.branch
    BY <1>5, <2>2, <2>3 DEF OrderOnce
  <2> QED
    BY <1>1, <2>4 DEF OrderFrom, ItemFrom, ItemsOf
<1> QED
  BY <1>2, <1>3, <1>4, <1>5

\* After the commit, items and orders say what the receipts have brought.
LEMMA CommitTells ==
  ASSUME OrdersInv, PurchasesInv', NEW c \in Clerk, CommitReceipt(c)
  PROVE  /\ \A i \in Item : ItemTold(i, received', receipts') /\ Unplaced(i, orders', received')
         /\ \A o \in Order : OrderTold(o, orders', received', receipts')
<1> DEFINE r == tx[c].req
<1>1. /\ r \in Receipt /\ tx[c].loaded \subseteq Item /\ received' = SeenOf(tx[c], received)
      /\ received' \in [Item -> Nat]
      /\ \A i \in Item \ tx[c].loaded :
           /\ received'[i] = received[i] /\ Brought(receipts', i) = Brought(receipts, i)
           /\ Bringing(receipts', i) = Bringing(receipts, i)
      /\ \A i \in tx[c].loaded :
           /\ OrderOf[i] = r.order /\ received'[i] > 0
           /\ ItemFrom(receipts, i, r.branch) => received'[i] = Brought(receipts', i)
      /\ \A i \in Item : \A n \in Bringing(receipts, i) : receipts'[n] = receipts[n]
  BY Committed
<1>2. ASSUME NEW i \in Item PROVE ItemTold(i, received', receipts')
  <2>1. CASE i \in tx[c].loaded
    BY <1>1, <2>1, OnceBefore DEF ItemTold
  <2>2. CASE i \notin tx[c].loaded
    <3>1. ItemOnce(receipts', i) => ItemOnce(receipts, i)
      BY <1>1, <2>2 DEF ItemOnce
    <3>2. ItemTold(i, received, receipts)
      BY DEF OrdersInv
    <3> QED
      BY <1>1, <2>2, <3>1, <3>2 DEF ItemTold
  <2> QED
    BY <2>1, <2>2
<1>3. ASSUME NEW i \in Item PROVE Unplaced(i, orders', received')
  <2>1. OrderOf[i] \in Order /\ NoOrder \notin Order
    BY PurchasesAssumption
  <2>2. orders[OrderOf[i]].status # "none" => orders'[OrderOf[i]].status # "none"
    BY <2>1, VersionsGrow
  <2>3. CASE i \in tx[c].loaded
    <3>1. r.order # NoOrder /\ r.order = OrderOf[i]
      BY <1>1, <2>1, <2>3
    <3>2. orders[OrderOf[i]].status # "none"
      BY <3>1, OrderWritten
    <3> QED
      BY <2>2, <3>2 DEF Unplaced
  <2>4. CASE i \notin tx[c].loaded
    BY <1>1, <2>2, <2>4 DEF OrdersInv, Unplaced
  <2> QED
    BY <2>3, <2>4
<1>4. ASSUME NEW o \in Order, Asks(o), OrderOnce(receipts', o), orders'[o].status # "none"
      PROVE  /\ orders'[o].status = "received" <=> \A i \in ItemsOf(o) : received'[i] >= Ordered[i]
             /\ orders'[o].status = "confirmed" <=> \A i \in ItemsOf(o) : received'[i] = 0
  <2>1. OrderTold(o, orders, received, receipts) /\ OrderOnce(receipts, o)
    BY <1>4, OnceBefore DEF OrdersInv
  <2>2. CASE o # r.order \/ tx[c].loaded = {}
    <3>1. \A i \in ItemsOf(o) : received'[i] = received[i]
      BY <1>1, <2>2 DEF ItemsOf
    <3>2. orders'[o] = orders[o]
      <4>1. CASE o # r.order
        BY <4>1, VersionsGrow
      <4>2. CASE o = r.order /\ tx[c].loaded = {}
        <5>1. o # NoOrder
          BY PurchasesAssumption
        <5>2. orders' = orders
          BY <1>4, <2>1, <4>2, <5>1, OrderWritten
        <5> QED
          BY <5>2
      <4> QED
        BY <2>2, <4>1, <4>2
    <3> QED
      BY <1>4, <2>1, <3>1, <3>2 DEF OrderTold
  <2>3. CASE o = r.order /\ tx[c].loaded # {}
    <3>1. PICK k \in tx[c].loaded : TRUE
      BY <2>3
    <3>2. k \in ItemsOf(o) /\ received'[k] > 0
      BY <1>1, <2>3, <3>1 DEF ItemsOf
    <3>3. o # NoOrder /\ OrderFrom(receipts, o, r.branch)
      BY <1>4, <2>3, OnceBefore, PurchasesAssumption
    <3>4. tx[c].pc = "commit" /\ Fits(c, tx[c], orders, received, receipts, counter)
      BY DEF CommitReceipt, OrdersInv
    <3>5. /\ tx[c].seen = orders[o]
          /\ tx[c].status = Progress(o, received', tx[c].seen.status)
      BY <1>1, <1>4, <2>3, <3>3, <3>4 DEF Fits, Alone, Reading
    <3>6. orders'[o].status = tx[c].status
      BY <2>3, <3>3, <3>5, OrderWritten
    <3>7. /\ tx[c].status \in {"received", "partially_received"}
          /\ tx[c].status = "received" <=> \A i \in ItemsOf(o) : received'[i] >= Ordered[i]
          /\ ~\A i \in ItemsOf(o) : received'[i] = 0
      BY <1>1, <3>2, <3>5, ProgressTells
    <3> QED
      BY <3>6, <3>7
  <2> QED
    BY <2>2, <2>3
<1>5. \A o \in Order : OrderTold(o, orders', received', receipts')
  BY <1>4 DEF OrderTold
<1> QED
  BY <1>2, <1>3, <1>5

\* The other transactions fit after the commit as they did before.
LEMMA OthersFit ==
  ASSUME OrdersInv, PurchasesInv', NEW c \in Clerk, CommitReceipt(c), NEW d \in Clerk \ {c}
  PROVE  Fits(d, tx[d], orders', received', receipts', counter')
<1> DEFINE u == tx[d]
           p == u.req.order
<1>1. /\ Fits(d, u, orders, received, receipts, counter)
      /\ Fits(c, tx[c], orders, received, receipts, counter) /\ tx[c].pc = "commit"
      /\ counter \in [Branch -> Clerk \cup {NoOne}]
  BY DEF OrdersInv, CommitReceipt, PurchasesInv, PurchasesTypeOK
<1>2. u.pc \in Busy \cup {"number"} =>
        /\ u.req \in Receipt /\ u.req.branch \in Branch
        /\ p # NoOrder => p \in Order /\ orders[p].status # "none"
  BY FitsKnown, ReceiptTyped
<1>3. Numbered(d, u, counter')
  <2>1. \A b \in Branch : counter[b] = d => counter'[b] = d
    BY <1>1 DEF CommitReceipt, Release
  <2> QED
    BY <1>1, <1>2, <2>1 DEF Fits, Numbered
<1>4. u.pc \in Busy => u.req.branch # tx[c].req.branch
  BY <1>1 DEF Fits, Numbered, Busy
<1>5. Loaded(u)
  BY <1>1 DEF Fits
<1>6. u.loaded \subseteq Item /\ tx[c].loaded \subseteq Item
  BY TxTyped DEF OrdersInv
<1>7. Computed(u, receipts')
  <2> SUFFICES ASSUME u.pc \in Busy, NEW i \in u.loaded, ItemFrom(receipts', i, u.req.branch)
               PROVE  u.got[i] = Brought(receipts', i) + Brings(u.req.lines, Behind(u), i)
    BY DEF Computed
  <2>1. i \notin tx[c].loaded
    BY <1>4, OnceBefore
  <2>2. ItemFrom(receipts, i, u.req.branch) /\ Brought(receipts', i) = Brought(receipts, i)
    BY <1>6, <2>1, OnceBefore, Committed
  <2> QED
    BY <1>1, <2>2 DEF Fits, Computed
<1>8. Read(u, orders')
  <2> SUFFICES ASSUME u.pc \in Busy \cup {"number"}, p # NoOrder
               PROVE  /\ orders'[p].status # "none"
                      /\ u.pc \in Reading => /\ u.seen.status # "none"
                                             /\ u.seen.version <= orders'[p].version
                                             /\ u.seen.version = orders'[p].version => u.seen = orders'[p]
                      /\ u.pc = "commit" => u.status # "none"
    BY DEF Read
  <2>1. /\ p \in Order /\ orders[p].status # "none"
        /\ u.pc \in Reading => /\ u.seen.status # "none" /\ u.seen.version <= orders[p].version
                               /\ u.seen.version = orders[p].version => u.seen = orders[p]
        /\ u.pc = "commit" => u.status # "none"
    BY <1>1, <1>2 DEF Fits, Read
  <2>2. /\ orders[p].version \in Nat /\ orders'[p].version \in Nat
        /\ orders[p].version <= orders'[p].version /\ orders'[p].status # "none"
        /\ orders'[p] # orders[p] => orders[p].version < orders'[p].version
    BY <2>1, VersionsGrow
  <2>3. u.seen.version \in Nat
    BY TxTyped DEF OrdersInv
  <2> QED
    BY <2>1, <2>2, <2>3
<1>9. Alone(u, orders', received', receipts')
  <2> SUFFICES ASSUME u.pc \in Reading, p # NoOrder, Asks(p), u.loaded # {},
                      OrderFrom(receipts', p, u.req.branch)
               PROVE  /\ u.seen = orders'[p]
                      /\ u.pc = "commit" =>
                           u.status = Progress(p, SeenOf(u, received'), u.seen.status)
    BY DEF Alone
  <2>1. OrderFrom(receipts, p, u.req.branch)
    BY OnceBefore DEF OrderFrom, ItemsOf
  <2>2. u.pc \in Busy /\ u.req.branch # tx[c].req.branch
    BY <1>4 DEF Busy, Reading
  <2>3. \A i \in ItemsOf(p) : i \in Item /\ i \notin tx[c].loaded
    BY <2>2, OnceBefore DEF OrderFrom, ItemsOf
  <2>4. \A i \in ItemsOf(p) : received'[i] = received[i]
    BY <2>3, Committed
  <2>5. orders'[p] = orders[p]
    <3>1. p \in Order
      BY <1>2, <2>2
    <3>2. CASE p # tx[c].req.order
      BY <3>1, <3>2, VersionsGrow
    <3>3. CASE p = tx[c].req.order
      <4>1. tx[c].loaded = {}
        <5>1. \A i \in tx[c].loaded : i \in Item /\ OrderOf[i] = tx[c].req.order
          BY <1>6, Committed
        <5> QED
          BY <2>3, <3>3, <5>1 DEF ItemsOf
      <4>2. OrderOnce(receipts, p)
        BY <2>1 DEF OrderOnce, OrderFrom, ItemFrom
      <4>3. orders' = orders
        BY <3>3, <4>1, <4>2, OrderWritten
      <4> QED
        BY <4>3
    <3> QED
      BY <3>2, <3>3
  <2>6. \A i \in ItemsOf(p) : SeenOf(u, received')[i] = SeenOf(u, received)[i]
    BY <2>3, <2>4 DEF SeenOf
  <2>7. Progress(p, SeenOf(u, received'), u.seen.status) = Progress(p, SeenOf(u, received), u.seen.status)
    BY <2>6, ProgressSame
  <2> QED
    BY <1>1, <2>1, <2>5, <2>7 DEF Fits, Alone
<1>10. Harmless(u, orders', receipts')
  <2> SUFFICES ASSUME u.pc = "commit", p # NoOrder, Asks(p), u.loaded = {},
                      OrderOnce(receipts', p), u.status # u.seen.status
               PROVE  u.seen.version # orders'[p].version
    BY DEF Harmless
  <2>1. OrderOnce(receipts, p)
    BY OnceBefore
  <2>2. p \in Order /\ u.seen.version # orders[p].version /\ u.seen.version <= orders[p].version
    BY <1>1, <1>2, <2>1 DEF Fits, Harmless, Read, Busy, Reading
  <2>3. /\ orders[p].version \in Nat /\ orders'[p].version \in Nat
        /\ orders[p].version <= orders'[p].version
    BY <2>2, VersionsGrow
  <2>4. u.seen.version \in Nat
    BY TxTyped DEF OrdersInv
  <2> QED
    BY <2>2, <2>3, <2>4
<1> HIDE DEF u
<1> QED
  BY <1>3, <1>5, <1>7, <1>8, <1>9, <1>10 DEF Fits, u

LEMMA OrdersCommit ==
  ASSUME OrdersInv, PurchasesInv', NEW c \in Clerk, CommitReceipt(c)
  PROVE  OrdersInv'
<1>1. tx' = [tx EXCEPT ![c] = Idle] /\ tx \in [Clerk -> Tx]
  BY DEF CommitReceipt, Release, OrdersInv, PurchasesInv, PurchasesTypeOK
<1>2. ASSUME NEW d \in Clerk PROVE Fits(d, tx[d], orders, received, receipts, counter)'
  <2>1. Fits(d, tx'[d], orders', received', receipts', counter')
    <3>1. CASE d = c
      <4>1. tx'[d] = Idle /\ Idle.pc \notin Busy \cup {"number"}
        BY <1>1, <3>1 DEF Idle, Busy
      <4> QED
        BY <4>1 DEF Fits, Numbered, Loaded, Computed, Read, Alone, Harmless, Busy, Reading
    <3>2. CASE d # c
      BY <1>1, <3>2, OthersFit
    <3> QED
      BY <3>1, <3>2
  <2> QED
    BY <2>1 DEF Fits, Numbered, Loaded, Computed, Read, Alone, Harmless
<1>3. /\ \A i \in Item : (ItemTold(i, received, receipts) /\ Unplaced(i, orders, received))'
      /\ \A o \in Order : OrderTold(o, orders, received, receipts)'
  BY CommitTells DEF ItemTold, Unplaced, OrderTold
<1> QED
  BY <1>2, <1>3 DEF OrdersInv

-----------------------------------------------------------------------------
LEMMA OrdersInitInv == PurchasesInit => OrdersInv
<1> SUFFICES ASSUME PurchasesInit PROVE OrdersInv
  OBVIOUS
<1>1. PurchasesInv
  BY InitInv
<1>2. receipts = <<>> /\ \A i \in Item : received[i] = 0
  BY DEF PurchasesInit
<1>3. \A i : Bringing(receipts, i) = {}
  BY <1>2 DEF Bringing
<1>4. \A i : Brought(receipts, i) = 0
  BY <1>3, SumOfNone DEF Brought
<1>5. \A i \in Item : ItemTold(i, received, receipts) /\ Unplaced(i, orders, received)
  BY <1>2, <1>4 DEF ItemTold, Unplaced
<1>6. \A o \in Order : OrderTold(o, orders, received, receipts)
  BY DEF PurchasesInit, OrderTold
<1>7. \A c \in Clerk : Fits(c, tx[c], orders, received, receipts, counter)
  <2>1. \A c \in Clerk : tx[c] = Idle /\ Idle.pc \notin Busy \cup {"number"}
    BY DEF PurchasesInit, Idle, Busy
  <2> QED
    BY <2>1, FitsIdle
<1> QED
  BY <1>1, <1>5, <1>6, <1>7 DEF OrdersInv

LEMMA OrdersNextInv == OrdersInv /\ [PurchasesNext]_vars => OrdersInv'
<1> SUFFICES ASSUME OrdersInv, [PurchasesNext]_vars PROVE OrdersInv'
  OBVIOUS
<1>1. PurchasesInv'
  BY NextInv DEF OrdersInv
<1>2. ASSUME NEW o \in Order, PlaceOrder(o) PROVE OrdersInv'
  BY <1>1, <1>2, OrdersPlaceOrder
<1>3. ASSUME NEW c \in Clerk, BeginReceipt(c) \/ BeginBill(c) PROVE OrdersInv'
  BY <1>1, <1>3, OrdersBeginReceipt, OrdersBill
<1>4. ASSUME NEW c \in Clerk, Rollback(c) PROVE OrdersInv'
  BY <1>1, <1>4, OrdersRelease DEF Rollback, Books
<1>5. ASSUME NEW c \in Clerk, Process(c) PROVE OrdersInv'
  <2>1. CASE TakeNumber(c) \/ FindBatch(c) \/ InsertBatch(c) \/ LockRow(c)
    BY <1>1, <2>1, OrdersTakeNumber, OrdersWithinLine
  <2>2. CASE ReadItem(c) \/ FlushItem(c) \/ ReadOrder(c) \/ Tally(c)
    BY <1>1, <2>2, OrdersReadItem, OrdersFlushItem, OrdersReadOrder, OrdersTally
  <2>3. CASE CommitReceipt(c) \/ InsertBill(c)
    BY <1>1, <2>3, OrdersCommit, OrdersBill
  <2>4. CASE CommitBill(c)
    BY <1>1, <2>4, OrdersRelease DEF CommitBill
  <2>5. CASE Fail(c)
    BY <1>4, <2>5 DEF Fail
  <2> QED
    BY <1>5, <2>1, <2>2, <2>3, <2>4, <2>5 DEF Process
<1>6. ASSUME NEW c \in Clerk, Abort(c) PROVE OrdersInv'
  BY <1>4, <1>6 DEF Abort
<1>7. CASE UNCHANGED vars
  BY <1>1, <1>7 DEF vars, OrdersInv
<1> QED
  BY <1>2, <1>3, <1>5, <1>6, <1>7 DEF PurchasesNext

LEMMA OrdersInvTells == OrdersInv => OrdersAreReceipts
<1>1. OrdersInv => ReceivedIsReceipts
  <2> SUFFICES ASSUME OrdersInv, NEW i \in Item, OneBranch(i)
               PROVE  received[i] = MapThenSumSet(LAMBDA n : receipts[n].total, ReceiptsOf(i))
    BY DEF ReceivedIsReceipts
  <2>1. receipts \in Seq(Posting)
    BY DEF OrdersInv, PurchasesInv, PurchasesTypeOK, Posting
  <2>2. ItemOnce(receipts, i)
    BY DEF OneBranch, ReceiptsOf, ItemOnce, Bringing
  <2>3. received[i] = Brought(receipts, i)
    BY <2>2 DEF OrdersInv, ItemTold
  <2> QED
    BY <2>1, <2>3, BroughtIsSum
<1>2. OrdersInv => StatusIsProgress
  BY DEF OrdersInv, OrderTold, OrderOnce, Bringing, StatusIsProgress, OneBranchOf, ReceiptsOf
<1> QED
  BY <1>1, <1>2 DEF OrdersAreReceipts

\* Of any number of clerks of any number of branches that receive goods at
\* once, no receipt of an item that one branch receives is lost, and the status
\* of an order is the one its items give it (service.py:279-305), for orders
\* of any number of items and receipts of any number of lines.
THEOREM OrdersTold == PurchasesSpec => []OrdersAreReceipts
BY OrdersInitInv, OrdersNextInv, OrdersInvTells, PTL DEF PurchasesSpec

\* Locks and inserted batches are those of receipts that have their number; the
\* number is one of their branch, and only a line with an item waits for one.
LocksHeld ==
  /\ \A b \in Branch, c \in Clerk : counter[b] = c => tx[c].pc \in Busy /\ tx[c].req.branch = b
  /\ \A r \in Row, c \in Clerk : row[r] = c => tx[c].pc \in Busy
  /\ \A i \in Item, c \in Clerk : itemRow[i] = c => tx[c].pc \in Busy
  /\ \A c \in Clerk : tx[c].new # {} => tx[c].pc \in Busy
  /\ \A c \in Clerk : tx[c].pc = "flush" => LineOf(c).item # NoItem

\* One clerk moves on and the others keep what they hold.
LEMMA LocksStep ==
  ASSUME LocksHeld, NEW c \in Clerk, \A d \in Clerk \ {c} : tx'[d] = tx[d],
         \A b \in Branch, d \in Clerk \ {c} : counter'[b] = d => counter[b] = d,
         \A r \in Row, d \in Clerk \ {c} : row'[r] = d => row[r] = d,
         \A i \in Item, d \in Clerk \ {c} : itemRow'[i] = d => itemRow[i] = d,
         \A b \in Branch : counter'[b] = c => tx'[c].pc \in Busy /\ tx'[c].req.branch = b,
         \A r \in Row : row'[r] = c => tx'[c].pc \in Busy,
         \A i \in Item : itemRow'[i] = c => tx'[c].pc \in Busy,
         tx'[c].new # {} => tx'[c].pc \in Busy,
         tx'[c].pc = "flush" => tx'[c].req.lines[tx'[c].at].item # NoItem
  PROVE  LocksHeld'
<1>1. ASSUME NEW b \in Branch, NEW d \in Clerk, counter'[b] = d
      PROVE  tx'[d].pc \in Busy /\ tx'[d].req.branch = b
  BY <1>1 DEF LocksHeld
<1>2. ASSUME NEW r \in Row, NEW d \in Clerk, row'[r] = d PROVE tx'[d].pc \in Busy
  BY <1>2 DEF LocksHeld
<1>3. ASSUME NEW i \in Item, NEW d \in Clerk, itemRow'[i] = d PROVE tx'[d].pc \in Busy
  BY <1>3 DEF LocksHeld
<1>4. ASSUME NEW d \in Clerk, tx'[d].new # {} PROVE tx'[d].pc \in Busy
  BY <1>4 DEF LocksHeld
<1>5. ASSUME NEW d \in Clerk, tx'[d].pc = "flush"
      PROVE  tx'[d].req.lines[tx'[d].at].item # NoItem
  BY <1>5 DEF LocksHeld, LineOf, Req
<1> QED
  BY <1>1, <1>2, <1>3, <1>4, <1>5 DEF LocksHeld, LineOf, Req

\* A receipt goes on to its next call and locks at most one row.
LEMMA LocksGoOn ==
  ASSUME PurchasesInv, LocksHeld, NEW c \in Clerk, tx[c].pc \in Busy,
         tx'[c].pc \in Busy, tx'[c].req = tx[c].req, \A d \in Clerk \ {c} : tx'[d] = tx[d],
         counter' = counter,
         row' = row \/ \E r \in Row : row' = [row EXCEPT ![r] = c],
         itemRow' = itemRow \/ \E i \in Item : itemRow' = [itemRow EXCEPT ![i] = c],
         tx'[c].pc = "flush" => tx'[c].req.lines[tx'[c].at].item # NoItem
  PROVE  LocksHeld'
<1>1. \A d \in Clerk \ {c} : /\ \A b \in Branch : counter'[b] = d => counter[b] = d
                             /\ \A r \in Row : row'[r] = d => row[r] = d
                             /\ \A i \in Item : itemRow'[i] = d => itemRow[i] = d
  BY DEF PurchasesInv, PurchasesTypeOK
<1>2. \A b \in Branch : counter'[b] = c => tx'[c].req.branch = b
  BY DEF LocksHeld
<1> QED
  BY <1>1, <1>2, LocksStep

LEMMA LocksNext == PurchasesInv /\ LocksHeld /\ [PurchasesNext]_vars => LocksHeld'
<1> SUFFICES ASSUME PurchasesInv, LocksHeld, [PurchasesNext]_vars PROVE LocksHeld'
  OBVIOUS
<1>0. /\ tx \in [Clerk -> Tx] /\ \A c \in Clerk : tx[c] \in Tx
      /\ counter \in [Branch -> Clerk \cup {NoOne}] /\ row \in [Row -> Clerk \cup {NoOne}]
      /\ itemRow \in [Item -> Clerk \cup {NoOne}] /\ NoOne \notin Clerk
  BY PurchasesAssumption DEF PurchasesInv, PurchasesTypeOK
<1>1. ASSUME NEW c \in Clerk, BeginReceipt(c) \/ BeginBill(c) \/ InsertBill(c) PROVE LocksHeld'
  <2>1. tx[c].pc \in {"idle", "bill"} /\ UNCHANGED Locks
    BY <1>1 DEF BeginReceipt, BeginBill, InsertBill
  <2>2. /\ tx'[c].new = tx[c].new \/ tx'[c].new = {}
        /\ tx'[c].pc # "flush"
    <3>1. CASE BeginReceipt(c)
      <4>1. PICK r \in Receipt : tx'[c] = [Idle EXCEPT !.pc = "number", !.req = r]
        BY <1>0, <3>1 DEF BeginReceipt
      <4> QED
        BY <4>1 DEF Idle
    <3>2. CASE BeginBill(c)
      <4>1. PICK b \in SupplierBill : tx'[c] = [Idle EXCEPT !.pc = "bill", !.bill = b]
        BY <1>0, <3>2 DEF BeginBill
      <4> QED
        BY <4>1 DEF Idle
    <3>3. CASE InsertBill(c)
      BY <1>0, <3>3 DEF InsertBill, Go, Tx
    <3> QED
      BY <1>1, <3>1, <3>2, <3>3
  <2>3. \A d \in Clerk \ {c} : tx'[d] = tx[d]
    BY <1>0, <1>1 DEF BeginReceipt, BeginBill, InsertBill, Go
  <2>4. /\ tx[c].new = {} /\ \A b \in Branch : counter[b] # c
        /\ \A r \in Row : row[r] # c
        /\ \A i \in Item : itemRow[i] # c
    BY <2>1 DEF LocksHeld, Busy
  <2> QED
    BY <2>1, <2>2, <2>3, <2>4, LocksStep DEF Locks
<1>2. ASSUME NEW c \in Clerk, TakeNumber(c) PROVE LocksHeld'
  <2>1. /\ tx[c].pc = "number" /\ counter' = [counter EXCEPT ![tx[c].req.branch] = c]
        /\ row' = row /\ itemRow' = itemRow /\ tx' = [tx EXCEPT ![c].pc = "batch"]
    BY <1>2 DEF TakeNumber, Req, Go
  <2>2. /\ tx'[c].pc \in Busy /\ tx'[c].req = tx[c].req
        /\ \A d \in Clerk \ {c} : tx'[d] = tx[d]
        /\ tx'[c].pc # "flush"
    BY <1>0, <2>1 DEF Tx, Busy
  <2>3. \A b \in Branch : counter[b] # c
    BY <2>1 DEF LocksHeld, Busy
  <2>4. \A b \in Branch : counter'[b] = c => tx'[c].req.branch = b
    BY <1>0, <2>1, <2>2, <2>3
  <2>5. \A b \in Branch, d \in Clerk \ {c} : counter'[b] = d => counter[b] = d
    BY <1>0, <2>1
  <2> QED
    BY <2>1, <2>2, <2>4, <2>5, LocksStep
<1>3. ASSUME NEW c \in Clerk,
             FindBatch(c) \/ InsertBatch(c) \/ LockRow(c) \/ ReadItem(c) \/ FlushItem(c)
               \/ ReadOrder(c) \/ Tally(c)
      PROVE  LocksHeld'
  <2>1. tx[c].pc \in Busy /\ counter' = counter
    BY <1>3 DEF FindBatch, InsertBatch, LockRow, ReadItem, FlushItem, ReadOrder, Tally, Locks, Busy
  <2>2. tx'[c].pc \in Busy /\ tx'[c].req = tx[c].req
    <3>1. After(c) \in Busy
      BY DEF After, Busy
    <3>2. CASE FindBatch(c) \/ InsertBatch(c) \/ LockRow(c)
      BY <1>0, <3>2 DEF FindBatch, InsertBatch, LockRow, Go, Tx, Busy
    <3>3. CASE ReadItem(c) \/ FlushItem(c)
      BY <1>0, <3>1, <3>3 DEF ReadItem, FlushItem, Tx, Busy
    <3>4. CASE ReadOrder(c) \/ Tally(c)
      BY <1>0, <3>4 DEF ReadOrder, Tally, Go, Tx, Busy
    <3> QED
      BY <1>3, <3>2, <3>3, <3>4
  <2>3. \A d \in Clerk \ {c} : tx'[d] = tx[d]
    BY <1>0, <1>3 DEF FindBatch, InsertBatch, LockRow, ReadItem, FlushItem, ReadOrder, Tally, Go
  <2>4. row' = row \/ \E r \in Row : row' = [row EXCEPT ![r] = c]
    <3>1. CASE LockRow(c)
      BY <3>1, LineTyped DEF LockRow, Lined
    <3>2. CASE ~LockRow(c)
      BY <1>3, <3>2 DEF FindBatch, InsertBatch, ReadItem, FlushItem, ReadOrder, Tally, Locks
    <3> QED
      BY <3>1, <3>2
  <2>5. itemRow' = itemRow \/ \E i \in Item : itemRow' = [itemRow EXCEPT ![i] = c]
    <3>1. CASE FlushItem(c)
      <4>1. itemRow' = [itemRow EXCEPT ![LineOf(c).item] = c]
        BY <3>1 DEF FlushItem
      <4>2. LineOf(c).item \notin Item => itemRow' = itemRow
        BY <1>0, <4>1
      <4> QED
        BY <4>1, <4>2
    <3>2. CASE ~FlushItem(c)
      BY <1>3, <3>2 DEF FindBatch, InsertBatch, LockRow, ReadItem, ReadOrder, Tally, Locks
    <3> QED
      BY <3>1, <3>2
  <2>6. tx'[c].pc = "flush" => tx'[c].req.lines[tx'[c].at].item # NoItem
    <3>1. CASE ReadItem(c)
      <4>1. CASE LineOf(c).item = NoItem
        BY <1>0, <3>1, <4>1 DEF ReadItem, After, Tx
      <4>2. CASE LineOf(c).item # NoItem
        <5>1. tx'[c].at = tx[c].at
          BY <1>0, <3>1, <4>2 DEF ReadItem, Tx
        <5> QED
          BY <2>2, <4>2, <5>1 DEF LineOf, Req
      <4> QED
        BY <4>1, <4>2
    <3>2. CASE FindBatch(c) \/ InsertBatch(c) \/ LockRow(c)
      BY <1>0, <3>2 DEF FindBatch, InsertBatch, LockRow, Go, Tx
    <3>3. CASE FlushItem(c)
      BY <1>0, <3>3 DEF FlushItem, After, Tx
    <3>4. CASE ReadOrder(c) \/ Tally(c)
      BY <1>0, <3>4 DEF ReadOrder, Tally, Go, Tx
    <3> QED
      BY <1>3, <3>1, <3>2, <3>3, <3>4
  <2> QED
    BY <2>1, <2>2, <2>3, <2>4, <2>5, <2>6, LocksGoOn
<1>4. ASSUME NEW c \in Clerk, Release(c) PROVE LocksHeld'
  <2>1. tx'[c] = Idle /\ Idle.new = {} /\ Idle.pc = "idle" /\ \A d \in Clerk \ {c} : tx'[d] = tx[d]
    BY <1>0, <1>4 DEF Release, Idle
  <2>2. /\ \A b \in Branch : counter'[b] # c /\ counter'[b] \in {counter[b], NoOne}
        /\ \A r \in Row : row'[r] # c /\ row'[r] \in {row[r], NoOne}
        /\ \A i \in Item : itemRow'[i] # c /\ itemRow'[i] \in {itemRow[i], NoOne}
    BY <1>0, <1>4 DEF Release
  <2> QED
    BY <1>0, <2>1, <2>2, LocksStep
<1>5. ASSUME NEW c \in Clerk, Process(c) \/ Abort(c) PROVE LocksHeld'
  BY <1>1, <1>2, <1>3, <1>4, <1>5 DEF Process, CommitReceipt, CommitBill, Fail, Abort, Rollback
<1>6. CASE (\E o \in Order : PlaceOrder(o)) \/ UNCHANGED vars
  BY <1>6 DEF PlaceOrder, Locks, vars, LocksHeld, LineOf, Req
<1> QED
  BY <1>1, <1>5, <1>6 DEF PurchasesNext

\* The receipts of a branch that have their number are one.
LEMMA OneBusyAtBranch ==
  ASSUME OrdersInv, NEW b, NEW c \in ClerksAt(b), NEW d \in ClerksAt(b),
         tx[c].pc \in Busy, tx[d].pc \in Busy
  PROVE  c = d
<1>1. c \in Clerk /\ d \in Clerk /\ tx[c].req.branch = b /\ tx[d].req.branch = b
  BY DEF ClerksAt, Busy, Req
<1>2. counter[b] = c /\ counter[b] = d
  BY <1>1, FitsKnown DEF Fits, Numbered
<1> QED
  BY <1>2

\* Whom a receipt waits for has its number.
LEMMA WaitsForBusy ==
  ASSUME PurchasesInv, LocksHeld, NEW c \in Clerk, NEW d \in Clerk, WaitsFor(c, d), tx[c].pc # "bill"
  PROVE  tx[d].pc \in Busy
<1>1. CASE tx[c].pc = "number" /\ counter[Req(c).branch] = d
  BY <1>1, LineTyped DEF LocksHeld, Lined
<1>2. CASE tx[c].pc = "insert" /\ LineOf(c).row \in tx[d].new
  BY <1>2 DEF LocksHeld
<1>3. CASE tx[c].pc = "row" /\ row[LineOf(c).row] = d
  BY <1>3, LineTyped DEF LocksHeld, Lined
<1>4. CASE tx[c].pc = "flush" /\ itemRow[LineOf(c).item] = d
  <2>1. LineOf(c).item \in Item
    BY <1>4, LineTyped DEF LocksHeld, Lined
  <2> QED
    BY <1>4, <2>1 DEF LocksHeld
<1> QED
  BY <1>1, <1>2, <1>3, <1>4 DEF WaitsFor

\* However many clerks of a branch receive goods and record invoices, with lines
\* in any order, they never wait for one another in a circle: a receipt locks
\* nothing before it has the number of its branch (purchases/service.py,
\* numbering/service.py:52-60), and holds it until it ends.
THEOREM ReceiptsNeverDeadlock == PurchasesSpec => []NoCircleAtBranch
<1>1. OrdersInv /\ LocksHeld => NoCircleAtBranch
  <2> SUFFICES ASSUME OrdersInv, LocksHeld, NEW b \in Branch, NEW S \in SUBSET ClerksAt(b), S # {}
               PROVE  \E c \in S : \A d \in S : ~WaitsFor(c, d)
    BY DEF NoCircleAtBranch
  <2>1. PurchasesInv /\ S \subseteq Clerk
    BY DEF OrdersInv, ClerksAt
  <2>2. ASSUME NEW c \in S, tx[c].pc \in Busy, NEW d \in S, WaitsFor(c, d) PROVE FALSE
    <3>1. tx[d].pc \in Busy
      BY <2>1, <2>2, WaitsForBusy DEF Busy
    <3>2. c = d
      BY <2>2, <3>1, OneBusyAtBranch
    <3> QED
      BY <2>2, <3>2 DEF WaitsFor
  <2>3. ASSUME NEW c \in S, tx[c].pc = "recorded", NEW d \in S, WaitsFor(c, d) PROVE FALSE
    BY <2>3 DEF WaitsFor
  <2>4. ASSUME \A c \in S : tx[c].pc \notin Busy \cup {"recorded"},
               NEW c \in S, NEW d \in S, WaitsFor(c, d)
        PROVE  FALSE
    <3>1. CASE tx[c].pc = "bill"
      BY <2>4, <3>1 DEF WaitsFor
    <3>2. CASE tx[c].pc # "bill"
      BY <2>1, <2>4, <3>2, WaitsForBusy
    <3> QED
      BY <3>1, <3>2
  <2> QED
    BY <2>2, <2>3, <2>4
<1>2. PurchasesInit => LocksHeld
  BY IdleRight, PurchasesAssumption DEF PurchasesInit, LocksHeld
<1>3. PurchasesSpec => [](OrdersInv /\ LocksHeld)
  <2>1. OrdersInv => PurchasesInv
    BY DEF OrdersInv
  <2> QED
    BY <1>2, <2>1, OrdersInitInv, OrdersNextInv, LocksNext, PTL DEF PurchasesSpec
<1> QED
  BY <1>1, <1>3, PTL

-----------------------------------------------------------------------------
(* Rows of stock without a batch.                                          *)

\* What w is about to change in each row it holds.
Difference(w) == [r \in RowId |-> IF lock[r] = w THEN turn[w].seen[r] - onHand[r] ELSE 0]

\* A request holds the rows it has read at their latest version; while it posts,
\* what it changes and what is left to post make up what it asks; when it
\* commits, what it changes is what it asks.
Accounted(w) ==
  /\ turn[w].got \subseteq Mine(w) /\ turn[w].todo \subseteq exists
  /\ turn[w].pc = "idle" => Mine(w) = {}
  /\ turn[w].pc \in {"idle", "scan", "locking"} =>
       \A r \in Mine(w) : r \in exists /\ turn[w].seen[r] = onHand[r]
  /\ turn[w].pc = "posting" =>
       Total(Difference(w), RowId) = turn[w].ask + Total(turn[w].take, RowId)
  /\ turn[w].pc = "commit" => Total(Difference(w), RowId) = turn[w].ask

\* A row that is not there holds nothing.
NoRowNoStock == \A r \in RowId \ exists : onHand[r] = 0

LooseInv ==
  /\ LooseTypeOK
  /\ NoRowNoStock
  /\ RowsAreLedger
  /\ \A w \in Worker : Accounted(w)

LEMMA AtRestTyped == AtRest \in Turn
<1>1. MaxQty \in Nat
  BY UnbatchedAssumption
<1>2. Nothing \in [RowId -> Nat] /\ 0 \in -MaxQty..MaxQty
  BY <1>1 DEF Nothing
<1> QED
  BY <1>2 DEF AtRest, Turn

\* The rows that are there hold what all rows hold.
LEMMA StockIsThere ==
  ASSUME NEW on \in [RowId -> Nat], NEW there \in SUBSET RowId,
         \A r \in RowId \ there : on[r] = 0
  PROVE  Total(on, there) = Total(on, RowId)
<1>1. IsFiniteSet(RowId)
  BY UnbatchedAssumption
<1>2. \A r \in there : on[r] \in Int
  OBVIOUS
<1> QED
  BY <1>1, <1>2, SumPart DEF Total

LEMMA LooseInitInv == LooseInit => LooseInv
<1> SUFFICES ASSUME LooseInit PROVE LooseInv
  OBVIOUS
<1>1. IsFiniteSet(RowId) /\ Stocked \subseteq RowId /\ MaxStock \in Nat /\ Unheld \notin Worker
  BY UnbatchedAssumption
<1>2. onHand \in [RowId -> Nat]
  BY <1>1 DEF LooseInit
<1>3. NoRowNoStock
  BY DEF LooseInit, NoRowNoStock
<1>4. RowsAreLedger
  BY <1>1, <1>2, <1>3, StockIsThere DEF LooseInit, NoRowNoStock, RowsAreLedger
<1>5. LooseTypeOK
  <2>1. ledger \in Int
    <3>1. \A r \in RowId : onHand[r] \in Int
      BY <1>2
    <3> QED
      BY <1>1, <3>1, SumInt DEF LooseInit, Total
  <2> QED
    BY <1>1, <1>2, <2>1, AtRestTyped DEF LooseInit, LooseTypeOK
<1>6. \A w \in Worker : Accounted(w)
  <2> SUFFICES ASSUME NEW w \in Worker PROVE Accounted(w)
    OBVIOUS
  <2>1. turn[w].pc = "idle" /\ turn[w].got = {} /\ turn[w].todo = {}
    BY DEF LooseInit, AtRest
  <2>2. Mine(w) = {}
    BY <1>1 DEF LooseInit, Mine
  <2> QED
    BY <2>1, <2>2 DEF Accounted
<1> QED
  BY <1>3, <1>4, <1>5, <1>6 DEF LooseInv

\* What the types say of a request.
LEMMA TurnTyped ==
  ASSUME LooseTypeOK, NEW w \in Worker
  PROVE  /\ turn[w] \in Turn /\ turn[w].ask \in Int /\ turn[w].ask \in -MaxQty..MaxQty
         /\ turn[w].todo \subseteq RowId /\ turn[w].got \subseteq RowId
         /\ turn[w].seen \in [RowId -> Nat] /\ turn[w].take \in [RowId -> Nat]
         /\ onHand \in [RowId -> Nat] /\ IsFiniteSet(RowId)
         /\ Difference(w) \in [RowId -> Int]
<1>1. MaxQty \in Nat /\ IsFiniteSet(RowId)
  BY UnbatchedAssumption
<1>2. turn[w] \in Turn /\ onHand \in [RowId -> Nat]
  BY DEF LooseTypeOK
<1>3. /\ turn[w].ask \in -MaxQty..MaxQty /\ turn[w].todo \subseteq RowId
      /\ turn[w].got \subseteq RowId
      /\ turn[w].seen \in [RowId -> Nat] /\ turn[w].take \in [RowId -> Nat]
  BY <1>2 DEF Turn
<1>4. turn[w].ask \in Int
  BY <1>1, <1>3
<1>5. \A r \in RowId : turn[w].seen[r] - onHand[r] \in Int
  BY <1>2, <1>3
<1>6. Difference(w) \in [RowId -> Int]
  BY <1>5 DEF Difference
<1> QED
  BY <1>1, <1>2, <1>3, <1>4, <1>6

\* What another request does with rows v does not hold leaves v as it was.
LEMMA StaysAccounted ==
  ASSUME LooseInv, NEW v \in Worker, turn'[v] = turn[v],
         \A r \in RowId : lock'[r] = v <=> lock[r] = v,
         \A r \in RowId : lock[r] = v => onHand'[r] = onHand[r],
         exists \subseteq exists'
  PROVE  Accounted(v)'
<1>1. Mine(v)' = Mine(v)
  BY DEF Mine
<1>2. Difference(v)' = Difference(v)
  BY DEF Difference
<1>3. \A r \in Mine(v) : onHand'[r] = onHand[r]
  BY DEF Mine
<1>4. Accounted(v)
  BY DEF LooseInv
<1>5. Total(Difference(v), RowId)' = Total(Difference(v), RowId)
  BY <1>2 DEF Total
<1>6. Total(turn[v].take, RowId)' = Total(turn[v].take, RowId)
  BY DEF Total
<1> QED
  BY <1>1, <1>3, <1>4, <1>5, <1>6 DEF Accounted

\* A step of w that commits nothing: only what it holds and knows changes.
LEMMA LooseQuietStep ==
  ASSUME LooseInv, NEW w \in Worker, NEW t \in Turn, turn' = [turn EXCEPT ![w] = t],
         lock' \in [RowId -> Worker \cup {Unheld}],
         \A r \in RowId : lock'[r] = lock[r] \/ (lock[r] \in {Unheld, w} /\ lock'[r] \in {Unheld, w}),
         UNCHANGED <<exists, onHand, ledger>>, Accounted(w)'
  PROVE  LooseInv'
<1>1. Unheld \notin Worker
  BY UnbatchedAssumption
<1>2. turn \in [Worker -> Turn]
  BY DEF LooseInv, LooseTypeOK
<1>3. turn' \in [Worker -> Turn] /\ \A v \in Worker : v # w => turn'[v] = turn[v]
  BY <1>2
<1>4. \A v \in Worker : Accounted(v)'
  <2> SUFFICES ASSUME NEW v \in Worker, v # w PROVE Accounted(v)'
    OBVIOUS
  <2>1. \A r \in RowId : lock'[r] = v <=> lock[r] = v
    BY <1>1
  <2> QED
    BY <1>3, <2>1, StaysAccounted
<1>5. LooseTypeOK' /\ NoRowNoStock'
  BY <1>3 DEF LooseInv, LooseTypeOK, NoRowNoStock
<1>6. RowsAreLedger'
  BY DEF LooseInv, RowsAreLedger, Total
<1> QED
  BY <1>4, <1>5, <1>6 DEF LooseInv

-----------------------------------------------------------------------------
(* One lemma per step.                                                     *)

LEMMA BeginKeeps == ASSUME LooseInv, NEW w \in Worker, Begin(w) PROVE LooseInv'
<1>1. PICK q \in 1..MaxQty : \E a \in {q, -q} :
        turn' = [turn EXCEPT ![w] = [AtRest EXCEPT !.pc = "scan", !.ask = a]]
  BY DEF Begin
<1>2. PICK a \in {q, -q} :
        turn' = [turn EXCEPT ![w] = [AtRest EXCEPT !.pc = "scan", !.ask = a]]
  BY <1>1
<1> DEFINE t == [AtRest EXCEPT !.pc = "scan", !.ask = a]
<1>3. t \in Turn /\ t.pc = "scan" /\ t.got = {} /\ t.todo = {}
  <2>1. a \in -MaxQty..MaxQty
    BY UnbatchedAssumption
  <2> QED
    BY <2>1, AtRestTyped DEF AtRest, Turn
<1> HIDE DEF t
<1>4. UNCHANGED <<exists, onHand, ledger, lock>> /\ turn' = [turn EXCEPT ![w] = t] /\ turn[w].pc = "idle"
  BY <1>2 DEF Begin, t
<1>5. turn'[w] = t
  BY <1>4 DEF LooseInv, LooseTypeOK
<1>6. Mine(w)' = {}
  BY <1>4 DEF LooseInv, Accounted, Mine
<1>7. Accounted(w)'
  BY <1>3, <1>5, <1>6 DEF Accounted
<1>8. lock' \in [RowId -> Worker \cup {Unheld}] /\ \A r \in RowId : lock'[r] = lock[r]
  BY <1>4 DEF LooseInv, LooseTypeOK
<1> QED
  BY <1>3, <1>4, <1>7, <1>8, LooseQuietStep

LEMMA ScanKeeps == ASSUME LooseInv, NEW w \in Worker, Scan(w) PROVE LooseInv'
<1> DEFINE rows == {r \in exists : Matches(w, r)}
           t == [turn[w] EXCEPT !.pc = "locking", !.todo = rows]
<1>1. UNCHANGED <<exists, onHand, ledger, lock>> /\ turn' = [turn EXCEPT ![w] = t] /\ turn[w].pc = "scan"
  BY DEF Scan
<1>2. rows \subseteq RowId /\ rows \subseteq exists
  BY DEF LooseInv, LooseTypeOK
<1> HIDE DEF rows
<1>3. /\ t \in Turn /\ t.pc = "locking" /\ t.got = turn[w].got /\ t.seen = turn[w].seen
      /\ t.todo = rows
      /\ turn[w].got \subseteq RowId
  BY <1>2, TurnTyped DEF LooseInv, Turn
<1> HIDE DEF t
<1>4. turn'[w] = t
  BY <1>1 DEF LooseInv, LooseTypeOK
<1>5. Mine(w)' = Mine(w)
  BY <1>1 DEF Mine
<1>6. Accounted(w)'
  BY <1>1, <1>2, <1>3, <1>4, <1>5 DEF LooseInv, Accounted
<1>7. lock' \in [RowId -> Worker \cup {Unheld}] /\ \A r \in RowId : lock'[r] = lock[r]
  BY <1>1 DEF LooseInv, LooseTypeOK
<1> QED
  BY <1>1, <1>3, <1>6, <1>7, LooseQuietStep

LEMMA LockMatchKeeps ==
  ASSUME LooseInv, NEW w \in Worker, NEW r \in RowId, LockMatch(w, r) PROVE LooseInv'
<1> DEFINE got == IF Matches(w, r) THEN turn[w].got \cup {r} ELSE turn[w].got
           seen == [turn[w].seen EXCEPT ![r] = onHand[r]]
           todo == turn[w].todo \ {r}
           t == [turn[w] EXCEPT !.todo = todo, !.got = got, !.seen = seen]
<1>1. /\ UNCHANGED <<exists, onHand, ledger>> /\ turn' = [turn EXCEPT ![w] = t]
      /\ turn[w].pc = "locking" /\ r \in turn[w].todo /\ lock[r] = Unheld
      /\ lock' = [lock EXCEPT ![r] = w]
  BY DEF LockMatch
<1>2. turn[w] \in Turn
  BY TurnTyped DEF LooseInv
<1>3. /\ todo \subseteq RowId /\ got \subseteq RowId /\ seen \in [RowId -> Nat]
      /\ got \subseteq turn[w].got \cup {r} /\ todo \subseteq turn[w].todo
      /\ seen[r] = onHand[r] /\ \A x \in RowId : x # r => seen[x] = turn[w].seen[x]
  BY TurnTyped DEF LooseInv
<1> HIDE DEF got, seen, todo
<1>4. t \in Turn /\ t.pc = "locking" /\ t.got = got /\ t.seen = seen /\ t.todo = todo
  BY <1>1, <1>2, <1>3 DEF Turn
<1> HIDE DEF t
<1>5. turn'[w] = t
  BY <1>1 DEF LooseInv, LooseTypeOK
<1>6. lock \in [RowId -> Worker \cup {Unheld}] /\ w # Unheld
  BY UnbatchedAssumption DEF LooseInv, LooseTypeOK
<1>7. Mine(w)' = Mine(w) \cup {r}
  BY <1>1, <1>6 DEF Mine
<1>8. Accounted(w) /\ r \in exists
  BY <1>1 DEF LooseInv, Accounted
<1>9. Accounted(w)'
  BY <1>1, <1>3, <1>4, <1>5, <1>7, <1>8 DEF Accounted, Mine
<1>10. /\ lock' \in [RowId -> Worker \cup {Unheld}]
       /\ \A x \in RowId : lock'[x] = lock[x] \/ (lock[x] \in {Unheld, w} /\ lock'[x] \in {Unheld, w})
  BY <1>1, <1>6
<1> QED
  BY <1>1, <1>4, <1>9, <1>10, LooseQuietStep

\* Nothing but the posting of parts lies between what w reads and what it asks:
\* a request that has changed one row r it holds, by d, has changed d in all.
LEMMA OneChange ==
  ASSUME LooseTypeOK, LooseTypeOK', NEW w \in Worker, NEW r \in RowId, onHand' = onHand,
         lock'[r] = w, \A x \in RowId : x # r => lock'[x] = lock[x],
         \A x \in RowId : x # r => turn'[w].seen[x] = turn[w].seen[x]
  PROVE  Total(Difference(w), RowId)'
           = Total(Difference(w), RowId) + (turn'[w].seen[r] - onHand[r] - Difference(w)[r])
<1> DEFINE f == Difference(w)
           h == Difference(w)'
<1>1. f \in [RowId -> Int] /\ h \in [RowId -> Int] /\ IsFiniteSet(RowId)
  <2>1. turn'[w] \in Turn /\ onHand' \in [RowId -> Nat]
    BY DEF LooseTypeOK
  <2>2. turn'[w].seen \in [RowId -> Nat]
    BY <2>1 DEF Turn
  <2>3. \A x \in RowId : turn'[w].seen[x] - onHand'[x] \in Int
    BY <2>1, <2>2
  <2>4. h \in [RowId -> Int]
    BY <2>3 DEF Difference
  <2> QED
    BY <2>4, TurnTyped
<1>2. h[r] = turn'[w].seen[r] - onHand[r] /\ \A x \in RowId : x # r => h[x] = f[x]
  BY DEF Difference
<1>3. h = Difference(w)' /\ f = Difference(w)
  OBVIOUS
<1> HIDE DEF f, h
<1>4. SumFunctionOnSet(h, RowId) = SumFunctionOnSet(f, RowId) + (h[r] - f[r])
  BY <1>1, <1>2, SumChange
<1>5. Total(Difference(w), RowId)' = SumFunctionOnSet(h, RowId)
  BY <1>3 DEF Total
<1>6. Total(Difference(w), RowId) = SumFunctionOnSet(f, RowId)
  BY <1>3 DEF Total
<1> QED
  BY <1>2, <1>3, <1>4, <1>5, <1>6

\* A request that only knows what it holds has changed nothing.
LEMMA NothingChanged ==
  ASSUME LooseInv, NEW w \in Worker, turn[w].pc \in {"idle", "scan", "locking"}
  PROVE  Total(Difference(w), RowId) = 0 /\ \A r \in RowId : Difference(w)[r] = 0
<1>1. \A r \in RowId : Difference(w)[r] = 0
  <2> SUFFICES ASSUME NEW r \in RowId PROVE Difference(w)[r] = 0
    OBVIOUS
  <2>1. turn[w].seen[r] \in Int /\ onHand[r] \in Int
    BY TurnTyped DEF LooseInv
  <2>2. lock[r] = w => turn[w].seen[r] = onHand[r]
    BY DEF LooseInv, Accounted, Mine
  <2> QED
    BY <2>1, <2>2 DEF Difference
<1> QED
  BY <1>1, UnbatchedAssumption, SumZero DEF Total

\* The same, for a step that commits nothing.
LEMMA OneRowStep ==
  ASSUME LooseInv, NEW w \in Worker, NEW r \in RowId, turn'[w] \in Turn,
         turn' = [turn EXCEPT ![w] = turn'[w]], UNCHANGED <<exists, onHand, ledger>>,
         lock' \in [RowId -> Worker \cup {Unheld}], lock'[r] = w,
         \A x \in RowId : x # r => lock'[x] = lock[x],
         \A x \in RowId : x # r => turn'[w].seen[x] = turn[w].seen[x]
  PROVE  Total(Difference(w), RowId)'
           = Total(Difference(w), RowId) + (turn'[w].seen[r] - onHand[r] - Difference(w)[r])
<1>1. turn \in [Worker -> Turn] /\ LooseTypeOK
  BY DEF LooseInv, LooseTypeOK
<1>2. turn' \in [Worker -> Turn]
  BY <1>1
<1>3. LooseTypeOK'
  BY <1>1, <1>2 DEF LooseTypeOK
<1> QED
  BY <1>1, <1>3, OneChange

LEMMA InsertRowKeeps == ASSUME LooseInv, NEW w \in Worker, InsertRow(w) PROVE LooseInv'
<1>1. PICK r \in RowId \ exists :
        /\ lock[r] = Unheld /\ lock' = [lock EXCEPT ![r] = w]
        /\ turn' = [turn EXCEPT ![w].pc = "commit", ![w].seen[r] = turn[w].ask]
  BY DEF InsertRow
<1> DEFINE seen == [turn[w].seen EXCEPT ![r] = turn[w].ask]
           t == [turn[w] EXCEPT !.pc = "commit", !.seen = seen]
<1>2. turn' = [turn EXCEPT ![w] = t] /\ UNCHANGED <<exists, onHand, ledger>>
  <2>1. UNCHANGED <<exists, onHand, ledger>>
    BY DEF InsertRow
  <2> QED
    BY <1>1, <2>1
<1>3. turn[w].pc = "locking" /\ turn[w].got = {} /\ turn[w].todo = {} /\ turn[w].ask > 0
  BY DEF InsertRow, Ready, Buys
<1>4. turn[w] \in Turn /\ turn[w].ask \in Int
  BY TurnTyped DEF LooseInv
<1>5. /\ seen \in [RowId -> Nat] /\ seen[r] = turn[w].ask
      /\ \A x \in RowId : x # r => seen[x] = turn[w].seen[x]
  BY <1>3, TurnTyped DEF LooseInv
<1> HIDE DEF seen
<1>6. t \in Turn /\ t.pc = "commit" /\ t.got = {} /\ t.todo = {} /\ t.seen = seen /\ t.ask = turn[w].ask
  BY <1>3, <1>4, <1>5 DEF Turn
<1> HIDE DEF t
<1>7. /\ lock' \in [RowId -> Worker \cup {Unheld}] /\ lock'[r] = w /\ lock[r] \in {Unheld, w}
      /\ \A x \in RowId : x # r => lock'[x] = lock[x]
  BY <1>1 DEF LooseInv, LooseTypeOK
<1>8. \A x \in RowId : x # r => t.seen[x] = turn[w].seen[x]
  BY <1>5, <1>6
<1>10. /\ turn'[w] = t /\ lock' \in [RowId -> Worker \cup {Unheld}]
       /\ \A x \in RowId : lock'[x] = lock[x] \/ (lock[x] \in {Unheld, w} /\ lock'[x] \in {Unheld, w})
       /\ Total(Difference(w), RowId)'
            = Total(Difference(w), RowId) + (t.seen[r] - onHand[r] - Difference(w)[r])
  <2>1. turn'[w] = t
    BY <1>2 DEF LooseInv, LooseTypeOK
  <2>2. turn'[w] \in Turn /\ turn' = [turn EXCEPT ![w] = turn'[w]]
    BY <1>2, <1>6, <2>1
  <2>3. \A x \in RowId : x # r => turn'[w].seen[x] = turn[w].seen[x]
    BY <1>8, <2>1
  <2>4. Total(Difference(w), RowId)'
           = Total(Difference(w), RowId) + (turn'[w].seen[r] - onHand[r] - Difference(w)[r])
    BY <1>2, <1>7, <2>2, <2>3, OneRowStep
  <2> QED
    BY <1>7, <2>1, <2>4
<1>11. Total(Difference(w), RowId) = 0 /\ Difference(w)[r] = 0 /\ onHand[r] = 0
  BY <1>1, <1>3, NothingChanged DEF LooseInv, NoRowNoStock
<1>12. Total(Difference(w), RowId)' = turn'[w].ask
  BY <1>4, <1>5, <1>6, <1>10, <1>11
<1>13. Accounted(w)'
  BY <1>6, <1>10, <1>12 DEF Accounted
<1> QED
  BY <1>2, <1>6, <1>10, <1>13, LooseQuietStep

LEMMA AddToRowKeeps == ASSUME LooseInv, NEW w \in Worker, AddToRow(w) PROVE LooseInv'
<1>1. PICK r \in turn[w].got :
        turn' = [turn EXCEPT ![w].pc = "commit", ![w].seen[r] = @ + turn[w].ask]
  BY DEF AddToRow
<1> DEFINE seen == [turn[w].seen EXCEPT ![r] = @ + turn[w].ask]
           t == [turn[w] EXCEPT !.pc = "commit", !.seen = seen]
<1>2. turn' = [turn EXCEPT ![w] = t] /\ UNCHANGED <<exists, onHand, ledger>> /\ UNCHANGED lock
  <2>1. UNCHANGED <<exists, onHand, ledger, lock>>
    BY DEF AddToRow
  <2> QED
    BY <1>1, <2>1
<1>3. turn[w].pc = "locking" /\ turn[w].ask > 0
  BY DEF AddToRow, Ready, Buys
<1>4. turn[w] \in Turn /\ turn[w].ask \in Int /\ r \in RowId /\ turn[w].seen[r] \in Nat /\ onHand[r] \in Nat
  BY TurnTyped DEF LooseInv
<1>5. /\ seen \in [RowId -> Nat] /\ seen[r] = turn[w].seen[r] + turn[w].ask
      /\ \A x \in RowId : x # r => seen[x] = turn[w].seen[x]
  BY <1>3, <1>4, TurnTyped DEF LooseInv
<1> HIDE DEF seen
<1>6. /\ t \in Turn /\ t.pc = "commit" /\ t.got = turn[w].got /\ t.todo = turn[w].todo
      /\ t.seen = seen /\ t.ask = turn[w].ask
  BY <1>3, <1>4, <1>5 DEF Turn
<1> HIDE DEF t
<1>7. Accounted(w) /\ lock[r] = w
  BY DEF LooseInv, Accounted, Mine
<1>8. \A x \in RowId : x # r => t.seen[x] = turn[w].seen[x]
  BY <1>5, <1>6
<1>9. lock' \in [RowId -> Worker \cup {Unheld}] /\ lock' = lock
  BY <1>2 DEF LooseInv, LooseTypeOK
<1>10. /\ turn'[w] = t
       /\ \A x \in RowId : lock'[x] = lock[x] \/ (lock[x] \in {Unheld, w} /\ lock'[x] \in {Unheld, w})
       /\ Total(Difference(w), RowId)'
            = Total(Difference(w), RowId) + (t.seen[r] - onHand[r] - Difference(w)[r])
  <2>1. turn'[w] = t
    BY <1>2 DEF LooseInv, LooseTypeOK
  <2>2. turn'[w] \in Turn /\ turn' = [turn EXCEPT ![w] = turn'[w]]
    BY <1>2, <1>6, <2>1
  <2>3. \A x \in RowId : x # r => turn'[w].seen[x] = turn[w].seen[x]
    BY <1>8, <2>1
  <2>4. Total(Difference(w), RowId)'
           = Total(Difference(w), RowId) + (turn'[w].seen[r] - onHand[r] - Difference(w)[r])
    BY <1>2, <1>4, <1>7, <1>9, <2>2, <2>3, OneRowStep
  <2> QED
    BY <1>9, <2>1, <2>4
<1>11. Total(Difference(w), RowId) = 0 /\ Difference(w)[r] = 0 /\ turn[w].seen[r] = onHand[r]
  BY <1>3, <1>4, <1>7, NothingChanged DEF Accounted, Mine
<1>12. Total(Difference(w), RowId)' = turn'[w].ask
  BY <1>4, <1>5, <1>6, <1>10, <1>11
<1>13. Mine(w)' = Mine(w) /\ exists' = exists
  BY <1>2 DEF Mine
<1>14. Accounted(w)'
  BY <1>6, <1>7, <1>10, <1>12, <1>13 DEF Accounted
<1> QED
  BY <1>2, <1>6, <1>9, <1>10, <1>14, LooseQuietStep

LEMMA AllocateKeeps == ASSUME LooseInv, NEW w \in Worker, Allocate(w) PROVE LooseInv'
<1>1. PICK take \in [RowId -> 0..MaxQty] :
        /\ Total(take, RowId) = -turn[w].ask
        /\ turn' = [turn EXCEPT ![w].pc = "posting", ![w].take = take]
  BY DEF Allocate
<1> DEFINE t == [turn[w] EXCEPT !.pc = "posting", !.take = take]
<1>2. turn' = [turn EXCEPT ![w] = t] /\ UNCHANGED <<exists, onHand, ledger>> /\ lock' = lock
  <2>1. UNCHANGED <<exists, onHand, ledger, lock>>
    BY DEF Allocate
  <2> QED
    BY <1>1, <2>1
<1>3. turn[w].pc = "locking" /\ turn[w] \in Turn /\ turn[w].ask \in Int /\ MaxQty \in Nat
  BY TurnTyped, UnbatchedAssumption DEF Allocate, Ready, LooseInv
<1>4. take \in [RowId -> Nat]
  BY <1>3
<1>5. /\ t \in Turn /\ t.pc = "posting" /\ t.got = turn[w].got /\ t.todo = turn[w].todo
      /\ t.seen = turn[w].seen /\ t.ask = turn[w].ask /\ t.take = take
  BY <1>3, <1>4 DEF Turn
<1> HIDE DEF t
<1>6. turn'[w] = t /\ lock' \in [RowId -> Worker \cup {Unheld}]
  BY <1>2 DEF LooseInv, LooseTypeOK
<1>7. Total(Difference(w), RowId)' = 0
  <2>1. Difference(w)' = Difference(w)
    BY <1>2, <1>5, <1>6 DEF Difference
  <2> QED
    BY <1>3, <2>1, NothingChanged DEF Total
<1>8. Total(turn'[w].take, RowId) = -turn[w].ask
  BY <1>1, <1>5, <1>6
<1>9. Mine(w)' = Mine(w) /\ exists' = exists /\ Accounted(w)
  BY <1>2 DEF Mine, LooseInv
<1>10. Total(Difference(w), RowId)' = (turn[w].ask + Total(turn[w].take, RowId))'
  <2>1. turn'[w].ask + Total(turn'[w].take, RowId) = 0
    BY <1>3, <1>5, <1>6, <1>8
  <2> QED
    BY <1>7, <2>1 DEF Total
<1>11. Accounted(w)'
  BY <1>5, <1>6, <1>9, <1>10 DEF Accounted
<1>12. \A x \in RowId : lock'[x] = lock[x]
  BY <1>2
<1> QED
  BY <1>2, <1>5, <1>6, <1>11, <1>12, LooseQuietStep

LEMMA LockScopeKeeps == ASSUME LooseInv, NEW w \in Worker, LockScope(w) PROVE LooseInv'
<1>1. PICK r \in exists \ Mine(w) :
        /\ lock[r] = Unheld /\ lock' = [lock EXCEPT ![r] = w]
        /\ turn' = [turn EXCEPT ![w].seen[r] = onHand[r]]
  BY DEF LockScope
<1> DEFINE seen == [turn[w].seen EXCEPT ![r] = onHand[r]]
           t == [turn[w] EXCEPT !.seen = seen]
<1>2. turn' = [turn EXCEPT ![w] = t] /\ UNCHANGED <<exists, onHand, ledger>>
  <2>1. UNCHANGED <<exists, onHand, ledger>>
    BY DEF LockScope
  <2> QED
    BY <1>1, <2>1
<1>3. turn[w].pc = "posting" /\ turn[w] \in Turn /\ r \in RowId /\ onHand[r] \in Nat
  BY TurnTyped DEF LockScope, LooseInv, LooseTypeOK
<1>4. /\ seen \in [RowId -> Nat] /\ seen[r] = onHand[r]
      /\ \A x \in RowId : x # r => seen[x] = turn[w].seen[x]
  BY <1>3, TurnTyped DEF LooseInv
<1> HIDE DEF seen
<1>5. /\ t \in Turn /\ t.pc = "posting" /\ t.got = turn[w].got /\ t.todo = turn[w].todo
      /\ t.seen = seen /\ t.ask = turn[w].ask /\ t.take = turn[w].take
  BY <1>3, <1>4 DEF Turn
<1> HIDE DEF t
<1>6. /\ lock' \in [RowId -> Worker \cup {Unheld}] /\ lock'[r] = w /\ lock[r] \in {Unheld, w}
      /\ \A x \in RowId : x # r => lock'[x] = lock[x]
      /\ \A x \in RowId : x # r => t.seen[x] = turn[w].seen[x]
      /\ lock \in [RowId -> Worker \cup {Unheld}] /\ lock[r] # w
  BY <1>1, <1>3, <1>4, <1>5, UnbatchedAssumption DEF LooseInv, LooseTypeOK
<1>7. /\ turn'[w] = t
      /\ \A x \in RowId : lock'[x] = lock[x] \/ (lock[x] \in {Unheld, w} /\ lock'[x] \in {Unheld, w})
      /\ Total(Difference(w), RowId)'
           = Total(Difference(w), RowId) + (t.seen[r] - onHand[r] - Difference(w)[r])
  <2>1. turn'[w] = t
    BY <1>2 DEF LooseInv, LooseTypeOK
  <2>2. turn'[w] \in Turn /\ turn' = [turn EXCEPT ![w] = turn'[w]]
    BY <1>2, <1>5, <2>1
  <2>3. \A x \in RowId : x # r => turn'[w].seen[x] = turn[w].seen[x]
    BY <1>6, <2>1
  <2>4. Total(Difference(w), RowId)'
           = Total(Difference(w), RowId) + (turn'[w].seen[r] - onHand[r] - Difference(w)[r])
    BY <1>2, <1>3, <1>6, <2>2, <2>3, OneRowStep
  <2> QED
    BY <1>6, <2>1, <2>4
<1>8. Difference(w)[r] = 0
  BY <1>3, <1>6 DEF Difference
<1>9. Total(Difference(w), RowId) \in Int
  BY TurnTyped, SumInt DEF Total, LooseInv
<1>10. Total(Difference(w), RowId)' = Total(Difference(w), RowId)
  BY <1>3, <1>4, <1>5, <1>7, <1>8, <1>9
<1>11. Mine(w) \subseteq Mine(w)' /\ exists' = exists /\ Accounted(w)
  BY <1>2, <1>6 DEF Mine, LooseInv
<1>12. Total(turn[w].take, RowId)' = Total(turn[w].take, RowId) /\ turn'[w].ask = turn[w].ask
  BY <1>5, <1>7 DEF Total
<1>13. Accounted(w)'
  BY <1>3, <1>5, <1>7, <1>10, <1>11, <1>12 DEF Accounted
<1> QED
  BY <1>2, <1>5, <1>6, <1>7, <1>13, LooseQuietStep

LEMMA PostPartKeeps == ASSUME LooseInv, NEW w \in Worker, PostPart(w) PROVE LooseInv'
<1>1. PICK part \in Parts(w), r \in exists :
        /\ turn[w].seen[r] >= turn[w].take[part]
        /\ turn' = [turn EXCEPT ![w].seen[r] = @ - turn[w].take[part], ![w].take[part] = 0]
  BY DEF PostPart
<1> DEFINE seen == [turn[w].seen EXCEPT ![r] = @ - turn[w].take[part]]
           take == [turn[w].take EXCEPT ![part] = 0]
           t == [turn[w] EXCEPT !.seen = seen, !.take = take]
<1>2. turn' = [turn EXCEPT ![w] = t] /\ UNCHANGED <<exists, onHand, ledger>> /\ lock' = lock
  <2>1. UNCHANGED <<exists, onHand, ledger, lock>>
    BY DEF PostPart
  <2> QED
    BY <1>1, <2>1
<1>3. turn[w].pc = "posting" /\ exists \subseteq Mine(w)
  BY DEF PostPart
<1>4. /\ turn[w] \in Turn /\ turn[w].ask \in Int /\ r \in RowId /\ part \in RowId
      /\ turn[w].seen[r] \in Nat /\ onHand[r] \in Nat /\ turn[w].take[part] \in Nat /\ lock[r] = w
  BY <1>3, TurnTyped DEF LooseInv, LooseTypeOK, Mine, Parts
<1>5. /\ seen \in [RowId -> Nat] /\ seen[r] = turn[w].seen[r] - turn[w].take[part]
      /\ \A x \in RowId : x # r => seen[x] = turn[w].seen[x]
  BY <1>1, <1>4, TurnTyped DEF LooseInv
<1>6. /\ take \in [RowId -> Nat] /\ take[part] = 0
      /\ \A x \in RowId : x # part => take[x] = turn[w].take[x]
  BY <1>4, TurnTyped DEF LooseInv
<1> HIDE DEF seen, take
<1>7. /\ t \in Turn /\ t.pc = "posting" /\ t.got = turn[w].got /\ t.todo = turn[w].todo
      /\ t.seen = seen /\ t.ask = turn[w].ask /\ t.take = take
  BY <1>3, <1>4, <1>5, <1>6 DEF Turn
<1> HIDE DEF t
<1>8. turn'[w] = t /\ lock' \in [RowId -> Worker \cup {Unheld}] /\ lock'[r] = w
  BY <1>2, <1>4 DEF LooseInv, LooseTypeOK
<1>9. Total(Difference(w), RowId)'
        = Total(Difference(w), RowId) + (turn'[w].seen[r] - onHand[r] - Difference(w)[r])
  <2>1. turn'[w] \in Turn /\ turn' = [turn EXCEPT ![w] = turn'[w]]
    BY <1>2, <1>7, <1>8
  <2>2. \A x \in RowId : x # r => turn'[w].seen[x] = turn[w].seen[x]
    BY <1>5, <1>7, <1>8
  <2> QED
    BY <1>2, <1>4, <1>8, <2>1, <2>2, OneRowStep
<1>10. Difference(w)[r] = turn[w].seen[r] - onHand[r]
  BY <1>4 DEF Difference
<1>11. Total(take, RowId) = Total(turn[w].take, RowId) - turn[w].take[part]
  <2>1. \A x \in RowId : turn[w].take[x] \in Int
    BY TurnTyped DEF LooseInv
  <2>2. SumFunctionOnSet(take, RowId) = SumFunctionOnSet(turn[w].take, RowId) + (take[part] - turn[w].take[part])
    BY <1>4, <1>6, <2>1, UnbatchedAssumption, SumChange
  <2>3. SumFunctionOnSet(turn[w].take, RowId) \in Int
    BY <2>1, UnbatchedAssumption, SumInt
  <2> QED
    BY <1>4, <1>6, <2>2, <2>3 DEF Total
<1>12. Total(turn[w].take, RowId) \in Int /\ Total(Difference(w), RowId) \in Int
  <2>1. \A x \in RowId : turn[w].take[x] \in Int /\ Difference(w)[x] \in Int
    BY TurnTyped DEF LooseInv
  <2> QED
    BY <2>1, UnbatchedAssumption, SumInt DEF Total
<1>13. Accounted(w)
  BY DEF LooseInv
<1>14. Total(Difference(w), RowId)' = turn'[w].ask + Total(turn'[w].take, RowId)
  <2>1. Total(Difference(w), RowId) = turn[w].ask + Total(turn[w].take, RowId)
    BY <1>3, <1>13 DEF Accounted
  <2>2. turn'[w].ask = turn[w].ask /\ turn'[w].take = take /\ turn'[w].seen[r] = seen[r]
    BY <1>7, <1>8
  <2> QED
    BY <2>1, <2>2, <1>4, <1>5, <1>9, <1>10, <1>11, <1>12
<1>15. Mine(w)' = Mine(w) /\ exists' = exists
  BY <1>2 DEF Mine
<1>16. Accounted(w)'
  BY <1>7, <1>8, <1>13, <1>14, <1>15 DEF Accounted, Total
<1>17. \A x \in RowId : lock'[x] = lock[x]
  BY <1>2
<1> QED
  BY <1>2, <1>7, <1>8, <1>16, <1>17, LooseQuietStep

\* A request that ends without a trace.
LEMMA GoBackKeeps == ASSUME LooseInv, NEW w \in Worker, GoBack(w) PROVE LooseInv'
<1>1. /\ turn' = [turn EXCEPT ![w] = AtRest] /\ UNCHANGED <<exists, onHand, ledger>>
      /\ lock' = [r \in RowId |-> IF lock[r] = w THEN Unheld ELSE lock[r]]
  BY DEF GoBack, LetGo
<1>2. turn \in [Worker -> Turn] /\ lock \in [RowId -> Worker \cup {Unheld}] /\ w # Unheld
  BY UnbatchedAssumption DEF LooseInv, LooseTypeOK
<1>3. turn'[w] = AtRest
  BY <1>1, <1>2
<1>4. Mine(w)' = {}
  BY <1>1, <1>2 DEF Mine
<1>5. Accounted(w)'
  BY <1>3, <1>4 DEF Accounted, AtRest
<1>6. /\ lock' \in [RowId -> Worker \cup {Unheld}]
      /\ \A r \in RowId : lock'[r] = lock[r] \/ (lock[r] \in {Unheld, w} /\ lock'[r] \in {Unheld, w})
  BY <1>1, <1>2
<1> QED
  BY <1>1, <1>5, <1>6, AtRestTyped, LooseQuietStep

LEMMA CommitKeeps == ASSUME LooseInv, NEW w \in Worker, Commit(w) PROVE LooseInv'
<1>1. /\ turn' = [turn EXCEPT ![w] = AtRest]
      /\ exists' = exists \cup Mine(w)
      /\ onHand' = [r \in RowId |-> IF lock[r] = w THEN turn[w].seen[r] ELSE onHand[r]]
      /\ ledger' = ledger + turn[w].ask
      /\ lock' = [r \in RowId |-> IF lock[r] = w THEN Unheld ELSE lock[r]]
  BY DEF Commit, LetGo
<1>2. /\ turn \in [Worker -> Turn] /\ lock \in [RowId -> Worker \cup {Unheld}] /\ w # Unheld
      /\ exists \subseteq RowId /\ ledger \in Int /\ IsFiniteSet(RowId) /\ Unheld \notin Worker
      /\ Mine(w) \subseteq RowId
  BY UnbatchedAssumption DEF LooseInv, LooseTypeOK, Mine
<1>3. /\ turn[w].seen \in [RowId -> Nat] /\ onHand \in [RowId -> Nat] /\ turn[w].ask \in Int
      /\ Difference(w) \in [RowId -> Int] /\ turn[w].take \in [RowId -> Nat]
  BY TurnTyped DEF LooseInv
<1>4. onHand' \in [RowId -> Nat]
  BY <1>1, <1>3
<1>5. LooseTypeOK'
  <2>1. turn' \in [Worker -> Turn] /\ lock' \in [RowId -> Worker \cup {Unheld}]
    BY <1>1, <1>2, AtRestTyped
  <2>2. exists' \subseteq RowId /\ ledger' \in Int
    BY <1>1, <1>2, <1>3
  <2> QED
    BY <1>4, <2>1, <2>2 DEF LooseTypeOK
<1>6. NoRowNoStock'
  BY <1>1, <1>2 DEF NoRowNoStock, LooseInv, Mine
<1>7. Total(Difference(w), RowId) = turn[w].ask
  <2>1. CASE turn[w].pc = "commit"
    BY <2>1 DEF LooseInv, Accounted
  <2>2. CASE turn[w].pc = "posting" /\ Parts(w) = {}
    <3>1. \A r \in RowId : turn[w].take[r] = 0
      BY <2>2, <1>3 DEF Parts
    <3>2. Total(turn[w].take, RowId) = 0
      BY <3>1, <1>2, SumZero DEF Total
    <3> QED
      BY <2>2, <3>2, <1>3 DEF LooseInv, Accounted
  <2> QED
    BY <2>1, <2>2 DEF Commit, Done
<1>8. RowsAreLedger'
  <2> DEFINE on == onHand
             off == onHand'
  <2>1. \A r \in RowId : onHand[r] \in Int /\ Difference(w)[r] \in Int /\ onHand'[r] = onHand[r] + Difference(w)[r]
    BY <1>1, <1>3 DEF Difference
  <2>2. SumFunctionOnSet(onHand', RowId) = SumFunctionOnSet(onHand, RowId) + SumFunctionOnSet(Difference(w), RowId)
    BY <2>1, <1>2, SumAdd
  <2>3. Total(onHand, exists) = Total(onHand, RowId)
    BY <1>2, <1>3, StockIsThere DEF LooseInv, NoRowNoStock
  <2>4. Total(onHand', exists') = Total(onHand', RowId)
    BY <1>4, <1>5, <1>6, StockIsThere DEF LooseTypeOK, NoRowNoStock
  <2>5. Total(onHand, exists) = ledger
    BY DEF LooseInv, RowsAreLedger
  <2>6. Total(onHand', exists') = ledger'
    BY <1>1, <1>2, <1>3, <1>7, <2>2, <2>3, <2>4, <2>5 DEF Total
  <2> QED
    BY <2>6 DEF RowsAreLedger, Total
<1>9. ASSUME NEW v \in Worker PROVE Accounted(v)'
  <2>1. CASE v = w
    <3>1. turn'[w] = AtRest
      BY <1>1, <1>2
    <3>2. Mine(w)' = {}
      BY <1>1, <1>2 DEF Mine
    <3>3. Accounted(w)'
      BY <3>1, <3>2 DEF Accounted, AtRest
    <3> QED
      BY <2>1, <3>3
  <2>2. CASE v # w
    <3>1. turn'[v] = turn[v] /\ \A r \in RowId : lock'[r] = v <=> lock[r] = v
      BY <1>1, <1>2, <2>2
    <3>2. \A r \in RowId : lock[r] = v => onHand'[r] = onHand[r]
      BY <1>1, <2>2
    <3> QED
      BY <3>1, <3>2, <1>1, StaysAccounted
  <2> QED
    BY <2>1, <2>2
<1> QED
  BY <1>5, <1>6, <1>8, <1>9 DEF LooseInv

LEMMA LooseNextInv == LooseInv /\ [LooseNext]_looseVars => LooseInv'
<1> SUFFICES ASSUME LooseInv, [LooseNext]_looseVars PROVE LooseInv'
  OBVIOUS
<1>1. CASE UNCHANGED looseVars
  BY <1>1 DEF looseVars, LooseInv, LooseTypeOK, NoRowNoStock, RowsAreLedger, Accounted, Mine,
              Difference, Total
<1>2. ASSUME NEW w \in Worker,
             \/ Begin(w) \/ Scan(w) \/ InsertRow(w) \/ AddToRow(w) \/ Allocate(w) \/ LockScope(w)
             \/ PostPart(w) \/ Refuse(w) \/ Commit(w) \/ Lose(w)
             \/ \E r \in RowId : LockMatch(w, r)
      PROVE  LooseInv'
  <2>1. Refuse(w) \/ Lose(w) => GoBack(w)
    BY DEF Refuse, Lose
  <2> QED
    BY <1>2, <2>1, BeginKeeps, ScanKeeps, InsertRowKeeps, AddToRowKeeps, AllocateKeeps,
       LockScopeKeeps, PostPartKeeps, GoBackKeeps, CommitKeeps, LockMatchKeeps
<1> QED
  BY <1>1, <1>2 DEF LooseNext

-----------------------------------------------------------------------------
\* Rows, their locks and the requests at work on them keep their types.
THEOREM LooseTyped == LooseSpec => []LooseTypeOK
<1>1. LooseInv => LooseTypeOK
  BY DEF LooseInv
<1> QED
  BY <1>1, LooseInitInv, LooseNextInv, PTL DEF LooseSpec

\* However many un-batched rows of a product there are and whichever of them a
\* request hits, together they hold what the movements say.
THEOREM RowsTogether == LooseSpec => []RowsAreLedger
<1>1. LooseInv => RowsAreLedger
  BY DEF LooseInv
<1> QED
  BY <1>1, LooseInitInv, LooseNextInv, PTL DEF LooseSpec

-----------------------------------------------------------------------------
(* Repair jobs.                                                            *)

\* The value of the parts in job j, and what lines us have moved of part p.
InJob(us, j) == {n \in DOMAIN us : us[n].job = j}
Cost(us, j) == SumFunctionOnSet([n \in DOMAIN us |-> Value(us[n]) * (1 - us[n].returns)], InJob(us, j))

OfPart(us, p) == {n \in DOMAIN us : us[n].part = p}
MovedOf(us, p) ==
  SumFunctionOnSet([n \in DOMAIN us |-> us[n].quantity * (us[n].returns - 1)], OfPart(us, p))

UsedLine == [job : Job, part : Part, quantity : Nat \ {0}, returns : Nat]

\* The job a request is for.
JobIn(t, us) == IF t.task.kind = "return" THEN us[t.task.line].job ELSE t.task.job

\* A request is one of those that come in, and its line is there.
Known(t, us) ==
  /\ t.pc # "idle" => /\ t.task \in Task
                      /\ t.task.kind = "return" => t.task.line \in DOMAIN us
  /\ t.pc = "line" => t.task.kind = "return"
  /\ t.pc = "stock" => t.task.kind \in {"consume", "return"}

\* The job was read in its version or an earlier one, and not by update_status
\* when it was closed.
Held(t, us, js) ==
  t.pc \in {"stock", "save"} =>
    /\ t.seen.status # "none" /\ js[JobIn(t, us)].status # "none"
    /\ t.seen.version <= js[JobIn(t, us)].version
    /\ t.seen.version = js[JobIn(t, us)].version => t.seen = js[JobIn(t, us)]
    /\ t.task.kind = "status" => t.seen.status \notin Closed

\* What a request takes from a row, and what it asks of a part.
Takes(t, st, r) == IF r \in t.rows THEN st[r] - t.left[r] ELSE 0

AskedOf(t, us, p) ==
  IF t.task.kind = "consume" /\ t.task.part = p THEN t.task.quantity
  ELSE IF t.task.kind = "return" /\ us[t.task.line].part = p THEN -us[t.task.line].quantity
  ELSE 0

\* The rows it writes are locked, and it takes from them what it asks.
Taking(m, t, us, st, sh) ==
  /\ t.pc \in {"idle", "line", "job", "stock"} => t.rows = {}
  /\ \A r \in t.rows : sh[r] = m
  /\ t.pc = "save" => \A p \in Part :
       Takes(t, st, <<p, "batched">>) + Takes(t, st, <<p, "loose">>) = AskedOf(t, us, p)

\* The bill of a job and the stock of a part.
Bill(job) == job.payable = job.labour + IF job.covered THEN 0 ELSE job.parts
Paid(j, js, us) ==
  /\ js[j].parts = Cost(us, j) /\ Bill(js[j])
  /\ js[j].status = "none" => js[j].labour = 0 /\ js[j].parts = 0
Shelved(p, us, st) == st[<<p, "batched">>] + st[<<p, "loose">>] = Opening[p] + MovedOf(us, p)

JobInv ==
  /\ JobTypeOK
  /\ \A j \in Job : Paid(j, jobs, used)
  /\ \A p \in Part : Shelved(p, used, stock)
  /\ \A m \in Mechanic : /\ Known(work[m], used) /\ Held(work[m], used, jobs)
                         /\ Taking(m, work[m], used, stock, shelf)

-----------------------------------------------------------------------------
LEMMA TaskTyped ==
  ASSUME NEW t \in Task
  PROVE  /\ t \in Tasks /\ t.kind \in {"consume", "return", "status", "complete"}
         /\ t.kind = "consume" => t.job \in Job /\ t.part \in Part /\ t.quantity \in Nat \ {0}
         /\ t.kind = "return" => t.line \in Nat \ {0}
         /\ t.kind = "status" => t.job \in Job /\ t.status \in JobStatus
         /\ t.kind = "complete" => t.job \in Job /\ t.labour \in Nat
<1>1. t \in Tasks
  BY ServiceJobsAssumption
<1>2. CASE t \in [kind : {"consume"}, job : Job, part : Part, quantity : Nat \ {0}]
  BY <1>1, <1>2
<1>3. CASE t \in [kind : {"return"}, line : Nat \ {0}]
  BY <1>1, <1>3
<1>4. CASE t \in [kind : {"status"}, job : Job, status : JobStatus]
  BY <1>1, <1>4
<1>5. CASE t \in [kind : {"complete"}, job : Job, labour : Nat]
  BY <1>1, <1>5
<1> QED
  BY <1>1, <1>2, <1>3, <1>4, <1>5 DEF Tasks

LEMMA RestingTyped ==
  /\ Resting \in Work /\ Resting.pc = "idle" /\ Resting.rows = {} /\ Resting.seen = NoJob
  /\ NoJob \in JobRow
<1>1. NoJob \in JobRow
  BY DEF NoJob, JobRow
<1>2. [r \in StockRow |-> 0] \in [StockRow -> Nat]
  OBVIOUS
<1> QED
  BY <1>1, <1>2 DEF Resting, Work

\* What the types say of a line of parts.
LEMMA LineFacts ==
  ASSUME NEW l \in UsedLine
  PROVE  /\ l.job \in Job /\ l.part \in Part /\ l.quantity \in Nat /\ l.returns \in Nat
         /\ Value(l) \in Nat /\ Value(l) * (1 - l.returns) \in Int
         /\ l.quantity * (l.returns - 1) \in Int
<1>1. l.job \in Job /\ l.part \in Part /\ l.quantity \in Nat /\ l.returns \in Nat
  BY DEF UsedLine
<1>2. Price[l.part] \in Nat
  BY <1>1, ServiceJobsAssumption
<1>3. \A x, y \in Nat : x * y \in Nat
  OBVIOUS
<1>4. Value(l) \in Nat
  BY <1>1, <1>2, <1>3 DEF Value
<1>5. \A x, y \in Int : x * y \in Int
  OBVIOUS
<1> QED
  BY <1>1, <1>4, <1>5

\* The lines are finitely many and their terms are integers.
LEMMA LinesFacts ==
  ASSUME NEW us \in Seq(UsedLine)
  PROVE  /\ Len(us) \in Nat /\ DOMAIN us = 1 .. Len(us) /\ IsFiniteSet(DOMAIN us)
         /\ \A n \in DOMAIN us : us[n] \in UsedLine
         /\ \A n \in DOMAIN us : /\ Value(us[n]) * (1 - us[n].returns) \in Int
                                 /\ us[n].quantity * (us[n].returns - 1) \in Int
         /\ \A j : IsFiniteSet(InJob(us, j)) /\ InJob(us, j) \subseteq DOMAIN us
         /\ \A p : IsFiniteSet(OfPart(us, p)) /\ OfPart(us, p) \subseteq DOMAIN us
<1>1. Len(us) \in Nat /\ DOMAIN us = 1 .. Len(us) /\ \A n \in DOMAIN us : us[n] \in UsedLine
  OBVIOUS
<1>2. IsFiniteSet(DOMAIN us)
  BY <1>1, FS_Interval, 1 \in Int, Len(us) \in Int
<1>3. \A j : InJob(us, j) \in SUBSET DOMAIN us
  BY DEF InJob
<1>4. \A p : OfPart(us, p) \in SUBSET DOMAIN us
  BY DEF OfPart
<1> HIDE DEF UsedLine
<1>5. \A j : IsFiniteSet(InJob(us, j)) /\ InJob(us, j) \subseteq DOMAIN us
  BY <1>2, <1>3, FS_Subset
<1>6. \A p : IsFiniteSet(OfPart(us, p)) /\ OfPart(us, p) \subseteq DOMAIN us
  BY <1>2, <1>4, FS_Subset
<1> QED
  BY <1>1, <1>2, <1>5, <1>6, LineFacts

\* What the types say of a request.
LEMMA MechanicTyped ==
  ASSUME JobInv, NEW m \in Mechanic
  PROVE  /\ work[m] \in Work /\ work \in [Mechanic -> Work] /\ used \in Seq(UsedLine)
         /\ jobs \in [Job -> JobRow] /\ stock \in [StockRow -> Nat]
         /\ shelf \in [StockRow -> Mechanic \cup {Nobody}] /\ Nobody \notin Mechanic
         /\ work[m].seen \in JobRow /\ work[m].rows \subseteq StockRow
         /\ work[m].left \in [StockRow -> Nat]
         /\ Known(work[m], used) /\ Held(work[m], used, jobs)
         /\ Taking(m, work[m], used, stock, shelf)
         /\ JobOf(m) = JobIn(work[m], used)
         /\ work[m].pc # "idle" => /\ work[m].task \in Task /\ work[m].task \in Tasks
                                   /\ JobOf(m) \in Job
                                   /\ work[m].task.kind = "return" =>
                                        /\ work[m].task.line \in DOMAIN used
                                        /\ used[work[m].task.line] \in UsedLine
<1>1. /\ work[m] \in Work /\ work \in [Mechanic -> Work] /\ used \in Seq(UsedLine)
      /\ jobs \in [Job -> JobRow] /\ stock \in [StockRow -> Nat]
      /\ shelf \in [StockRow -> Mechanic \cup {Nobody}] /\ Nobody \notin Mechanic
      /\ Known(work[m], used) /\ Held(work[m], used, jobs)
      /\ Taking(m, work[m], used, stock, shelf)
  BY ServiceJobsAssumption DEF JobInv, JobTypeOK, UsedLine
<1>2. /\ work[m].seen \in JobRow /\ work[m].rows \subseteq StockRow
      /\ work[m].left \in [StockRow -> Nat]
  BY <1>1 DEF Work
<1>3. JobOf(m) = JobIn(work[m], used)
  BY DEF JobOf, Asked, JobIn
<1>4. ASSUME work[m].pc # "idle"
      PROVE  /\ work[m].task \in Task /\ work[m].task \in Tasks /\ JobOf(m) \in Job
             /\ work[m].task.kind = "return" => /\ work[m].task.line \in DOMAIN used
                                                /\ used[work[m].task.line] \in UsedLine
  <2>1. /\ work[m].task \in Task
        /\ work[m].task.kind = "return" => work[m].task.line \in DOMAIN used
    BY <1>1, <1>4 DEF Known
  <2>2. work[m].task.kind = "return" => used[work[m].task.line] \in UsedLine
    BY <1>1, <2>1, LinesFacts
  <2>3. \A l \in UsedLine : l.job \in Job
    BY DEF UsedLine
  <2> QED
    BY <2>1, <2>2, <2>3, TaskTyped DEF JobOf, Asked
<1> QED
  BY <1>1, <1>2, <1>3, <1>4

LEMMA JobInitInv == JobInit => JobInv
<1> SUFFICES ASSUME JobInit PROVE JobInv
  OBVIOUS
<1>1. /\ \A m \in Mechanic : work[m] = Resting
      /\ \A j \in Job : jobs[j] = NoJob
      /\ used = <<>> /\ \A j : InJob(used, j) = {}
      /\ \A p : OfPart(used, p) = {}
  BY DEF JobInit, InJob, OfPart
<1>2. \A j : Cost(used, j) = 0 /\ MovedOf(used, j) = 0
  BY <1>1, SumOfNone DEF Cost, MovedOf
<1>3. \A p \in Part : /\ <<p, "batched">> \in StockRow /\ <<p, "loose">> \in StockRow
                      /\ Opening[p] \in Nat
  BY ServiceJobsAssumption DEF StockRow
<1>4. \A r \in StockRow : r[1] \in Part /\ Opening[r[1]] \in Nat
  BY ServiceJobsAssumption DEF StockRow
<1>5. JobTypeOK
  BY <1>4, RestingTyped DEF JobInit, JobTypeOK
<1>6. \A j \in Job : Paid(j, jobs, used)
  BY <1>1, <1>2 DEF Paid, Bill, NoJob
<1>7. ASSUME NEW p \in Part PROVE Shelved(p, used, stock)
  <2>1. stock[<<p, "batched">>] = Opening[p] /\ stock[<<p, "loose">>] = 0
    BY <1>3 DEF JobInit
  <2> QED
    BY <1>2, <1>3, <2>1 DEF Shelved
<1>8. ASSUME NEW m \in Mechanic
      PROVE  /\ Known(work[m], used) /\ Held(work[m], used, jobs)
             /\ Taking(m, work[m], used, stock, shelf)
  BY <1>1, RestingTyped DEF Known, Held, Taking
<1> QED
  BY <1>5, <1>6, <1>7, <1>8 DEF JobInv

\* One request goes on to t, and who holds a row of stock keeps it.
LEMMA QuietJobs ==
  ASSUME JobInv, NEW m \in Mechanic, NEW t \in Work, work' = [work EXCEPT ![m] = t],
         UNCHANGED <<jobs, used, stock>>, shelf' \in [StockRow -> Mechanic \cup {Nobody}],
         Known(t, used), Held(t, used, jobs), Taking(m, t, used, stock, shelf'),
         \A d \in Mechanic \ {m} : \A r \in StockRow : shelf[r] = d => shelf'[r] = d
  PROVE  JobInv'
<1>1. work \in [Mechanic -> Work]
  BY DEF JobInv, JobTypeOK
<1>2. work' \in [Mechanic -> Work] /\ work'[m] = t /\ \A d \in Mechanic : d # m => work'[d] = work[d]
  BY <1>1
<1>3. ASSUME NEW d \in Mechanic
      PROVE  /\ Known(work'[d], used) /\ Held(work'[d], used, jobs)
             /\ Taking(d, work'[d], used, stock, shelf')
  <2>1. CASE d = m
    BY <1>2, <2>1
  <2>2. CASE d # m
    <3>1. work'[d] = work[d] /\ work[d].rows \subseteq StockRow
      BY <1>2, <2>2, MechanicTyped
    <3>2. /\ Known(work[d], used) /\ Held(work[d], used, jobs)
          /\ Taking(d, work[d], used, stock, shelf)
      BY DEF JobInv
    <3>3. Taking(d, work[d], used, stock, shelf')
      BY <2>2, <3>1, <3>2 DEF Taking
    <3> QED
      BY <3>1, <3>2, <3>3
  <2> QED
    BY <2>1, <2>2
<1>4. used' = used /\ jobs' = jobs /\ stock' = stock
  OBVIOUS
<1>5. \A d \in Mechanic : Known(work'[d], used') /\ Held(work'[d], used', jobs')
                         /\ Taking(d, work'[d], used', stock', shelf')
  BY <1>3, <1>4
<1>6. JobTypeOK'
  BY <1>2 DEF JobInv, JobTypeOK
<1>7. /\ \A j \in Job : Paid(j, jobs, used)'
      /\ \A p \in Part : Shelved(p, used, stock)'
  BY DEF JobInv, Paid, Bill, Shelved
<1> QED
  BY <1>5, <1>6, <1>7 DEF JobInv

LEMMA JobsLeave ==
  ASSUME JobInv, NEW m \in Mechanic, Leave(m), UNCHANGED <<jobs, used, stock>>
  PROVE  JobInv'
<1>1. work' = [work EXCEPT ![m] = Resting] /\ shelf \in [StockRow -> Mechanic \cup {Nobody}]
  BY DEF Leave, JobInv, JobTypeOK
<1>2. /\ shelf' \in [StockRow -> Mechanic \cup {Nobody}]
      /\ \A d \in Mechanic \ {m} : \A r \in StockRow : shelf[r] = d => shelf'[r] = d
  BY <1>1 DEF Leave
<1>3. Known(Resting, used) /\ Held(Resting, used, jobs) /\ Taking(m, Resting, used, stock, shelf')
  BY RestingTyped DEF Known, Held, Taking
<1> QED
  BY <1>1, <1>2, <1>3, RestingTyped, QuietJobs

LEMMA JobsBegin ==
  ASSUME JobInv, NEW m \in Mechanic, BeginTask(m)
  PROVE  JobInv'
<1>1. PICK k \in Task :
        /\ k.kind = "return" => k.line \in DOMAIN used
        /\ Take(m, k, IF k.kind = "return" THEN "line" ELSE "job")
  BY DEF BeginTask
<1> DEFINE pc == IF k.kind = "return" THEN "line" ELSE "job"
           t == [Resting EXCEPT !.pc = pc, !.task = k]
<1>2. pc \in {"line", "job"} /\ (pc = "line" => k.kind = "return") /\ k \in Tasks
  BY TaskTyped
<1>3. work' = [work EXCEPT ![m] = t]
  BY <1>1 DEF Take
<1> HIDE DEF pc
<1>4. t \in Work /\ t.pc = pc /\ t.task = k /\ t.rows = {}
  BY <1>2, RestingTyped DEF Work
<1> HIDE DEF t
<1>5. Known(t, used) /\ Held(t, used, jobs) /\ Taking(m, t, used, stock, shelf)
  BY <1>1, <1>2, <1>4 DEF Known, Held, Taking
<1>6. UNCHANGED <<jobs, used, stock>> /\ shelf' = shelf
  BY DEF BeginTask
<1>7. shelf \in [StockRow -> Mechanic \cup {Nobody}]
  BY DEF JobInv, JobTypeOK
<1> QED
  BY <1>3, <1>4, <1>5, <1>6, <1>7, QuietJobs

LEMMA JobsReadLine ==
  ASSUME JobInv, NEW m \in Mechanic, ReadLine(m)
  PROVE  JobInv'
<1> DEFINE t == [work[m] EXCEPT !.pc = "job"]
<1>1. /\ work' = [work EXCEPT ![m] = t] /\ work[m].pc = "line"
      /\ UNCHANGED <<jobs, used, stock>> /\ shelf' = shelf
  BY DEF ReadLine
<1>2. t \in Work /\ t.pc = "job" /\ t.task = work[m].task /\ t.rows = work[m].rows
  BY MechanicTyped DEF Work
<1> HIDE DEF t
<1>3. Known(t, used) /\ Held(t, used, jobs) /\ Taking(m, t, used, stock, shelf)
  BY <1>1, <1>2, MechanicTyped DEF Known, Held, Taking
<1> QED
  BY <1>1, <1>2, <1>3, MechanicTyped, QuietJobs

LEMMA JobsReadJob ==
  ASSUME JobInv, NEW m \in Mechanic, ReadJob(m)
  PROVE  JobInv'
<1> DEFINE seen == jobs[JobOf(m)]
           pc == IF work[m].task.kind \in {"consume", "return"} THEN "stock" ELSE "save"
           t == [work[m] EXCEPT !.seen = seen, !.pc = pc]
<1>1. /\ work[m].pc = "job" /\ UNCHANGED <<jobs, used, stock>> /\ shelf' = shelf
      /\ work' = [work EXCEPT ![m] = t]
      /\ seen.status # "none" /\ (work[m].task.kind = "status" => seen.status \notin Closed)
  BY MechanicTyped DEF ReadJob, MayProceed, Asked
<1>2. /\ seen \in JobRow /\ pc \in {"stock", "save"} /\ seen.version \in Nat
      /\ pc = "stock" => work[m].task.kind \in {"consume", "return"}
      /\ pc = "save" => work[m].task.kind \in {"status", "complete"}
  BY <1>1, MechanicTyped, TaskTyped DEF JobRow
<1>3. seen = jobs[JobIn(work[m], used)] /\ JobIn(work[m], used) \in Job
  BY <1>1, MechanicTyped
<1> HIDE DEF seen, pc
<1>4. t \in Work /\ t.pc = pc /\ t.seen = seen /\ t.task = work[m].task /\ t.rows = work[m].rows
  BY <1>2, MechanicTyped DEF Work
<1> HIDE DEF t
<1>5. JobIn(t, used) = JobIn(work[m], used)
  BY <1>4 DEF JobIn
<1>6. Known(t, used)
  BY <1>1, <1>2, <1>4, MechanicTyped DEF Known
<1>7. Held(t, used, jobs)
  BY <1>1, <1>2, <1>3, <1>4, <1>5 DEF Held
<1>8. Taking(m, t, used, stock, shelf)
  <2>1. work[m].rows = {}
    BY <1>1, MechanicTyped DEF Taking
  <2> QED
    BY <1>2, <1>4, <2>1 DEF Taking, Takes, AskedOf
<1> QED
  BY <1>1, <1>4, <1>6, <1>7, <1>8, MechanicTyped, QuietJobs

\* What a request locks and leaves in the rows of stock, as a handler that
\* consumes and one that returns reckon it.
LEMMA ConsumeFacts ==
  ASSUME JobInv, NEW m \in Mechanic, work[m].pc = "stock", Asked(m).kind = "consume", ~Short(m)
  PROVE  /\ Wanted(m) \subseteq StockRow /\ Remaining(m) \in [StockRow -> Nat]
         /\ \A p \in Part : \A t : 
              t.task = work[m].task /\ t.rows = Wanted(m) /\ t.left = Remaining(m) =>
                Takes(t, stock, <<p, "batched">>) + Takes(t, stock, <<p, "loose">>)
                  = AskedOf(t, used, p)
<1> DEFINE p0 == Asked(m).part
           q == Asked(m).quantity
           b == <<p0, "batched">>
           l == <<p0, "loose">>
           first == Least(q, stock[b])
<1>1. p0 \in Part /\ q \in Nat \ {0} /\ stock \in [StockRow -> Nat]
  BY MechanicTyped, TaskTyped DEF Asked
<1>2. b \in StockRow /\ l \in StockRow /\ b # l
  BY <1>1 DEF StockRow
<1>3. stock[b] \in Nat /\ stock[l] \in Nat /\ q <= stock[b] + stock[l]
  BY <1>1, <1>2 DEF Short
<1>4. Wanted(m) = Offered(p0)
      /\ Remaining(m) = [stock EXCEPT ![b] = @ - first, ![l] = @ - (q - first)]
  BY DEF Wanted, Remaining
<1>5. /\ first \in Nat /\ first <= stock[b] /\ first <= q /\ q - first <= stock[l]
      /\ stock[b] = 0 => first = 0
      /\ stock[l] = 0 => q = first
  BY <1>1, <1>3 DEF Least
<1> DEFINE left == Remaining(m)
<1>6. /\ b \in Wanted(m) <=> stock[b] > 0
      /\ l \in Wanted(m) <=> stock[l] > 0
      /\ \A r \in Wanted(m) : r \in StockRow /\ r[1] = p0
  BY <1>2, <1>4 DEF Offered
<1> HIDE DEF first, b, l
<1>7. /\ left[b] = stock[b] - first /\ left[l] = stock[l] - (q - first)
      /\ \A r \in StockRow \ {b, l} : left[r] = stock[r]
      /\ DOMAIN left = StockRow /\ left = [r \in StockRow |-> left[r]]
  BY <1>1, <1>2, <1>4
<1> HIDE DEF left
<1>8. \A r \in StockRow : left[r] \in Nat
  <2>1. stock[b] - first \in Nat /\ stock[l] - (q - first) \in Nat
    BY <1>1, <1>3, <1>5
  <2> QED
    BY <1>1, <1>7, <2>1
<1>9. left \in [StockRow -> Nat]
  BY <1>7, <1>8
<1>10. ASSUME NEW p \in Part, NEW t,
             t.task = work[m].task, t.rows = Wanted(m), t.left = left
      PROVE  Takes(t, stock, <<p, "batched">>) + Takes(t, stock, <<p, "loose">>)
               = AskedOf(t, used, p)
  <2>1. CASE p = p0
    <3>1. Takes(t, stock, b) = first /\ Takes(t, stock, l) = q - first
      BY <1>1, <1>3, <1>5, <1>6, <1>7, <1>10 DEF Takes
    <3>2. AskedOf(t, used, p) = q
      BY <1>10, <2>1 DEF AskedOf, Asked
    <3> QED
      BY <1>1, <1>5, <2>1, <3>1, <3>2 DEF b, l
  <2>2. CASE p # p0
    <3>1. <<p, "batched">>[1] = p /\ <<p, "loose">>[1] = p
      OBVIOUS
    <3>2. <<p, "batched">> \notin Wanted(m) /\ <<p, "loose">> \notin Wanted(m)
      BY <1>6, <2>2, <3>1
    <3>3. AskedOf(t, used, p) = 0
      BY <1>10, <2>2 DEF AskedOf, Asked
    <3> QED
      BY <1>10, <3>2, <3>3 DEF Takes
  <2> QED
    BY <2>1, <2>2
<1> QED
  BY <1>6, <1>9, <1>10 DEF left

LEMMA ReturnFacts ==
  ASSUME JobInv, NEW m \in Mechanic, work[m].pc = "stock", Asked(m).kind = "return"
  PROVE  /\ Wanted(m) \subseteq StockRow /\ Remaining(m) \in [StockRow -> Nat]
         /\ \A p \in Part : \A t : 
              t.task = work[m].task /\ t.rows = Wanted(m) /\ t.left = Remaining(m) =>
                Takes(t, stock, <<p, "batched">>) + Takes(t, stock, <<p, "loose">>)
                  = AskedOf(t, used, p)
<1> DEFINE line == used[Asked(m).line]
           l == <<line.part, "loose">>
           left == Remaining(m)
<1>1. stock \in [StockRow -> Nat] /\ line \in UsedLine
  BY MechanicTyped DEF Asked
<1>2. line.part \in Part /\ line.quantity \in Nat
  BY <1>1, LineFacts
<1>3. l \in StockRow
  BY <1>2 DEF StockRow
<1>4. Wanted(m) = {l} /\ left = [stock EXCEPT ![l] = @ + line.quantity]
  BY DEF Wanted, Remaining
<1>5. left \in [StockRow -> Nat] /\ left[l] = stock[l] + line.quantity
  BY <1>1, <1>2, <1>3, <1>4
<1> HIDE DEF left, line
<1>6. ASSUME NEW p \in Part, NEW t,
             t.task = work[m].task, t.rows = Wanted(m), t.left = left
      PROVE  Takes(t, stock, <<p, "batched">>) + Takes(t, stock, <<p, "loose">>)
               = AskedOf(t, used, p)
  <2>1. Takes(t, stock, <<p, "batched">>) = 0
    BY <1>4, <1>6 DEF Takes
  <2>2. CASE p = line.part
    <3>1. Takes(t, stock, <<p, "loose">>) = stock[l] - left[l]
      BY <1>4, <1>6, <2>2 DEF Takes
    <3>2. AskedOf(t, used, p) = -line.quantity
      BY <1>6, <2>2 DEF AskedOf, Asked, line
    <3>3. stock[l] \in Nat
      BY <1>1, <1>3
    <3> QED
      BY <1>2, <1>5, <2>1, <3>1, <3>2, <3>3
  <2>3. CASE p # line.part
    <3>1. <<p, "loose">> \notin Wanted(m)
      BY <1>4, <2>3
    <3>2. AskedOf(t, used, p) = 0
      BY <1>6, <2>3 DEF AskedOf, Asked, line
    <3> QED
      BY <1>6, <2>1, <3>1, <3>2 DEF Takes
  <2> QED
    BY <2>2, <2>3
<1> QED
  BY <1>3, <1>4, <1>5, <1>6 DEF left

LEMMA JobsLockStock ==
  ASSUME JobInv, NEW m \in Mechanic, LockStock(m)
  PROVE  JobInv'
<1> DEFINE t == [work[m] EXCEPT !.pc = "save", !.rows = Wanted(m), !.left = Remaining(m)]
<1>1. /\ work[m].pc = "stock" /\ ~Short(m) /\ UNCHANGED <<jobs, used, stock>>
      /\ work' = [work EXCEPT ![m] = t]
      /\ \A r \in Wanted(m) : shelf[r] = Nobody
      /\ shelf' = [r \in StockRow |-> IF r \in Wanted(m) THEN m ELSE shelf[r]]
  BY DEF LockStock
<1>2. Asked(m).kind \in {"consume", "return"}
  BY <1>1, MechanicTyped DEF Known, Asked
<1>3. /\ Wanted(m) \subseteq StockRow /\ Remaining(m) \in [StockRow -> Nat]
      /\ \A p \in Part : \A u : 
           u.task = work[m].task /\ u.rows = Wanted(m) /\ u.left = Remaining(m) =>
             Takes(u, stock, <<p, "batched">>) + Takes(u, stock, <<p, "loose">>)
               = AskedOf(u, used, p)
  BY <1>1, <1>2, ConsumeFacts, ReturnFacts
<1>4. /\ t \in Work /\ t.pc = "save" /\ t.rows = Wanted(m) /\ t.left = Remaining(m)
      /\ t.task = work[m].task /\ t.seen = work[m].seen
  BY <1>3, MechanicTyped DEF Work
<1> HIDE DEF t
<1>5. /\ shelf' \in [StockRow -> Mechanic \cup {Nobody}]
      /\ \A d \in Mechanic \ {m} : \A r \in StockRow : shelf[r] = d => shelf'[r] = d
      /\ \A r \in Wanted(m) : shelf'[r] = m
  BY <1>1, <1>3, MechanicTyped
<1>6. Known(t, used)
  BY <1>1, <1>4, MechanicTyped DEF Known
<1>7. Held(t, used, jobs)
  BY <1>1, <1>4, MechanicTyped DEF Held, JobIn
<1>8. Taking(m, t, used, stock, shelf')
  BY <1>3, <1>4, <1>5 DEF Taking
<1> QED
  BY <1>1, <1>4, <1>5, <1>6, <1>7, <1>8, QuietJobs

\* A job is received: nobody has read it yet.
LEMMA JobsReceive ==
  ASSUME JobInv, NEW j \in Job, ReceiveJob(j)
  PROVE  JobInv'
<1>1. jobs \in [Job -> JobRow] /\ jobs[j].status = "none" /\ jobs[j] \in JobRow
  BY DEF JobInv, JobTypeOK, ReceiveJob
<1>2. PICK c \in BOOLEAN :
        jobs' = [jobs EXCEPT ![j].status = "received", ![j].covered = c]
  <2>1. \A serial, day : (serial # NoSerial /\ UnderWarranty(serial, day)) \in BOOLEAN
    OBVIOUS
  <2> QED
    BY <2>1 DEF ReceiveJob
<1> DEFINE after == [jobs[j] EXCEPT !.status = "received", !.covered = c]
<1>3. jobs' = [jobs EXCEPT ![j] = after]
  BY <1>1, <1>2
<1>4. /\ after \in JobRow /\ after.labour = jobs[j].labour /\ after.parts = jobs[j].parts
      /\ after.payable = jobs[j].payable /\ after.status = "received"
  BY <1>1 DEF JobRow, JobStatus
<1> HIDE DEF after
<1>5. jobs' \in [Job -> JobRow] /\ jobs'[j] = after /\ \A i \in Job \ {j} : jobs'[i] = jobs[i]
  BY <1>1, <1>3, <1>4
<1>6. used' = used /\ stock' = stock /\ shelf' = shelf /\ work' = work
  BY DEF ReceiveJob
<1>7. JobTypeOK'
  BY <1>5, <1>6 DEF JobInv, JobTypeOK
<1>8. ASSUME NEW i \in Job PROVE Paid(i, jobs', used')
  <2>1. Paid(i, jobs, used)
    BY DEF JobInv
  <2>2. CASE i = j
    <3>1. /\ jobs[j].labour = 0 /\ jobs[j].parts = 0 /\ jobs[j].parts = Cost(used, j)
          /\ Bill(jobs[j])
      BY <1>1, <2>1, <2>2 DEF Paid
    <3>2. jobs[j].payable = 0
      BY <3>1 DEF Bill
    <3>3. Bill(after)
      BY <1>4, <3>1, <3>2 DEF Bill
    <3> QED
      BY <1>4, <1>5, <1>6, <2>2, <3>1, <3>3 DEF Paid
  <2>3. CASE i # j
    BY <1>5, <1>6, <2>1, <2>3 DEF Paid
  <2> QED
    BY <2>2, <2>3
<1>9. \A p \in Part : Shelved(p, used', stock')
  BY <1>6 DEF JobInv
<1>10. ASSUME NEW m \in Mechanic
       PROVE  /\ Known(work'[m], used') /\ Held(work'[m], used', jobs')
              /\ Taking(m, work'[m], used', stock', shelf')
  <2>1. Held(work[m], used, jobs')
    <3> SUFFICES ASSUME work[m].pc \in {"stock", "save"}
                 PROVE  Held(work[m], used, jobs')
      BY DEF Held
    <3>1. JobIn(work[m], used) \in Job /\ jobs[JobIn(work[m], used)].status # "none"
      BY MechanicTyped DEF Held
    <3>2. jobs'[JobIn(work[m], used)] = jobs[JobIn(work[m], used)]
      BY <1>1, <1>5, <3>1
    <3> QED
      BY <3>2, MechanicTyped DEF Held
  <2> QED
    BY <1>6, <2>1, MechanicTyped
<1> QED
  BY <1>7, <1>8, <1>9, <1>10 DEF JobInv

-----------------------------------------------------------------------------
(* What save writes.                                                       *)

\* What the parts of the job gain by a request.
Worth(t, us) ==
  IF t.task.kind = "consume" THEN Price[t.task.part] * t.task.quantity
  ELSE IF t.task.kind = "return" THEN -Value(us[t.task.line])
  ELSE 0

\* The lines go from us to ls: the parts of job i are worth v more, and q of
\* part x leave the shelf.
Grown(us, ls, i, v, x, q) ==
  /\ ls \in Seq(UsedLine) /\ DOMAIN us \subseteq DOMAIN ls
  /\ \A n \in DOMAIN us : /\ ls[n].job = us[n].job /\ ls[n].part = us[n].part
                          /\ ls[n].quantity = us[n].quantity
  /\ \A j : Cost(ls, j) = Cost(us, j) + IF j = i THEN v ELSE 0
  /\ \A p : MovedOf(ls, p) = MovedOf(us, p) - IF p = x THEN q ELSE 0

\* The sums are integers.
LEMMA SumsTyped ==
  ASSUME NEW us, us \in Seq(UsedLine)
  PROVE  /\ \A j : Cost(us, j) \in Int
         /\ \A p : MovedOf(us, p) \in Int
<1>1. ASSUME NEW j PROVE Cost(us, j) \in Int
  <2> DEFINE f == [n \in DOMAIN us |-> Value(us[n]) * (1 - us[n].returns)]
  <2>1. IsFiniteSet(InJob(us, j)) /\ \A n \in InJob(us, j) : f[n] \in Int
    BY LinesFacts
  <2> HIDE DEF f
  <2>2. SumFunctionOnSet(f, InJob(us, j)) \in Int
    BY <2>1, SumInt
  <2> QED
    BY <2>2 DEF Cost, f
<1>2. ASSUME NEW p PROVE MovedOf(us, p) \in Int
  <2> DEFINE f == [n \in DOMAIN us |-> us[n].quantity * (us[n].returns - 1)]
  <2>1. IsFiniteSet(OfPart(us, p)) /\ \A n \in OfPart(us, p) : f[n] \in Int
    BY LinesFacts
  <2> HIDE DEF f
  <2>2. SumFunctionOnSet(f, OfPart(us, p)) \in Int
    BY <2>1, SumInt
  <2> QED
    BY <2>2 DEF MovedOf, f
<1> QED
  BY <1>1, <1>2

\* A line more.
LEMMA LineAppended ==
  ASSUME NEW us, us \in Seq(UsedLine), NEW l, l \in UsedLine, l.returns = 0,
         NEW ls, ls = Append(us, l)
  PROVE  Grown(us, ls, l.job, Value(l), l.part, l.quantity)
<1>1. /\ Len(us) \in Nat /\ DOMAIN us = 1 .. Len(us) /\ ls \in Seq(UsedLine)
      /\ DOMAIN ls = 1 .. Len(us) + 1 /\ ls[Len(us) + 1] = l
      /\ \A n \in DOMAIN us : ls[n] = us[n] /\ n \in DOMAIN ls
      /\ Len(us) + 1 \notin DOMAIN us /\ Len(us) + 1 \in DOMAIN ls
      /\ \A n \in DOMAIN ls : n \in DOMAIN us \/ n = Len(us) + 1
  OBVIOUS
<1> DEFINE new == Len(us) + 1
           f == [n \in DOMAIN us |-> Value(us[n]) * (1 - us[n].returns)]
           h == [n \in DOMAIN ls |-> Value(ls[n]) * (1 - ls[n].returns)]
           e == [n \in DOMAIN us |-> us[n].quantity * (us[n].returns - 1)]
           g == [n \in DOMAIN ls |-> ls[n].quantity * (ls[n].returns - 1)]
<1>2. /\ \A n \in DOMAIN us : f[n] \in Int /\ h[n] = f[n] /\ e[n] \in Int /\ g[n] = e[n]
      /\ h[new] = Value(l) * (1 - l.returns) /\ h[new] \in Int
      /\ g[new] = l.quantity * (l.returns - 1) /\ g[new] \in Int
      /\ new \notin DOMAIN us
  BY <1>1, LinesFacts, LineFacts
<1>3. \A j : /\ Cost(us, j) = SumFunctionOnSet(f, InJob(us, j))
             /\ Cost(ls, j) = SumFunctionOnSet(h, InJob(ls, j))
  BY DEF Cost
<1>4. \A p : /\ MovedOf(us, p) = SumFunctionOnSet(e, OfPart(us, p))
             /\ MovedOf(ls, p) = SumFunctionOnSet(g, OfPart(ls, p))
  BY DEF MovedOf
<1>5. /\ \A j : InJob(ls, j) = IF l.job = j THEN InJob(us, j) \cup {new} ELSE InJob(us, j)
      /\ \A p : OfPart(ls, p) = IF l.part = p THEN OfPart(us, p) \cup {new} ELSE OfPart(us, p)
  BY <1>1 DEF InJob, OfPart
<1>6. /\ \A j : IsFiniteSet(InJob(us, j)) /\ InJob(us, j) \subseteq DOMAIN us
      /\ \A p : IsFiniteSet(OfPart(us, p)) /\ OfPart(us, p) \subseteq DOMAIN us
  BY LinesFacts
<1> HIDE DEF new, f, h, e, g
<1>7. ASSUME NEW j
      PROVE  Cost(ls, j) = Cost(us, j) + IF l.job = j THEN Value(l) * (1 - l.returns) ELSE 0
  <2>1. SumFunctionOnSet(f, InJob(us, j)) = SumFunctionOnSet(h, InJob(us, j))
    BY <1>2, <1>6, SumSame
  <2>2. SumFunctionOnSet(h, InJob(us, j) \cup {new}) = SumFunctionOnSet(h, InJob(us, j)) + h[new]
    <3>1. /\ IsFiniteSet(InJob(us, j)) /\ new \notin InJob(us, j) /\ h[new] \in Int
          /\ \A x \in InJob(us, j) : h[x] \in Int
      BY <1>2, <1>6
    <3> QED
      BY ONLY <3>1, SumPlus
  <2>3. SumFunctionOnSet(f, InJob(us, j)) \in Int
    BY <1>2, <1>6, SumInt
  <2>4. CASE l.job = j
    <3>1. Cost(ls, j) = Cost(us, j) + h[new]
      BY <1>3, <1>5, <2>1, <2>2, <2>4
    <3> QED
      BY <1>2, <2>4, <3>1
  <2>5. CASE l.job # j
    BY <1>3, <1>5, <2>1, <2>3, <2>5
  <2> QED
    BY <2>4, <2>5
<1>8. ASSUME NEW p
      PROVE  MovedOf(ls, p) = MovedOf(us, p)
                              + IF l.part = p THEN l.quantity * (l.returns - 1) ELSE 0
  <2>1. SumFunctionOnSet(e, OfPart(us, p)) = SumFunctionOnSet(g, OfPart(us, p))
    BY <1>2, <1>6, SumSame
  <2>2. SumFunctionOnSet(g, OfPart(us, p) \cup {new})
          = SumFunctionOnSet(g, OfPart(us, p)) + g[new]
    <3>1. /\ IsFiniteSet(OfPart(us, p)) /\ new \notin OfPart(us, p) /\ g[new] \in Int
          /\ \A x \in OfPart(us, p) : g[x] \in Int
      BY <1>2, <1>6
    <3> QED
      BY ONLY <3>1, SumPlus
  <2>3. SumFunctionOnSet(e, OfPart(us, p)) \in Int
    BY <1>2, <1>6, SumInt
  <2>4. CASE l.part = p
    <3>1. MovedOf(ls, p) = MovedOf(us, p) + g[new]
      BY <1>4, <1>5, <2>1, <2>2, <2>4
    <3> QED
      BY <1>2, <2>4, <3>1
  <2>5. CASE l.part # p
    BY <1>4, <1>5, <2>1, <2>3, <2>5
  <2> QED
    BY <2>4, <2>5
<1>9. Value(l) * (1 - l.returns) = Value(l) /\ l.quantity * (l.returns - 1) = -l.quantity
      /\ l.quantity \in Nat
  BY LineFacts
<1>10. \A p : MovedOf(us, p) \in Int
  BY SumsTyped
<1>11. \A p : MovedOf(ls, p) = MovedOf(us, p) - IF p = l.part THEN l.quantity ELSE 0
  <2> TAKE p
  <2>1. CASE p = l.part
    BY <1>8, <1>9, <1>10, <2>1
  <2>2. CASE p # l.part
    BY <1>8, <1>10, <2>2
  <2> QED
    BY <2>1, <2>2
<1>12. \A j : Cost(ls, j) = Cost(us, j) + IF j = l.job THEN Value(l) ELSE 0
  BY <1>7, <1>9
<1> QED
  BY <1>1, <1>11, <1>12 DEF Grown

\* A line returned once more.
LEMMA LineReturned ==
  ASSUME NEW us, us \in Seq(UsedLine), NEW k, k \in DOMAIN us,
         NEW ls, ls = [us EXCEPT ![k].returns = @ + 1]
  PROVE  Grown(us, ls, us[k].job, -Value(us[k]), us[k].part, -us[k].quantity)
<1>1. us[k] \in UsedLine /\ Len(us) \in Nat /\ DOMAIN us = 1 .. Len(us)
  OBVIOUS
<1> DEFINE old == us[k]
           l == [old EXCEPT !.returns = @ + 1]
<1>2. /\ l \in UsedLine /\ l.job = us[k].job /\ l.part = us[k].part
      /\ l.quantity = us[k].quantity /\ l.returns = us[k].returns + 1
  <2>1. old \in UsedLine
    BY <1>1
  <2> HIDE DEF old
  <2>2. old.returns + 1 \in Nat
    <3>1. old.returns \in Nat
      BY <2>1, LineFacts, Zenon
    <3> QED
      BY ONLY <3>1
  <2>3. /\ l \in UsedLine /\ l.job = old.job /\ l.part = old.part
        /\ l.quantity = old.quantity /\ l.returns = old.returns + 1
    BY <2>1, <2>2 DEF UsedLine
  <2> QED
    BY <2>3 DEF old
<1>3. ls = [us EXCEPT ![k] = l]
  OBVIOUS
<1> HIDE DEF l
<1>4. /\ ls \in Seq(UsedLine) /\ DOMAIN ls = DOMAIN us /\ ls[k] = l
      /\ \A n \in DOMAIN us : n # k => ls[n] = us[n]
  BY <1>2, <1>3
<1>5. \A n \in DOMAIN us : /\ ls[n].job = us[n].job /\ ls[n].part = us[n].part
                           /\ ls[n].quantity = us[n].quantity
  BY <1>2, <1>4
<1>f. PICK f : f = [n \in DOMAIN us |-> Value(us[n]) * (1 - us[n].returns)]
  OBVIOUS
<1>h. PICK h : h = [n \in DOMAIN ls |-> Value(ls[n]) * (1 - ls[n].returns)]
  OBVIOUS
<1>e. PICK e : e = [n \in DOMAIN us |-> us[n].quantity * (us[n].returns - 1)]
  OBVIOUS
<1>g. PICK g : g = [n \in DOMAIN ls |-> ls[n].quantity * (ls[n].returns - 1)]
  OBVIOUS
<1>6. /\ \A n \in DOMAIN us : f[n] \in Int /\ h[n] \in Int /\ e[n] \in Int /\ g[n] \in Int
      /\ \A n \in DOMAIN us : n # k => h[n] = f[n] /\ g[n] = e[n]
  BY <1>f, <1>h, <1>e, <1>g, <1>4, LinesFacts
<1>7. h[k] - f[k] = -Value(us[k]) /\ g[k] - e[k] = us[k].quantity
  <2>1. /\ f[k] = Value(us[k]) * (1 - us[k].returns)
        /\ e[k] = us[k].quantity * (us[k].returns - 1)
    BY <1>f, <1>e
  <2>2. Value(l) = Value(us[k])
    BY <1>2 DEF Value
  <2>3. /\ h[k] = Value(us[k]) * (1 - (us[k].returns + 1))
        /\ g[k] = us[k].quantity * ((us[k].returns + 1) - 1)
    BY <1>h, <1>g, <1>2, <1>4, <2>2
  <2>4. us[k].returns \in Nat /\ us[k].quantity \in Nat /\ Value(us[k]) \in Nat
    BY <1>1, LineFacts
  <2>5. \A v, r \in Nat : /\ v * (1 - (r + 1)) - v * (1 - r) = -v
                         /\ v * ((r + 1) - 1) - v * (r - 1) = v
    OBVIOUS
  <2> QED
    <3> DEFINE v == Value(us[k])
               r == us[k].returns
               q == us[k].quantity
    <3>1. v \in Nat /\ r \in Nat /\ q \in Nat
      BY <2>4
    <3>2. /\ f[k] = v * (1 - r) /\ h[k] = v * (1 - (r + 1))
          /\ e[k] = q * (r - 1) /\ g[k] = q * ((r + 1) - 1)
      BY <2>1, <2>3
    <3> HIDE DEF v, r, q
    <3>3. v * (1 - (r + 1)) - v * (1 - r) = -v /\ q * ((r + 1) - 1) - q * (r - 1) = q
      BY ONLY <2>5, <3>1, Zenon
    <3>4. h[k] - f[k] = -v /\ g[k] - e[k] = q
      BY ONLY <3>2, <3>3, Zenon
    <3> QED
      BY <3>4 DEF v, q
<1>8. \A j : /\ Cost(us, j) = SumFunctionOnSet(f, InJob(us, j))
             /\ Cost(ls, j) = SumFunctionOnSet(h, InJob(ls, j))
             /\ InJob(ls, j) = InJob(us, j)
  BY <1>f, <1>h, <1>4, <1>5 DEF Cost, InJob
<1>9. \A p : /\ MovedOf(us, p) = SumFunctionOnSet(e, OfPart(us, p))
             /\ MovedOf(ls, p) = SumFunctionOnSet(g, OfPart(ls, p))
             /\ OfPart(ls, p) = OfPart(us, p)
  BY <1>e, <1>g, <1>4, <1>5 DEF MovedOf, OfPart
<1>10. /\ \A j : IsFiniteSet(InJob(us, j)) /\ InJob(us, j) \subseteq DOMAIN us
       /\ \A p : IsFiniteSet(OfPart(us, p)) /\ OfPart(us, p) \subseteq DOMAIN us
       /\ \A j : k \in InJob(us, j) <=> us[k].job = j
       /\ \A p : k \in OfPart(us, p) <=> us[k].part = p
  BY LinesFacts DEF InJob, OfPart
<1>11. Value(us[k]) \in Nat /\ us[k].quantity \in Nat
  BY <1>1, LineFacts
<1>12. ASSUME NEW j
       PROVE  Cost(ls, j) = Cost(us, j) + IF j = us[k].job THEN -Value(us[k]) ELSE 0
  <2> DEFINE S == InJob(us, j)
  <2>1. /\ IsFiniteSet(S) /\ \A n \in S : f[n] \in Int /\ h[n] \in Int
        /\ \A n \in S : n # k => h[n] = f[n]
    BY <1>6, <1>10
  <2>2. SumFunctionOnSet(f, S) \in Int
    BY <2>1, SumInt
  <2>3. CASE us[k].job = j
    <3>1. k \in S
      BY <1>10, <2>3
    <3> HIDE DEF S
    <3>2. SumFunctionOnSet(h, S) = SumFunctionOnSet(f, S) + (h[k] - f[k])
      <4>1. /\ IsFiniteSet(S) /\ k \in S /\ h[k] \in Int /\ \A x \in S : f[x] \in Int
            /\ \A x \in S : x # k => h[x] = f[x]
        BY <2>1, <3>1
      <4> QED
        BY ONLY <4>1, SumChange
    <3> QED
      BY <1>7, <1>8, <1>11, <2>2, <2>3, <3>2 DEF S
  <2>4. CASE us[k].job # j
    <3>1. k \notin S
      BY <1>10, <2>4
    <3> HIDE DEF S
    <3>2. SumFunctionOnSet(f, S) = SumFunctionOnSet(h, S)
      BY <2>1, <3>1, SumSame
    <3>3. Cost(ls, j) = Cost(us, j) /\ Cost(us, j) \in Int
      BY <1>8, <2>2, <3>2 DEF S
    <3> QED
      BY <2>4, <3>3
  <2> QED
    BY <2>3, <2>4
<1>13. ASSUME NEW p
       PROVE  MovedOf(ls, p) = MovedOf(us, p) - IF p = us[k].part THEN -us[k].quantity ELSE 0
  <2> DEFINE S == OfPart(us, p)
  <2>1. /\ IsFiniteSet(S) /\ \A n \in S : e[n] \in Int /\ g[n] \in Int
        /\ \A n \in S : n # k => g[n] = e[n]
    BY <1>6, <1>10
  <2>2. SumFunctionOnSet(e, S) \in Int
    BY <2>1, SumInt
  <2>3. CASE us[k].part = p
    <3>1. k \in S
      BY <1>10, <2>3
    <3> HIDE DEF S
    <3>2. SumFunctionOnSet(g, S) = SumFunctionOnSet(e, S) + (g[k] - e[k])
      <4>1. /\ IsFiniteSet(S) /\ k \in S /\ g[k] \in Int /\ \A x \in S : e[x] \in Int
            /\ \A x \in S : x # k => g[x] = e[x]
        BY <2>1, <3>1
      <4> QED
        BY ONLY <4>1, SumChange
    <3> QED
      <4>1. MovedOf(ls, p) = MovedOf(us, p) + us[k].quantity /\ MovedOf(us, p) \in Int
        BY <1>7, <1>9, <2>2, <3>2 DEF S
      <4> HIDE DEF S
      <4>2. MovedOf(ls, p) = MovedOf(us, p) - (-us[k].quantity)
        BY <1>11, <4>1
      <4> QED
        BY <2>3, <4>2
  <2>4. CASE us[k].part # p
    <3>1. k \notin S
      BY <1>10, <2>4
    <3> HIDE DEF S
    <3>2. SumFunctionOnSet(e, S) = SumFunctionOnSet(g, S)
      BY <2>1, <3>1, SumSame
    <3>3. MovedOf(ls, p) = MovedOf(us, p) /\ MovedOf(us, p) \in Int
      BY <1>9, <2>2, <3>2 DEF S
    <3> QED
      BY <2>4, <3>3
  <2> QED
    BY <2>3, <2>4
<1> QED
  BY <1>4, <1>5, <1>12, <1>13 DEF Grown

\* A job billed anew.
LEMMA BilledFacts ==
  ASSUME NEW job, job \in JobRow
  PROVE  /\ Billed(job) \in JobRow /\ Bill(Billed(job))
         /\ Billed(job).status = job.status /\ Billed(job).version = job.version
         /\ Billed(job).parts = job.parts /\ Billed(job).labour = job.labour
         /\ Billed(job).covered = job.covered
<1>1. job.labour \in Nat /\ job.parts \in Int /\ job.covered \in BOOLEAN
  BY DEF JobRow
<1>2. Payable(job) \in Int
  BY <1>1 DEF Payable
<1>3. /\ Billed(job) \in JobRow /\ Billed(job).payable = Payable(job)
      /\ Billed(job).status = job.status /\ Billed(job).version = job.version
      /\ Billed(job).parts = job.parts /\ Billed(job).labour = job.labour
      /\ Billed(job).covered = job.covered
  BY <1>2 DEF Billed, JobRow
<1> QED
  BY <1>3, Zenon DEF Bill, Payable

\* The job as a request leaves it.
LEMMA ChangedFacts ==
  ASSUME JobInv, NEW m \in Mechanic, work[m].pc = "save"
  PROVE  LET seen == work[m].seen
             new == Changed(m) IN
         /\ new \in JobRow /\ new.version = seen.version /\ Worth(work[m], used) \in Int
         /\ new.parts = seen.parts + Worth(work[m], used)
         /\ Bill(seen) => Bill(new)
         /\ seen.status # "none" => new.status # "none"
         /\ new.status = seen.status \/ new.status = "ready" \/ Asked(m).kind = "status"
<1> DEFINE t == Asked(m)
<1>1. work[m].seen \in JobRow /\ t \in Task /\ t = work[m].task
      /\ t.kind \in {"consume", "return", "status", "complete"}
  BY MechanicTyped, TaskTyped DEF Asked
<1>2. PICK seen \in JobRow : seen = work[m].seen
  BY <1>1
<1>3. seen.parts \in Int
  BY DEF JobRow
<1>4. CASE t.kind = "consume"
  <2>1. Changed(m) = Billed([seen EXCEPT !.parts = @ + Value(NewLine(m))])
    BY <1>2, <1>4 DEF Changed
  <2>2. Value(NewLine(m)) = Price[t.part] * t.quantity
    BY DEF Value, NewLine
  <2>3. Price[t.part] * t.quantity \in Int
    <3>1. Price[t.part] \in Int /\ t.quantity \in Int
      BY <1>1, <1>4, TaskTyped, ServiceJobsAssumption
    <3> QED
      BY ONLY <3>1
  <2> DEFINE w == Price[t.part] * t.quantity
             job == [seen EXCEPT !.parts = @ + w]
  <2>4. Worth(work[m], used) = w /\ w \in Int
    BY <1>1, <1>4, <2>3 DEF Worth
  <2> HIDE DEF w
  <2>5. /\ job \in JobRow /\ job.parts = seen.parts + w /\ job.status = seen.status
        /\ job.version = seen.version
    BY <1>3, <2>4 DEF JobRow
  <2>6. Changed(m) = Billed(job)
    BY <2>1, <2>2 DEF w
  <2> HIDE DEF job
  <2> QED
    BY <1>2, <2>4, <2>5, <2>6, BilledFacts
<1>5. CASE t.kind = "return"
  <2>1. Changed(m) = Billed([seen EXCEPT !.parts = @ - Value(used[t.line])])
    BY <1>2, <1>5 DEF Changed
  <2> DEFINE v == Value(used[t.line])
             job == [seen EXCEPT !.parts = @ - v]
  <2>2. Worth(work[m], used) = -v /\ v \in Nat
    BY <1>1, <1>5, MechanicTyped, LineFacts DEF Worth
  <2>3. Changed(m) = Billed(job)
    BY <2>1
  <2> HIDE DEF v
  <2>4. /\ job \in JobRow /\ job.parts = seen.parts - v /\ job.status = seen.status
        /\ job.version = seen.version
    BY <1>3, <2>2 DEF JobRow
  <2> HIDE DEF job
  <2>5. /\ Worth(work[m], used) \in Int
        /\ seen.parts - v = seen.parts + Worth(work[m], used)
    BY <1>3, <2>2
  <2> QED
    BY <1>2, <2>3, <2>4, <2>5, BilledFacts
<1>6. CASE t.kind = "complete"
  <2> DEFINE job == [seen EXCEPT !.labour = t.labour]
             new == [Billed(job) EXCEPT !.status = "ready"]
  <2>1. Changed(m) = new
    BY <1>2, <1>6 DEF Changed
  <2>2. t.labour \in Nat
    BY <1>1, <1>6, TaskTyped
  <2>3. job \in JobRow /\ job.parts = seen.parts /\ job.version = seen.version
    BY <2>2 DEF JobRow
  <2> HIDE DEF job
  <2>4. Billed(job) \in JobRow /\ Bill(Billed(job)) /\ Billed(job).parts = seen.parts
        /\ Billed(job).version = seen.version
    BY <2>3, BilledFacts
  <2>5. PICK b \in JobRow : b = Billed(job)
    BY <2>4
  <2>6. /\ new \in JobRow /\ new.parts = b.parts /\ new.version = b.version
        /\ new.labour = b.labour /\ new.covered = b.covered /\ new.payable = b.payable
        /\ new.status = "ready"
    BY <2>5 DEF JobRow, JobStatus
  <2> HIDE DEF new
  <2>7. Bill(new)
    BY <2>4, <2>5, <2>6, Zenon DEF Bill
  <2>8. Worth(work[m], used) = 0
    BY <1>1, <1>6 DEF Worth
  <2> QED
    BY <1>2, <1>3, <2>1, <2>4, <2>5, <2>6, <2>7, <2>8
<1>7. CASE t.kind = "status"
  <2> DEFINE new == [seen EXCEPT !.status = t.status]
  <2>1. Changed(m) = new
    BY <1>2, <1>7 DEF Changed
  <2>2. t.status \in JobStatus
    BY <1>1, <1>7, TaskTyped
  <2>3. /\ new \in JobRow /\ new.parts = seen.parts /\ new.version = seen.version
        /\ new.labour = seen.labour /\ new.covered = seen.covered /\ new.payable = seen.payable
        /\ new.status # "none"
    BY <2>2 DEF JobRow, JobStatus
  <2> HIDE DEF new
  <2>4. Bill(seen) => Bill(new)
    BY <2>3, Zenon DEF Bill
  <2>5. Worth(work[m], used) = 0
    BY <1>1, <1>7 DEF Worth
  <2> QED
    BY <1>2, <1>3, <1>7, <2>1, <2>3, <2>4, <2>5
<1> QED
  BY <1>1, <1>4, <1>5, <1>6, <1>7

\* Save writes the job it has read, or the job it has read is as it was.
LEMMA JobSaved ==
  ASSUME JobInv, NEW m \in Mechanic, Save(m)
  PROVE  LET j == JobOf(m) IN
         /\ j \in Job /\ jobs' \in [Job -> JobRow]
         /\ \A i \in Job \ {j} : jobs'[i] = jobs[i]
         /\ Worth(work[m], used) \in Int
         /\ jobs'[j].parts = jobs[j].parts + Worth(work[m], used)
         /\ Bill(jobs'[j]) /\ jobs'[j].status # "none"
         /\ jobs'[j] = jobs[j] \/ jobs'[j].version > jobs[j].version
         /\ jobs[j].status \in Closed => jobs'[j].status \in {jobs[j].status, "ready"}
<1> DEFINE j == JobOf(m)
           new == Changed(m)
<1>1. /\ work[m].pc = "save" /\ j \in Job /\ jobs \in [Job -> JobRow] /\ work[m].seen \in JobRow
      /\ j = JobIn(work[m], used) /\ Asked(m) = work[m].task
  BY MechanicTyped DEF Save, Asked
<1>2. PICK seen \in JobRow : seen = work[m].seen
  BY <1>1
<1>3. /\ new \in JobRow /\ new.version = seen.version /\ Worth(work[m], used) \in Int
      /\ new.parts = seen.parts + Worth(work[m], used)
      /\ Bill(seen) => Bill(new)
      /\ seen.status # "none" => new.status # "none"
      /\ new.status = seen.status \/ new.status = "ready" \/ Asked(m).kind = "status"
  BY <1>1, <1>2, ChangedFacts
<1>4. /\ seen.status # "none" /\ jobs[j].status # "none"
      /\ seen.version = jobs[j].version => seen = jobs[j]
      /\ Asked(m).kind = "status" => seen.status \notin Closed
  BY <1>1, <1>2, MechanicTyped DEF Held
<1>5. Bill(jobs[j])
  BY <1>1 DEF JobInv, Paid
<1>6. /\ new = seen \/ jobs[j].version = seen.version
      /\ new = seen => jobs' = jobs
      /\ new # seen => jobs' = [jobs EXCEPT ![j] = [new EXCEPT !.version = @ + 1]]
  BY <1>2 DEF Save, Conflict
<1> HIDE DEF j, new
<1>7. CASE new = seen
  <2>1. Worth(work[m], used) = 0 /\ jobs[j].parts \in Int
    BY <1>1, <1>3, <1>7 DEF JobRow
  <2>2. jobs'[j].parts = jobs[j].parts + Worth(work[m], used)
    BY <1>6, <1>7, <2>1
  <2> QED
    BY <1>1, <1>3, <1>4, <1>5, <1>6, <1>7, <2>2 DEF j
<1>8. CASE new # seen
  <2>1. seen = jobs[j]
    BY <1>4, <1>6, <1>8
  <2> DEFINE after == [new EXCEPT !.version = @ + 1]
  <2>2. /\ after \in JobRow /\ after.version = seen.version + 1 /\ after.parts = new.parts
        /\ after.labour = new.labour /\ after.covered = new.covered /\ after.payable = new.payable
        /\ after.status = new.status /\ seen.version \in Nat
    BY <1>3 DEF JobRow
  <2> HIDE DEF after
  <2>3. Bill(after)
    BY <1>3, <1>5, <2>1, <2>2, Zenon DEF Bill
  <2>4. jobs' \in [Job -> JobRow] /\ jobs'[j] = after /\ \A i \in Job \ {j} : jobs'[i] = jobs[i]
    BY <1>1, <1>6, <1>8, <2>2 DEF after
  <2>5. after.version > jobs[j].version
    BY <2>1, <2>2
  <2> QED
    BY <1>1, <1>3, <1>4, <2>1, <2>2, <2>3, <2>4, <2>5 DEF j
<1> QED
  BY <1>7, <1>8

\* The parts of a job are worth as much more as its bill says, and what has
\* moved of a part is what was taken.
LEMMA UsedSaved ==
  ASSUME JobInv, NEW m \in Mechanic, Save(m)
  PROVE  /\ used' \in Seq(UsedLine) /\ DOMAIN used \subseteq DOMAIN used'
         /\ \A n \in DOMAIN used : /\ used'[n].job = used[n].job /\ used'[n].part = used[n].part
                                   /\ used'[n].quantity = used[n].quantity
         /\ \A j : Cost(used', j) = Cost(used, j)
                                   + IF j = JobOf(m) THEN Worth(work[m], used) ELSE 0
         /\ \A p : MovedOf(used', p) = MovedOf(used, p) - AskedOf(work[m], used, p)
<1> DEFINE t == Asked(m)
<1>1. /\ work[m].pc = "save" /\ used \in Seq(UsedLine) /\ t \in Task /\ t = work[m].task
      /\ t.kind \in {"consume", "return", "status", "complete"}
      /\ t.kind = "return" => t.line \in DOMAIN used /\ used[t.line] \in UsedLine
  BY MechanicTyped, TaskTyped DEF Save, Asked
<1>2. CASE t.kind = "consume"
  <2> DEFINE l == NewLine(m)
  <2>1. t.job \in Job /\ t.part \in Part /\ t.quantity \in Nat \ {0}
    BY <1>1, <1>2, TaskTyped
  <2>2. /\ l \in UsedLine /\ l.job = t.job /\ l.part = t.part /\ l.quantity = t.quantity
        /\ l.returns = 0
    BY <2>1 DEF NewLine, UsedLine
  <2>3. used' = Append(used, l)
    BY <1>2 DEF Save
  <2>4. /\ JobOf(m) = l.job /\ Worth(work[m], used) = Value(l)
        /\ \A p : AskedOf(work[m], used, p) = IF p = l.part THEN l.quantity ELSE 0
    BY <1>1, <1>2, <2>2 DEF JobOf, Worth, Value, AskedOf
  <2> HIDE DEF l
  <2>5. Grown(used, used', l.job, Value(l), l.part, l.quantity)
    BY <1>1, <2>2, <2>3, LineAppended
  <2> QED
    BY <2>4, <2>5 DEF Grown
<1>3. CASE t.kind = "return"
  <2> DEFINE k == t.line
  <2>1. used' = [used EXCEPT ![k].returns = @ + 1] /\ k \in DOMAIN used
    BY <1>1, <1>3 DEF Save
  <2>2. /\ JobOf(m) = used[k].job /\ Worth(work[m], used) = -Value(used[k])
        /\ \A p : AskedOf(work[m], used, p) = IF p = used[k].part THEN -used[k].quantity ELSE 0
    BY <1>1, <1>3 DEF JobOf, Worth, AskedOf
  <2> HIDE DEF k
  <2>3. Grown(used, used', used[k].job, -Value(used[k]), used[k].part, -used[k].quantity)
    BY <1>1, <2>1, LineReturned
  <2> QED
    BY <2>2, <2>3 DEF Grown
<1>4. CASE t.kind \in {"status", "complete"}
  <2>1. used' = used
    BY <1>4 DEF Save
  <2>2. Worth(work[m], used) = 0 /\ \A p : AskedOf(work[m], used, p) = 0
    BY <1>1, <1>4 DEF Worth, AskedOf
  <2> QED
    BY <1>1, <2>1, <2>2, SumsTyped
<1> QED
  BY <1>1, <1>2, <1>3, <1>4

\* What save writes into the rows of stock.
LEMMA StockSaved ==
  ASSUME JobInv, NEW m \in Mechanic, Save(m)
  PROVE  /\ stock' \in [StockRow -> Nat]
         /\ \A r \in StockRow \ work[m].rows : stock'[r] = stock[r]
         /\ \A p \in Part : Shelved(p, used', stock')
<1>1. /\ work[m].pc = "save" /\ stock \in [StockRow -> Nat] /\ work[m].rows \subseteq StockRow
      /\ work[m].left \in [StockRow -> Nat]
      /\ \A p \in Part :
           Takes(work[m], stock, <<p, "batched">>) + Takes(work[m], stock, <<p, "loose">>)
             = AskedOf(work[m], used, p)
  BY MechanicTyped DEF Save, Taking
<1>2. stock' = [r \in StockRow |-> IF r \in work[m].rows THEN work[m].left[r] ELSE stock[r]]
  BY DEF Save
<1>3. /\ stock' \in [StockRow -> Nat]
      /\ \A r \in StockRow : /\ r \in work[m].rows => stock'[r] = work[m].left[r]
                             /\ r \notin work[m].rows => stock'[r] = stock[r]
  BY <1>1, <1>2
<1>4. \A r \in StockRow : /\ stock'[r] = stock[r] - Takes(work[m], stock, r)
                         /\ Takes(work[m], stock, r) \in Int
  BY <1>1, <1>3 DEF Takes
<1>5. ASSUME NEW p \in Part PROVE Shelved(p, used', stock')
  <2> DEFINE b == <<p, "batched">>
             l == <<p, "loose">>
             moved == MovedOf(used, p)
             tb == Takes(work[m], stock, b)
             tl == Takes(work[m], stock, l)
  <2>1. b \in StockRow /\ l \in StockRow
    BY DEF StockRow
  <2>2. stock[b] + stock[l] = Opening[p] + moved /\ Opening[p] \in Nat
    BY ServiceJobsAssumption DEF JobInv, Shelved
  <2>3. MovedOf(used', p) = moved - AskedOf(work[m], used, p)
    BY UsedSaved
  <2>4. AskedOf(work[m], used, p) = tb + tl
    BY <1>1
  <2>5. /\ stock'[b] = stock[b] - tb /\ stock'[l] = stock[l] - tl /\ tb \in Int /\ tl \in Int
        /\ stock[b] \in Nat /\ stock[l] \in Nat
    BY <1>1, <1>4, <2>1
  <2>6. moved \in Int
    BY SumsTyped, MechanicTyped
  <2> HIDE DEF b, l, moved, tb, tl
  <2>7. stock'[b] + stock'[l] = Opening[p] + (moved - (tb + tl))
    BY <2>2, <2>5, <2>6
  <2> QED
    BY <2>3, <2>4, <2>7 DEF Shelved, b, l
<1> QED
  BY <1>3, <1>5

LEMMA JobsSave ==
  ASSUME JobInv, NEW m \in Mechanic, Save(m)
  PROVE  JobInv'
<1> DEFINE j == JobOf(m)
<1>1. /\ work[m].pc = "save" /\ work' = [work EXCEPT ![m] = Resting]
      /\ work \in [Mechanic -> Work] /\ shelf \in [StockRow -> Mechanic \cup {Nobody}]
      /\ shelf' = [r \in StockRow |-> IF shelf[r] = m THEN Nobody ELSE shelf[r]]
      /\ jobs \in [Job -> JobRow]
  BY MechanicTyped DEF Save, Leave
<1>2. /\ j \in Job /\ jobs' \in [Job -> JobRow]
      /\ \A i \in Job \ {j} : jobs'[i] = jobs[i]
      /\ jobs'[j].parts = jobs[j].parts + Worth(work[m], used)
      /\ Bill(jobs'[j]) /\ jobs'[j].status # "none"
      /\ jobs'[j] = jobs[j] \/ jobs'[j].version > jobs[j].version
      /\ Worth(work[m], used) \in Int
  BY JobSaved
<1>3. /\ used' \in Seq(UsedLine) /\ DOMAIN used \subseteq DOMAIN used'
      /\ \A n \in DOMAIN used : /\ used'[n].job = used[n].job /\ used'[n].part = used[n].part
                                /\ used'[n].quantity = used[n].quantity
      /\ \A i : Cost(used', i) = Cost(used, i)
                                + IF i = j THEN Worth(work[m], used) ELSE 0
  BY UsedSaved
<1>4. /\ stock' \in [StockRow -> Nat]
      /\ \A r \in StockRow \ work[m].rows : stock'[r] = stock[r]
      /\ \A p \in Part : Shelved(p, used', stock')
  BY StockSaved
<1> HIDE DEF j
<1>5. /\ work' \in [Mechanic -> Work] /\ work'[m] = Resting
      /\ \A d \in Mechanic : d # m => work'[d] = work[d]
      /\ shelf' \in [StockRow -> Mechanic \cup {Nobody}]
      /\ \A d \in Mechanic \ {m} : \A r \in StockRow : shelf[r] = d => shelf'[r] = d
  BY <1>1, RestingTyped
<1>6. JobTypeOK'
  BY <1>2, <1>3, <1>4, <1>5 DEF JobTypeOK, UsedLine
<1>7. ASSUME NEW i \in Job PROVE Paid(i, jobs', used')
  <2>1. Paid(i, jobs, used) /\ jobs[i].parts \in Int
    BY <1>1 DEF JobInv, JobRow
  <2>2. CASE i = j
    BY <1>2, <1>3, <2>1, <2>2 DEF Paid
  <2>3. CASE i # j
    BY <1>2, <1>3, <2>1, <2>3 DEF Paid
  <2> QED
    BY <2>2, <2>3
<1>8. ASSUME NEW d \in Mechanic
      PROVE  /\ Known(work'[d], used') /\ Held(work'[d], used', jobs')
             /\ Taking(d, work'[d], used', stock', shelf')
  <2>1. CASE d = m
    BY <1>5, <2>1, RestingTyped DEF Known, Held, Taking
  <2>2. CASE d # m
    <3>1. /\ work'[d] = work[d] /\ work[d].rows \subseteq StockRow
          /\ Known(work[d], used) /\ Held(work[d], used, jobs)
          /\ Taking(d, work[d], used, stock, shelf)
          /\ work[d].seen \in JobRow
      BY <1>5, <2>2, MechanicTyped
    <3>2. Known(work[d], used')
      BY <1>3, <3>1 DEF Known
    <3>3. work[d].pc # "idle" =>
            /\ work[d].task.kind = "return" => work[d].task.line \in DOMAIN used
            /\ JobIn(work[d], used') = JobIn(work[d], used)
            /\ JobIn(work[d], used) \in Job
            /\ \A p : AskedOf(work[d], used', p) = AskedOf(work[d], used, p)
      BY <1>3, MechanicTyped DEF JobIn, AskedOf
    <3>4. Held(work[d], used', jobs')
      <4> SUFFICES ASSUME work[d].pc \in {"stock", "save"}
                   PROVE  Held(work[d], used', jobs')
        BY DEF Held
      <4> DEFINE i == JobIn(work[d], used)
                 seen == work[d].seen
      <4>1. i \in Job /\ JobIn(work[d], used') = i
        BY <3>3
      <4>2. /\ seen.status # "none" /\ jobs[i].status # "none"
            /\ seen.version <= jobs[i].version
            /\ seen.version = jobs[i].version => seen = jobs[i]
            /\ work[d].task.kind = "status" => seen.status \notin Closed
        BY <3>1 DEF Held
      <4>3. seen.version \in Nat /\ jobs[i].version \in Nat /\ jobs'[i].version \in Nat
        BY <1>1, <1>2, <3>1, <4>1 DEF JobRow
      <4>4. jobs'[i].status # "none" /\ (jobs'[i] = jobs[i] \/ jobs'[i].version > jobs[i].version)
        BY <1>2, <4>1, <4>2
      <4> HIDE DEF i, seen
      <4>5. /\ seen.version <= jobs'[i].version
            /\ seen.version = jobs'[i].version => seen = jobs'[i]
        BY <4>2, <4>3, <4>4
      <4> QED
        BY <4>1, <4>2, <4>4, <4>5 DEF Held, i, seen
    <3>5. Taking(d, work[d], used', stock', shelf')
      <4>1. \A r \in work[d].rows : shelf[r] = d /\ r \in StockRow
        BY <3>1 DEF Taking
      <4>2. \A r \in work[m].rows : shelf[r] = m
        BY MechanicTyped DEF Taking
      <4>3. \A r \in work[d].rows : shelf'[r] = d /\ stock'[r] = stock[r]
        BY <1>4, <1>5, <2>2, <4>1, <4>2
      <4>4. \A r : Takes(work[d], stock', r) = Takes(work[d], stock, r)
        BY <4>3 DEF Takes
      <4> QED
        BY <3>1, <3>3, <4>3, <4>4 DEF Taking
    <3> QED
      BY <3>1, <3>2, <3>4, <3>5
  <2> QED
    BY <2>1, <2>2
<1> QED
  BY <1>4, <1>6, <1>7, <1>8 DEF JobInv

-----------------------------------------------------------------------------
(* Every step keeps the invariant, and the properties follow.              *)

LEMMA JobNextInv ==
  ASSUME JobInv, [JobNext]_jobVars
  PROVE  JobInv'
<1>1. CASE \E j \in Job : ReceiveJob(j)
  BY <1>1, JobsReceive
<1>2. ASSUME NEW m \in Mechanic,
             BeginTask(m) \/ ReadLine(m) \/ ReadJob(m) \/ LockStock(m)
             \/ Save(m) \/ RefuseTask(m) \/ DropTask(m)
      PROVE  JobInv'
  <2>1. CASE RefuseTask(m) \/ DropTask(m)
    <3>1. Leave(m) /\ UNCHANGED <<jobs, used, stock>>
      BY <2>1 DEF RefuseTask, DropTask
    <3> QED
      BY <3>1, JobsLeave
  <2> QED
    BY <1>2, <2>1, JobsBegin, JobsReadLine, JobsReadJob, JobsLockStock, JobsSave
<1>3. CASE UNCHANGED jobVars
  <2>1. jobs' = jobs /\ used' = used /\ stock' = stock /\ shelf' = shelf /\ work' = work
    BY <1>3 DEF jobVars
  <2>2. JobTypeOK'
    BY <2>1 DEF JobInv, JobTypeOK
  <2>3. /\ \A j \in Job : Paid(j, jobs', used')
        /\ \A p \in Part : Shelved(p, used', stock')
        /\ \A m \in Mechanic : /\ Known(work'[m], used') /\ Held(work'[m], used', jobs')
                               /\ Taking(m, work'[m], used', stock', shelf')
    BY <2>1 DEF JobInv
  <2> QED
    BY <2>2, <2>3 DEF JobInv
<1> QED
  BY <1>1, <1>2, <1>3 DEF JobNext

\* A sum of an expression over the lines is the sum of its function.
LEMMA CostIsSum ==
  ASSUME JobInv, NEW j \in Job
  PROVE  MapThenSumSet(LAMBDA n : Value(used[n]) * (1 - used[n].returns), LinesOf(j))
           = Cost(used, j)
<1> DEFINE S == LinesOf(j)
           f == [n \in S |-> Value(used[n]) * (1 - used[n].returns)]
           h == [n \in DOMAIN used |-> Value(used[n]) * (1 - used[n].returns)]
<1>1. S = InJob(used, j)
  BY DEF LinesOf, InJob
<1>2. used \in Seq(UsedLine)
  BY DEF JobInv, JobTypeOK, UsedLine
<1>3. IsFiniteSet(S) /\ S \subseteq DOMAIN used /\ \A n \in S : f[n] \in Int /\ f[n] = h[n]
  BY <1>1, <1>2, LinesFacts
<1>4. MapThenSumSet(LAMBDA n : Value(used[n]) * (1 - used[n].returns), S)
        = SumFunctionOnSet(f, S)
  <2> HIDE DEF S
  <2> QED
    BY ONLY Zenon DEF f, MapThenSumSet, MapThenFoldSet, SumFunctionOnSet, FoldFunctionOnSet
<1>5. Cost(used, j) = SumFunctionOnSet(h, S)
  BY <1>1 DEF Cost
<1> HIDE DEF f, h
<1>6. SumFunctionOnSet(f, S) = SumFunctionOnSet(h, S)
  BY <1>3, SumSame
<1> QED
  BY <1>4, <1>5, <1>6

LEMMA MovedIsSum ==
  ASSUME JobInv, NEW p \in Part
  PROVE  MapThenSumSet(LAMBDA n : used[n].quantity * (used[n].returns - 1), LinesWith(p))
           = MovedOf(used, p)
<1> DEFINE S == LinesWith(p)
           f == [n \in S |-> used[n].quantity * (used[n].returns - 1)]
           h == [n \in DOMAIN used |-> used[n].quantity * (used[n].returns - 1)]
<1>1. S = OfPart(used, p)
  BY DEF LinesWith, OfPart
<1>2. used \in Seq(UsedLine)
  BY DEF JobInv, JobTypeOK, UsedLine
<1>3. IsFiniteSet(S) /\ S \subseteq DOMAIN used /\ \A n \in S : f[n] \in Int /\ f[n] = h[n]
  BY <1>1, <1>2, LinesFacts
<1>4. MapThenSumSet(LAMBDA n : used[n].quantity * (used[n].returns - 1), S)
        = SumFunctionOnSet(f, S)
  <2> HIDE DEF S
  <2> QED
    BY ONLY Zenon DEF f, MapThenSumSet, MapThenFoldSet, SumFunctionOnSet, FoldFunctionOnSet
<1>5. MovedOf(used, p) = SumFunctionOnSet(h, S)
  BY <1>1 DEF MovedOf
<1> HIDE DEF f, h
<1>6. SumFunctionOnSet(f, S) = SumFunctionOnSet(h, S)
  BY <1>3, SumSame
<1> QED
  BY <1>4, <1>5, <1>6

LEMMA JobInvAddsUp == JobInv => JobsAddUp
<1> SUFFICES ASSUME JobInv PROVE JobsAddUp
  OBVIOUS
<1>1. BillIsParts
  <2> SUFFICES ASSUME NEW j \in Job
               PROVE  /\ jobs[j].parts = Cost(used, j)
                      /\ jobs[j].payable =
                           jobs[j].labour + IF jobs[j].covered THEN 0 ELSE Cost(used, j)
    BY CostIsSum, Zenon DEF BillIsParts
  <2>1. jobs[j].parts = Cost(used, j) /\ Bill(jobs[j])
    BY DEF JobInv, Paid
  <2> QED
    BY <2>1, Zenon DEF Bill
<1>2. PartsAccounted
  <2> SUFFICES ASSUME NEW p \in Part
               PROVE  stock[<<p, "batched">>] + stock[<<p, "loose">>]
                        = Opening[p] + MovedOf(used, p)
    BY MovedIsSum, Zenon DEF PartsAccounted
  <2> QED
    BY DEF JobInv, Shelved
<1> QED
  BY <1>1, <1>2 DEF JobsAddUp

\* Whatever mechanics do at once, jobs, lines and stock keep their types.
THEOREM JobsTyped == JobSpec => []JobTypeOK
<1>1. JobInv => JobTypeOK
  BY DEF JobInv
<1> QED
  BY <1>1, JobInitInv, JobNextInv, PTL DEF JobSpec

\* The bill of every job is that of the parts in it, whatever requests overlap,
\* and every part is on the shelf or in a job.
THEOREM JobsBilledRight == JobSpec => []JobsAddUp
BY JobInitInv, JobNextInv, JobInvAddsUp, PTL DEF JobSpec

\* Whoever read the job before it was closed does not open it again: only
\* completing it does.
THEOREM ClosedStays == JobSpec => ClosedOnlyCompleted
<1> DEFINE Step == \A j \in Job : jobs[j].status \in Closed =>
                     jobs'[j].status \in {jobs[j].status, "ready"}
<1>1. ASSUME JobInv, [JobNext]_jobVars PROVE [Step]_jobVars
  <2> SUFFICES ASSUME JobNext, NEW j \in Job, jobs[j].status \in Closed
               PROVE  jobs'[j].status \in {jobs[j].status, "ready"}
    BY <1>1
  <2>1. jobs[j].status # "none"
    BY DEF Closed
  <2>2. CASE \E i \in Job : ReceiveJob(i)
    <3>1. PICK i \in Job : ReceiveJob(i)
      BY <2>2
    <3>2. i # j
      BY <2>1, <3>1 DEF ReceiveJob
    <3>3. jobs'[j] = jobs[j]
      BY <3>1, <3>2, <1>1 DEF ReceiveJob, JobInv, JobTypeOK
    <3> QED
      BY <3>3
  <2>3. CASE \E m \in Mechanic : Save(m)
    <3>1. PICK m \in Mechanic : Save(m)
      BY <2>3
    <3>2. /\ \A i \in Job \ {JobOf(m)} : jobs'[i] = jobs[i]
          /\ jobs[JobOf(m)].status \in Closed =>
               jobs'[JobOf(m)].status \in {jobs[JobOf(m)].status, "ready"}
      BY <1>1, <3>1, JobSaved
    <3> QED
      BY <3>2
  <2>4. CASE UNCHANGED jobs
    BY <2>4
  <2> QED
    BY <2>2, <2>3, <2>4 DEF JobNext, BeginTask, ReadLine, ReadJob, LockStock, RefuseTask, DropTask
<1> QED
  BY <1>1, JobInitInv, JobNextInv, PTL DEF JobSpec, ClosedOnlyCompleted

-----------------------------------------------------------------------------
(* The three together.                                                     *)

LEMMA GoodsInitInv == GoodsInit => OrdersInv /\ LooseInv /\ JobInv
BY OrdersInitInv, LooseInitInv, JobInitInv DEF GoodsInit

LEMMA GoodsNextInv ==
  OrdersInv /\ LooseInv /\ JobInv /\ [GoodsNext]_<<vars, jobVars, looseVars, shift>>
    => (OrdersInv /\ LooseInv /\ JobInv)'
<1> SUFFICES ASSUME OrdersInv, LooseInv, JobInv,
                    [GoodsNext]_<<vars, jobVars, looseVars, shift>>
             PROVE  OrdersInv' /\ LooseInv' /\ JobInv'
  OBVIOUS
<1>1. [PurchasesNext]_vars /\ [LooseNext]_looseVars /\ [JobNext]_jobVars
  BY DEF GoodsNext
<1> QED
  BY <1>1, OrdersNextInv, LooseNextInv, JobNextInv

\* What is received, what is in stock and what is repaired keep their types.
THEOREM GoodsTyped == GoodsSpec => []GoodsTypeOK
<1>1. OrdersInv /\ LooseInv /\ JobInv => GoodsTypeOK
  BY DEF OrdersInv, PurchasesInv, LooseInv, JobInv, GoodsTypeOK
<1> QED
  BY <1>1, GoodsInitInv, GoodsNextInv, PTL DEF GoodsSpec
=============================================================================
