------------------------------ MODULE Purchases ------------------------------
(***************************************************************************)
(* Purchase orders, goods receipts and supplier invoices                   *)
(* (purchases/service.py).  A receipt goes through its lines one by one:   *)
(* the batch is found or inserted, the movement locks the balance row, and *)
(* the order item gets the quantity on top of what was read of it.  The    *)
(* status of the order is refreshed at the end.                            *)
(*                                                                         *)
(* Orders are received through the service; the endpoint passes neither    *)
(* the order nor its items.  The UPDATE of an item goes out with the next  *)
(* flush; here that is before the next line.  Costs are in Figures.        *)
(***************************************************************************)
EXTENDS Naturals, Sequences, FiniteSetsExt

CONSTANTS
  Clerk,        \* request handlers
  NoOne,        \* holder of a free lock
  Branch,       \* branches that receive, each with its own number series
  Order,        \* purchase orders
  NoOrder,
  Item,         \* order items
  NoItem,
  OrderOf,      \* the order of each item
  Ordered,      \* ordered_base_quantity of each item
  Row,          \* balance rows: a product, with a batch or without
  Batched,      \* the rows that have a batch
  SupplierBill, \* supplier and number of the supplier's invoices
  Receipt,      \* the receipts that come in
  MaxReceipts   \* bound: receipts come in only while there are fewer

Lines == [row : Row, item : Item \cup {NoItem}, billed : Nat \ {0}, free : Nat]

Receipts == [branch : Branch, order : Order \cup {NoOrder}, lines : Seq(Lines)]

ASSUME PurchasesAssumption ==
  /\ NoOne \notin Clerk /\ NoOrder \notin Order /\ NoItem \notin Item
  /\ OrderOf \in [Item -> Order]
  /\ Ordered \in [Item -> Nat]
  /\ Batched \subseteq Row
  /\ SupplierBill # {} /\ MaxReceipts \in Nat
  /\ Receipt \subseteq Receipts
  \* The caller names the order of the items it receives.
  /\ \A r \in Receipt : /\ r.lines # <<>>
                        /\ \A n \in DOMAIN r.lines :
                             r.lines[n].item # NoItem => OrderOf[r.lines[n].item] = r.order

VARIABLES
  orders,     \* status and version of each order
  received,   \* received_base_quantity of each item
  batches,    \* the batches that exist
  receipts,   \* committed lines of goods receipts
  bills,      \* recorded supplier invoices
  counter,    \* who holds the receipt number of each branch
  row,        \* who holds each balance row
  itemRow,    \* who holds each order item
  tx          \* the transaction of each clerk

vars == <<orders, received, batches, receipts, bills, counter, row, itemRow, tx>>

Status == {"none", "confirmed", "partially_received", "received"}

NoReceipt == [branch |-> CHOOSE b \in Branch : TRUE, order |-> NoOrder, lines |-> <<>>]

Idle == [pc |-> "idle", req |-> NoReceipt, at |-> 1, loaded |-> {}, got |-> [i \in Item |-> 0], new |-> {},
         seen |-> [status |-> "none", version |-> 0], status |-> "none",
         bill |-> CHOOSE b \in SupplierBill : TRUE]

Tx == [pc : {"idle", "number", "batch", "insert", "row", "item", "flush", "order", "tally",
             "commit", "bill", "recorded"},
       req : Receipts \cup {NoReceipt},
       at : Nat \ {0},                              \* the line it is at
       loaded : SUBSET Item,                        \* items in its session
       got : [Item -> Nat],                         \* and what they have received there
       new : SUBSET Batched,                        \* batches it has inserted
       seen : [status : Status, version : Nat],     \* the order it has read
       status : Status,                             \* the status it writes
       bill : SupplierBill]                         \* the supplier invoice it records

PurchasesTypeOK ==
  /\ orders \in [Order -> [status : Status, version : Nat]]
  /\ received \in [Item -> Nat]
  /\ batches \subseteq Batched
  /\ receipts \in Seq([branch : Branch, row : Row, item : Item \cup {NoItem}, total : Nat])
  /\ bills \in Seq(SupplierBill)
  /\ counter \in [Branch -> Clerk \cup {NoOne}]
  /\ row \in [Row -> Clerk \cup {NoOne}]
  /\ itemRow \in [Item -> Clerk \cup {NoOne}]
  /\ tx \in [Clerk -> Tx]

PurchasesInit ==
  /\ orders = [o \in Order |-> [status |-> "none", version |-> 0]]
  /\ received = [i \in Item |-> 0]
  /\ batches = {}
  /\ receipts = <<>>
  /\ bills = <<>>
  /\ counter = [b \in Branch |-> NoOne]
  /\ row = [r \in Row |-> NoOne]
  /\ itemRow = [i \in Item |-> NoOne]
  /\ tx = [c \in Clerk |-> Idle]

-----------------------------------------------------------------------------
Books == <<orders, received, batches, receipts, bills>>
Locks == <<counter, row, itemRow>>

Req(c) == tx[c].req
LineOf(c) == Req(c).lines[tx[c].at]
Quantity(line) == line.billed + line.free

Go(c, pc) == tx' = [tx EXCEPT ![c].pc = pc]

\* create_purchase_order: an order is confirmed from the start.
PlaceOrder(o) ==
  /\ orders[o].status = "none"
  /\ orders' = [orders EXCEPT ![o].status = "confirmed"]
  /\ UNCHANGED <<received, batches, receipts, bills>> /\ UNCHANGED Locks /\ UNCHANGED tx

BeginReceipt(c) ==
  /\ tx[c].pc = "idle"
  /\ Len(receipts) < MaxReceipts
  /\ \E r \in Receipt :
       /\ r.order # NoOrder => orders[r.order].status # "none"
       /\ tx' = [tx EXCEPT ![c] = [Idle EXCEPT !.pc = "number", !.req = r]]
  /\ UNCHANGED Books /\ UNCHANGED Locks

\* Slip: the number is drawn without its lock.
TakeNumberUnlocked(c) ==
  /\ tx[c].pc = "number"
  /\ Go(c, "batch")
  /\ UNCHANGED Books /\ UNCHANGED Locks

\* next_number: the receipts of a branch go one after the other.
TakeNumber(c) ==
  /\ tx[c].pc = "number"
  /\ counter[Req(c).branch] = NoOne
  /\ counter' = [counter EXCEPT ![Req(c).branch] = c]
  /\ Go(c, "batch")
  /\ UNCHANGED Books /\ UNCHANGED <<row, itemRow>>

\* Slip: every line gets a batch.
FindBatchAlways(c) ==
  /\ tx[c].pc = "batch"
  /\ Go(c, IF LineOf(c).row \in batches \cup tx[c].new THEN "row" ELSE "insert")
  /\ UNCHANGED Books /\ UNCHANGED Locks

\* _resolve_batch: a line without a batch number needs none.
FindBatch(c) ==
  /\ tx[c].pc = "batch"
  /\ Go(c, IF LineOf(c).row \in (Row \ Batched) \cup batches \cup tx[c].new THEN "row" ELSE "insert")
  /\ UNCHANGED Books /\ UNCHANGED Locks

\* Another clerk has inserted the batch without committing it.
BatchContested(c) == \E d \in Clerk \ {c} : LineOf(c).row \in tx[d].new

\* Slip: no unique constraint on product and batch number.
InsertBatchUnchecked(c) ==
  /\ tx[c].pc = "insert"
  /\ tx' = [tx EXCEPT ![c].pc = "row", ![c].new = @ \cup {LineOf(c).row}]
  /\ UNCHANGED Books /\ UNCHANGED Locks

\* The batch is inserted under the unique constraint.
InsertBatch(c) ==
  /\ tx[c].pc = "insert"
  /\ ~BatchContested(c)
  /\ LineOf(c).row \notin batches
  /\ tx' = [tx EXCEPT ![c].pc = "row", ![c].new = @ \cup {LineOf(c).row}]
  /\ UNCHANGED Books /\ UNCHANGED Locks

\* post_movement locks the balance row until the transaction ends.
LockRow(c) ==
  /\ tx[c].pc = "row"
  /\ row[LineOf(c).row] \in {NoOne, c}
  /\ row' = [row EXCEPT ![LineOf(c).row] = c]
  /\ Go(c, "item")
  /\ UNCHANGED Books /\ UNCHANGED <<counter, itemRow>>

After(c) == IF tx[c].at < Len(Req(c).lines) THEN "batch" ELSE "order"

\* What c sees of an item: what is in its session, else what is committed.
Seen(c, i) == IF i \in tx[c].loaded THEN tx[c].got[i] ELSE received[i]

\* Slip: the receipt of a line replaces what came before.
RaisedAnew(c, i, n) == n

\* _apply_po_receipt.
Raised(c, i, n) == Seen(c, i) + n

ReadItem(c) ==
  /\ tx[c].pc = "item"
  /\ LET i == LineOf(c).item IN
     IF i = NoItem
     THEN tx' = [tx EXCEPT ![c].pc = After(c), ![c].at = @ + 1]
     ELSE tx' = [tx EXCEPT ![c].pc = "flush", ![c].loaded = @ \cup {i},
                           ![c].got[i] = Raised(c, i, Quantity(LineOf(c)))]
  /\ UNCHANGED Books /\ UNCHANGED Locks

\* The UPDATE of the item waits for its row and then writes the value computed.
FlushItem(c) ==
  /\ tx[c].pc = "flush"
  /\ itemRow[LineOf(c).item] \in {NoOne, c}
  /\ itemRow' = [itemRow EXCEPT ![LineOf(c).item] = c]
  /\ tx' = [tx EXCEPT ![c].pc = After(c), ![c].at = @ + 1]
  /\ UNCHANGED Books /\ UNCHANGED <<counter, row>>

\* _refresh_po_status reads the order.
ReadOrder(c) ==
  /\ tx[c].pc = "order"
  /\ IF Req(c).order = NoOrder
     THEN Go(c, "commit")
     ELSE tx' = [tx EXCEPT ![c].pc = "tally", ![c].seen = orders[Req(c).order]]
  /\ UNCHANGED Books /\ UNCHANGED Locks

ItemsOf(o) == {i \in Item : OrderOf[i] = o}

\* Slip: one finished item finishes the order.
ProgressOfAny(o, got, status) ==
  IF \E i \in ItemsOf(o) : got[i] >= Ordered[i] THEN "received"
  ELSE IF \E i \in ItemsOf(o) : got[i] > 0 THEN "partially_received" ELSE status

\* The status that quantities give an order that had status.
Progress(o, got, status) ==
  IF ItemsOf(o) # {} /\ \A i \in ItemsOf(o) : got[i] >= Ordered[i] THEN "received"
  ELSE IF \E i \in ItemsOf(o) : got[i] > 0 THEN "partially_received" ELSE status

Tally(c) ==
  /\ tx[c].pc = "tally"
  /\ tx' = [tx EXCEPT ![c].pc = "commit",
              ![c].status = Progress(Req(c).order, [i \in Item |-> Seen(c, i)], tx[c].seen.status)]
  /\ UNCHANGED Books /\ UNCHANGED Locks

-----------------------------------------------------------------------------
Release(c) ==
  /\ counter' = [b \in Branch |-> IF counter[b] = c THEN NoOne ELSE counter[b]]
  /\ row' = [r \in Row |-> IF row[r] = c THEN NoOne ELSE row[r]]
  /\ itemRow' = [i \in Item |-> IF itemRow[i] = c THEN NoOne ELSE itemRow[i]]
  /\ tx' = [tx EXCEPT ![c] = Idle]

\* It writes a status, and the order is no longer the version it has read.
Stale(c) ==
  /\ Req(c).order # NoOrder
  /\ tx[c].status # tx[c].seen.status
  /\ orders[Req(c).order].version # tx[c].seen.version

\* An unchanged status is not written, and so not checked.
Refreshed(c) ==
  IF Req(c).order = NoOrder \/ tx[c].status = tx[c].seen.status THEN orders
  ELSE [orders EXCEPT ![Req(c).order] =
          [status |-> tx[c].status, version |-> tx[c].seen.version + 1]]

Posted(req) ==
  [n \in DOMAIN req.lines |-> [branch |-> req.branch, row |-> req.lines[n].row,
                               item |-> req.lines[n].item, total |-> Quantity(req.lines[n])]]

CommitReceipt(c) ==
  /\ tx[c].pc = "commit"
  /\ ~Stale(c)
  /\ orders' = Refreshed(c)
  /\ received' = [i \in Item |-> Seen(c, i)]
  /\ batches' = batches \cup tx[c].new
  /\ receipts' = receipts \o Posted(Req(c))
  /\ Release(c)
  /\ UNCHANGED bills

\* record_purchase_invoice: the invoice is inserted under uq_supplier_invoice.
BeginBill(c) ==
  /\ tx[c].pc = "idle"
  /\ Len(bills) < MaxReceipts
  /\ \E b \in SupplierBill : tx' = [tx EXCEPT ![c] = [Idle EXCEPT !.pc = "bill", !.bill = b]]
  /\ UNCHANGED Books /\ UNCHANGED Locks

Recorded(b) == \E n \in DOMAIN bills : bills[n] = b

\* Slip: the number is looked up, not constrained.
InsertBillUnchecked(c) ==
  /\ tx[c].pc = "bill"
  /\ ~Recorded(tx[c].bill)
  /\ Go(c, "recorded")
  /\ UNCHANGED Books /\ UNCHANGED Locks

InsertBill(c) ==
  /\ tx[c].pc = "bill"
  /\ ~Recorded(tx[c].bill)
  /\ \A d \in Clerk \ {c} : ~(tx[d].pc = "recorded" /\ tx[d].bill = tx[c].bill)
  /\ Go(c, "recorded")
  /\ UNCHANGED Books /\ UNCHANGED Locks

CommitBill(c) ==
  /\ tx[c].pc = "recorded"
  /\ bills' = Append(bills, tx[c].bill)
  /\ Release(c)
  /\ UNCHANGED <<orders, received, batches, receipts>>

Rollback(c) == Release(c) /\ UNCHANGED Books

\* IntegrityError on the batch, StaleDataError on the order, ConflictError on
\* the invoice.
Fail(c) ==
  /\ \/ tx[c].pc = "insert" /\ LineOf(c).row \in batches
     \/ tx[c].pc = "commit" /\ Stale(c)
     \/ tx[c].pc = "bill" /\ Recorded(tx[c].bill)
  /\ Rollback(c)

\* A deadlock PostgreSQL breaks, a lost connection, a crash.
Abort(c) == tx[c].pc # "idle" /\ Rollback(c)

Process(c) ==
  \/ TakeNumber(c) \/ FindBatch(c) \/ InsertBatch(c) \/ LockRow(c) \/ ReadItem(c)
  \/ FlushItem(c) \/ ReadOrder(c) \/ Tally(c) \/ CommitReceipt(c) \/ InsertBill(c)
  \/ CommitBill(c) \/ Fail(c)

PurchasesNext ==
  \/ \E o \in Order : PlaceOrder(o)
  \/ \E c \in Clerk : BeginReceipt(c) \/ BeginBill(c) \/ Process(c) \/ Abort(c)

PurchasesSpec == PurchasesInit /\ [][PurchasesNext]_vars

-----------------------------------------------------------------------------
(* Properties.                                                             *)

ReceiptsOf(i) == {n \in DOMAIN receipts : receipts[n].item = i}

\* Only one branch has received the item.
OneBranch(i) == \A m, n \in ReceiptsOf(i) : receipts[m].branch = receipts[n].branch

\* No receipt of an order item is lost, however many clerks of a branch receive
\* it at once: the value read in service.py:279 is the latest one, because the
\* number of the receipt is drawn first.  Branches have numbers of their own,
\* and PurchaseOrderItem no version, so two of them can lose one.
ReceivedIsReceipts ==
  \A i \in Item : OneBranch(i) =>
    received[i] = MapThenSumSet(LAMBDA n : receipts[n].total, ReceiptsOf(i))

OneBranchOf(o) == \A i, j \in ItemsOf(o) : \A m \in ReceiptsOf(i), n \in ReceiptsOf(j) :
                    receipts[m].branch = receipts[n].branch

\* An order is placed with items, and asks for some of one of them.
Asks(o) == \E i \in ItemsOf(o) : Ordered[i] > 0

\* An order says what its items say (service.py:298-301): it is received when
\* every item is, and partially received when something is, whatever receipts
\* of other items and refreshes came in between.
StatusIsProgress ==
  \A o \in Order : Asks(o) /\ OneBranchOf(o) /\ orders[o].status # "none" =>
    /\ orders[o].status = "received" <=> \A i \in ItemsOf(o) : received[i] >= Ordered[i]
    /\ orders[o].status = "confirmed" <=> \A i \in ItemsOf(o) : received[i] = 0

\* A batch is created once: two receipts that bring the same new batch do not
\* both insert it (models.py uq_batch), and stock goes only to batches that
\* exist when it is committed.
BatchesOnce ==
  /\ \A c, d \in Clerk : c # d => tx[c].new \cap tx[d].new = {}
  /\ \A c \in Clerk : tx[c].new \cap batches = {}
  /\ \A n \in DOMAIN receipts : receipts[n].row \in Batched => receipts[n].row \in batches

\* A supplier's invoice is recorded once (models.py:156, "Duplicate
\* supplier-invoice detection"), also by two clerks at once.
BillsOnce == \A m, n \in DOMAIN bills : bills[m] = bills[n] => m = n

\* c cannot go on before d ends: d holds the number of the branch, has inserted
\* the batch or the invoice c inserts, or holds the row c writes to.
WaitsFor(c, d) ==
  /\ c # d
  /\ \/ tx[c].pc = "number" /\ counter[Req(c).branch] = d
     \/ tx[c].pc = "insert" /\ LineOf(c).row \in tx[d].new
     \/ tx[c].pc = "row" /\ row[LineOf(c).row] = d
     \/ tx[c].pc = "flush" /\ itemRow[LineOf(c).item] = d
     \/ tx[c].pc = "bill" /\ tx[d].pc = "recorded" /\ tx[d].bill = tx[c].bill

\* Everyone who is not at a receipt of another branch.
ClerksAt(b) ==
  {c \in Clerk : tx[c].pc \in {"idle", "bill", "recorded"} \/ Req(c).branch = b}

\* Clerks of one branch never wait for one another in a circle, although the lines
\* of a receipt lock batches and order items in the order they were typed: the
\* number is drawn first (receive_goods, purchases/service.py). Receipts of two
\* branches that bring the same goods in opposite order may.
NoCircleAtBranch ==
  \A b \in Branch : \A S \in SUBSET ClerksAt(b) :
    S # {} => \E c \in S : \A d \in S : ~WaitsFor(c, d)

\* What an order says has arrived is what its receipts brought, and its status
\* follows (service.py:281-305).
OrdersAreReceipts == ReceivedIsReceipts /\ StatusIsProgress

\* Batches and supplier invoices come into being once.
CreatedOnce == BatchesOnce /\ BillsOnce
=============================================================================
