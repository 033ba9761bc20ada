----------------------------- MODULE Receivables -----------------------------
(***************************************************************************)
(* What customers owe: counter sales on khata (sales/service.py), dealer   *)
(* orders and their dispatch (wholesale_service.py), collections that      *)
(* settle invoices oldest first (collections/service.py), and the journal  *)
(* that all of them post (accounting/service.py).                          *)
(*                                                                         *)
(* The steps of a request are its statements that meet another request:    *)
(* the number lock of the branch, the sum of the open invoices, the locks  *)
(* on them, the chart of accounts and the commit.  Stock and keys are in   *)
(* Inventory and Billing; amounts are whole, and one tender pays a sale.   *)
(***************************************************************************)
EXTENDS Ledger, Sequences

CONSTANTS
  Worker,     \* request handlers
  NoOne,      \* holder of a free lock
  Branch,     \* branches that bill, each with its own number series
  Customer,   \* customers with an account
  WalkIn,     \* the buyer of a sale without customer_id
  Limit,      \* credit limit of each customer, 0 for none
  Request,    \* the requests that come in
  MaxBills,   \* bound: invoices started
  MaxOrders,  \* bound: orders come in only while there are fewer
  MaxPays     \* bound: requests come in only while there are fewer payments

BillId == 1..MaxBills  \* invoices by age: created_at is the start of the transaction

Requests == [kind : {"sale", "order", "dispatch", "collect"},
             customer : Customer \cup {WalkIn},
             branch : Branch,        \* the user's default branch
             net : Nat, tax : Nat,   \* the priced lines of a sale or an order
             money : Nat,            \* paid with the sale, or collected
             method : Method,
             quote : BOOLEAN,        \* is_quotation
             override : BOOLEAN,     \* credit_override_approved
             order : Nat]            \* the order to dispatch

ASSUME ReceivablesAssumption ==
  /\ NoOne \notin Worker
  /\ WalkIn \notin Customer
  /\ Branch # {} /\ IsFiniteSet(Customer)
  /\ Limit \in [Customer -> Nat]
  /\ MaxBills \in Nat /\ MaxOrders \in Nat /\ MaxPays \in Nat
  /\ Request \subseteq Requests
  /\ \A r \in Request : /\ r.kind \in {"order", "collect"} => r.customer # WalkIn
                        /\ r.kind = "collect" => r.money > 0

VARIABLES
  bills,      \* committed invoices
  orders,     \* committed wholesale orders, by age
  pays,       \* committed payments with their allocations
  journal,    \* committed journal entries, one at most per document
  chart,      \* the accounts of the organization exist
  opener,     \* who has inserted them without committing yet
  counter,    \* who holds the invoice number of each branch
  lock,       \* who holds the row lock of each invoice
  tx          \* the transaction of each worker

vars == <<bills, orders, pays, journal, chart, opener, counter, lock, tx>>

NoBill == [customer |-> WalkIn, branch |-> CHOOSE b \in Branch : TRUE, net |-> 0,
           tax |-> 0, paid |-> 0, channel |-> "retail", status |-> "none"]

Bill == [customer : Customer \cup {WalkIn}, branch : Branch, net : Nat, tax : Nat,
         paid : Nat, channel : {"retail", "wholesale"},
         status : {"none", "credit", "partial", "paid"}]

Order == [customer : Customer, branch : Branch, net : Nat, tax : Nat,
          status : {"quotation", "confirmed", "invoiced"},
          bill : {0} \cup BillId]     \* sales_invoice_id

Amounts == [BillId -> Nat]
Nothing == [b \in BillId |-> 0]

Payment == [customer : Customer \cup {WalkIn}, method : Method, money : Nat,
            to : Amounts,            \* its allocations
            looked : SUBSET BillId]  \* the invoices it chose from

NoRequest == [kind |-> "sale", customer |-> WalkIn, branch |-> NoBill.branch, net |-> 0,
              tax |-> 0, money |-> 0, method |-> "cash", quote |-> FALSE,
              override |-> FALSE, order |-> 0]

Idle == [pc |-> "idle", req |-> NoRequest, bill |-> 0, looked |-> {}, left |-> {},
         take |-> Nothing, rest |-> 0]

Tx == [pc : {"idle", "read", "number", "check", "look", "settle", "post", "open", "commit"},
       req : Requests,
       bill : Nat,               \* the invoice it writes, 0 for none
       looked : SUBSET BillId,   \* open invoices its SELECT found
       left : SUBSET BillId,     \* those it has not locked yet
       take : Amounts,           \* what it allocates to each
       rest : Nat]               \* what remains to allocate

TypeOK ==
  /\ bills \in [BillId -> Bill]
  /\ orders \in Seq(Order)
  /\ pays \in Seq(Payment)
  /\ journal \subseteq [doc : {"bill", "payment"} \X Nat, lines : Entry]
  /\ chart \in BOOLEAN
  /\ opener \in Worker \cup {NoOne}
  /\ counter \in [Branch -> Worker \cup {NoOne}]
  /\ lock \in [BillId -> Worker \cup {NoOne}]
  /\ tx \in [Worker -> Tx]

Init ==
  /\ bills = [b \in BillId |-> NoBill]
  /\ orders = <<>>
  /\ pays = <<>>
  /\ journal = {}
  /\ chart = FALSE
  /\ opener = NoOne
  /\ counter = [b \in Branch |-> NoOne]
  /\ lock = [b \in BillId |-> NoOne]
  /\ tx = [w \in Worker |-> Idle]

-----------------------------------------------------------------------------
Req(w) == tx[w].req
Cost(x) == x.net + x.tax
Due(b) == Cost(bills[b]) - bills[b].paid

Written == {b \in BillId : bills[b].status # "none"}
BillsOf(c) == {b \in Written : bills[b].customer = c}

\* payment_status != PAID.
Open(c) == {b \in BillsOf(c) : bills[b].status # "paid"}

Outstanding(c) == MapThenSumSet(Due, Open(c))

\* _derive_status: an invoice of nothing is on credit for ever.
StatusOf(paid, total) ==
  IF paid >= total /\ total > 0 THEN "paid" ELSE IF paid > 0 THEN "partial" ELSE "credit"

Move(w, pc) == tx' = [tx EXCEPT ![w].pc = pc]

\* Accounting aside, a request leaves this alone until its commit.
Books == <<bills, orders, pays, journal, chart>>
Locks == <<opener, counter, lock>>

-----------------------------------------------------------------------------
Ages == Written \cup {tx[w].bill : w \in Worker}

\* The next invoice by age.
Fresh(b) == b \in BillId /\ (\A a \in BillId : a >= b => a \notin Ages) /\ (b = 1 \/ b - 1 \in Ages)

Start(w, req, pc, b) ==
  /\ tx[w].pc = "idle"
  /\ tx' = [tx EXCEPT ![w] = [Idle EXCEPT !.pc = pc, !.req = req, !.bill = b]]
  /\ UNCHANGED Books /\ UNCHANGED Locks

Begin(w) ==
  /\ Len(pays) < MaxPays
  /\ \E req \in Request :
       \/ req.kind = "sale" /\ \E b \in BillId : Fresh(b) /\ Start(w, req, "number", b)
       \/ req.kind = "order" /\ Len(orders) < MaxOrders /\ Start(w, req, "check", 0)
       \/ /\ req.kind = "dispatch" /\ req.order \in DOMAIN orders
          /\ \E b \in BillId : Fresh(b) /\ Start(w, req, "read", b)
       \/ req.kind = "collect" /\ Start(w, req, "look", 0)

\* What the request becomes once it is the order's dispatch.
Dispatched(req) ==
  LET o == orders[req.order] IN
  [req EXCEPT !.customer = o.customer, !.branch = o.branch, !.net = o.net, !.tax = o.tax,
              !.money = 0]

\* dispatch_and_invoice reads the order without a lock.
ReadOrder(w) ==
  /\ tx[w].pc = "read"
  /\ orders[Req(w).order].status = "confirmed"
  /\ tx' = [tx EXCEPT ![w].pc = "number", ![w].req = Dispatched(Req(w))]
  /\ UNCHANGED Books /\ UNCHANGED Locks

\* Slip: the number is drawn without its lock.
TakeNumberUnlocked(w) ==
  /\ tx[w].pc = "number"
  /\ Move(w, IF Req(w).kind = "sale" THEN "check" ELSE "post")
  /\ UNCHANGED Books /\ UNCHANGED Locks

\* next_number: the sales and dispatches of a branch go one after the other.
TakeNumber(w) ==
  /\ tx[w].pc = "number"
  /\ counter[Req(w).branch] = NoOne
  /\ counter' = [counter EXCEPT ![Req(w).branch] = w]
  /\ Move(w, IF Req(w).kind = "sale" THEN "check" ELSE "post")
  /\ UNCHANGED Books /\ UNCHANGED <<opener, lock>>

Unpaid(req) == Cost(req) - req.money

\* _enforce_credit_limit: what is invoiced and open, and the new amount.
WithinLimit(c, more) == Limit[c] = 0 \/ Outstanding(c) + more <= Limit[c]

\* The rules of a sale: not overpaid, a walk-in in full, khata within the limit.
SaleAllowed(req) ==
  /\ Unpaid(req) >= 0
  /\ req.customer = WalkIn => Unpaid(req) = 0
  /\ Unpaid(req) > 0 => WithinLimit(req.customer, Unpaid(req))

\* The rule of an order: within the limit, unless overridden.  A quotation has none.
OrderAllowed(req) ==
  req.quote \/ req.override \/ WithinLimit(req.customer, Cost(req))

Check(w) ==
  /\ tx[w].pc = "check"
  /\ \/ Req(w).kind = "sale" /\ SaleAllowed(Req(w)) /\ Move(w, "post")
     \/ Req(w).kind = "order" /\ OrderAllowed(Req(w)) /\ Move(w, "commit")
  /\ UNCHANGED Books /\ UNCHANGED Locks

\* _outstanding_invoices: the SELECT .. FOR UPDATE has the rows of its snapshot.
Look(w) ==
  /\ tx[w].pc = "look"
  /\ LET open == Open(Req(w).customer) IN
     tx' = [tx EXCEPT ![w].pc = "settle", ![w].looked = open, ![w].left = open,
                      ![w].rest = Req(w).money]
  /\ UNCHANGED Books /\ UNCHANGED Locks

Least(m, n) == IF m <= n THEN m ELSE n

\* Slip: ordered by age, youngest first.
YoungestFirst(S) == CHOOSE b \in S : \A a \in S : a <= b

Oldest(S) == CHOOSE b \in S : \A a \in S : b <= a

\* Slip: the allocation does not stop at what is outstanding.
ShareWhole(b, rest) == rest

\* Slip: it does not stop at what is left.
ShareDue(b, rest) == Due(b)

\* allocate_payment: the least of what is due and what is left.
Share(b, rest) == Least(Due(b), rest)

\* Slip: no ORDER BY, so the rows are locked in whatever order they come.
SettleUnordered(w) ==
  /\ tx[w].pc = "settle"
  /\ \E b \in tx[w].left :
     /\ lock[b] = NoOne
     /\ lock' = [lock EXCEPT ![b] = w]
     /\ tx' = [tx EXCEPT ![w].left = @ \ {b},
                         ![w].take[b] = Share(b, tx[w].rest),
                         ![w].rest = @ - Share(b, @)]
  /\ UNCHANGED Books /\ UNCHANGED <<opener, counter>>

\* It locks them oldest first, and what it then reads is their latest version:
\* an invoice paid meanwhile has nothing left to take.
Settle(w) ==
  /\ tx[w].pc = "settle"
  /\ tx[w].left # {}
  /\ LET b == Oldest(tx[w].left) IN
     /\ lock[b] = NoOne
     /\ lock' = [lock EXCEPT ![b] = w]
     /\ tx' = [tx EXCEPT ![w].left = @ \ {b},
                         ![w].take[b] = Share(b, tx[w].rest),
                         ![w].rest = @ - Share(b, @)]
  /\ UNCHANGED Books /\ UNCHANGED <<opener, counter>>

\* Nothing is posted for an invoice of nothing.
Posts(req) == req.kind = "collect" \/ Cost(req) > 0

\* ensure_accounts looks for the accounts.
ReadChart(w) ==
  /\ tx[w].pc = "post" \/ (tx[w].pc = "settle" /\ tx[w].left = {})
  /\ Move(w, IF ~Posts(Req(w)) \/ chart THEN "commit" ELSE "open")
  /\ UNCHANGED Books /\ UNCHANGED Locks

\* It inserts them, and waits for another who has under uq_account_code.
OpenChart(w) ==
  /\ tx[w].pc = "open"
  /\ ~chart
  /\ opener = NoOne
  /\ opener' = w
  /\ Move(w, "commit")
  /\ UNCHANGED Books /\ UNCHANGED <<counter, lock>>

-----------------------------------------------------------------------------
Release(w) ==
  /\ opener' = IF opener = w THEN NoOne ELSE opener
  /\ counter' = [b \in Branch |-> IF counter[b] = w THEN NoOne ELSE counter[b]]
  /\ lock' = [b \in BillId |-> IF lock[b] = w THEN NoOne ELSE lock[b]]
  /\ tx' = [tx EXCEPT ![w] = Idle]

Post(w, doc, lines) ==
  /\ journal' = IF Posts(Req(w)) THEN journal \cup {[doc |-> doc, lines |-> lines]} ELSE journal
  /\ chart' = (chart \/ opener = w)

Enter(w, channel, paid, status) ==
  bills' = [bills EXCEPT ![tx[w].bill] =
              [customer |-> Req(w).customer, branch |-> Req(w).branch, net |-> Req(w).net,
               tax |-> Req(w).tax, paid |-> paid, channel |-> channel, status |-> status]]

Paid(w, to) ==
  pays' = Append(pays, [customer |-> Req(w).customer, method |-> Req(w).method,
                        money |-> Req(w).money, to |-> to, looked |-> tx[w].looked])

CommitSale(w) ==
  /\ tx[w].pc = "commit" /\ Req(w).kind = "sale"
  /\ Enter(w, "retail", Req(w).money, StatusOf(Req(w).money, Cost(Req(w))))
  /\ IF Req(w).money > 0 THEN Paid(w, [Nothing EXCEPT ![tx[w].bill] = Req(w).money])
                         ELSE UNCHANGED pays
  /\ Post(w, <<"bill", tx[w].bill>>,
          SaleEntry(Req(w).net, Req(w).tax, Req(w).money, Req(w).method))
  /\ Release(w)
  /\ UNCHANGED orders

CommitOrder(w) ==
  /\ tx[w].pc = "commit" /\ Req(w).kind = "order"
  /\ orders' = Append(orders, [customer |-> Req(w).customer, branch |-> Req(w).branch,
                               net |-> Req(w).net, tax |-> Req(w).tax,
                               status |-> IF Req(w).quote THEN "quotation" ELSE "confirmed",
                               bill |-> 0])
  /\ Release(w)
  /\ UNCHANGED <<bills, pays, journal, chart>>

\* Slip: the order's version is not checked.
CommitDispatchUnversioned(w) ==
  /\ tx[w].pc = "commit" /\ Req(w).kind = "dispatch"
  /\ Enter(w, "wholesale", 0, "credit")
  /\ orders' = [orders EXCEPT ![Req(w).order].status = "invoiced",
                              ![Req(w).order].bill = tx[w].bill]
  /\ Post(w, <<"bill", tx[w].bill>>, DispatchEntry(Req(w).net, Req(w).tax))
  /\ Release(w)
  /\ UNCHANGED pays

\* The order is versioned: it must still be the one that was read.
CommitDispatch(w) ==
  /\ tx[w].pc = "commit" /\ Req(w).kind = "dispatch"
  /\ orders[Req(w).order].status = "confirmed"
  /\ Enter(w, "wholesale", 0, "credit")
  /\ orders' = [orders EXCEPT ![Req(w).order].status = "invoiced",
                              ![Req(w).order].bill = tx[w].bill]
  /\ Post(w, <<"bill", tx[w].bill>>, DispatchEntry(Req(w).net, Req(w).tax))
  /\ Release(w)
  /\ UNCHANGED pays

\* Slip: the allocation replaces what was paid before.
CreditedAnew(bill, money) ==
  IF money = 0 THEN bill
  ELSE [bill EXCEPT !.paid = money, !.status = IF money >= Cost(bill) THEN "paid" ELSE "partial"]

\* An allocation, and the status it leaves.
Credited(bill, money) ==
  IF money = 0 THEN bill
  ELSE [bill EXCEPT !.paid = @ + money,
                    !.status = IF bill.paid + money >= Cost(bill) THEN "paid" ELSE "partial"]

\* The whole amount is posted, whatever was allocated of it.
CommitCollection(w) ==
  /\ tx[w].pc = "commit" /\ Req(w).kind = "collect"
  /\ bills' = [b \in BillId |-> Credited(bills[b], tx[w].take[b])]
  /\ Paid(w, tx[w].take)
  /\ Post(w, <<"payment", Len(pays) + 1>>, CollectionEntry(Req(w).money, Req(w).method))
  /\ Release(w)
  /\ UNCHANGED orders

Rollback(w) == Release(w) /\ UNCHANGED Books

\* 409 and 422, StaleDataError, IntegrityError: the transaction is rolled back.
Fail(w) ==
  /\ \/ tx[w].pc = "read" /\ orders[Req(w).order].status # "confirmed"
     \/ tx[w].pc = "check" /\ Req(w).kind = "sale" /\ ~SaleAllowed(Req(w))
     \/ tx[w].pc = "check" /\ Req(w).kind = "order" /\ ~OrderAllowed(Req(w))
     \/ tx[w].pc = "open" /\ chart
     \/ /\ tx[w].pc = "commit" /\ Req(w).kind = "dispatch"
        /\ orders[Req(w).order].status # "confirmed"
  /\ Rollback(w)

\* Short stock, a taken number, a lost database connection, a crash.
Abort(w) == tx[w].pc # "idle" /\ Rollback(w)

Serve(w) ==
  \/ ReadOrder(w) \/ TakeNumber(w) \/ Check(w) \/ Look(w) \/ Settle(w)
  \/ ReadChart(w) \/ OpenChart(w) \/ CommitSale(w) \/ CommitOrder(w) \/ CommitDispatch(w)
  \/ CommitCollection(w) \/ Fail(w)

Next == \E w \in Worker : Begin(w) \/ Serve(w) \/ Abort(w)

Spec == Init /\ [][Next]_vars

\* Locks are granted in the order they were asked for.
FairSpec == Spec /\ \A w \in Worker : SF_vars(Serve(w))
-----------------------------------------------------------------------------
(* Properties.                                                             *)

Paying(S) == MapThenSumSet(LAMBDA i : pays[i].money, S)
Costing(S) == MapThenSumSet(LAMBDA b : Cost(bills[b]), S)
Allocated(p) == MapThenSumSet(LAMBDA b : p.to[b], BillId)
\* The payments an invoice shows.
PaymentsOn(b) == MapThenSumSet(LAMBDA i : pays[i].to[b], DOMAIN pays)
PaysOf(c) == {i \in DOMAIN pays : pays[i].customer = c}

\* An invoice is paid by its allocations, never beyond its total, and its
\* status says how far (collections/service.py:92-97, sales/service.py:287,
\* 434-440): every sum over invoices that are not PAID rests on it.
BillsAddUp ==
  \A b \in Written :
    /\ bills[b].paid = PaymentsOn(b)
    /\ bills[b].paid <= Cost(bills[b])
    /\ bills[b].status = StatusOf(bills[b].paid, Cost(bills[b]))

\* The trial balance.
Balance(a) == MapThenSumSet(LAMBDA e : e.lines[a], journal)

\* The reports of a period, here of everything: the payments received by the
\* methods of an account, the sales of a channel, the tax to be declared.
Received(a) == Paying({i \in DOMAIN pays : AccountOf(pays[i].method) = a})
SalesOf(channel) == Costing({b \in Written : bills[b].channel = channel})
GstSummary == MapThenSumSet(LAMBDA b : bills[b].tax, Written)

\* The trial balance balances and repeats the documents: each tender account
\* has what was received in its methods, income is what was invoiced, and the
\* tax owed is the tax of the GST summary (sales/service.py:363-367, "the
\* ledger can never drift from the invoices").
BooksAgree ==
  /\ \A e \in journal : Balanced(e.lines)
  /\ \A a \in {"CASH", "BANK", "UPI", "CARD"} : Balance(a) = Received(a)
  /\ Balance("GST_OUTPUT") = -GstSummary
  /\ Balance("SALES") = GstSummary - SalesOf("retail") - SalesOf("wholesale")

\* accounting/api.py customer_ledger: invoices debit, payments credit.
Statement(c) == Costing(BillsOf(c)) - Paying(PaysOf(c))

\* Collected beyond what could be allocated.
Advance(c) == MapThenSumSet(LAMBDA i : pays[i].money - Allocated(pays[i]), PaysOf(c))

\* The figures of the dashboard.
DashboardReceivables == MapThenSumSet(Due, {b \in Written : bills[b].status # "paid"})
SalesToday == SalesOf("retail") + SalesOf("wholesale")
CollectedToday == Paying(DOMAIN pays)

\* Every screen that shows what customers owe shows the same: the statement is
\* the outstanding of the customer list less advances, the dashboard is the sum
\* of the receivables rows and what was sold and not collected, and the
\* receivable account is the sum of the statements (accounting/api.py:224,
\* customers/api.py:86, reports/service.py:104-120, collections/api.py:96).
ScreensAgree ==
  /\ \A c \in Customer : Statement(c) = Outstanding(c) - Advance(c)
  /\ DashboardReceivables = MapThenSumSet(Outstanding, Customer)
  /\ SalesToday - CollectedToday = DashboardReceivables - MapThenSumSet(Advance, Customer)
  /\ Balance("AR") = MapThenSumSet(Statement, Customer)

\* A payment reaches an invoice only when the older ones it found are settled,
\* and leaves an advance only when all of them are (collections/allocation.py:37,
\* "oldest-first"), even when other payments settle them at the same time.
OldestFirst ==
  \A i \in DOMAIN pays : \A a \in pays[i].looked :
    \/ Due(a) = 0
    \/ /\ Allocated(pays[i]) = pays[i].money
       /\ \A b \in pays[i].looked : b > a => pays[i].to[b] = 0

\* A wholesale invoice is the invoice of an order: no dispatch is billed twice
\* (wholesale_service.py:213-217, order_models.py version column).
OneBillPerOrder ==
  {b \in Written : bills[b].channel = "wholesale"} = {orders[i].bill : i \in DOMAIN orders} \ {0}

\* w is about to commit a sale on khata to c, which no other branch has billed.
OnKhata(w, c) ==
  /\ tx[w].pc = "commit" /\ Req(w).kind = "sale" /\ Req(w).customer = c
  /\ Unpaid(Req(w)) > 0 /\ Limit[c] > 0
  /\ \A b \in BillsOf(c) : bills[b].branch = Req(w).branch

\* A sale on khata never takes a customer of one branch over the limit, however
\* many tills and dispatches run (sales/service.py:293-300): the sum is read
\* after the number of the branch is locked, and stays true until the commit.
KhataWithinLimit ==
  [][\A w \in Worker, c \in Customer :
       OnKhata(w, c) /\ CommitSale(w) => Outstanding(c)' <= Limit[c]]_vars

Khata == INSTANCE CustomerAccount WITH
  billed <- [c \in Customer |-> Costing(BillsOf(c))],
  received <- [c \in Customer |-> Paying(PaysOf(c))],
  owed <- [c \in Customer |-> Outstanding(c)],
  advance <- [c \in Customer |-> Advance(c)]

\* Any interleaving of sales, dispatches and collections comes to charges and
\* receipts of one customer at a time.
AccountSpec == Khata!Spec

\* Nobody waits for ever for a number, an invoice or the accounts: collections
\* lock invoices in one order (collections/service.py:148).
EveryRequestEnds == \A w \in Worker : tx[w].pc # "idle" ~> tx[w].pc = "idle"

\* Collections: every invoice is paid by its allocations, the oldest first.
PaymentsReachBills == BillsAddUp /\ OldestFirst

\* v cannot go on before w ends: w holds the number of the branch, the next
\* invoice, or the chart of accounts.
WaitsFor(v, w) ==
  \/ tx[v].pc = "number" /\ counter[Req(v).branch] = w
  \/ tx[v].pc = "settle" /\ tx[v].left # {} /\ lock[Oldest(tx[v].left)] = w
  \/ tx[v].pc = "open" /\ opener = w

\* Requests never wait for one another in a circle: among any of them, one waits
\* for none of the others (collections/repository.py, ORDER BY in the SELECT ..
\* FOR UPDATE).
NoCircle == \A S \in SUBSET Worker : S # {} => \E v \in S : \A w \in S : ~WaitsFor(v, w)

\* Journal, screens and orders tell of the same invoices.
BooksAndScreensAgree == BooksAgree /\ ScreensAgree /\ OneBillPerOrder
=============================================================================
