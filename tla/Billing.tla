------------------------------- MODULE Billing -------------------------------
(***************************************************************************)
(* POST /pos/invoices on the server: idempotency key, document number and  *)
(* invoice in one transaction (sales/service.py create_retail_invoice,     *)
(* numbering/service.py, idempotency/service.py).                          *)
(*                                                                         *)
(* The steps are the statements at which concurrent requests meet: the     *)
(* look-up of the key, the advisory lock of the number series, the unique  *)
(* invoice number, the unique key and the commit.  Stock is in Inventory;  *)
(* here the lines of a sale are a quantity of one product.                 *)
(***************************************************************************)
EXTENDS Naturals, FiniteSets

CONSTANTS
  Worker,    \* request handlers
  Series,    \* branches that bill, each with its own number sequence
  Code,      \* parts of branch codes
  CodeOf,    \* the code of each branch: <<first 11 characters, the rest>>
  Key,       \* idempotency keys
  NoKey,     \* the header is absent
  Price,     \* retail prices the product may have
  MaxQty,    \* bound: largest quantity of a sale
  MaxBills,  \* bound: requests come in only while there are fewer bills
  Request,   \* the requests that come in
  NoOne      \* holder of a free lock

Requests == [series : Series,             \* the user's default branch
             key : Key \cup {NoKey},
             qty : 1..MaxQty,
             paid : Nat,                  \* sum of the payments
             named : BOOLEAN]             \* there is a customer_id

ASSUME BillingAssumption ==
  /\ NoKey \notin Key
  /\ NoOne \notin Worker
  /\ Series # {}
  /\ CodeOf \in [Series -> Code \X Code]
  /\ Price \subseteq Nat \ {0}
  /\ MaxQty \in Nat \ {0}
  /\ MaxBills \in Nat
  /\ Request \subseteq Requests

VARIABLES
  price,      \* the product's retail price
  next,       \* next_value of each series (1 where there is no row yet)
  invoices,   \* committed sales invoices
  keyed,      \* the invoices that idempotency_keys names for each key
  holder,     \* who holds the advisory lock of each series
  tx          \* the transaction of each worker

vars == <<price, next, invoices, keyed, holder, tx>>

Bills == [series : Series, value : Nat \ {0}, key : Key \cup {NoKey},
          qty : 1..MaxQty, total : Nat, paid : Nat]

NoRequest == [series |-> CHOOSE s \in Series : TRUE, key |-> NoKey, qty |-> 1,
              paid |-> 0, named |-> TRUE]

Idle == [pc |-> "idle", req |-> NoRequest, price |-> 0, value |-> 0, answer |-> {}]

Tx == [pc : {"idle", "find", "number", "insert", "lines", "key", "commit", "reply"},
       req : Requests,
       price : Nat,               \* the price _load_products read
       value : Nat,               \* the value next_number drew
       answer : SUBSET Bills]     \* the invoice the reply is about

TypeOK ==
  /\ price \in Price
  /\ next \in [Series -> Nat \ {0}]
  /\ invoices \subseteq Bills
  /\ keyed \in [Key -> SUBSET Bills]
  /\ holder \in [Series -> Worker \cup {NoOne}]
  /\ tx \in [Worker -> Tx]

Init ==
  /\ price \in Price
  /\ next = [s \in Series |-> 1]
  /\ invoices = {}
  /\ keyed = [k \in Key |-> {}]
  /\ holder = [s \in Series |-> NoOne]
  /\ tx = [w \in Worker |-> Idle]

-----------------------------------------------------------------------------
SeriesOf(w) == tx[w].req.series
KeyOf(w) == tx[w].req.key

\* The invoice number: the first 11 characters of the branch code, and the value.
Number(s, v) == <<CodeOf[s][1], v>>

NumberOf(w) == Number(SeriesOf(w), tx[w].value)

\* The sale w is writing.
Draft(w) == [series |-> SeriesOf(w), value |-> tx[w].value, key |-> KeyOf(w),
             qty |-> tx[w].req.qty, total |-> tx[w].req.qty * tx[w].price,
             paid |-> tx[w].req.paid]

\* Transactions that have inserted an invoice, and the ones that hold a number.
Inserted == {w \in Worker : tx[w].pc \in {"lines", "key", "commit"}}
Drawn == {w \in Worker : tx[w].pc = "insert"} \cup Inserted

Move(w, pc) == tx' = [tx EXCEPT ![w].pc = pc]

-----------------------------------------------------------------------------
Submit(w, req) ==
  /\ tx[w].pc = "idle"
  /\ tx' = [tx EXCEPT ![w] = [Idle EXCEPT !.pc = "find", !.req = req]]
  /\ UNCHANGED <<price, next, invoices, keyed, holder>>

Begin(w) == Cardinality(invoices) < MaxBills /\ \E req \in Request : Submit(w, req)

\* Slip: the look-up forgets the key.
ReplayAnyKey(w) ==
  /\ tx[w].pc = "find"
  /\ KeyOf(w) # NoKey
  /\ \E b \in UNION {keyed[k] : k \in Key} :
       tx' = [tx EXCEPT ![w].pc = "reply", ![w].answer = {b}]
  /\ UNCHANGED <<price, next, invoices, keyed, holder>>

\* The key is known: answer with the invoice it stands for.
Replay(w) ==
  /\ tx[w].pc = "find"
  /\ KeyOf(w) # NoKey
  /\ \E b \in keyed[KeyOf(w)] :
       tx' = [tx EXCEPT ![w].pc = "reply", ![w].answer = {b}]
  /\ UNCHANGED <<price, next, invoices, keyed, holder>>

\* A new sale: the products are loaded, with the price of this moment.
LoadProducts(w) ==
  /\ tx[w].pc = "find"
  /\ KeyOf(w) # NoKey => keyed[KeyOf(w)] = {}
  /\ tx' = [tx EXCEPT ![w].pc = "number", ![w].price = price]
  /\ UNCHANGED <<price, next, invoices, keyed, holder>>

\* Slip: no advisory lock.
TakeNumberUnlocked(w) ==
  /\ tx[w].pc = "number"
  /\ holder' = [holder EXCEPT ![SeriesOf(w)] = w]
  /\ tx' = [tx EXCEPT ![w].pc = "insert", ![w].value = next[SeriesOf(w)]]
  /\ UNCHANGED <<price, next, invoices, keyed>>

\* next_number: wait for the lock of the series, then read its next value.
\* The increment becomes visible at the commit.
TakeNumber(w) ==
  /\ tx[w].pc = "number"
  /\ holder[SeriesOf(w)] = NoOne
  /\ holder' = [holder EXCEPT ![SeriesOf(w)] = w]
  /\ tx' = [tx EXCEPT ![w].pc = "insert", ![w].value = next[SeriesOf(w)]]
  /\ UNCHANGED <<price, next, invoices, keyed>>

\* Another transaction has inserted the same number and not ended yet.
NumberContested(w) == \E v \in Inserted \ {w} : NumberOf(v) = NumberOf(w)

NumberTaken(w) == \E b \in invoices : Number(b.series, b.value) = NumberOf(w)

\* The flush of the SalesInvoice under uq_sales_invoice_no.
InsertInvoice(w) ==
  /\ tx[w].pc = "insert"
  /\ ~NumberContested(w)
  /\ ~NumberTaken(w)
  /\ Move(w, "lines")
  /\ UNCHANGED <<price, next, invoices, keyed, holder>>

\* Not more than the total, and a walk-in sale in full.
Payable(w) ==
  /\ Draft(w).paid <= Draft(w).total
  /\ tx[w].req.named \/ Draft(w).paid = Draft(w).total

\* Lines, stock, totals, payments and journal.
WriteSale(w) ==
  /\ tx[w].pc = "lines"
  /\ Payable(w)
  /\ Move(w, "key")
  /\ UNCHANGED <<price, next, invoices, keyed, holder>>

KeyContested(w) == \E v \in Worker \ {w} : tx[v].pc = "commit" /\ KeyOf(v) = KeyOf(w)

\* Slip: no uq_idempotency_key.
RecordKeyUnchecked(w) ==
  /\ tx[w].pc = "key"
  /\ Move(w, "commit")
  /\ UNCHANGED <<price, next, invoices, keyed, holder>>

\* The flush of the IdempotencyKey under uq_idempotency_key.
RecordKey(w) ==
  /\ tx[w].pc = "key"
  /\ KeyOf(w) # NoKey => ~KeyContested(w) /\ keyed[KeyOf(w)] = {}
  /\ Move(w, "commit")
  /\ UNCHANGED <<price, next, invoices, keyed, holder>>

Free(w) == [s \in Series |-> IF holder[s] = w THEN NoOne ELSE holder[s]]

\* Slip: the key is not part of the transaction.
CommitUnkeyed(w) ==
  /\ tx[w].pc = "commit"
  /\ next' = [next EXCEPT ![SeriesOf(w)] = tx[w].value + 1]
  /\ invoices' = invoices \cup {Draft(w)}
  /\ holder' = Free(w)
  /\ tx' = [tx EXCEPT ![w].pc = "reply", ![w].answer = {Draft(w)}]
  /\ UNCHANGED <<price, keyed>>

Commit(w) ==
  /\ tx[w].pc = "commit"
  /\ next' = [next EXCEPT ![SeriesOf(w)] = tx[w].value + 1]
  /\ invoices' = invoices \cup {Draft(w)}
  /\ keyed' = [k \in Key |-> IF k = KeyOf(w) THEN keyed[k] \cup {Draft(w)} ELSE keyed[k]]
  /\ holder' = Free(w)
  /\ tx' = [tx EXCEPT ![w].pc = "reply", ![w].answer = {Draft(w)}]
  /\ UNCHANGED price

\* The answer reaches the client, or is lost on the way.
Reply(w) ==
  /\ tx[w].pc = "reply"
  /\ tx' = [tx EXCEPT ![w] = Idle]
  /\ UNCHANGED <<price, next, invoices, keyed, holder>>

\* Slip: pg_advisory_lock, which outlives the transaction.
RollbackKeepsLock(w) ==
  /\ tx' = [tx EXCEPT ![w] = Idle]
  /\ UNCHANGED <<price, next, invoices, keyed, holder>>

Rollback(w) ==
  /\ holder' = Free(w)
  /\ tx' = [tx EXCEPT ![w] = Idle]
  /\ UNCHANGED <<price, next, invoices, keyed>>

\* IntegrityError on the number or on the key, or a payment that does not fit.
Fail(w) ==
  /\ \/ tx[w].pc = "insert" /\ NumberTaken(w)
     \/ tx[w].pc = "lines" /\ ~Payable(w)
     \/ tx[w].pc = "key" /\ KeyOf(w) # NoKey /\ keyed[KeyOf(w)] # {}
  /\ Rollback(w)

\* Short stock, the credit limit, a lost database connection, a crash.
Abort(w) == tx[w].pc \notin {"idle", "reply"} /\ Rollback(w)

\* PATCH /catalogue/products/{id}.
Reprice ==
  /\ price' \in Price \ {price}
  /\ UNCHANGED <<next, invoices, keyed, holder, tx>>

\* What a worker does without the client, short of aborting.
Serve(w) ==
  \/ Replay(w) \/ LoadProducts(w) \/ TakeNumber(w) \/ InsertInvoice(w) \/ WriteSale(w)
  \/ RecordKey(w) \/ Commit(w) \/ Fail(w)

Next ==
  \/ \E w \in Worker : Begin(w) \/ Serve(w) \/ Abort(w) \/ Reply(w)
  \/ Reprice

Spec == Init /\ [][Next]_vars

\* Locks and unique keys are granted in the order they were asked for.
FairSpec == Spec /\ \A w \in Worker : SF_vars(Serve(w)) /\ WF_vars(Reply(w))

-----------------------------------------------------------------------------
(* Properties.                                                             *)

Book == INSTANCE BillBook WITH bills <- invoices

\* Concurrent sales, replays and rollbacks come to this: every sale is entered
\* at once, under the next value of its branch and at most once per key
\* (idempotency/models.py:18, numbering/models.py:3-5).
BookSpec == Book!Spec

\* The number next_number issues belongs to no other sale, finished or in
\* progress, "unique across the organization" (numbering/service.py:90).
\* Violated where two branch codes agree in the 11 characters that are kept of
\* them (numbering/service.py:104).
FreshNumber ==
  \A w \in Drawn :
    ~NumberTaken(w) /\ \A v \in Drawn \ {w} : NumberOf(v) # NumberOf(w)

\* No two sales carry one number, whatever the branch codes.  Within a branch the
\* lock sees to it: the value a sale has drawn is no other sale's there, finished
\* or in progress (numbering/service.py:52-79).  Between branches that print the
\* same prefix the unique constraint does: the numbers of sales that are finished
\* or have passed it are all different (sales/models.py:44).
NumbersOnce ==
  /\ \A b, c \in invoices : Number(b.series, b.value) = Number(c.series, c.value) => b = c
  /\ \A w \in Inserted :
       ~NumberTaken(w) /\ \A v \in Inserted \ {w} : NumberOf(v) # NumberOf(w)
  /\ \A w \in Drawn :
       /\ \A b \in invoices : b.series = SeriesOf(w) => b.value # tx[w].value
       /\ \A v \in Drawn \ {w} : SeriesOf(v) # SeriesOf(w)

\* A client is told of a committed sale, and of the one its key stands for
\* (sales/service.py:185-200).
AnswersAreBills ==
  \A w \in Worker : tx[w].pc = "reply" =>
    \E b \in invoices : tx[w].answer = {b} /\ b.key = KeyOf(w)

\* Nobody waits for ever for a number or for a key: the lock goes with the
\* transaction (numbering/service.py:52-53).
EveryRequestEnds == \A w \in Worker : tx[w].pc # "idle" ~> tx[w].pc = "idle"

\* v cannot go on before w ends: w holds the lock of the series, or has inserted
\* the number or the key v is about to insert.
WaitsFor(v, w) ==
  \/ tx[v].pc = "number" /\ holder[SeriesOf(v)] = w
  \/ tx[v].pc = "insert" /\ w \in Inserted \ {v} /\ NumberOf(w) = NumberOf(v)
  \/ /\ tx[v].pc = "key" /\ KeyOf(v) # NoKey
     /\ w # v /\ tx[w].pc = "commit" /\ KeyOf(w) = KeyOf(v)

\* Sales never wait for one another in a circle: among any of them, one waits for
\* none of the others (numbering/service.py:90-96, sales/service.py:185-200).
NoCircle == \A S \in SUBSET Worker : S # {} => \E v \in S : \A w \in S : ~WaitsFor(v, w)

-----------------------------------------------------------------------------
(* The inductive invariant.                                                *)

\* A drawn value is the next one, and its series is locked.
Drawing ==
  \A w \in Drawn : holder[SeriesOf(w)] = w /\ tx[w].value = next[SeriesOf(w)]

\* The values of a branch have no gap.
Gapless == \A s \in Series : {b.value : b \in {c \in invoices : c.series = s}} = 1..(next[s] - 1)

\* An inserted number is nobody else's.
Inserting ==
  \A w \in Inserted :
    ~NumberTaken(w) /\ \A v \in Inserted \ {w} : NumberOf(v) # NumberOf(w)

\* An inserted sale is paid as the rules say.
Paying == \A w \in Worker : tx[w].pc \in {"key", "commit"} => Payable(w)

\* The two tables tell the same story.
Keyed == \A k \in Key : keyed[k] = {b \in invoices : b.key = k}

\* An inserted key is nobody else's.
Recording ==
  \A w \in Worker : tx[w].pc = "commit" /\ KeyOf(w) # NoKey =>
    keyed[KeyOf(w)] = {} /\ ~KeyContested(w)

IInv == TypeOK /\ Drawing /\ Gapless /\ Inserting /\ Paying /\ Keyed /\ Recording /\ AnswersAreBills
=============================================================================
