---------------------------- MODULE BillingProofs ----------------------------
(***************************************************************************)
(* Proofs about Billing: any number of branches, keys and concurrent       *)
(* requests, any prices.  What makes the invariant inductive is Drawing,   *)
(* which ties the value a transaction carries to the lock it holds, and    *)
(* the pair Inserting/Recording, which says what the two unique indexes    *)
(* guarantee about rows that are not committed yet.                        *)
(*                                                                         *)
(* PointOfSale stands on that invariant, for any number of tills, workers, *)
(* keys and lost answers: every step of the counter is a step of the       *)
(* server, or none.  What has to be added is whom a till waits for         *)
(* (Serving), and that the key of every request under way is still at a    *)
(* till or was reported done (KeysKnown).                                  *)
(***************************************************************************)
EXTENDS PointOfSale, TLAPS, WellFoundedInduction

\* A request that is over has the type of a request.
LEMMA IdleType == Idle \in Tx /\ NoRequest \in Requests
<1>1. (CHOOSE s \in Series : TRUE) \in Series
  BY BillingAssumption
<1>2. NoRequest \in Requests
  BY <1>1, BillingAssumption DEF NoRequest, Requests
<1> QED
  BY <1>2 DEF Idle, Tx

\* What the types say of one transaction.
LEMMA TxType ==
  ASSUME TypeOK, NEW w \in Worker
  PROVE  /\ tx[w] \in Tx
         /\ tx[w].req \in Requests
         /\ SeriesOf(w) \in Series
         /\ KeyOf(w) \in Key \cup {NoKey}
         /\ next[SeriesOf(w)] \in Nat \ {0}
         /\ tx[w].value \in Nat
         /\ tx[w].price \in Nat
BY DEF TypeOK, Tx, Requests, SeriesOf, KeyOf

\* A sale whose number is drawn is a well-formed bill.
LEMMA DraftType ==
  ASSUME TypeOK, Drawing, NEW w \in Drawn
  PROVE  /\ Draft(w) \in Bills
         /\ Draft(w).series = SeriesOf(w)
         /\ Draft(w).key = KeyOf(w)
         /\ Draft(w).value = tx[w].value
<1>1. w \in Worker
  BY DEF Drawn, Inserted
<1>2. tx[w].value \in Nat \ {0}
  BY <1>1, TxType DEF Drawing
<1>3. /\ tx[w].req.qty \in 1..MaxQty
      /\ tx[w].req.paid \in Nat
  BY <1>1, TxType DEF Requests
<1>4. tx[w].req.qty * tx[w].price \in Nat
  BY <1>1, <1>3, TxType, BillingAssumption
<1> QED
  BY <1>1, <1>2, <1>3, <1>4, TxType DEF Draft, Bills

-----------------------------------------------------------------------------
\* The invariant holds at the start.
LEMMA InitIInv == Init => IInv
<1> SUFFICES ASSUME Init PROVE IInv
  OBVIOUS
<1>1. \A w \in Worker : tx[w] = Idle /\ tx[w].pc = "idle"
  BY DEF Init, Idle
<1>2. TypeOK
  BY IdleType, BillingAssumption DEF Init, TypeOK
<1>3. Gapless
  BY DEF Init, Gapless
<1>4. Keyed
  BY DEF Init, Keyed
<1> QED
  BY <1>1, <1>2, <1>3, <1>4
  DEF IInv, Drawing, Drawn, Inserted, Inserting, Paying, Recording, AnswersAreBills

\* Steps that change neither the tables nor the locks: what is left to show
\* is what they do to the transaction that takes them.
LEMMA QuietStep ==
  ASSUME IInv,
         UNCHANGED <<next, invoices, keyed, holder>>,
         price' \in Price,
         NEW w \in Worker,
         NEW t \in Tx,
         tx' = [tx EXCEPT ![w] = t],
         t.pc \in {"insert", "lines", "key", "commit"} =>
           holder[t.req.series] = w /\ t.value = next[t.req.series],
         t.pc \in {"lines", "key", "commit"} =>
           /\ \A b \in invoices : Number(b.series, b.value) # Number(t.req.series, t.value)
           /\ \A v \in Inserted \ {w} : NumberOf(v) # Number(t.req.series, t.value),
         t.pc \in {"key", "commit"} =>
           t.req.paid <= t.req.qty * t.price /\ (t.req.named \/ t.req.paid = t.req.qty * t.price),
         t.pc = "commit" /\ t.req.key # NoKey =>
           /\ keyed[t.req.key] = {}
           /\ \A v \in Worker \ {w} : tx[v].pc = "commit" => KeyOf(v) # t.req.key,
         t.pc = "reply" => \E b \in invoices : t.answer = {b} /\ b.key = t.req.key
  PROVE  IInv'
<1> USE DEF IInv
<1>1. /\ tx'[w] = t
      /\ \A v \in Worker \ {w} : tx'[v] = tx[v]
  BY DEF TypeOK
<1>2. TypeOK'
  BY <1>1 DEF TypeOK
<1>3. /\ SeriesOf(w)' = t.req.series
      /\ KeyOf(w)' = t.req.key
      /\ NumberOf(w)' = Number(t.req.series, t.value)
      /\ \A v \in Worker \ {w} : /\ SeriesOf(v)' = SeriesOf(v)
                                 /\ KeyOf(v)' = KeyOf(v)
                                 /\ NumberOf(v)' = NumberOf(v)
  BY <1>1 DEF SeriesOf, KeyOf, NumberOf, Number
<1>4. Drawing'
  BY <1>1, <1>3 DEF Drawing, Drawn, Inserted
<1>5. Gapless'
  BY DEF Gapless
<1>6. Inserting'
  BY <1>1, <1>3 DEF Inserting, Inserted, NumberTaken, Number
<1>7. Paying'
  BY <1>1 DEF Paying, Payable, Draft, SeriesOf, KeyOf
<1>8. Keyed'
  BY DEF Keyed
<1>9. Recording'
  BY <1>1, <1>3 DEF Recording, KeyContested
<1>10. AnswersAreBills'
  BY <1>1, <1>3 DEF AnswersAreBills
<1> QED
  BY <1>2, <1>4, <1>5, <1>6, <1>7, <1>8, <1>9, <1>10

LEMMA SubmitStep ==
  ASSUME IInv, NEW w \in Worker, NEW req \in Requests, Submit(w, req)
  PROVE  IInv'
<1> DEFINE t == [Idle EXCEPT !.pc = "find", !.req = req]
<1>1. t \in Tx /\ t.pc = "find"
  BY IdleType DEF Tx, Idle
<1>2. tx' = [tx EXCEPT ![w] = t] /\ price' \in Price
  BY DEF Submit, IInv, TypeOK
<1> QED
  BY <1>1, <1>2, QuietStep DEF Submit

LEMMA ReplayStep ==
  ASSUME IInv, NEW w \in Worker, Replay(w)
  PROVE  IInv'
<1>1. PICK b \in keyed[KeyOf(w)] : tx' = [tx EXCEPT ![w].pc = "reply", ![w].answer = {b}]
  BY DEF Replay
<1> DEFINE t == [tx[w] EXCEPT !.pc = "reply", !.answer = {b}]
<1>2. KeyOf(w) \in Key /\ b \in invoices /\ b.key = KeyOf(w) /\ b \in Bills
  BY <1>1, TxType DEF IInv, TypeOK, Keyed, Replay
<1>3. t \in Tx /\ t.pc = "reply" /\ t.answer = {b} /\ t.req = tx[w].req
  BY <1>2, TxType DEF IInv, Tx
<1>4. tx' = [tx EXCEPT ![w] = t] /\ price' \in Price
  BY <1>1 DEF Replay, IInv, TypeOK
<1> HIDE DEF t
<1>5. \E c \in invoices : t.answer = {c} /\ c.key = t.req.key
  BY <1>2, <1>3 DEF KeyOf
<1> QED
  BY <1>3, <1>4, <1>5, QuietStep DEF Replay

LEMMA LoadProductsStep ==
  ASSUME IInv, NEW w \in Worker, LoadProducts(w)
  PROVE  IInv'
<1> DEFINE t == [tx[w] EXCEPT !.pc = "number", !.price = price]
<1>1. price \in Nat
  BY BillingAssumption DEF IInv, TypeOK
<1>2. t \in Tx /\ t.pc = "number"
  BY <1>1, TxType DEF IInv, Tx
<1>3. tx' = [tx EXCEPT ![w] = t] /\ price' \in Price
  BY DEF LoadProducts, IInv, TypeOK
<1> HIDE DEF t
<1> QED
  BY <1>2, <1>3, QuietStep DEF LoadProducts

\* The lock keeps every other transaction of the series from having a value.
LEMMA TakeNumberStep ==
  ASSUME IInv, NEW w \in Worker, TakeNumber(w)
  PROVE  IInv'
<1> DEFINE s == SeriesOf(w)
<1>1. s \in Series /\ next[s] \in Nat /\ tx[w].pc = "number" /\ holder[s] = NoOne
  BY TxType DEF IInv, TakeNumber
<1>2. /\ holder' = [holder EXCEPT ![s] = w]
      /\ tx' = [tx EXCEPT ![w].pc = "insert", ![w].value = next[s]]
      /\ UNCHANGED <<price, next, invoices, keyed>>
  BY DEF TakeNumber
<1>3. /\ tx'[w] = [tx[w] EXCEPT !.pc = "insert", !.value = next[s]]
      /\ \A v \in Worker \ {w} : tx'[v] = tx[v]
      /\ holder'[s] = w
      /\ \A u \in Series \ {s} : holder'[u] = holder[u]
  BY <1>1, <1>2 DEF IInv, TypeOK
<1>4. tx'[w] \in Tx /\ tx'[w].pc = "insert" /\ tx'[w].req = tx[w].req /\ tx'[w].value = next[s]
  BY <1>1, <1>3, TxType DEF IInv, Tx
<1>5. TypeOK'
  BY <1>2, <1>3, <1>4 DEF IInv, TypeOK
<1>6. /\ SeriesOf(w)' = s
      /\ \A v \in Worker \ {w} : /\ SeriesOf(v)' = SeriesOf(v)
                                 /\ KeyOf(v)' = KeyOf(v)
                                 /\ NumberOf(v)' = NumberOf(v)
  BY <1>3, <1>4 DEF SeriesOf, KeyOf, NumberOf, Number
<1>7. \A v \in Drawn : SeriesOf(v) # s /\ v # w
  BY <1>1, BillingAssumption DEF IInv, Drawing, Drawn, Inserted
<1>8. Drawn' = Drawn \cup {w} /\ Inserted' = Inserted /\ w \notin Inserted
  BY <1>1, <1>3, <1>4 DEF Drawn, Inserted
<1>9. Drawing'
  <2> SUFFICES ASSUME NEW v \in Drawn'
               PROVE  (holder[SeriesOf(v)] = v /\ tx[v].value = next[SeriesOf(v)])'
    BY DEF Drawing
  <2>1. CASE v = w
    BY <2>1, <1>2, <1>3, <1>4, <1>6
  <2>2. CASE v # w
    <3>1. v \in Drawn /\ v \in Worker
      BY <2>2, <1>8 DEF Drawn, Inserted
    <3>2. SeriesOf(v) \in Series \ {s}
      BY <3>1, <1>7, TxType DEF IInv
    <3> QED
      <4>1. holder[SeriesOf(v)] = v /\ tx[v].value = next[SeriesOf(v)]
        BY <3>1 DEF IInv, Drawing
      <4>2. holder'[SeriesOf(v)] = v /\ tx'[v].value = next'[SeriesOf(v)]
        BY ONLY <2>2, <3>1, <3>2, <4>1, <1>2, <1>3
      <4>3. SeriesOf(v)' = SeriesOf(v)
        BY <1>6, <2>2, <3>1
      <4> QED
        BY <4>2, <4>3
  <2> QED
    BY <2>1, <2>2
<1>10. Inserting'
  <2>1. \A v \in Inserted : v \in Worker \ {w} /\ NumberOf(v)' = NumberOf(v)
    BY <1>6, <1>8 DEF Inserted
  <2>2. \A v \in Inserted : NumberTaken(v)' <=> NumberTaken(v)
    BY <2>1, <1>2 DEF NumberTaken, Number
  <2> QED
    BY <2>1, <2>2, <1>8 DEF IInv, Inserting
<1>11. Gapless' /\ Keyed'
  BY <1>2 DEF IInv, Gapless, Keyed
<1>12. Paying'
  <2> SUFFICES ASSUME NEW v \in Worker, tx'[v].pc \in {"key", "commit"}
               PROVE  Payable(v)'
    BY DEF Paying
  <2>1. v # w /\ tx'[v] = tx[v]
    BY <1>3, <1>4
  <2>2. Payable(v)
    BY <2>1 DEF IInv, Paying
  <2> QED
    BY <2>1, <2>2 DEF Payable, Draft, SeriesOf, KeyOf
<1>13. Recording'
  <2> SUFFICES ASSUME NEW v \in Worker, tx'[v].pc = "commit", KeyOf(v)' # NoKey
               PROVE  keyed'[KeyOf(v)'] = {} /\ ~KeyContested(v)'
    BY DEF Recording
  <2>1. v # w /\ tx[v].pc = "commit" /\ KeyOf(v)' = KeyOf(v)
    BY <1>3, <1>4, <1>6
  <2>2. keyed[KeyOf(v)] = {} /\ ~KeyContested(v)
    BY <2>1 DEF IInv, Recording
  <2>3. \A u \in Worker \ {v} : tx'[u].pc = "commit" => u # w /\ tx[u].pc = "commit" /\ KeyOf(u)' = KeyOf(u)
    BY <1>3, <1>4, <1>6
  <2>4. ~KeyContested(v)'
    BY <2>1, <2>2, <2>3 DEF KeyContested
  <2> QED
    BY <2>1, <2>2, <2>4, <1>2
<1>14. AnswersAreBills'
  <2> SUFFICES ASSUME NEW v \in Worker, tx'[v].pc = "reply"
               PROVE  \E c \in invoices' : tx'[v].answer = {c} /\ c.key = KeyOf(v)'
    BY DEF AnswersAreBills
  <2>1. v # w /\ tx'[v] = tx[v] /\ KeyOf(v)' = KeyOf(v)
    BY <1>3, <1>4, <1>6
  <2>2. \E c \in invoices : tx[v].answer = {c} /\ c.key = KeyOf(v)
    BY <2>1 DEF IInv, AnswersAreBills
  <2> QED
    BY <2>1, <2>2, <1>2
<1> QED
  BY <1>5, <1>9, <1>10, <1>11, <1>12, <1>13, <1>14 DEF IInv

LEMMA InsertInvoiceStep ==
  ASSUME IInv, NEW w \in Worker, InsertInvoice(w)
  PROVE  IInv'
<1> DEFINE t == [tx[w] EXCEPT !.pc = "lines"]
<1>1. tx[w].pc = "insert" /\ w \in Drawn /\ ~NumberContested(w) /\ ~NumberTaken(w)
  BY DEF InsertInvoice, Drawn
<1>2. t \in Tx /\ t.pc = "lines" /\ t.req = tx[w].req /\ t.value = tx[w].value
  BY TxType DEF IInv, Tx
<1>3. tx' = [tx EXCEPT ![w] = t] /\ price' \in Price
  BY DEF InsertInvoice, Move, IInv, TypeOK
<1> HIDE DEF t
<1>4. holder[t.req.series] = w /\ t.value = next[t.req.series]
  BY <1>1, <1>2 DEF IInv, Drawing, SeriesOf
<1>5. /\ \A b \in invoices : Number(b.series, b.value) # Number(t.req.series, t.value)
      /\ \A v \in Inserted \ {w} : NumberOf(v) # Number(t.req.series, t.value)
  BY <1>1, <1>2 DEF NumberContested, NumberTaken, NumberOf, SeriesOf
<1> QED
  BY <1>2, <1>3, <1>4, <1>5, QuietStep DEF InsertInvoice

\* What holds of an inserted sale, in the words of QuietStep.
LEMMA InsertedFacts ==
  ASSUME IInv, NEW w \in Inserted
  PROVE  /\ holder[tx[w].req.series] = w /\ tx[w].value = next[tx[w].req.series]
         /\ \A b \in invoices :
              Number(b.series, b.value) # Number(tx[w].req.series, tx[w].value)
         /\ \A v \in Inserted \ {w} : NumberOf(v) # Number(tx[w].req.series, tx[w].value)
BY DEF IInv, Drawing, Drawn, Inserting, NumberTaken, NumberOf, SeriesOf

LEMMA WriteSaleStep ==
  ASSUME IInv, NEW w \in Worker, WriteSale(w)
  PROVE  IInv'
<1> DEFINE t == [tx[w] EXCEPT !.pc = "key"]
<1>1. w \in Inserted /\ Payable(w)
  BY DEF WriteSale, Inserted
<1>2. /\ t \in Tx /\ t.pc = "key"
      /\ t.req = tx[w].req /\ t.value = tx[w].value /\ t.price = tx[w].price
  BY TxType DEF IInv, Tx
<1>3. tx' = [tx EXCEPT ![w] = t] /\ price' \in Price
  BY DEF WriteSale, Move, IInv, TypeOK
<1> HIDE DEF t
<1>4. t.req.paid <= t.req.qty * t.price /\ (t.req.named \/ t.req.paid = t.req.qty * t.price)
  BY <1>1, <1>2 DEF Payable, Draft
<1>5. /\ holder[t.req.series] = w /\ t.value = next[t.req.series]
      /\ \A b \in invoices : Number(b.series, b.value) # Number(t.req.series, t.value)
      /\ \A v \in Inserted \ {w} : NumberOf(v) # Number(t.req.series, t.value)
  BY <1>1, <1>2, InsertedFacts
<1> QED
  BY <1>2, <1>3, <1>4, <1>5, QuietStep DEF WriteSale

LEMMA RecordKeyStep ==
  ASSUME IInv, NEW w \in Worker, RecordKey(w)
  PROVE  IInv'
<1> DEFINE t == [tx[w] EXCEPT !.pc = "commit"]
<1>1. w \in Inserted /\ Payable(w)
  BY DEF RecordKey, Inserted, IInv, Paying
<1>2. /\ t \in Tx /\ t.pc = "commit"
      /\ t.req = tx[w].req /\ t.value = tx[w].value /\ t.price = tx[w].price
  BY TxType DEF IInv, Tx
<1>3. tx' = [tx EXCEPT ![w] = t] /\ price' \in Price
  BY DEF RecordKey, Move, IInv, TypeOK
<1> HIDE DEF t
<1>4. t.req.paid <= t.req.qty * t.price /\ (t.req.named \/ t.req.paid = t.req.qty * t.price)
  BY <1>1, <1>2 DEF Payable, Draft
<1>5. t.req.key # NoKey =>
        /\ keyed[t.req.key] = {}
        /\ \A v \in Worker \ {w} : tx[v].pc = "commit" => KeyOf(v) # t.req.key
  BY <1>2 DEF RecordKey, KeyContested, KeyOf
<1>6. /\ holder[t.req.series] = w /\ t.value = next[t.req.series]
      /\ \A b \in invoices : Number(b.series, b.value) # Number(t.req.series, t.value)
      /\ \A v \in Inserted \ {w} : NumberOf(v) # Number(t.req.series, t.value)
  BY <1>1, <1>2, InsertedFacts
<1> QED
  BY <1>2, <1>3, <1>4, <1>5, <1>6, QuietStep DEF RecordKey

LEMMA ReplyStep ==
  ASSUME IInv, NEW w \in Worker, Reply(w)
  PROVE  IInv'
<1>1. Idle \in Tx /\ Idle.pc = "idle"
  BY IdleType DEF Idle
<1>2. tx' = [tx EXCEPT ![w] = Idle] /\ price' \in Price
  BY DEF Reply, IInv, TypeOK
<1> QED
  BY <1>1, <1>2, QuietStep DEF Reply

LEMMA RepriceStep ==
  ASSUME IInv, Reprice
  PROVE  IInv'
BY DEF IInv, Reprice, TypeOK, Drawing, Drawn, Inserted, Gapless, Inserting, NumberTaken, NumberOf,
       Number, Paying, Payable, Draft, Keyed, Recording, KeyContested, AnswersAreBills, SeriesOf,
       KeyOf

\* Rolling back frees the locks of w and of nobody else.
LEMMA RollbackStep ==
  ASSUME IInv, NEW w \in Worker, Rollback(w)
  PROVE  IInv'
<1>1. /\ tx' = [tx EXCEPT ![w] = Idle]
      /\ holder' = [s \in Series |-> IF holder[s] = w THEN NoOne ELSE holder[s]]
      /\ UNCHANGED <<price, next, invoices, keyed>>
  BY DEF Rollback, Free
<1>2. /\ tx'[w] = Idle /\ tx'[w].pc = "idle"
      /\ \A v \in Worker \ {w} : tx'[v] = tx[v]
  BY <1>1 DEF IInv, TypeOK, Idle
<1>3. \A v \in Worker \ {w} : /\ SeriesOf(v)' = SeriesOf(v)
                              /\ KeyOf(v)' = KeyOf(v)
                              /\ NumberOf(v)' = NumberOf(v)
  BY <1>2 DEF SeriesOf, KeyOf, NumberOf, Number
<1>4. TypeOK'
  BY <1>1, IdleType DEF IInv, TypeOK
<1>5. Drawn' = Drawn \ {w} /\ Inserted' = Inserted \ {w}
  BY <1>2 DEF Drawn, Inserted
<1>6. Drawing'
  <2> SUFFICES ASSUME NEW v \in Drawn \ {w}
               PROVE  holder'[SeriesOf(v)] = v /\ tx[v].value = next[SeriesOf(v)]
    BY <1>1, <1>2, <1>3, <1>5 DEF Drawing, Drawn, Inserted
  <2>1. v \in Worker /\ SeriesOf(v) \in Series
    BY TxType DEF Drawn, Inserted, IInv
  <2>2. holder[SeriesOf(v)] = v /\ tx[v].value = next[SeriesOf(v)]
    BY DEF IInv, Drawing
  <2> QED
    BY <2>1, <2>2, <1>1
<1>7. Inserting'
  <2>1. \A v \in Inserted \ {w} : v \in Worker \ {w} /\ NumberOf(v)' = NumberOf(v)
    BY <1>3 DEF Inserted
  <2>2. \A v \in Inserted \ {w} : NumberTaken(v)' <=> NumberTaken(v)
    BY <2>1, <1>1 DEF NumberTaken, Number
  <2> QED
    BY <2>1, <2>2, <1>5 DEF IInv, Inserting
<1>8. Gapless' /\ Keyed'
  BY <1>1 DEF IInv, Gapless, Keyed
<1>9. Paying'
  BY <1>2 DEF IInv, Paying, Payable, Draft, SeriesOf, KeyOf
<1>10. Recording'
  <2> SUFFICES ASSUME NEW v \in Worker \ {w}, tx[v].pc = "commit", KeyOf(v) # NoKey
               PROVE  keyed[KeyOf(v)] = {} /\ ~KeyContested(v)'
    BY <1>1, <1>2, <1>3 DEF Recording
  <2>1. keyed[KeyOf(v)] = {} /\ ~KeyContested(v)
    BY DEF IInv, Recording
  <2> QED
    BY <2>1, <1>2, <1>3 DEF KeyContested
<1>11. AnswersAreBills'
  BY <1>1, <1>2, <1>3 DEF IInv, AnswersAreBills
<1> QED
  BY <1>4, <1>6, <1>7, <1>8, <1>9, <1>10, <1>11 DEF IInv

\* The sale a commit publishes fits the book.
LEMMA CommitFits ==
  ASSUME IInv, NEW w \in Worker, tx[w].pc = "commit"
  PROVE  /\ Book!Fits(Draft(w))
         /\ Draft(w).paid <= Draft(w).total
         /\ holder[SeriesOf(w)] = w
         /\ tx[w].value = next[SeriesOf(w)]
<1> DEFINE b == Draft(w)
<1>1. w \in Drawn /\ w \in Inserted /\ SeriesOf(w) \in Series
  BY TxType DEF Drawn, Inserted, IInv
<1>2. /\ b \in Bills /\ b.series = SeriesOf(w) /\ b.key = KeyOf(w) /\ b.value = tx[w].value
      /\ b.value = next[SeriesOf(w)] /\ holder[SeriesOf(w)] = w
  BY <1>1, DraftType DEF IInv, Drawing
<1> HIDE DEF b
<1>3. Book!ValuesOf(b.series) = 1..(b.value - 1)
  BY <1>1, <1>2 DEF IInv, Gapless, Book!ValuesOf
<1>4. \A c \in invoices : Book!Number(c.series, c.value) # Book!Number(b.series, b.value)
  BY <1>1, <1>2 DEF IInv, Inserting, NumberTaken, NumberOf, Number, Book!Number
<1>5. b.key # NoKey => \A c \in invoices : c.key # b.key
  <2> SUFFICES ASSUME b.key # NoKey, NEW c \in invoices, c.key = b.key PROVE FALSE
    OBVIOUS
  <2>1. b.key \in Key /\ keyed[b.key] = {}
    BY <1>2, TxType DEF IInv, Recording
  <2> QED
    BY <2>1 DEF IInv, Keyed
<1>6. b.paid <= b.total
  BY DEF b, IInv, Paying, Payable
<1> QED
  BY <1>2, <1>3, <1>4, <1>5, <1>6 DEF b, Book!Fits

LEMMA CommitStep ==
  ASSUME IInv, NEW w \in Worker, Commit(w)
  PROVE  IInv'
<1> DEFINE b == Draft(w)
           s == SeriesOf(w)
<1>1. /\ tx[w].pc = "commit"
      /\ next' = [next EXCEPT ![s] = tx[w].value + 1]
      /\ invoices' = invoices \cup {b}
      /\ keyed' = [k \in Key |-> IF k = KeyOf(w) THEN keyed[k] \cup {b} ELSE keyed[k]]
      /\ holder' = [u \in Series |-> IF holder[u] = w THEN NoOne ELSE holder[u]]
      /\ tx' = [tx EXCEPT ![w].pc = "reply", ![w].answer = {b}]
      /\ price' = price
  BY DEF Commit, Free
<1>2. w \in Drawn /\ w \in Inserted
  BY <1>1 DEF Drawn, Inserted
<1>3. /\ b \in Bills /\ b.series = s /\ b.key = KeyOf(w) /\ b.value = tx[w].value
      /\ s \in Series /\ KeyOf(w) \in Key \cup {NoKey}
  BY <1>2, DraftType, TxType DEF IInv
<1>4. tx[w].value = next[s] /\ holder[s] = w /\ next[s] \in Nat \ {0}
  BY <1>1, CommitFits, TxType DEF IInv
<1> HIDE DEF b
<1>5. /\ tx'[w] = [tx[w] EXCEPT !.pc = "reply", !.answer = {b}]
      /\ \A v \in Worker \ {w} : tx'[v] = tx[v]
  BY <1>1 DEF IInv, TypeOK
<1>6. tx'[w] \in Tx /\ tx'[w].pc = "reply" /\ tx'[w].answer = {b} /\ tx'[w].req = tx[w].req
  <2>1. tx[w] \in Tx
    BY TxType DEF IInv
  <2>2. {b} \in SUBSET Bills
    BY <1>3
  <2> QED
    BY <2>1, <2>2, <1>5 DEF Tx
<1>7. /\ KeyOf(w)' = KeyOf(w)
      /\ \A v \in Worker \ {w} : /\ SeriesOf(v)' = SeriesOf(v)
                                 /\ KeyOf(v)' = KeyOf(v)
                                 /\ NumberOf(v)' = NumberOf(v)
  BY <1>5, <1>6 DEF SeriesOf, KeyOf, NumberOf, Number
<1>8. Drawn' = Drawn \ {w} /\ Inserted' = Inserted \ {w}
  BY <1>5, <1>6 DEF Drawn, Inserted
<1>9. TypeOK'
  <2>1. next' \in [Series -> Nat \ {0}]
    BY <1>1, <1>3, <1>4 DEF IInv, TypeOK
  <2>2. tx' \in [Worker -> Tx]
    BY <1>1, <1>5, <1>6 DEF IInv, TypeOK
  <2> QED
    BY <2>1, <2>2, <1>1, <1>3 DEF IInv, TypeOK
<1>10. Drawing'
  <2> SUFFICES ASSUME NEW v \in Drawn \ {w}
               PROVE  holder'[SeriesOf(v)] = v /\ tx[v].value = next'[SeriesOf(v)]
    <3>1. \A v \in Drawn \ {w} : v \in Worker \ {w}
      BY DEF Drawn, Inserted
    <3> QED
      BY <3>1, <1>5, <1>7, <1>8 DEF Drawing
  <2>1. v \in Worker /\ SeriesOf(v) \in Series
    BY TxType DEF Drawn, Inserted, IInv
  <2>2. holder[SeriesOf(v)] = v /\ tx[v].value = next[SeriesOf(v)]
    BY DEF IInv, Drawing
  <2>3. SeriesOf(v) # s
    BY <2>2, <1>4
  <2> QED
    BY <2>1, <2>2, <2>3, <1>1 DEF IInv, TypeOK
<1>11. Gapless'
  <2> SUFFICES ASSUME NEW u \in Series
               PROVE  {c.value : c \in {d \in invoices' : d.series = u}} = 1..(next'[u] - 1)
    BY DEF Gapless
  <2>1. {c.value : c \in {d \in invoices : d.series = u}} = 1..(next[u] - 1)
    BY DEF IInv, Gapless
  <2>2. CASE u = s
    <3>1. {c.value : c \in {d \in invoices' : d.series = u}} = (1..(next[u] - 1)) \cup {next[u]}
      BY <2>1, <2>2, <1>1, <1>3, <1>4
    <3>2. next'[u] = next[u] + 1
      BY <2>2, <1>1, <1>3, <1>4 DEF IInv, TypeOK
    <3>3. (1..(next[u] - 1)) \cup {next[u]} = 1..next[u]
      BY <2>2, <1>4
    <3> QED
      BY <3>1, <3>2, <3>3, <2>2, <1>4
  <2>3. CASE u # s
    BY <2>1, <2>3, <1>1, <1>3 DEF IInv, TypeOK
  <2> QED
    BY <2>2, <2>3
<1>12. Inserting'
  <2>1. \A v \in Inserted \ {w} : v \in Worker \ {w} /\ NumberOf(v)' = NumberOf(v)
    BY <1>7 DEF Inserted
  <2>2. Number(b.series, b.value) = NumberOf(w)
    BY <1>3 DEF NumberOf
  <2>3. \A v \in Inserted \ {w} : ~NumberTaken(v) /\ NumberOf(w) # NumberOf(v)
    BY <1>2 DEF IInv, Inserting
  <2>4. \A v \in Inserted \ {w} : ~NumberTaken(v)'
    BY <2>1, <2>2, <2>3, <1>1 DEF NumberTaken, Number
  <2> QED
    BY <2>1, <2>4, <1>8 DEF IInv, Inserting
<1>13. Keyed'
  BY <1>1, <1>3 DEF IInv, Keyed
<1>14. Paying'
  BY <1>5, <1>6 DEF IInv, Paying, Payable, Draft, SeriesOf, KeyOf
<1>15. Recording'
  <2> SUFFICES ASSUME NEW v \in Worker \ {w}, tx[v].pc = "commit", KeyOf(v) # NoKey
               PROVE  keyed'[KeyOf(v)] = {} /\ ~KeyContested(v)'
    BY <1>5, <1>6, <1>7 DEF Recording
  <2>1. keyed[KeyOf(v)] = {} /\ ~KeyContested(v) /\ KeyOf(v) \in Key
    BY TxType DEF IInv, Recording
  <2>2. KeyOf(v) # KeyOf(w)
    BY <2>1, <1>1 DEF KeyContested
  <2>3. ~KeyContested(v)'
    <3>1. \A u \in Worker \ {v} : tx'[u].pc = "commit" => tx[u].pc = "commit" /\ KeyOf(u)' = KeyOf(u)
      BY <1>5, <1>6, <1>7
    <3>2. KeyOf(v)' = KeyOf(v)
      BY <1>7
    <3> QED
      BY ONLY <2>1, <3>1, <3>2 DEF KeyContested
  <2> QED
    BY <2>1, <2>2, <2>3, <1>1
<1>16. AnswersAreBills'
  <2> SUFFICES ASSUME NEW v \in Worker, tx'[v].pc = "reply"
               PROVE  \E c \in invoices' : tx'[v].answer = {c} /\ c.key = KeyOf(v)'
    BY DEF AnswersAreBills
  <2>1. CASE v = w
    <3>1. b \in invoices'
      BY <1>1
    <3> QED
      BY <2>1, <3>1, <1>3, <1>6, <1>7
  <2>2. CASE v # w
    <3>1. tx[v].pc = "reply" /\ tx'[v].answer = tx[v].answer /\ KeyOf(v)' = KeyOf(v)
      BY <2>2, <1>5, <1>7
    <3>2. PICK c \in invoices : tx[v].answer = {c} /\ c.key = KeyOf(v)
      BY <3>1 DEF IInv, AnswersAreBills
    <3> QED
      BY <3>1, <3>2, <1>1
  <2> QED
    BY <2>1, <2>2
<1> QED
  BY <1>9, <1>10, <1>11, <1>12, <1>13, <1>14, <1>15, <1>16 DEF IInv

\* Nothing a request or the catalogue does breaks the invariant.
LEMMA NextIInv == IInv /\ [Next]_vars => IInv'
<1> SUFFICES ASSUME IInv, [Next]_vars PROVE IInv'
  OBVIOUS
<1>1. CASE \E w \in Worker : Begin(w)
  <2>1. PICK w \in Worker, req \in Request : Submit(w, req)
    BY <1>1 DEF Begin
  <2> QED
    BY <2>1, SubmitStep, BillingAssumption
<1>2. CASE \E w \in Worker : Serve(w)
  BY <1>2, ReplayStep, LoadProductsStep, TakeNumberStep, InsertInvoiceStep, WriteSaleStep,
     RecordKeyStep, CommitStep, RollbackStep DEF Serve, Fail
<1>3. CASE \E w \in Worker : Abort(w)
  BY <1>3, RollbackStep DEF Abort
<1>4. CASE \E w \in Worker : Reply(w)
  BY <1>4, ReplyStep
<1>5. CASE Reprice
  BY <1>5, RepriceStep
<1>6. CASE UNCHANGED vars
  BY <1>6 DEF vars, IInv, TypeOK, Drawing, Drawn, Inserted, Gapless, Inserting, NumberTaken,
              NumberOf, Number, Paying, Payable, Draft, Keyed, Recording, KeyContested,
              AnswersAreBills, SeriesOf, KeyOf
<1> QED
  BY <1>1, <1>2, <1>3, <1>4, <1>5, <1>6 DEF Next

-----------------------------------------------------------------------------
\* The invariant of billing: locks, numbers and keys of sales in progress and
\* of finished ones agree (sales/service.py:168-352).
THEOREM BillingInvariant == Spec => []IInv
BY InitIInv, NextIInv, PTL DEF Spec

\* Every variable keeps its type.
THEOREM TypeCorrect == Spec => []TypeOK
<1>1. IInv => TypeOK
  BY DEF IInv
<1> QED
  BY <1>1, BillingInvariant, PTL

\* A client is only told of a committed sale, the one its key stands for.
THEOREM AnswersHonest == Spec => []AnswersAreBills
<1>1. IInv => AnswersAreBills
  BY DEF IInv
<1> QED
  BY <1>1, BillingInvariant, PTL

-----------------------------------------------------------------------------
(* Numbers.                                                                *)

\* The unique constraint of finished sales (uq_sales_invoice_no).
OneNumber ==
  \A b, c \in invoices : Number(b.series, b.value) = Number(c.series, c.value) => b = c

\* Only a commit adds a sale, and the number of that one was taken by nobody.
LEMMA OneNumberNext == IInv /\ OneNumber /\ [Next]_vars => OneNumber'
<1> SUFFICES ASSUME IInv, OneNumber, [Next]_vars PROVE OneNumber'
  OBVIOUS
<1>1. ASSUME NEW w \in Worker, Commit(w) PROVE OneNumber'
  <2>1. invoices' = invoices \cup {Draft(w)} /\ w \in Inserted
    BY <1>1 DEF Commit, Inserted
  <2>2. Number(Draft(w).series, Draft(w).value) = NumberOf(w)
    BY DEF Draft, NumberOf, SeriesOf
  <2>3. \A b \in invoices : Number(b.series, b.value) # NumberOf(w)
    BY <2>1 DEF IInv, Inserting, NumberTaken
  <2> QED
    BY <2>1, <2>2, <2>3 DEF OneNumber
<1>2. CASE UNCHANGED invoices
  BY <1>2 DEF OneNumber
<1> QED
  BY <1>1, <1>2
  DEF Next, vars, Serve, Begin, Submit, Replay, LoadProducts, TakeNumber, InsertInvoice, WriteSale,
      RecordKey, Fail, Abort, Rollback, Reply, Reprice

\* A drawn value is the next of its branch, above all that are used, and its lock is held.
LEMMA DrawnApart ==
  ASSUME IInv, NEW w \in Drawn
  PROVE  /\ \A b \in invoices : b.series = SeriesOf(w) => b.value # tx[w].value
         /\ \A v \in Drawn \ {w} : SeriesOf(v) # SeriesOf(w)
<1>1. /\ w \in Worker /\ SeriesOf(w) \in Series
      /\ holder[SeriesOf(w)] = w
      /\ tx[w].value = next[SeriesOf(w)] /\ next[SeriesOf(w)] \in Nat \ {0}
  BY TxType DEF Drawn, Inserted, IInv, Drawing
<1>2. ASSUME NEW b \in invoices, b.series = SeriesOf(w) PROVE b.value # tx[w].value
  <2>1. b.value \in 1..(next[SeriesOf(w)] - 1)
    BY <1>1, <1>2 DEF IInv, Gapless
  <2> QED
    BY <1>1, <2>1
<1>3. \A v \in Drawn : holder[SeriesOf(v)] = v
  BY DEF IInv, Drawing
<1> QED
  BY <1>1, <1>2, <1>3

\* No two sales ever carry one number, whatever the codes of their branches: of a
\* branch no value is drawn twice, and of two branches that print the same prefix
\* (numbering/service.py:104) one gets the number and the other's sale fails.
THEOREM NumbersFresh == Spec => []NumbersOnce
<1>1. Init => OneNumber
  BY DEF Init, OneNumber
<1>2. IInv /\ OneNumber => NumbersOnce
  BY DrawnApart DEF IInv, Inserting, OneNumber, NumbersOnce
<1> QED
  BY <1>1, <1>2, BillingInvariant, OneNumberNext, PTL DEF Spec

-----------------------------------------------------------------------------
\* Whatever the branch codes, every commit enters one sale in the book and
\* no other step touches it.
LEMMA EveryStepKeepsBook == IInv /\ [Next]_vars => [Book!Next]_invoices
<1> SUFFICES ASSUME IInv, [Next]_vars PROVE Book!Next \/ UNCHANGED invoices
  OBVIOUS
<1>1. ASSUME NEW w \in Worker, Commit(w)
      PROVE  Book!Next
  <2>1. Book!Fits(Draft(w)) /\ Draft(w).paid <= Draft(w).total
    BY <1>1, CommitFits DEF Commit
  <2>2. invoices' = invoices \cup {Draft(w)}
    BY <1>1 DEF Commit
  <2> QED
    BY <2>1, <2>2 DEF Book!Next, Book!Enter
<1> QED
  BY <1>1 DEF Next, vars, Serve, Begin, Submit, Replay, LoadProducts, TakeNumber, InsertInvoice,
              WriteSale, RecordKey, Fail, Abort, Rollback, Reply, Reprice

\* Billing under concurrency implements the append-only book.
THEOREM BillingKeepsBook == Spec => BookSpec
<1>1. Init => Book!Init
  BY DEF Init, Book!Init
<1> QED
  BY <1>1, BillingInvariant, EveryStepKeepsBook, PTL DEF Spec, BookSpec, Book!Spec

-----------------------------------------------------------------------------
(* Who waits for whom.                                                     *)

\* A lock of numbers is held by a sale that has drawn one.
Holders == \A s \in Series, w \in Worker : holder[s] = w => w \in Drawn /\ SeriesOf(w) = s

\* Steps of w that leave the locks, and w its own.
LEMMA HoldersMove ==
  ASSUME TypeOK, Holders, NEW w \in Worker, NEW t,
         UNCHANGED holder, tx' = [tx EXCEPT ![w] = t],
         w \in Drawn => t.pc \in {"insert", "lines", "key", "commit"} /\ t.req = tx[w].req
  PROVE  Holders'
<1>1. tx'[w] = t /\ \A v \in Worker \ {w} : tx'[v] = tx[v]
  BY DEF TypeOK
<1>2. SUFFICES ASSUME NEW s \in Series, NEW v \in Worker, holder[s] = v
               PROVE  (v \in Drawn /\ SeriesOf(v) = s)'
  BY DEF Holders
<1>3. v \in Drawn /\ SeriesOf(v) = s
  BY <1>2 DEF Holders
<1>4. CASE v = w
  BY <1>1, <1>3, <1>4 DEF Drawn, Inserted, SeriesOf
<1>5. CASE v # w
  BY <1>1, <1>3, <1>5 DEF Drawn, Inserted, SeriesOf
<1> QED
  BY <1>4, <1>5

\* Steps that end the transaction of w.
LEMMA HoldersFree ==
  ASSUME TypeOK, Holders, NEW w \in Worker, NEW t,
         holder' = Free(w), tx' = [tx EXCEPT ![w] = t]
  PROVE  Holders'
<1>1. \A v \in Worker \ {w} : tx'[v] = tx[v]
  BY DEF TypeOK
<1>2. SUFFICES ASSUME NEW s \in Series, NEW v \in Worker, holder'[s] = v
               PROVE  (v \in Drawn /\ SeriesOf(v) = s)'
  BY DEF Holders
<1>3. holder[s] = v /\ v # w
  BY <1>2, BillingAssumption DEF Free
<1>4. v \in Drawn /\ SeriesOf(v) = s
  BY <1>3 DEF Holders
<1> QED
  BY <1>1, <1>3, <1>4 DEF Drawn, Inserted, SeriesOf

\* Every step keeps who holds a number.
LEMMA HoldersNext == IInv /\ Holders /\ [Next]_vars => Holders'
<1> SUFFICES ASSUME IInv, Holders, [Next]_vars PROVE Holders'
  OBVIOUS
<1>0. TypeOK /\ \A w \in Worker : tx[w] \in Tx
  BY DEF IInv, TypeOK
<1>1. ASSUME NEW w \in Worker, TakeNumber(w) PROVE Holders'
  <2> DEFINE t == [tx[w] EXCEPT !.pc = "insert", !.value = next[SeriesOf(w)]]
  <2>1. t.pc = "insert" /\ t.req = tx[w].req
    BY <1>0 DEF Tx
  <2>2. tx' = [tx EXCEPT ![w] = t]
    BY <1>1 DEF TakeNumber
  <2> HIDE DEF t
  <2>3. tx'[w] = t /\ \A v \in Worker \ {w} : tx'[v] = tx[v]
    BY <1>0, <2>2 DEF TypeOK
  <2>4. SUFFICES ASSUME NEW s \in Series, NEW v \in Worker, holder'[s] = v
                 PROVE  (v \in Drawn /\ SeriesOf(v) = s)'
    BY DEF Holders
  <2>5. w \notin Drawn
    BY <1>1 DEF TakeNumber, Drawn, Inserted
  <2>6. CASE s = SeriesOf(w)
    <3>1. v = w
      BY <1>0, <1>1, <2>4, <2>6 DEF TakeNumber, TypeOK
    <3> QED
      BY <2>1, <2>3, <2>6, <3>1 DEF Drawn, Inserted, SeriesOf
  <2>7. CASE s # SeriesOf(w)
    <3>1. holder[s] = v
      BY <1>0, <1>1, <2>4, <2>7 DEF TakeNumber, TypeOK
    <3>2. v \in Drawn /\ SeriesOf(v) = s /\ v # w
      BY <2>5, <3>1 DEF Holders
    <3> QED
      BY <2>3, <3>2 DEF Drawn, Inserted, SeriesOf
  <2> QED
    BY <2>6, <2>7
<1>2. ASSUME NEW w \in Worker, NEW req \in Request, Submit(w, req) PROVE Holders'
  BY <1>0, <1>2, HoldersMove DEF Submit, Drawn, Inserted
<1>3. ASSUME NEW w \in Worker, Replay(w) \/ LoadProducts(w) \/ Reply(w) PROVE Holders'
  <2>1. w \notin Drawn /\ UNCHANGED holder
    BY <1>3 DEF Replay, LoadProducts, Reply, Drawn, Inserted
  <2>2. \E t : tx' = [tx EXCEPT ![w] = t]
    <3>1. ASSUME Replay(w) PROVE \E t : tx' = [tx EXCEPT ![w] = t]
      <4>1. PICK b \in keyed[KeyOf(w)] : tx' = [tx EXCEPT ![w].pc = "reply", ![w].answer = {b}]
        BY <3>1 DEF Replay
      <4> QED
        BY <4>1
    <3>2. ASSUME LoadProducts(w) PROVE \E t : tx' = [tx EXCEPT ![w] = t]
      BY <3>2 DEF LoadProducts
    <3> QED
      BY <1>3, <3>1, <3>2 DEF Reply
  <2> QED
    BY <1>0, <2>1, <2>2, HoldersMove
<1>4. ASSUME NEW w \in Worker, InsertInvoice(w) \/ WriteSale(w) \/ RecordKey(w) PROVE Holders'
  <2>1. PICK pc \in {"lines", "key", "commit"} : tx' = [tx EXCEPT ![w].pc = pc] /\ UNCHANGED holder
    BY <1>4 DEF InsertInvoice, WriteSale, RecordKey, Move
  <2> DEFINE t == [tx[w] EXCEPT !.pc = pc]
  <2>2. t.pc = pc /\ t.req = tx[w].req /\ tx' = [tx EXCEPT ![w] = t]
    BY <1>0, <2>1 DEF Tx
  <2> HIDE DEF t
  <2> QED
    BY <1>0, <2>1, <2>2, HoldersMove
<1>5. ASSUME NEW w \in Worker, Commit(w) \/ Rollback(w) PROVE Holders'
  BY <1>0, <1>5, HoldersFree DEF Commit, Rollback
<1>6. CASE Reprice \/ UNCHANGED vars
  BY <1>6 DEF Reprice, vars, Holders, Drawn, Inserted, SeriesOf
<1> QED
  BY <1>1, <1>2, <1>3, <1>4, <1>5, <1>6 DEF Next, Serve, Begin, Fail, Abort

\* A set of numbers has a least one.
LEMMA LeastNat ==
  ASSUME NEW T, T \subseteq Nat, T # {}
  PROVE  \E n \in T : \A m \in T : n <= m
<1>1. PICK n \in T : \A m \in T : ~ (<<m, n>> \in OpToRel(<, Nat))
  BY WFMin, NatLessThanWellFounded
<1>2. ASSUME NEW m \in T PROVE n <= m
  <2>1. ~ (<<m, n>> \in OpToRel(<, Nat))
    BY <1>1
  <2>2. m \in Nat /\ n \in Nat
    OBVIOUS
  <2>3. ~ (m < n)
    BY <2>1, <2>2 DEF OpToRel
  <2> QED
    BY <2>2, <2>3
<1> QED
  BY <1>2

\* How many things a sale may still have to wait for: a number, the invoice that
\* has it, the key.
Ahead(w) == IF tx[w].pc = "number" THEN 3 ELSE IF tx[w].pc = "insert" THEN 2
            ELSE IF tx[w].pc = "key" THEN 1 ELSE 0

\* Whom a sale waits for has less ahead of it.
LEMMA WaitsDown ==
  ASSUME Holders, NEW v \in Worker, NEW w \in Worker, SeriesOf(v) \in Series, WaitsFor(v, w)
  PROVE  Ahead(w) < Ahead(v)
<1>1. CASE tx[v].pc = "number" /\ holder[SeriesOf(v)] = w
  BY <1>1 DEF Holders, Drawn, Inserted, Ahead
<1>2. CASE tx[v].pc = "insert" /\ w \in Inserted \ {v}
  BY <1>2 DEF Inserted, Ahead
<1>3. CASE tx[v].pc = "key" /\ tx[w].pc = "commit"
  BY <1>3 DEF Ahead
<1> QED
  BY <1>1, <1>2, <1>3 DEF WaitsFor

\* No matter how many sales run, no two or more wait for one another, so nobody has
\* to be refused for it: numbers are locked before invoices and keys are inserted
\* (numbering/service.py:52-60, sales/service.py:185-200).
THEOREM SalesNeverDeadlock == Spec => []NoCircle
<1>1. IInv /\ Holders => NoCircle
  <2> SUFFICES ASSUME IInv, Holders, NEW S \in SUBSET Worker, S # {}
               PROVE  \E v \in S : \A w \in S : ~WaitsFor(v, w)
    BY DEF NoCircle
  <2>1. \A v \in Worker : SeriesOf(v) \in Series
    BY TxType DEF IInv
  <2> DEFINE T == {Ahead(v) : v \in S}
  <2>2. T \subseteq Nat /\ T # {}
    BY DEF Ahead
  <2>3. PICK n \in T : \A m \in T : n <= m
    BY ONLY <2>2, LeastNat
  <2>4. PICK v \in S : n = Ahead(v)
    BY <2>3
  <2>5. ASSUME NEW w \in S, WaitsFor(v, w) PROVE FALSE
    <3>1. Ahead(w) < Ahead(v)
      BY <2>1, <2>5, WaitsDown
    <3>2. Ahead(v) <= Ahead(w) /\ Ahead(v) \in Nat /\ Ahead(w) \in Nat
      BY <2>2, <2>3, <2>4
    <3> QED
      BY <3>1, <3>2
  <2> QED
    BY <2>5
<1>2. Init => Holders
  BY BillingAssumption DEF Init, Holders
<1>3. Spec => [](IInv /\ Holders)
  BY <1>2, BillingInvariant, HoldersNext, PTL DEF Spec
<1> QED
  BY <1>1, <1>3, PTL

-----------------------------------------------------------------------------
(* The point of sale: whom a till waits for.                               *)

TillsTyped ==
  /\ till \in [Till -> Tills]
  /\ sale \in [Till -> Worker \cup {NoOne}]
  /\ told \subseteq Key

\* A till waits for the sale of its own cart.
Serving == \A t \in Till : Busy(t) => /\ tx[sale[t]].pc # "idle"
                                      /\ KeyOf(sale[t]) = till[t].key

Known(k) == k \in Key /\ (k \in told \/ \E t \in Till : till[t].key = k)

KeysKnown == /\ \A w \in Worker : tx[w].pc # "idle" => Known(KeyOf(w))
             /\ \A b \in invoices : Known(b.key)

OncePerKey == \A b, c \in invoices : b.key = c.key => b = c

ToldIsBilled == \A k \in told : \E b \in invoices : b.key = k

PosInv ==
  /\ IInv /\ TillsTyped
  /\ Serving /\ KeysKnown /\ OncePerKey /\ ToldIsBilled /\ OneKeyPerCart

-----------------------------------------------------------------------------
LEMMA EmptyTyped ==
  ASSUME NEW k \in Key \cup {NoKey}
  PROVE  Empty(k) \in Tills /\ Empty(k).key = k
BY BillingAssumption DEF Empty, Tills

LEMMA PosInitInv == PosInit => PosInv
<1> SUFFICES ASSUME PosInit PROVE PosInv
  OBVIOUS
<1>1. PICK k \in [Till -> Key] :
        /\ \A t, u \in Till : k[t] = k[u] => t = u
        /\ till = [t \in Till |-> Empty(k[t])]
  BY DEF PosInit
<1>2. IInv /\ invoices = {} /\ told = {} /\ sale = [t \in Till |-> NoOne]
  BY InitIInv DEF PosInit, Init
<1>3. \A w \in Worker : tx[w].pc = "idle"
  BY DEF PosInit, Init, Idle
<1>4. \A t \in Till : till[t] \in Tills /\ till[t].key = k[t]
  BY <1>1, EmptyTyped
<1>5. TillsTyped
  BY <1>1, <1>2, <1>4 DEF TillsTyped
<1>6. OneKeyPerCart
  BY <1>1, <1>2, <1>4 DEF OneKeyPerCart
<1>7. Serving /\ KeysKnown /\ OncePerKey /\ ToldIsBilled
  BY <1>2, <1>3 DEF Serving, Busy, KeysKnown, OncePerKey, ToldIsBilled
<1> QED
  BY <1>2, <1>5, <1>6, <1>7 DEF PosInv

\* No two tills wait for one worker.
LEMMA OwnWorker ==
  ASSUME PosInv, NEW t \in Till, NEW u \in Till, Busy(t), Busy(u), sale[t] = sale[u]
  PROVE  t = u
<1>1. sale[t] \in Worker /\ KeyOf(sale[t]) = till[t].key /\ KeyOf(sale[t]) \in Key
  BY DEF PosInv, TillsTyped, Busy, Serving, KeysKnown, Known
<1>2. till[u].key = till[t].key /\ till[t].key # NoKey
  BY <1>1, BillingAssumption DEF PosInv, Serving
<1> QED
  BY <1>2 DEF PosInv, OneKeyPerCart

-----------------------------------------------------------------------------
(* Steps that change a screen only.                                        *)

LEMMA ScreenStep ==
  ASSUME PosInv, UNCHANGED <<vars, sale, told>>, NEW t \in Till, NEW x \in Tills,
         x.key = till[t].key, till' = [till EXCEPT ![t] = x]
  PROVE  PosInv'
<1> USE DEF PosInv
<1>1. UNCHANGED <<next, invoices, keyed, holder, tx>> /\ UNCHANGED <<sale, told>> /\ price' = price
  BY DEF vars
<1>2. IInv'
  BY <1>1, NextIInv DEF vars
<1>3. TillsTyped' /\ \A u \in Till : till'[u].key = till[u].key
  BY <1>1 DEF TillsTyped
<1>4. (Serving /\ KeysKnown)'
  BY <1>1, <1>3 DEF Serving, KeysKnown, Known, Busy, KeyOf
<1>5. (OncePerKey /\ ToldIsBilled /\ OneKeyPerCart)'
  BY <1>1, <1>3 DEF OncePerKey, ToldIsBilled, OneKeyPerCart
<1> QED
  BY <1>2, <1>3, <1>4, <1>5

LEMMA ScreenSteps ==
  ASSUME PosInv, NEW t \in Till, EditCart(t) \/ TickCredit(t) \/ FetchQuote(t)
  PROVE  PosInv'
<1>1. till \in [Till -> Tills] /\ till[t] \in Tills
  BY DEF PosInv, TillsTyped
<1>2. CASE EditCart(t)
  <2>1. PICK q \in 0..MaxQty : till' = [till EXCEPT ![t].qty = q]
    BY <1>2 DEF EditCart
  <2>2. \A x : x = [till[t] EXCEPT !.qty = q] => x \in Tills /\ x.key = till[t].key
    BY <1>1 DEF Tills
  <2>3. till' = [till EXCEPT ![t] = [till[t] EXCEPT !.qty = q]]
    BY <1>1, <2>1
  <2> QED
    BY <1>2, <2>2, <2>3, ScreenStep DEF EditCart
<1>3. CASE TickCredit(t)
  <2>1. \A x : x = [till[t] EXCEPT !.credit = ~till[t].credit] =>
               x \in Tills /\ x.key = till[t].key
    BY <1>1 DEF Tills
  <2>2. till' = [till EXCEPT ![t] = [till[t] EXCEPT !.credit = ~till[t].credit]]
    BY <1>1, <1>3 DEF TickCredit
  <2> QED
    BY <1>3, <2>1, <2>2, ScreenStep DEF TickCredit
<1>4. CASE FetchQuote(t)
  <2> DEFINE q == till[t].qty
             quote == [till[t].quote EXCEPT ![q] = q * price]
  <2>1. q \in 1..MaxQty /\ till[t].quote \in [1..MaxQty -> Nat] /\ price \in Nat
    BY <1>1, <1>4, BillingAssumption DEF FetchQuote, Tills, PosInv, IInv, TypeOK
  <2>2. q * price \in Nat
    BY <2>1, BillingAssumption
  <2>3. quote \in [1..MaxQty -> Nat]
    BY <2>1, <2>2
  <2>4. till' = [till EXCEPT ![t] = [till[t] EXCEPT !.quote = quote]]
    BY <1>1, <1>4 DEF FetchQuote
  <2> HIDE DEF quote
  <2>5. \A x : x = [till[t] EXCEPT !.quote = quote] => x \in Tills /\ x.key = till[t].key
    BY <1>1, <2>3 DEF Tills
  <2> QED
    BY <1>4, <2>4, <2>5, ScreenStep DEF FetchQuote
<1> QED
  BY <1>2, <1>3, <1>4

-----------------------------------------------------------------------------
(* Steps of the server.                                                    *)

\* The server goes on with w, or ends a request nobody waits for.
LEMMA ServerStep ==
  ASSUME PosInv, IInv', UNCHANGED posVars, NEW w \in Worker,
         \A v \in Worker \ {w} : tx'[v] = tx[v],
         \/ tx[w].pc # "idle" /\ tx'[w].pc # "idle" /\ tx'[w].req = tx[w].req
         \/ tx'[w].pc = "idle" /\ w \notin Awaited,
         (OncePerKey /\ ToldIsBilled /\ \A b \in invoices : Known(b.key))'
  PROVE  PosInv'
<1>1. till' = till /\ sale' = sale /\ told' = told
  BY DEF posVars
<1>2. TillsTyped' /\ OneKeyPerCart'
  BY <1>1 DEF PosInv, TillsTyped, OneKeyPerCart
<1>3. ASSUME NEW v \in Worker, tx'[v].pc # "idle"
      PROVE  tx[v].pc # "idle" /\ KeyOf(v)' = KeyOf(v)
  BY <1>3 DEF KeyOf
<1>4. (\A v \in Worker : tx[v].pc # "idle" => Known(KeyOf(v)))'
  BY <1>1, <1>3 DEF PosInv, KeysKnown, Known
<1>5. ASSUME NEW t \in Till, Busy(t)'
      PROVE  tx'[sale[t]].pc # "idle" /\ tx'[sale[t]].req.key = till[t].key
  <2>1. Busy(t) /\ sale[t] \in Worker /\ sale[t] \in Awaited
    BY <1>1, <1>5 DEF Busy, PosInv, TillsTyped, Awaited
  <2>2. tx[sale[t]].pc # "idle" /\ KeyOf(sale[t]) = till[t].key
    BY <2>1 DEF PosInv, Serving
  <2> QED
    BY <2>1, <2>2 DEF KeyOf
<1>6. Serving'
  BY <1>1, <1>5 DEF Serving, KeyOf
<1> QED
  BY <1>2, <1>4, <1>6 DEF PosInv, KeysKnown

\* Of the tables, only a commit changes anything that matters here.
LEMMA SameBills ==
  ASSUME PosInv, UNCHANGED <<invoices, posVars>>
  PROVE  (OncePerKey /\ ToldIsBilled /\ \A b \in invoices : Known(b.key))'
BY DEF PosInv, OncePerKey, ToldIsBilled, KeysKnown, Known, posVars

LEMMA ProgressStep ==
  ASSUME PosInv, UNCHANGED posVars, NEW w \in Worker,
         \/ Replay(w) \/ LoadProducts(w) \/ TakeNumber(w) \/ InsertInvoice(w)
         \/ WriteSale(w) \/ RecordKey(w)
  PROVE  PosInv'
<1>1. IInv'
  BY NextIInv DEF PosInv, Next, Serve
<1>2. invoices' = invoices
  BY DEF Replay, LoadProducts, TakeNumber, InsertInvoice, WriteSale, RecordKey
<1>3. tx \in [Worker -> Tx]
  BY DEF PosInv, IInv, TypeOK
<1>4. /\ \A v \in Worker \ {w} : tx'[v] = tx[v]
      /\ tx[w].pc # "idle" /\ tx'[w].pc # "idle" /\ tx'[w].req = tx[w].req
  <2>1. CASE Replay(w)
    BY <1>3, <2>1 DEF Replay, Tx
  <2>2. CASE LoadProducts(w)
    BY <1>3, <2>2 DEF LoadProducts, Tx
  <2>3. CASE TakeNumber(w)
    BY <1>3, <2>3 DEF TakeNumber, Tx
  <2>4. CASE InsertInvoice(w) \/ WriteSale(w) \/ RecordKey(w)
    BY <1>3, <2>4 DEF InsertInvoice, WriteSale, RecordKey, Move, Tx
  <2> QED
    BY <2>1, <2>2, <2>3, <2>4
<1> QED
  BY <1>1, <1>2, <1>4, SameBills, ServerStep

\* The committed bill is the first under its key (Recording, Keyed).
LEMMA CommitServed ==
  ASSUME PosInv, UNCHANGED posVars, NEW w \in Worker, Commit(w)
  PROVE  PosInv'
<1>1. IInv'
  BY NextIInv DEF PosInv, Next, Serve
<1>2. tx \in [Worker -> Tx]
  BY DEF PosInv, IInv, TypeOK
<1>3. /\ \A v \in Worker \ {w} : tx'[v] = tx[v]
      /\ tx[w].pc # "idle" /\ tx'[w].pc # "idle" /\ tx'[w].req = tx[w].req
  BY <1>2 DEF Commit, Tx
<1>4. Known(KeyOf(w)) /\ KeyOf(w) # NoKey
  BY <1>3, BillingAssumption DEF PosInv, KeysKnown, Known
<1>5. invoices' = invoices \cup {Draft(w)} /\ Draft(w).key = KeyOf(w)
  BY DEF Commit, Draft
<1>6. \A b \in invoices : b.key # KeyOf(w)
  BY <1>4 DEF PosInv, IInv, Recording, Keyed, Commit, Known
<1>7. till' = till /\ told' = told
  BY DEF posVars
<1>8. (OncePerKey /\ ToldIsBilled /\ \A b \in invoices : Known(b.key))'
  BY <1>4, <1>5, <1>6, <1>7 DEF PosInv, OncePerKey, ToldIsBilled, KeysKnown, Known
<1> QED
  BY <1>1, <1>3, <1>8, ServerStep

\* A request that ends without a bill.
LEMMA Ends ==
  ASSUME PosInv, NEW w \in Worker, Fail(w) \/ Abort(w) \/ Reply(w)
  PROVE  /\ IInv' /\ invoices' = invoices
         /\ tx'[w].pc = "idle" /\ \A v \in Worker \ {w} : tx'[v] = tx[v]
<1>1. IInv'
  BY NextIInv DEF PosInv, Next, Serve
<1>2. tx' = [tx EXCEPT ![w] = Idle] /\ invoices' = invoices
  BY DEF Fail, Abort, Reply, Rollback
<1> QED
  BY <1>1, <1>2 DEF PosInv, IInv, TypeOK, Idle

LEMMA ServeOnStep ==
  ASSUME PosInv, NEW w \in Worker, ServeOn(w)
  PROVE  PosInv'
<1>1. UNCHANGED posVars
  BY DEF ServeOn
<1>2. CASE w \notin Awaited /\ (Fail(w) \/ Abort(w) \/ Reply(w))
  BY <1>1, <1>2, Ends, SameBills, ServerStep
<1> QED
  BY <1>1, <1>2, ProgressStep, CommitServed DEF ServeOn

LEMMA ChangePriceStep ==
  ASSUME PosInv, ChangePrice
  PROVE  PosInv'
<1>1. IInv'
  BY NextIInv DEF PosInv, Next, ChangePrice
<1>2. UNCHANGED <<invoices, tx, till, sale, told>>
  BY DEF ChangePrice, Reprice, posVars
<1> QED
  BY <1>1, <1>2
  DEF PosInv, TillsTyped, Serving, Busy, KeyOf, KeysKnown, Known, OncePerKey, ToldIsBilled,
      OneKeyPerCart

-----------------------------------------------------------------------------
(* Steps of a till with the server.                                        *)

LEMMA FinalizeStep ==
  ASSUME PosInv, NEW t \in Till, Finalize(t)
  PROVE  PosInv'
<1> USE DEF PosInv
<1>1. till[t] \in Tills /\ till[t].key \in Key /\ till[t].qty \in 1..MaxQty
  BY BillingAssumption DEF TillsTyped, Tills, Finalize
<1>2. \A q \in 1..MaxQty : till[t].quote[q] \in Nat
  BY <1>1 DEF Tills
<1>3. Quoted(t) \in Nat
  BY <1>1, <1>2 DEF Quoted
<1>4. PICK w \in Worker, amount \in Amounts(t) :
        /\ Submit(w, [series |-> BranchOf[t], key |-> till[t].key, qty |-> till[t].qty,
                      paid |-> amount, named |-> TRUE])
        /\ sale' = [sale EXCEPT ![t] = w]
  BY DEF Finalize
<1>5. amount \in Nat
  BY <1>3, <1>4 DEF Amounts
<1> DEFINE r == [series |-> BranchOf[t], key |-> till[t].key, qty |-> till[t].qty,
                 paid |-> amount, named |-> TRUE]
<1>6. r \in Requests /\ r.key = till[t].key
  BY <1>1, <1>5, TillAssumption DEF Requests
<1> HIDE DEF r
<1>7. Submit(w, r)
  BY <1>4 DEF r
<1>8. IInv'
  BY <1>6, <1>7, SubmitStep
<1>9. tx[w].pc = "idle" /\ tx' = [tx EXCEPT ![w] = [Idle EXCEPT !.pc = "find", !.req = r]]
      /\ UNCHANGED <<invoices, till, told>>
  BY <1>7 DEF Submit, Finalize
<1>10. /\ tx'[w].pc = "find" /\ KeyOf(w)' = till[t].key
       /\ \A v \in Worker : v # w => tx'[v] = tx[v] /\ KeyOf(v)' = KeyOf(v)
  BY <1>6, <1>9 DEF IInv, TypeOK, Idle, KeyOf
<1>11. /\ sale' \in [Till -> Worker \cup {NoOne}] /\ sale'[t] = w
       /\ \A u \in Till : u # t => sale'[u] = sale[u]
  BY <1>4 DEF TillsTyped
<1>12. TillsTyped' /\ (OncePerKey /\ ToldIsBilled /\ OneKeyPerCart)'
  BY <1>9, <1>11 DEF TillsTyped, OncePerKey, ToldIsBilled, OneKeyPerCart
<1>13. KeysKnown'
  BY <1>1, <1>9, <1>10 DEF KeysKnown, Known
<1>14. ASSUME NEW u \in Till, Busy(u)'
       PROVE  tx'[sale'[u]].pc # "idle" /\ tx'[sale'[u]].req.key = till[u].key
  <2>1. CASE u = t
    BY <1>10, <1>11, <2>1 DEF KeyOf
  <2>2. CASE u # t
    <3>1. Busy(u) /\ sale'[u] = sale[u] /\ sale[u] \in Worker
      BY <1>11, <1>14, <2>2 DEF Busy, TillsTyped
    <3>2. tx[sale[u]].pc # "idle" /\ KeyOf(sale[u]) = till[u].key
      BY <3>1 DEF Serving
    <3> QED
      BY <1>9, <1>10, <3>1, <3>2 DEF KeyOf
  <2> QED
    BY <2>1, <2>2
<1>15. Serving'
  BY <1>9, <1>14 DEF Serving, KeyOf
<1> QED
  BY <1>8, <1>12, <1>13, <1>15

\* A till that gives up waiting keeps its cart and key.
LEMMA GiveUp ==
  ASSUME PosInv, NEW t \in Till, Busy(t), HearError(t), IInv', invoices' = invoices,
         \A v \in Worker \ {sale[t]} : tx'[v] = tx[v],
         tx'[sale[t]].pc = "idle" \/ tx'[sale[t]] = tx[sale[t]]
  PROVE  PosInv'
<1>1. /\ sale' = [sale EXCEPT ![t] = NoOne] /\ till' = till /\ told' = told
      /\ sale[t] \in Worker
  BY DEF HearError, PosInv, TillsTyped, Busy
<1>2. /\ sale' \in [Till -> Worker \cup {NoOne}] /\ sale'[t] = NoOne
      /\ \A u \in Till : u # t => sale'[u] = sale[u]
  BY <1>1 DEF PosInv, TillsTyped
<1>3. TillsTyped' /\ (OncePerKey /\ ToldIsBilled /\ OneKeyPerCart)'
  BY <1>1, <1>2 DEF PosInv, TillsTyped, OncePerKey, ToldIsBilled, OneKeyPerCart
<1>4. \A v \in Worker : tx'[v].pc # "idle" => tx'[v] = tx[v]
  BY <1>1
<1>5. KeysKnown'
  BY <1>1, <1>4 DEF PosInv, KeysKnown, Known, KeyOf
<1>6. ASSUME NEW u \in Till, Busy(u)'
      PROVE  tx'[sale'[u]].pc # "idle" /\ tx'[sale'[u]].req.key = till[u].key
  <2>1. u # t /\ Busy(u) /\ sale'[u] = sale[u] /\ sale[u] \in Worker
    BY <1>2, <1>6 DEF Busy, PosInv, TillsTyped
  <2>2. sale[u] # sale[t]
    BY <2>1, OwnWorker
  <2>3. tx[sale[u]].pc # "idle" /\ KeyOf(sale[u]) = till[u].key
    BY <2>1 DEF PosInv, Serving
  <2> QED
    BY <2>1, <2>2, <2>3 DEF KeyOf
<1>7. Serving'
  BY <1>1, <1>6 DEF Serving, KeyOf
<1> QED
  BY <1>3, <1>5, <1>7 DEF PosInv

LEMMA LoseAnswerStep ==
  ASSUME PosInv, NEW t \in Till, LoseAnswer(t)
  PROVE  PosInv'
<1>1. IInv' /\ invoices' = invoices /\ tx' = tx
  BY NextIInv DEF PosInv, LoseAnswer, vars
<1> QED
  BY <1>1, GiveUp DEF LoseAnswer

LEMMA HearFailureStep ==
  ASSUME PosInv, NEW t \in Till, HearFailure(t)
  PROVE  PosInv'
<1>1. sale[t] \in Worker
  BY DEF PosInv, TillsTyped, HearFailure, Busy
<1> QED
  BY <1>1, Ends, GiveUp DEF HearFailure

\* The cart that was billed goes, its key is told, and the new one is unused.
LEMMA HearDoneStep ==
  ASSUME PosInv, NEW t \in Till, HearDone(t)
  PROVE  PosInv'
<1> DEFINE w == sale[t]
           old == till[t].key
<1>1. w \in Worker /\ Reply(w) /\ tx[w].pc = "reply"
  BY DEF PosInv, TillsTyped, HearDone, Busy, Reply
<1>2. KeyOf(w) = old /\ Known(old) /\ old # NoKey
  BY <1>1, BillingAssumption DEF PosInv, Serving, KeysKnown, Known, HearDone
<1>3. PICK k \in NextKey : till' = [till EXCEPT ![t] = [Empty(k) EXCEPT !.quote = till[t].quote]]
  BY DEF HearDone
<1>4. /\ k \in Key \cup {NoKey} /\ k \notin told
      /\ k # NoKey => \A u \in Till : till[u].key # k
  BY <1>3, BillingAssumption DEF NextKey, Fresh, PosInv, TillsTyped
<1>5. /\ IInv' /\ invoices' = invoices
      /\ tx'[w].pc = "idle" /\ \A v \in Worker \ {w} : tx'[v] = tx[v]
  BY <1>1, Ends
<1>6. told' = told \cup {old} /\ sale' = [sale EXCEPT ![t] = NoOne]
  BY <1>2 DEF HearDone
<1>7. till \in [Till -> Tills] /\ till[t] \in Tills
  BY DEF PosInv, TillsTyped
<1>8. ASSUME NEW x, x = [Empty(k) EXCEPT !.quote = till[t].quote] PROVE x \in Tills /\ x.key = k
  <2>1. x = [qty |-> 0, quote |-> till[t].quote, credit |-> FALSE, key |-> k]
    BY <1>8 DEF Empty
  <2>2. 0 \in 0..MaxQty /\ till[t].quote \in [1..MaxQty -> Nat] /\ FALSE \in BOOLEAN
    BY <1>7, BillingAssumption DEF Tills
  <2>3. x \in Tills
    BY <1>4, <2>1, <2>2, Zenon DEF Tills
  <2> QED
    BY <2>1, <2>3
<1>9. /\ till' \in [Till -> Tills] /\ till'[t].key = k
      /\ \A u \in Till : u # t => till'[u] = till[u]
  BY <1>3, <1>7, <1>8
<1>10. /\ sale' \in [Till -> Worker \cup {NoOne}] /\ sale'[t] = NoOne
       /\ \A u \in Till : u # t => sale'[u] = sale[u]
  BY <1>6 DEF PosInv, TillsTyped
<1>11. TillsTyped'
  BY <1>2, <1>6, <1>9, <1>10 DEF PosInv, TillsTyped, Known
<1>12. OneKeyPerCart'
  <2> SUFFICES ASSUME NEW u \in Till, till'[u].key # NoKey
               PROVE  /\ till'[u].key \notin told'
                      /\ \A v \in Till \ {u} : till'[v].key # till'[u].key
    BY DEF OneKeyPerCart
  <2>1. CASE u = t
    BY <1>2, <1>4, <1>6, <1>9, <2>1
  <2>2. CASE u # t
    <3>1. till'[u].key = till[u].key /\ till[u].key # NoKey
      BY <1>9, <2>2
    <3>2. till[u].key \notin told /\ \A v \in Till \ {u} : till[v].key # till[u].key
      BY <3>1 DEF PosInv, OneKeyPerCart
    <3>3. till'[u].key \notin told'
      BY <1>6, <2>2, <3>1, <3>2
    <3>4. ASSUME NEW v \in Till \ {u} PROVE till'[v].key # till'[u].key
      BY <1>4, <1>9, <3>1, <3>2
    <3> QED
      BY <3>3, <3>4
  <2> QED
    BY <2>1, <2>2
<1>13. \E b \in invoices : b.key = old
  BY <1>1, <1>2 DEF PosInv, IInv, AnswersAreBills
<1>14. (OncePerKey /\ ToldIsBilled)'
  BY <1>5, <1>6, <1>13 DEF PosInv, OncePerKey, ToldIsBilled
<1>15. \A x : Known(x) => Known(x)'
  BY <1>6, <1>9 DEF Known
<1>16. \A v \in Worker : tx'[v].pc # "idle" => tx'[v] = tx[v]
  BY <1>5
<1>17. KeysKnown'
  BY <1>5, <1>15, <1>16 DEF PosInv, KeysKnown, KeyOf
<1>18. ASSUME NEW u \in Till, Busy(u)'
       PROVE  tx'[sale'[u]].pc # "idle" /\ tx'[sale'[u]].req.key = till'[u].key
  <2>1. u # t /\ Busy(u) /\ sale'[u] = sale[u] /\ sale[u] \in Worker
    BY <1>10, <1>18 DEF Busy, PosInv, TillsTyped
  <2>2. sale[u] # w
    BY <2>1, OwnWorker DEF HearDone
  <2>3. tx[sale[u]].pc # "idle" /\ KeyOf(sale[u]) = till[u].key
    BY <2>1 DEF PosInv, Serving
  <2> QED
    BY <1>5, <1>9, <2>1, <2>2, <2>3 DEF KeyOf
<1>19. Serving'
  BY <1>18 DEF Serving, KeyOf
<1> QED
  BY <1>5, <1>11, <1>12, <1>14, <1>17, <1>19 DEF PosInv

\* Every step of the counter keeps the invariant.
LEMMA PosNextInv == PosInv /\ [PosNext]_allVars => PosInv'
<1> SUFFICES ASSUME PosInv, [PosNext]_allVars PROVE PosInv'
  OBVIOUS
<1>1. CASE UNCHANGED allVars
  <2>1. UNCHANGED vars /\ UNCHANGED posVars
    BY <1>1 DEF allVars
  <2>2. IInv'
    BY <2>1, NextIInv DEF PosInv
  <2> QED
    BY <2>1, <2>2
    DEF vars, posVars, PosInv, TillsTyped, Serving, Busy, KeyOf, KeysKnown, Known, OncePerKey,
        ToldIsBilled, OneKeyPerCart
<1>2. CASE PosNext
  BY <1>2, ScreenSteps, FinalizeStep, HearDoneStep, LoseAnswerStep, HearFailureStep, ServeOnStep,
     ChangePriceStep
  DEF PosNext
<1> QED
  BY <1>1, <1>2

-----------------------------------------------------------------------------
(* What is under way or billed under a till's key, that till has asked for. *)

Ours(x, t) == Press(x) \in sent[t] /\ x.series = BranchOf[t]

Asked ==
  /\ sent \in [Till -> SUBSET Presses]
  /\ \A t \in Till : \A w \in Worker :
       tx[w].pc # "idle" /\ KeyOf(w) = till[t].key => Ours(tx[w].req, t)
  /\ \A t \in Till : \A b \in invoices : b.key = till[t].key => Ours(b, t)

\* Nothing is asked for, no key changes hands, and a new bill is a sale in progress.
LEMMA AskedKept ==
  ASSUME Asked, sent' = sent, \A t \in Till : till'[t].key = till[t].key,
         \A w \in Worker : tx'[w].pc # "idle" => tx[w].pc # "idle" /\ tx'[w].req = tx[w].req,
         \A b \in invoices' : \/ b \in invoices
                              \/ \E w \in Worker : tx[w].pc # "idle" /\ b = Draft(w)
  PROVE  Asked'
<1>1. ASSUME NEW t \in Till, NEW w \in Worker, tx'[w].pc # "idle", tx'[w].req.key = till'[t].key
      PROVE  Press(tx'[w].req) \in sent[t] /\ tx'[w].req.series = BranchOf[t]
  BY <1>1 DEF Asked, Ours, KeyOf
<1>2. ASSUME NEW t \in Till, NEW b \in invoices', b.key = till'[t].key
      PROVE  Press(b) \in sent[t] /\ b.series = BranchOf[t]
  <2>1. CASE b \in invoices
    BY <1>2, <2>1 DEF Asked, Ours
  <2>2. ASSUME NEW w \in Worker, tx[w].pc # "idle", b = Draft(w)
        PROVE  Press(b) \in sent[t] /\ b.series = BranchOf[t]
    <3>1. b.key = KeyOf(w) /\ b.series = tx[w].req.series /\ Press(b) = Press(tx[w].req)
      BY <2>2 DEF Draft, SeriesOf, Press
    <3> QED
      BY <1>2, <2>2, <3>1 DEF Asked, Ours
  <2> QED
    BY <2>1, <2>2
<1> QED
  BY <1>1, <1>2 DEF Asked, Ours, KeyOf

LEMMA AskedInit == PosInit => Asked
<1> SUFFICES ASSUME PosInit PROVE Asked
  OBVIOUS
<1>1. invoices = {} /\ \A w \in Worker : tx[w].pc = "idle"
  BY DEF PosInit, Init, Idle
<1> QED
  BY <1>1 DEF PosInit, Asked

\* A press is sent under a key no other till has.
LEMMA AskedFinalize ==
  ASSUME PosInv, Asked, NEW t \in Till, Finalize(t)
  PROVE  Asked'
<1>1. till[t] \in Tills /\ till[t].key \in Key /\ till[t].key # NoKey /\ till[t].qty \in 1..MaxQty
  BY BillingAssumption DEF PosInv, TillsTyped, Tills, Finalize
<1>2. Quoted(t) \in Nat
  BY <1>1 DEF Quoted, Tills
<1>3. PICK w \in Worker, amount \in Amounts(t) :
        /\ Submit(w, [series |-> BranchOf[t], key |-> till[t].key, qty |-> till[t].qty,
                      paid |-> amount, named |-> TRUE])
        /\ sent' = [sent EXCEPT ![t] = @ \cup {[qty |-> till[t].qty, paid |-> amount]}]
  BY DEF Finalize
<1>4. amount \in Nat
  BY <1>2, <1>3 DEF Amounts
<1> DEFINE p == [qty |-> till[t].qty, paid |-> amount]
           r == [series |-> BranchOf[t], key |-> till[t].key, qty |-> till[t].qty,
                 paid |-> amount, named |-> TRUE]
<1>5. p \in Presses /\ Press(r) = p /\ r.key = till[t].key /\ r.series = BranchOf[t]
  BY <1>1, <1>4 DEF Presses, Press
<1>6. Submit(w, r) /\ sent' = [sent EXCEPT ![t] = @ \cup {p}]
  BY <1>3
<1> HIDE DEF p, r
<1>7. /\ sent' \in [Till -> SUBSET Presses] /\ p \in sent'[t]
      /\ \A u \in Till : sent[u] \subseteq sent'[u]
  BY <1>5, <1>6 DEF Asked
<1>8. /\ tx' = [tx EXCEPT ![w] = [Idle EXCEPT !.pc = "find", !.req = r]]
      /\ invoices' = invoices /\ till' = till
  BY <1>6 DEF Submit, Finalize
<1>9. tx'[w].req = r /\ \A v \in Worker : v # w => tx'[v] = tx[v]
  BY <1>8 DEF PosInv, IInv, TypeOK, Idle
<1>10. ASSUME NEW u \in Till, NEW v \in Worker, tx'[v].pc # "idle", tx'[v].req.key = till[u].key
       PROVE  Press(tx'[v].req) \in sent'[u] /\ tx'[v].req.series = BranchOf[u]
  <2>1. CASE v = w
    <3>1. u = t
      BY <1>1, <1>5, <1>9, <1>10, <2>1 DEF PosInv, OneKeyPerCart
    <3> QED
      BY <1>5, <1>7, <1>9, <2>1, <3>1
  <2>2. CASE v # w
    BY <1>7, <1>9, <1>10, <2>2 DEF Asked, Ours, KeyOf
  <2> QED
    BY <2>1, <2>2
<1> QED
  BY <1>7, <1>8, <1>10 DEF Asked, Ours, KeyOf

\* The new key is nobody's.
LEMMA AskedHearDone ==
  ASSUME PosInv, Asked, NEW t \in Till, HearDone(t)
  PROVE  Asked'
<1>1. PICK k \in NextKey : till' = [till EXCEPT ![t] = [Empty(k) EXCEPT !.quote = till[t].quote]]
  BY DEF HearDone
<1>2. /\ \A w \in Worker : tx[w].pc # "idle" => KeyOf(w) # k
      /\ \A b \in invoices : b.key # k
  BY <1>1, BillingAssumption DEF NextKey, Fresh, PosInv, KeysKnown, Known
<1>3. sale[t] \in Worker /\ Reply(sale[t])
  BY DEF PosInv, TillsTyped, HearDone, Busy
<1>4. invoices' = invoices /\ \A w \in Worker : tx'[w].pc # "idle" => tx'[w] = tx[w]
  BY <1>3, Ends DEF PosInv
<1>5. till'[t].key = k /\ \A u \in Till : u # t => till'[u] = till[u]
  BY <1>1 DEF PosInv, TillsTyped, Empty
<1>6. /\ sent' \in [Till -> SUBSET Presses]
      /\ \A u \in Till : u # t => sent'[u] = sent[u]
  BY DEF HearDone, Asked
<1>7. ASSUME NEW u \in Till, NEW w \in Worker, tx'[w].pc # "idle", tx'[w].req.key = till'[u].key
      PROVE  Press(tx'[w].req) \in sent'[u] /\ tx'[w].req.series = BranchOf[u]
  <2>1. tx[w].pc # "idle" /\ KeyOf(w) = till'[u].key /\ tx'[w].req = tx[w].req
    BY <1>4, <1>7 DEF KeyOf
  <2>2. u # t
    BY <1>2, <1>5, <2>1
  <2> QED
    BY <1>5, <1>6, <2>1, <2>2 DEF Asked, Ours
<1>8. ASSUME NEW u \in Till, NEW b \in invoices, b.key = till'[u].key
      PROVE  Press(b) \in sent'[u] /\ b.series = BranchOf[u]
  <2>1. u # t
    BY <1>2, <1>5, <1>8
  <2> QED
    BY <1>5, <1>6, <1>8, <2>1 DEF Asked, Ours
<1> QED
  BY <1>4, <1>6, <1>7, <1>8 DEF Asked, Ours, KeyOf

LEMMA AskedServeOn ==
  ASSUME PosInv, Asked, NEW w \in Worker, ServeOn(w)
  PROVE  Asked'
<1>1. tx \in [Worker -> Tx] /\ sent' = sent /\ till' = till
  BY DEF PosInv, IInv, TypeOK, ServeOn, posVars
<1>2. CASE Fail(w) \/ Abort(w) \/ Reply(w)
  <2>1. invoices' = invoices /\ \A v \in Worker : tx'[v].pc # "idle" => tx'[v] = tx[v]
    BY <1>2, Ends
  <2> QED
    BY <1>1, <2>1, AskedKept
<1>3. CASE Replay(w) \/ LoadProducts(w) \/ TakeNumber(w) \/ InsertInvoice(w) \/ WriteSale(w)
           \/ RecordKey(w)
  <2>1. invoices' = invoices
    BY <1>3 DEF Replay, LoadProducts, TakeNumber, InsertInvoice, WriteSale, RecordKey
  <2>2. tx[w].pc # "idle" /\ tx'[w].req = tx[w].req /\ \A v \in Worker \ {w} : tx'[v] = tx[v]
    <3>1. CASE Replay(w) \/ LoadProducts(w) \/ TakeNumber(w)
      BY <1>1, <3>1 DEF Replay, LoadProducts, TakeNumber, Tx
    <3>2. CASE InsertInvoice(w) \/ WriteSale(w) \/ RecordKey(w)
      BY <1>1, <3>2 DEF InsertInvoice, WriteSale, RecordKey, Move, Tx
    <3> QED
      BY <1>3, <3>1, <3>2
  <2> QED
    BY <1>1, <2>1, <2>2, AskedKept
<1>4. CASE Commit(w)
  <2>1. invoices' = invoices \cup {Draft(w)} /\ tx[w].pc # "idle"
    BY <1>4 DEF Commit
  <2>2. tx'[w].req = tx[w].req /\ \A v \in Worker \ {w} : tx'[v] = tx[v]
    BY <1>1, <1>4 DEF Commit, Tx
  <2> QED
    BY <1>1, <2>1, <2>2, AskedKept
<1> QED
  BY <1>2, <1>3, <1>4 DEF ServeOn

LEMMA AskedNext == PosInv /\ Asked /\ [PosNext]_allVars => Asked'
<1> SUFFICES ASSUME PosInv, Asked, [PosNext]_allVars PROVE Asked'
  OBVIOUS
<1>1. CASE UNCHANGED allVars
  BY <1>1, AskedKept DEF allVars, vars, posVars
<1>2. ASSUME NEW t \in Till, EditCart(t) \/ TickCredit(t) \/ FetchQuote(t) PROVE Asked'
  <2>1. tx' = tx /\ invoices' = invoices /\ sent' = sent
    BY <1>2 DEF EditCart, TickCredit, FetchQuote, vars
  <2>2. till \in [Till -> Tills]
    BY DEF PosInv, TillsTyped
  <2>3. \A u \in Till : till'[u].key = till[u].key
    <3>1. till[t] \in Tills
      BY <2>2
    <3>2. CASE EditCart(t)
      BY <2>2, <3>1, <3>2 DEF EditCart, Tills
    <3>3. CASE TickCredit(t)
      BY <2>2, <3>1, <3>3 DEF TickCredit, Tills
    <3>4. CASE FetchQuote(t)
      BY <2>2, <3>1, <3>4 DEF FetchQuote, Tills
    <3> QED
      BY <1>2, <3>2, <3>3, <3>4
  <2> QED
    BY <2>1, <2>3, AskedKept
<1>3. ASSUME NEW t \in Till, LoseAnswer(t) PROVE Asked'
  BY <1>3, AskedKept DEF LoseAnswer, HearError, vars
<1>4. ASSUME NEW t \in Till, HearFailure(t) PROVE Asked'
  <2>1. sale[t] \in Worker
    BY <1>4 DEF PosInv, TillsTyped, HearFailure, Busy
  <2>2. invoices' = invoices /\ \A v \in Worker : tx'[v].pc # "idle" => tx'[v] = tx[v]
    BY <1>4, <2>1, Ends DEF HearFailure
  <2> QED
    BY <1>4, <2>2, AskedKept DEF HearFailure, HearError
<1>5. ASSUME ChangePrice PROVE Asked'
  BY <1>5, AskedKept DEF ChangePrice, Reprice, posVars
<1> QED
  BY <1>1, <1>2, <1>3, <1>4, <1>5, AskedFinalize, AskedHearDone, AskedServeOn DEF PosNext

-----------------------------------------------------------------------------
\* The invariant, for any number of tills and workers.
THEOREM PosInvariant == PosSpec => []PosInv
BY PosInitInv, PosNextInv, PTL DEF PosSpec

LEMMA AlwaysAsked == PosSpec => []Asked
BY AskedInit, AskedNext, PosInvariant, PTL DEF PosSpec

\* Screens, answers awaited and keys keep their types (useCart.ts, usePos.ts).
THEOREM PosTypeCorrect == PosSpec => []PosTypeOK
<1>1. PosInv /\ Asked => PosTypeOK
  BY DEF PosInv, IInv, TillsTyped, Asked, PosTypeOK
<1> QED
  BY <1>1, PosInvariant, AlwaysAsked, PTL

\* Whatever answers are lost, however often a sale is tried again and whatever
\* is done to the cart meanwhile, a bill that was made is one the counter has
\* been told of, or one whose key a till still holds.
THEOREM NothingForgotten == PosSpec => []NoBillForgotten
<1>1. PosInv => NoBillForgotten
  BY DEF PosInv, KeysKnown, Known, NoBillForgotten
<1> QED
  BY <1>1, PosInvariant, PTL

\* A till that hears of a sale hears of the only bill under its key, and of one that
\* records a press of this till's own pay button for this cart, never of another
\* cart's sale or another till's.  Which press, if the cart was edited between two,
\* is not said: see BilledAsCharged.
THEOREM ClearedOnce == PosSpec => []ClearedIsBilled
<1>1. ASSUME PosInv, Asked PROVE ClearedIsBilled
  <2>1. ASSUME NEW b \in invoices PROVE {c \in invoices : c.key = b.key} = {b}
    BY <1>1 DEF PosInv, OncePerKey
  <2>2. ASSUME NEW k \in told PROVE \E b \in invoices : {c \in invoices : c.key = k} = {b}
    <3>1. PICK b \in invoices : b.key = k
      BY <1>1 DEF PosInv, ToldIsBilled
    <3> QED
      BY <2>1, <3>1
  <2>3. ASSUME NEW t \in Till, NEW b \in Answers(t)
        PROVE  /\ {c \in invoices : c.key = till[t].key} = {b}
               /\ b.series = BranchOf[t] /\ Press(b) \in sent[t]
    <3>1. Busy(t) /\ tx[sale[t]].pc = "reply" /\ b \in tx[sale[t]].answer /\ sale[t] \in Worker
      BY <1>1, <2>3 DEF Answers, Busy, PosInv, TillsTyped
    <3>2. b \in invoices /\ b.key = till[t].key
      BY <1>1, <3>1 DEF PosInv, Serving, IInv, AnswersAreBills
    <3> QED
      BY <1>1, <2>1, <3>2 DEF Asked, Ours
  <2> QED
    BY <2>2, <2>3 DEF ClearedIsBilled
<1> QED
  BY <1>1, PosInvariant, AlwaysAsked, PTL

\* No two carts ever share a key, nor does a cart have one whose sale was reported:
\* what a till finds under its key is its own.
THEOREM KeysApart == PosSpec => []OneKeyPerCart
<1>1. PosInv => OneKeyPerCart
  BY DEF PosInv
<1> QED
  BY <1>1, PosInvariant, PTL
=============================================================================
