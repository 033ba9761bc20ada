------------------------- MODULE ReceivablesProofs -------------------------
(***************************************************************************)
(* Why invoices, payments, journal and screens agree, for any number of    *)
(* handlers, branches and customers and whatever amounts requests bring.   *)
(* The figures are sums over invoices, payments and entries; they are      *)
(* defined here as functions of the rows, so that the lemmas say what a    *)
(* commit adds to each of them.                                            *)
(***************************************************************************)
EXTENDS Receivables, Sums

\* Whom a document may be about.
Party == Customer \cup {WalkIn}

\* What the rows bs of invoices say: invoiced to c, owed by c, owed by all,
\* tax, sold over a channel.  An unused row counts as an invoice of nothing.
CostOf(bs, c) ==
  SumFunctionOnSet([b \in BillId |-> IF bs[b].customer = c THEN Cost(bs[b]) ELSE 0], BillId)
OwedBy(bs, c) ==
  SumFunctionOnSet(
    [b \in BillId |-> IF bs[b].customer = c THEN Cost(bs[b]) - bs[b].paid ELSE 0], BillId)
OwedAll(bs) == SumFunctionOnSet([b \in BillId |-> Cost(bs[b]) - bs[b].paid], BillId)
TaxAll(bs) == SumFunctionOnSet([b \in BillId |-> bs[b].tax], BillId)
SoldOver(bs, channel) ==
  SumFunctionOnSet([b \in BillId |-> IF bs[b].channel = channel THEN Cost(bs[b]) ELSE 0], BillId)

\* What the payments ps say: allocated of one, received from c, of it not
\* allocated, received in the methods of an account, in all, allocated to b.
Given(p) == SumFunctionOnSet(p.to, BillId)
PaidBy(ps, c) ==
  SumFunctionOnSet([i \in DOMAIN ps |-> IF ps[i].customer = c THEN ps[i].money ELSE 0], DOMAIN ps)
AheadOf(ps, c) ==
  SumFunctionOnSet([i \in DOMAIN ps |-> IF ps[i].customer = c THEN ps[i].money - Given(ps[i])
                                                              ELSE 0], DOMAIN ps)
PaidInto(ps, a) ==
  SumFunctionOnSet([i \in DOMAIN ps |-> IF AccountOf(ps[i].method) = a THEN ps[i].money
                                                                       ELSE 0], DOMAIN ps)
PaidAll(ps) == SumFunctionOnSet([i \in DOMAIN ps |-> ps[i].money], DOMAIN ps)
PaidOn(ps, b) == SumFunctionOnSet([i \in DOMAIN ps |-> ps[i].to[b]], DOMAIN ps)

\* What the journal jr says of an account.
Posted(jr, a) == SumFunctionOnSet([e \in jr |-> e.lines[a]], jr)

\* The sums over all customers.
OwedTotal(bs) == SumFunctionOnSet([c \in Customer |-> OwedBy(bs, c)], Customer)
AheadTotal(ps) == SumFunctionOnSet([c \in Customer |-> AheadOf(ps, c)], Customer)
StatedTotal(bs, ps) ==
  SumFunctionOnSet([c \in Customer |-> CostOf(bs, c) - PaidBy(ps, c)], Customer)

Rows == [BillId -> Bill]
PayRows == Seq(Payment)

-----------------------------------------------------------------------------
\* Facts about the constants.
LEMMA Finite ==
  /\ IsFiniteSet(BillId) /\ BillId \subseteq Nat \ {0}
  /\ IsFiniteSet(Customer) /\ WalkIn \notin Customer /\ MaxBills \in Nat
<1>1. MaxBills \in Nat /\ MaxBills \in Int /\ 1 \in Int
  BY ReceivablesAssumption
<1>2. IsFiniteSet(1..MaxBills)
  BY <1>1, FS_Interval
<1> QED
  BY <1>1, <1>2, ReceivablesAssumption DEF BillId

\* The fields of an invoice.
LEMMA BillFields ==
  ASSUME NEW x \in Bill
  PROVE  /\ x.customer \in Party /\ x.branch \in Branch /\ x.net \in Nat /\ x.tax \in Nat
         /\ x.paid \in Nat /\ x.channel \in {"retail", "wholesale"}
         /\ x.status \in {"none", "credit", "partial", "paid"} /\ Cost(x) \in Nat
         /\ Cost(x) = x.net + x.tax
BY DEF Bill, Cost, Party

LEMMA NoBillFields ==
  /\ NoBill \in Bill /\ NoBill.customer = WalkIn /\ NoBill.net = 0 /\ NoBill.tax = 0
  /\ NoBill.paid = 0 /\ NoBill.channel = "retail" /\ NoBill.status = "none" /\ Cost(NoBill) = 0
<1>1. (CHOOSE b \in Branch : TRUE) \in Branch
  BY ReceivablesAssumption
<1> QED
  BY <1>1 DEF NoBill, Bill, Cost

\* The fields of a payment.
LEMMA PaymentFields ==
  ASSUME NEW p \in Payment
  PROVE  /\ p.customer \in Party /\ p.method \in Method /\ p.money \in Nat
         /\ p.to \in [BillId -> Nat] /\ p.looked \subseteq BillId
         /\ Given(p) \in Nat
         /\ AccountOf(p.method) \in {"CASH", "BANK", "UPI", "CARD"}
<1>1. p.to \in [BillId -> Nat]
  BY DEF Payment, Amounts
<1>2. IsFiniteSet(BillId) /\ \A b \in BillId : p.to[b] \in Nat
  BY <1>1, Finite
<1>3. SumFunctionOnSet(p.to, BillId) \in Nat
  BY ONLY <1>2, SumNat
<1> QED
  BY <1>1, <1>3 DEF Payment, Party, Given, AccountOf

\* The figures of invoices are numbers.
LEMMA BillSums ==
  ASSUME NEW bs \in Rows
  PROVE  /\ \A c : CostOf(bs, c) \in Nat /\ OwedBy(bs, c) \in Int
         /\ OwedAll(bs) \in Int /\ TaxAll(bs) \in Int
         /\ \A ch : SoldOver(bs, ch) \in Int
<1>1. \A b \in BillId : Cost(bs[b]) \in Nat /\ bs[b].paid \in Nat /\ bs[b].tax \in Nat
  BY BillFields DEF Rows
<1>2. IsFiniteSet(BillId)
  BY Finite
<1>3. ASSUME NEW c PROVE CostOf(bs, c) \in Nat /\ OwedBy(bs, c) \in Int
  <2> DEFINE f == [b \in BillId |-> IF bs[b].customer = c THEN Cost(bs[b]) ELSE 0]
             g == [b \in BillId |-> IF bs[b].customer = c THEN Cost(bs[b]) - bs[b].paid ELSE 0]
  <2>1. \A b \in BillId : f[b] \in Nat
    BY <1>1
  <2>2. \A b \in BillId : g[b] \in Int
    BY <1>1
  <2> HIDE DEF f, g
  <2>3. SumFunctionOnSet(f, BillId) \in Nat
    BY ONLY <1>2, <2>1, SumNat
  <2>4. SumFunctionOnSet(g, BillId) \in Int
    BY ONLY <1>2, <2>2, SumInt
  <2> QED
    BY <2>3, <2>4 DEF CostOf, OwedBy, f, g
<1>4. OwedAll(bs) \in Int
  <2> DEFINE f == [b \in BillId |-> Cost(bs[b]) - bs[b].paid]
  <2>1. \A b \in BillId : f[b] \in Int
    BY <1>1
  <2> HIDE DEF f
  <2>2. SumFunctionOnSet(f, BillId) \in Int
    BY ONLY <1>2, <2>1, SumInt
  <2> QED
    BY <2>2 DEF OwedAll, f
<1>5. TaxAll(bs) \in Int
  <2> DEFINE f == [b \in BillId |-> bs[b].tax]
  <2>1. \A b \in BillId : f[b] \in Int
    BY <1>1
  <2> HIDE DEF f
  <2>2. SumFunctionOnSet(f, BillId) \in Int
    BY ONLY <1>2, <2>1, SumInt
  <2> QED
    BY <2>2 DEF TaxAll, f
<1>6. ASSUME NEW ch PROVE SoldOver(bs, ch) \in Int
  <2> DEFINE f == [b \in BillId |-> IF bs[b].channel = ch THEN Cost(bs[b]) ELSE 0]
  <2>1. \A b \in BillId : f[b] \in Int
    BY <1>1
  <2> HIDE DEF f
  <2>2. SumFunctionOnSet(f, BillId) \in Int
    BY ONLY <1>2, <2>1, SumInt
  <2> QED
    BY <2>2 DEF SoldOver, f
<1> QED
  BY <1>3, <1>4, <1>5, <1>6

\* The invoice x takes the unused row k.
Entered(bs, k, x, nx) == bs[k] = NoBill /\ nx = [bs EXCEPT ![k] = x]

\* A new invoice adds its amounts, and nothing else.
LEMMA BillEntered ==
  ASSUME NEW bs \in Rows, NEW k \in BillId, NEW x \in Bill, NEW nx, Entered(bs, k, x, nx)
  PROVE  /\ nx \in Rows
         /\ \A c : CostOf(nx, c) = CostOf(bs, c) + (IF x.customer = c THEN Cost(x) ELSE 0)
         /\ \A c : OwedBy(nx, c) =
                     OwedBy(bs, c) + (IF x.customer = c THEN Cost(x) - x.paid ELSE 0)
         /\ OwedAll(nx) = OwedAll(bs) + (Cost(x) - x.paid)
         /\ TaxAll(nx) = TaxAll(bs) + x.tax
         /\ \A ch : SoldOver(nx, ch) =
                      SoldOver(bs, ch) + (IF x.channel = ch THEN Cost(x) ELSE 0)
<1>1. nx \in Rows /\ nx[k] = x /\ \A b \in BillId : b # k => nx[b] = bs[b]
  BY DEF Rows, Entered
<1>2. IsFiniteSet(BillId)
  BY Finite
<1>3. \A b \in BillId : /\ Cost(bs[b]) \in Nat /\ bs[b].paid \in Nat /\ bs[b].tax \in Nat
                        /\ Cost(nx[b]) \in Nat /\ nx[b].paid \in Nat /\ nx[b].tax \in Nat
  BY <1>1, BillFields DEF Rows
<1>4. bs[k].paid = 0 /\ Cost(bs[k]) = 0 /\ bs[k].tax = 0
  BY NoBillFields DEF Entered
<1>5. Cost(x) \in Nat /\ x.paid \in Nat /\ x.tax \in Nat
  BY BillFields
<1>6. ASSUME NEW c
      PROVE  CostOf(nx, c) = CostOf(bs, c) + (IF x.customer = c THEN Cost(x) ELSE 0)
  <2> DEFINE f == [b \in BillId |-> IF bs[b].customer = c THEN Cost(bs[b]) ELSE 0]
             g == [b \in BillId |-> IF nx[b].customer = c THEN Cost(nx[b]) ELSE 0]
  <2>1. /\ \A b \in BillId : f[b] \in Int
        /\ \A b \in BillId : b # k => g[b] = f[b]
    BY <1>1, <1>3
  <2>2. f[k] = 0 /\ g[k] = (IF x.customer = c THEN Cost(x) ELSE 0)
    BY <1>1, <1>4
  <2>3. k \in BillId /\ g[k] \in Int
    BY <1>1, <1>3
  <2> HIDE DEF f, g
  <2>4. SumFunctionOnSet(g, BillId) = SumFunctionOnSet(f, BillId) + (g[k] - f[k])
    BY ONLY <1>2, <2>1, <2>3, SumChange
  <2>5. CostOf(nx, c) = CostOf(bs, c) + (g[k] - f[k])
    BY <2>4 DEF CostOf, f, g
  <2> QED
    BY <2>2, <2>3, <2>5
<1>7. ASSUME NEW c
      PROVE  OwedBy(nx, c) = OwedBy(bs, c) + (IF x.customer = c THEN Cost(x) - x.paid ELSE 0)
  <2> DEFINE f == [b \in BillId |-> IF bs[b].customer = c THEN Cost(bs[b]) - bs[b].paid ELSE 0]
             g == [b \in BillId |-> IF nx[b].customer = c THEN Cost(nx[b]) - nx[b].paid ELSE 0]
  <2>1. /\ \A b \in BillId : f[b] \in Int
        /\ \A b \in BillId : b # k => g[b] = f[b]
    BY <1>1, <1>3
  <2>2. f[k] = 0 /\ g[k] = (IF x.customer = c THEN Cost(x) - x.paid ELSE 0)
    BY <1>1, <1>4
  <2>3. k \in BillId /\ g[k] \in Int
    BY <1>1, <1>3
  <2> HIDE DEF f, g
  <2>4. SumFunctionOnSet(g, BillId) = SumFunctionOnSet(f, BillId) + (g[k] - f[k])
    BY ONLY <1>2, <2>1, <2>3, SumChange
  <2>5. OwedBy(nx, c) = OwedBy(bs, c) + (g[k] - f[k])
    BY <2>4 DEF OwedBy, f, g
  <2> QED
    BY <2>2, <2>3, <2>5
<1>8. OwedAll(nx) = OwedAll(bs) + (Cost(x) - x.paid)
  <2> DEFINE f == [b \in BillId |-> Cost(bs[b]) - bs[b].paid]
             g == [b \in BillId |-> Cost(nx[b]) - nx[b].paid]
  <2>1. /\ \A b \in BillId : f[b] \in Int
        /\ \A b \in BillId : b # k => g[b] = f[b]
    BY <1>1, <1>3
  <2>2. f[k] = 0 /\ g[k] = Cost(x) - x.paid
    BY <1>1, <1>4
  <2>3. k \in BillId /\ g[k] \in Int
    BY <1>1, <1>3
  <2> HIDE DEF f, g
  <2>4. SumFunctionOnSet(g, BillId) = SumFunctionOnSet(f, BillId) + (g[k] - f[k])
    BY ONLY <1>2, <2>1, <2>3, SumChange
  <2>5. OwedAll(nx) = OwedAll(bs) + (g[k] - f[k])
    BY <2>4 DEF OwedAll, f, g
  <2> QED
    BY <2>2, <2>3, <2>5
<1>9. TaxAll(nx) = TaxAll(bs) + x.tax
  <2> DEFINE f == [b \in BillId |-> bs[b].tax]
             g == [b \in BillId |-> nx[b].tax]
  <2>1. /\ \A b \in BillId : f[b] \in Int
        /\ \A b \in BillId : b # k => g[b] = f[b]
    BY <1>1, <1>3
  <2>2. f[k] = 0 /\ g[k] = x.tax
    BY <1>1, <1>4
  <2>3. k \in BillId /\ g[k] \in Int
    BY <1>1, <1>3
  <2> HIDE DEF f, g
  <2>4. SumFunctionOnSet(g, BillId) = SumFunctionOnSet(f, BillId) + (g[k] - f[k])
    BY ONLY <1>2, <2>1, <2>3, SumChange
  <2>5. TaxAll(nx) = TaxAll(bs) + (g[k] - f[k])
    BY <2>4 DEF TaxAll, f, g
  <2> QED
    BY <2>2, <2>3, <2>5
<1>10. ASSUME NEW ch
       PROVE  SoldOver(nx, ch) = SoldOver(bs, ch) + (IF x.channel = ch THEN Cost(x) ELSE 0)
  <2> DEFINE f == [b \in BillId |-> IF bs[b].channel = ch THEN Cost(bs[b]) ELSE 0]
             g == [b \in BillId |-> IF nx[b].channel = ch THEN Cost(nx[b]) ELSE 0]
  <2>1. /\ \A b \in BillId : f[b] \in Int
        /\ \A b \in BillId : b # k => g[b] = f[b]
    BY <1>1, <1>3
  <2>2. f[k] = 0 /\ g[k] = (IF x.channel = ch THEN Cost(x) ELSE 0)
    BY <1>1, <1>4
  <2>3. k \in BillId /\ g[k] \in Int
    BY <1>1, <1>3
  <2> HIDE DEF f, g
  <2>4. SumFunctionOnSet(g, BillId) = SumFunctionOnSet(f, BillId) + (g[k] - f[k])
    BY ONLY <1>2, <2>1, <2>3, SumChange
  <2>5. SoldOver(nx, ch) = SoldOver(bs, ch) + (g[k] - f[k])
    BY <2>4 DEF SoldOver, f, g
  <2> QED
    BY <2>2, <2>3, <2>5
<1> QED
  BY <1>1, <1>6, <1>7, <1>8, <1>9, <1>10

-----------------------------------------------------------------------------
\* What a collection allocates is no longer owed, by its customer only.
LEMMA CreditedFields ==
  ASSUME NEW x \in Bill, NEW m \in Nat
  PROVE  LET y == Credited(x, m) IN
         /\ y \in Bill
         /\ y.customer = x.customer /\ y.branch = x.branch /\ y.net = x.net /\ y.tax = x.tax
         /\ y.channel = x.channel /\ Cost(y) = Cost(x) /\ y.paid = x.paid + m
         /\ m = 0 => y = x
         /\ m # 0 => y.status = (IF x.paid + m >= Cost(x) THEN "paid" ELSE "partial")
<1>1. x.paid \in Nat /\ x.paid + m \in Nat
  BY BillFields
<1>2. CASE m = 0
  BY <1>1, <1>2 DEF Credited
<1>3. CASE m # 0
  <2> DEFINE s == IF x.paid + m >= Cost(x) THEN "paid" ELSE "partial"
  <2>1. Credited(x, m) = [x EXCEPT !.paid = x.paid + m, !.status = s]
    BY <1>3 DEF Credited
  <2>2. s \in {"none", "credit", "partial", "paid"}
    OBVIOUS
  <2> HIDE DEF s
  <2> QED
    BY <1>1, <1>3, <2>1, <2>2 DEF Bill, Cost, s
<1> QED
  BY <1>2, <1>3

LEMMA BillsCredited ==
  ASSUME NEW bs \in Rows, NEW take \in Amounts, NEW k, NEW nx,
         nx = [b \in BillId |-> Credited(bs[b], take[b])],
         \A b \in BillId : take[b] # 0 => bs[b].customer = k
  PROVE  LET all == SumFunctionOnSet(take, BillId) IN
         /\ nx \in Rows /\ all \in Nat
         /\ \A c : CostOf(nx, c) = CostOf(bs, c)
         /\ \A c : OwedBy(nx, c) = OwedBy(bs, c) - (IF c = k THEN all ELSE 0)
         /\ OwedAll(nx) = OwedAll(bs) - all
         /\ TaxAll(nx) = TaxAll(bs)
         /\ \A ch : SoldOver(nx, ch) = SoldOver(bs, ch)
<1> DEFINE all == SumFunctionOnSet(take, BillId)
<1>1. IsFiniteSet(BillId)
  BY Finite
<1>2. \A b \in BillId : take[b] \in Nat /\ bs[b] \in Bill /\ nx[b] = Credited(bs[b], take[b])
  BY DEF Amounts, Rows
<1>3. \A b \in BillId : /\ nx[b].customer = bs[b].customer /\ nx[b].tax = bs[b].tax
                        /\ nx[b].channel = bs[b].channel /\ Cost(nx[b]) = Cost(bs[b])
                        /\ nx[b].paid = bs[b].paid + take[b] /\ nx[b] \in Bill
  BY <1>2, CreditedFields
<1>4. nx \in Rows
  BY <1>3 DEF Rows
<1>5. \A b \in BillId : Cost(bs[b]) \in Nat /\ bs[b].paid \in Nat /\ bs[b].tax \in Nat
  BY <1>2, BillFields
<1>6. all \in Nat
  BY ONLY <1>1, <1>2, SumNat
<1>7. \A c : CostOf(nx, c) = CostOf(bs, c)
  <2> SUFFICES ASSUME NEW c PROVE CostOf(nx, c) = CostOf(bs, c)
    OBVIOUS
  <2>1. [b \in BillId |-> IF nx[b].customer = c THEN Cost(nx[b]) ELSE 0]
          = [b \in BillId |-> IF bs[b].customer = c THEN Cost(bs[b]) ELSE 0]
    BY <1>3
  <2> QED
    BY <2>1 DEF CostOf
<1>8. TaxAll(nx) = TaxAll(bs)
  <2>1. [b \in BillId |-> nx[b].tax] = [b \in BillId |-> bs[b].tax]
    BY <1>3
  <2> QED
    BY <2>1 DEF TaxAll
<1>9. \A ch : SoldOver(nx, ch) = SoldOver(bs, ch)
  <2> SUFFICES ASSUME NEW ch PROVE SoldOver(nx, ch) = SoldOver(bs, ch)
    OBVIOUS
  <2>1. [b \in BillId |-> IF nx[b].channel = ch THEN Cost(nx[b]) ELSE 0]
          = [b \in BillId |-> IF bs[b].channel = ch THEN Cost(bs[b]) ELSE 0]
    BY <1>3
  <2> QED
    BY <2>1 DEF SoldOver
<1>10. OwedAll(nx) = OwedAll(bs) - all
  <2> DEFINE f == [b \in BillId |-> Cost(nx[b]) - nx[b].paid]
             h == [b \in BillId |-> Cost(bs[b]) - bs[b].paid]
  <2>1. \A b \in BillId : f[b] \in Int /\ take[b] \in Int /\ h[b] = f[b] + take[b]
    BY <1>2, <1>3, <1>5
  <2> HIDE DEF f, h
  <2>2. SumFunctionOnSet(h, BillId) = SumFunctionOnSet(f, BillId) + SumFunctionOnSet(take, BillId)
    BY ONLY <1>1, <2>1, SumAdd
  <2>3. SumFunctionOnSet(f, BillId) \in Int
    BY ONLY <1>1, <2>1, SumInt
  <2>4. OwedAll(bs) = OwedAll(nx) + all /\ OwedAll(nx) \in Int
    BY <2>2, <2>3 DEF OwedAll, f, h
  <2> HIDE DEF all
  <2> QED
    BY <1>6, <2>4
<1>11. ASSUME NEW c
       PROVE  OwedBy(nx, c) = OwedBy(bs, c) - (IF c = k THEN all ELSE 0)
  <2>1. CASE c # k
    <3>1. \A b \in BillId : bs[b].customer = c => take[b] = 0
      BY <2>1
    <3>2. [b \in BillId |-> IF nx[b].customer = c THEN Cost(nx[b]) - nx[b].paid ELSE 0]
            = [b \in BillId |-> IF bs[b].customer = c THEN Cost(bs[b]) - bs[b].paid ELSE 0]
      BY <3>1, <1>3, <1>5
    <3>3. OwedBy(nx, c) = OwedBy(bs, c) /\ OwedBy(bs, c) \in Int
      BY <3>2, BillSums DEF OwedBy
    <3> QED
      BY <3>3, <2>1
  <2>2. CASE c = k
    <3> DEFINE f == [b \in BillId |-> IF nx[b].customer = c THEN Cost(nx[b]) - nx[b].paid ELSE 0]
               h == [b \in BillId |-> IF bs[b].customer = c THEN Cost(bs[b]) - bs[b].paid ELSE 0]
    <3>1. \A b \in BillId : f[b] \in Int /\ take[b] \in Int /\ h[b] = f[b] + take[b]
      <4> SUFFICES ASSUME NEW b \in BillId
                   PROVE  f[b] \in Int /\ take[b] \in Int /\ h[b] = f[b] + take[b]
        OBVIOUS
      <4>1. CASE bs[b].customer = c
        BY <4>1, <1>2, <1>3, <1>5
      <4>2. CASE bs[b].customer # c
        BY <4>2, <2>2, <1>2, <1>3
      <4> QED
        BY <4>1, <4>2
    <3> HIDE DEF f, h
    <3>2. SumFunctionOnSet(h, BillId) = SumFunctionOnSet(f, BillId) + SumFunctionOnSet(take, BillId)
      BY ONLY <1>1, <3>1, SumAdd
    <3>3. SumFunctionOnSet(f, BillId) \in Int
      BY ONLY <1>1, <3>1, SumInt
    <3>4. OwedBy(bs, c) = OwedBy(nx, c) + all /\ OwedBy(nx, c) \in Int
      BY <3>2, <3>3 DEF OwedBy, f, h
    <3> HIDE DEF all
    <3> QED
      BY <1>6, <3>4, <2>2
  <2> QED
    BY <2>1, <2>2
<1> QED
  BY <1>4, <1>6, <1>7, <1>8, <1>9, <1>10, <1>11

-----------------------------------------------------------------------------
\* The figures of payments are numbers.
LEMMA PaySums ==
  ASSUME NEW ps \in PayRows
  PROVE  /\ IsFiniteSet(DOMAIN ps) /\ DOMAIN ps = 1..Len(ps) /\ Len(ps) \in Nat
         /\ \A i \in DOMAIN ps : ps[i] \in Payment
         /\ \A c : PaidBy(ps, c) \in Nat /\ AheadOf(ps, c) \in Int
         /\ \A a : PaidInto(ps, a) \in Int
         /\ PaidAll(ps) \in Int
         /\ \A b \in BillId : PaidOn(ps, b) \in Nat
<1>1. DOMAIN ps = 1..Len(ps) /\ Len(ps) \in Nat /\ \A i \in DOMAIN ps : ps[i] \in Payment
  BY DEF PayRows
<1>2. IsFiniteSet(DOMAIN ps)
  BY <1>1, FS_Interval, 1 \in Int, Len(ps) \in Int
<1>3. \A i \in DOMAIN ps : /\ ps[i].money \in Nat /\ Given(ps[i]) \in Nat
                           /\ ps[i].to \in [BillId -> Nat]
  BY <1>1, PaymentFields
<1> DEFINE S == DOMAIN ps
<1>4. ASSUME NEW c PROVE PaidBy(ps, c) \in Nat /\ AheadOf(ps, c) \in Int
  <2> DEFINE f == [i \in S |-> IF ps[i].customer = c THEN ps[i].money ELSE 0]
             g == [i \in S |-> IF ps[i].customer = c THEN ps[i].money - Given(ps[i]) ELSE 0]
  <2>1. \A i \in S : f[i] \in Nat
    BY <1>3
  <2>2. \A i \in S : g[i] \in Int
    BY <1>3
  <2>3. IsFiniteSet(S)
    BY <1>2
  <2> HIDE DEF f, g, S
  <2>4. SumFunctionOnSet(f, S) \in Nat
    BY ONLY <2>3, <2>1, SumNat
  <2>5. SumFunctionOnSet(g, S) \in Int
    BY ONLY <2>3, <2>2, SumInt
  <2> QED
    BY <2>4, <2>5 DEF PaidBy, AheadOf, f, g, S
<1>5. ASSUME NEW a PROVE PaidInto(ps, a) \in Int
  <2> DEFINE f == [i \in S |-> IF AccountOf(ps[i].method) = a THEN ps[i].money ELSE 0]
  <2>1. IsFiniteSet(S) /\ \A i \in S : f[i] \in Int
    BY <1>2, <1>3
  <2> HIDE DEF f, S
  <2>2. SumFunctionOnSet(f, S) \in Int
    BY ONLY <2>1, SumInt
  <2> QED
    BY <2>2 DEF PaidInto, f, S
<1>6. PaidAll(ps) \in Int
  <2> DEFINE f == [i \in S |-> ps[i].money]
  <2>1. IsFiniteSet(S) /\ \A i \in S : f[i] \in Int
    BY <1>2, <1>3
  <2> HIDE DEF f, S
  <2>2. SumFunctionOnSet(f, S) \in Int
    BY ONLY <2>1, SumInt
  <2> QED
    BY <2>2 DEF PaidAll, f, S
<1>7. ASSUME NEW b \in BillId PROVE PaidOn(ps, b) \in Nat
  <2> DEFINE f == [i \in S |-> ps[i].to[b]]
  <2>1. IsFiniteSet(S) /\ \A i \in S : f[i] \in Nat
    BY <1>2, <1>3
  <2> HIDE DEF f, S
  <2>2. SumFunctionOnSet(f, S) \in Nat
    BY ONLY <2>1, SumNat
  <2> QED
    BY <2>2 DEF PaidOn, f, S
<1> QED
  BY <1>1, <1>2, <1>4, <1>5, <1>6, <1>7

\* A sum over one more row of a sequence.
LEMMA OneMore ==
  ASSUME NEW n \in Nat, NEW f, NEW g, \A i \in 1..n : f[i] \in Int /\ g[i] = f[i],
         NEW v \in Int, g[n + 1] = v
  PROVE  SumFunctionOnSet(g, 1..(n + 1)) = SumFunctionOnSet(f, 1..n) + v
<1>1. IsFiniteSet(1..n)
  BY FS_Interval, 1 \in Int, n \in Int
<1>2. 1..(n + 1) = (1..n) \cup {n + 1} /\ n + 1 \notin 1..n
  OBVIOUS
<1>3. g[n + 1] \in Int /\ \A i \in 1..n : g[i] \in Int
  OBVIOUS
<1>4. SumFunctionOnSet(g, (1..n) \cup {n + 1}) = SumFunctionOnSet(g, 1..n) + g[n + 1]
  <2> DEFINE S == 1..n
             z == n + 1
  <2>1. IsFiniteSet(S) /\ z \notin S /\ g[z] \in Int /\ \A i \in S : g[i] \in Int
    BY <1>1, <1>2, <1>3
  <2> HIDE DEF S, z
  <2>2. SumFunctionOnSet(g, S \cup {z}) = SumFunctionOnSet(g, S) + g[z]
    BY ONLY <2>1, SumPlus, Zenon
  <2> QED
    BY <2>2 DEF S, z
<1>5. \A i \in 1..n : f[i] \in Int /\ f[i] = g[i]
  OBVIOUS
<1>6. SumFunctionOnSet(f, 1..n) = SumFunctionOnSet(g, 1..n)
  BY ONLY <1>1, <1>5, SumSame
<1> QED
  BY <1>2, <1>4, <1>6

\* A new payment adds what it says.
LEMMA PaymentAdded ==
  ASSUME NEW ps \in PayRows, NEW p \in Payment
  PROVE  LET nx == Append(ps, p) IN
         /\ nx \in PayRows /\ Len(nx) = Len(ps) + 1 /\ DOMAIN nx = DOMAIN ps \cup {Len(ps) + 1}
         /\ nx[Len(ps) + 1] = p /\ \A i \in DOMAIN ps : nx[i] = ps[i]
         /\ \A c : PaidBy(nx, c) = PaidBy(ps, c) + (IF p.customer = c THEN p.money ELSE 0)
         /\ \A c : AheadOf(nx, c) =
                     AheadOf(ps, c) + (IF p.customer = c THEN p.money - Given(p) ELSE 0)
         /\ \A a : PaidInto(nx, a) =
                     PaidInto(ps, a) + (IF AccountOf(p.method) = a THEN p.money ELSE 0)
         /\ PaidAll(nx) = PaidAll(ps) + p.money
         /\ \A b \in BillId : PaidOn(nx, b) = PaidOn(ps, b) + p.to[b]
<1> DEFINE nx == Append(ps, p)
           n == Len(ps)
<1>1. /\ nx \in PayRows /\ Len(nx) = n + 1 /\ DOMAIN nx = 1..(n + 1) /\ n \in Nat
      /\ nx[n + 1] = p /\ \A i \in 1..n : nx[i] = ps[i]
      /\ DOMAIN ps = 1..n
  BY DEF PayRows
<1> HIDE DEF nx, n
<1>2. \A i \in 1..n : /\ ps[i].money \in Nat /\ Given(ps[i]) \in Nat
                      /\ ps[i].to \in [BillId -> Nat]
  BY <1>1, PaySums, PaymentFields
<1>3. p.money \in Nat /\ Given(p) \in Nat /\ p.to \in [BillId -> Nat]
  BY PaymentFields
<1>4. ASSUME NEW c
      PROVE  PaidBy(nx, c) = PaidBy(ps, c) + (IF p.customer = c THEN p.money ELSE 0)
  <2> DEFINE f == [i \in 1..n |-> IF ps[i].customer = c THEN ps[i].money ELSE 0]
             g == [i \in 1..(n + 1) |-> IF nx[i].customer = c THEN nx[i].money ELSE 0]
             v == IF p.customer = c THEN p.money ELSE 0
  <2>1. /\ \A i \in 1..n : f[i] \in Int /\ g[i] = f[i]
        /\ g[n + 1] = v /\ v \in Int
    BY <1>1, <1>2, <1>3
  <2>2. n \in Nat
    BY <1>1
  <2> HIDE DEF f, g, v
  <2>3. SumFunctionOnSet(g, 1..(n + 1)) = SumFunctionOnSet(f, 1..n) + v
    BY ONLY <2>1, <2>2, OneMore
  <2> QED
    BY <2>3, <1>1 DEF PaidBy, f, g, v
<1>5. ASSUME NEW c
      PROVE  AheadOf(nx, c) = AheadOf(ps, c) + (IF p.customer = c THEN p.money - Given(p) ELSE 0)
  <2> DEFINE f == [i \in 1..n |-> IF ps[i].customer = c THEN ps[i].money - Given(ps[i]) ELSE 0]
             g == [i \in 1..(n + 1) |-> IF nx[i].customer = c THEN nx[i].money - Given(nx[i])
                                                              ELSE 0]
             v == IF p.customer = c THEN p.money - Given(p) ELSE 0
  <2>1. /\ \A i \in 1..n : f[i] \in Int /\ g[i] = f[i]
        /\ g[n + 1] = v /\ v \in Int
    BY <1>1, <1>2, <1>3
  <2>2. n \in Nat
    BY <1>1
  <2> HIDE DEF f, g, v
  <2>3. SumFunctionOnSet(g, 1..(n + 1)) = SumFunctionOnSet(f, 1..n) + v
    BY ONLY <2>1, <2>2, OneMore
  <2> QED
    BY <2>3, <1>1 DEF AheadOf, f, g, v
<1>6. ASSUME NEW a
      PROVE  PaidInto(nx, a) = PaidInto(ps, a) + (IF AccountOf(p.method) = a THEN p.money ELSE 0)
  <2> DEFINE f == [i \in 1..n |-> IF AccountOf(ps[i].method) = a THEN ps[i].money ELSE 0]
             g == [i \in 1..(n + 1) |-> IF AccountOf(nx[i].method) = a THEN nx[i].money ELSE 0]
             v == IF AccountOf(p.method) = a THEN p.money ELSE 0
  <2>1. /\ \A i \in 1..n : f[i] \in Int /\ g[i] = f[i]
        /\ g[n + 1] = v /\ v \in Int
    BY <1>1, <1>2, <1>3
  <2>2. n \in Nat
    BY <1>1
  <2> HIDE DEF f, g, v
  <2>3. SumFunctionOnSet(g, 1..(n + 1)) = SumFunctionOnSet(f, 1..n) + v
    BY ONLY <2>1, <2>2, OneMore
  <2> QED
    BY <2>3, <1>1 DEF PaidInto, f, g, v
<1>7. PaidAll(nx) = PaidAll(ps) + p.money
  <2> DEFINE f == [i \in 1..n |-> ps[i].money]
             g == [i \in 1..(n + 1) |-> nx[i].money]
             v == p.money
  <2>1. /\ \A i \in 1..n : f[i] \in Int /\ g[i] = f[i]
        /\ g[n + 1] = v /\ v \in Int
    BY <1>1, <1>2, <1>3
  <2>2. n \in Nat
    BY <1>1
  <2> HIDE DEF f, g, v
  <2>3. SumFunctionOnSet(g, 1..(n + 1)) = SumFunctionOnSet(f, 1..n) + v
    BY ONLY <2>1, <2>2, OneMore
  <2> QED
    BY <2>3, <1>1 DEF PaidAll, f, g, v
<1>8. ASSUME NEW b \in BillId
      PROVE  PaidOn(nx, b) = PaidOn(ps, b) + p.to[b]
  <2> DEFINE f == [i \in 1..n |-> ps[i].to[b]]
             g == [i \in 1..(n + 1) |-> nx[i].to[b]]
             v == p.to[b]
  <2>1. /\ \A i \in 1..n : f[i] \in Int /\ g[i] = f[i]
        /\ g[n + 1] = v /\ v \in Int
    BY <1>1, <1>2, <1>3
  <2>2. n \in Nat
    BY <1>1
  <2> HIDE DEF f, g, v
  <2>3. SumFunctionOnSet(g, 1..(n + 1)) = SumFunctionOnSet(f, 1..n) + v
    BY ONLY <2>1, <2>2, OneMore
  <2> QED
    BY <2>3, <1>1 DEF PaidOn, f, g, v
<1>9. DOMAIN nx = DOMAIN ps \cup {n + 1}
  BY <1>1
<1> QED
  BY <1>1, <1>4, <1>5, <1>6, <1>7, <1>8, <1>9 DEF nx, n

-----------------------------------------------------------------------------
Tender == {"CASH", "BANK", "UPI", "CARD"}

\* What an entry posts for a document of net and tax with money tendered in m.
Tells(e, net, tax, money, m) ==
  /\ e \in Entry
  /\ SumFunctionOnSet(e, Account) = 0
  /\ \A a \in Tender : e[a] = IF AccountOf(m) = a THEN money ELSE 0
  /\ e["AR"] = net + tax - money
  /\ e["SALES"] = 0 - net
  /\ e["GST_OUTPUT"] = 0 - tax

LEMMA AccountFacts ==
  /\ IsFiniteSet(Account) /\ Tender \subseteq Account
  /\ \A m : AccountOf(m) \in Tender
<1>1. IsFiniteSet({"CASH"} \cup {"BANK"})
  BY FS_Singleton, FS_AddElement
<1>2. IsFiniteSet(({"CASH"} \cup {"BANK"}) \cup ({"UPI"} \cup {"CARD"}))
  BY <1>1, FS_Singleton, FS_AddElement, FS_Union
<1>3. IsFiniteSet(({"AR"} \cup {"AP"}) \cup ({"SALES"} \cup {"GST_OUTPUT"}))
  BY FS_Singleton, FS_AddElement, FS_Union
<1>4. IsFiniteSet({"GST_INPUT"} \cup {"PURCHASES"})
  BY FS_Singleton, FS_AddElement
<1>5. Account = ((({"CASH"} \cup {"BANK"}) \cup ({"UPI"} \cup {"CARD"}))
                  \cup (({"AR"} \cup {"AP"}) \cup ({"SALES"} \cup {"GST_OUTPUT"})))
                  \cup ({"GST_INPUT"} \cup {"PURCHASES"})
  BY DEF Account
<1>6. IsFiniteSet(Account)
  BY <1>2, <1>3, <1>4, <1>5, FS_Union
<1> QED
  BY <1>6 DEF Account, Tender, AccountOf

\* The lines of an entry with one tender account add up like this.
LEMMA EntrySum ==
  ASSUME NEW e \in Entry, NEW t \in Tender,
         \A a \in Account : a \notin {t, "AR", "SALES", "GST_OUTPUT"} => e[a] = 0
  PROVE  SumFunctionOnSet(e, Account) = e[t] + e["AR"] + e["SALES"] + e["GST_OUTPUT"]
<1> DEFINE S0 == {}
           S1 == {t}
           S2 == {t} \cup {"AR"}
           S3 == ({t} \cup {"AR"}) \cup {"SALES"}
           S4 == (({t} \cup {"AR"}) \cup {"SALES"}) \cup {"GST_OUTPUT"}
<1>1. \A a \in Account : e[a] \in Int
  BY DEF Entry
<1>2. t \in Account /\ "AR" \in Account /\ "SALES" \in Account /\ "GST_OUTPUT" \in Account
  BY DEF Tender, Account
<1>3. IsFiniteSet(S1) /\ IsFiniteSet(S2) /\ IsFiniteSet(S3)
  BY FS_Singleton, FS_AddElement
<1>4. SumFunctionOnSet(e, {t}) = e[t]
  <2>1. IsFiniteSet({}) /\ t \notin {} /\ e[t] \in Int /\ (\A x \in {} : e[x] \in Int)
    BY <1>1, <1>2, FS_EmptySet
  <2>2. SumFunctionOnSet(e, {} \cup {t}) = SumFunctionOnSet(e, {}) + e[t]
    BY ONLY <2>1, SumPlus
  <2> QED
    BY <2>1, <2>2, SumOfNone, {} \cup {t} = {t}
<1>5. SumFunctionOnSet(e, S2) = SumFunctionOnSet(e, S1) + e["AR"]
  <2>1. "AR" \notin S1 /\ e["AR"] \in Int /\ \A x \in S1 : e[x] \in Int
    BY <1>1, <1>2 DEF Tender
  <2> QED
    BY ONLY <1>3, <2>1, SumPlus
<1>6. SumFunctionOnSet(e, S3) = SumFunctionOnSet(e, S2) + e["SALES"]
  <2>1. "SALES" \notin S2 /\ e["SALES"] \in Int /\ \A x \in S2 : e[x] \in Int
    BY <1>1, <1>2 DEF Tender
  <2> QED
    BY ONLY <1>3, <2>1, SumPlus
<1>7. SumFunctionOnSet(e, S4) = SumFunctionOnSet(e, S3) + e["GST_OUTPUT"]
  <2>1. "GST_OUTPUT" \notin S3 /\ e["GST_OUTPUT"] \in Int /\ \A x \in S3 : e[x] \in Int
    BY <1>1, <1>2 DEF Tender
  <2> QED
    BY ONLY <1>3, <2>1, SumPlus
<1>8. SumFunctionOnSet(e, Account) = SumFunctionOnSet(e, S4)
  <2>1. /\ IsFiniteSet(Account) /\ S4 \in SUBSET Account
        /\ \A x \in S4 : e[x] \in Int
        /\ \A x \in Account \ S4 : e[x] = 0
    BY <1>1, <1>2, AccountFacts
  <2> QED
    BY ONLY <2>1, SumPart
<1> QED
  BY <1>1, <1>2, <1>4, <1>5, <1>6, <1>7, <1>8

\* A counter sale posts its tender and what is left, income and tax.
LEMMA SaleTells ==
  ASSUME NEW net \in Nat, NEW tax \in Nat, NEW money \in Nat, NEW m
  PROVE  Tells(SaleEntry(net, tax, money, m), net, tax, money, m)
<1> DEFINE t == AccountOf(m)
           e == SaleEntry(net, tax, money, m)
<1>1. t \in Tender
  BY AccountFacts
<1> HIDE DEF t
<1>2. \A a \in Account :
        e[a] = IF a = "AR" THEN net + tax - money
               ELSE IF a = t THEN money
               ELSE IF a = "SALES" THEN -net
               ELSE IF a = "GST_OUTPUT" THEN -tax
               ELSE 0
  BY <1>1 DEF SaleEntry, Lines, Income, t, Tender
<1>3. e \in [Account -> Int]
  <2>1. e = [a \in Account |-> e[a]]
    BY DEF SaleEntry, Lines
  <2>2. \A a \in Account : e[a] \in Int
    BY <1>2
  <2> HIDE DEF e
  <2> QED
    BY <2>1, <2>2
<1> HIDE DEF e
<1>4. \A a \in Account : a \notin {t, "AR", "SALES", "GST_OUTPUT"} => e[a] = 0
  BY <1>2
<1>5. /\ e[t] = money /\ e["AR"] = net + tax - money /\ e["SALES"] = 0 - net
      /\ e["GST_OUTPUT"] = 0 - tax
  BY <1>1, <1>2 DEF Tender, Account
<1>6. SumFunctionOnSet(e, Account) = 0
  <2>1. SumFunctionOnSet(e, Account) = e[t] + e["AR"] + e["SALES"] + e["GST_OUTPUT"]
    BY <1>1, <1>3, <1>4, EntrySum DEF Entry
  <2> QED
    BY <1>5, <2>1
<1>7. \A a \in Tender : e[a] = IF t = a THEN money ELSE 0
  BY <1>2 DEF Tender, Account
<1> QED
  BY <1>3, <1>5, <1>6, <1>7 DEF Tells, Entry, t, e

\* A dispatch posts like a sale in which nothing is paid, whatever m is.
LEMMA DispatchTells ==
  ASSUME NEW net \in Nat, NEW tax \in Nat, NEW m
  PROVE  Tells(DispatchEntry(net, tax), net, tax, 0, m)
<1> DEFINE t == "CASH"
           e == DispatchEntry(net, tax)
<1>1. t \in Tender
  BY DEF Tender
<1>2. \A a \in Account :
        e[a] = IF a = "AR" THEN net + tax
               ELSE IF a = "SALES" THEN -net
               ELSE IF a = "GST_OUTPUT" THEN -tax
               ELSE 0
  BY DEF DispatchEntry, Lines, Income
<1>3. e \in [Account -> Int]
  <2>1. e = [a \in Account |-> e[a]]
    BY DEF DispatchEntry, Lines
  <2>2. \A a \in Account : e[a] \in Int
    BY <1>2
  <2> HIDE DEF e
  <2> QED
    BY <2>1, <2>2
<1> HIDE DEF e, t
<1>4. \A a \in Account : a \notin {t, "AR", "SALES", "GST_OUTPUT"} => e[a] = 0
  BY <1>2
<1>5. /\ e[t] = 0 /\ e["AR"] = net + tax /\ e["SALES"] = 0 - net
      /\ e["GST_OUTPUT"] = 0 - tax
  BY <1>1, <1>2 DEF Tender, Account
<1>6. SumFunctionOnSet(e, Account) = 0
  <2>1. SumFunctionOnSet(e, Account) = e[t] + e["AR"] + e["SALES"] + e["GST_OUTPUT"]
    BY <1>1, <1>3, <1>4, EntrySum DEF Entry
  <2> QED
    BY <1>5, <2>1
<1>7. \A a \in Tender : e[a] = 0
  BY <1>2 DEF Tender, Account
<1> QED
  BY <1>3, <1>5, <1>6, <1>7 DEF Tells, Entry, e

\* A collection posts like a sale of nothing.
LEMMA CollectionTells ==
  ASSUME NEW money \in Nat, NEW m
  PROVE  Tells(CollectionEntry(money, m), 0, 0, money, m)
<1> DEFINE t == AccountOf(m)
           e == CollectionEntry(money, m)
<1>1. t \in Tender
  BY AccountFacts
<1> HIDE DEF t
<1>2. \A a \in Account :
        e[a] = IF a = "AR" THEN -money ELSE IF a = t THEN money ELSE 0
  BY <1>1 DEF CollectionEntry, Lines, t, Tender
<1>3. e \in [Account -> Int]
  <2>1. e = [a \in Account |-> e[a]]
    BY DEF CollectionEntry, Lines
  <2>2. \A a \in Account : e[a] \in Int
    BY <1>2
  <2> HIDE DEF e
  <2> QED
    BY <2>1, <2>2
<1> HIDE DEF e
<1>4. \A a \in Account : a \notin {t, "AR", "SALES", "GST_OUTPUT"} => e[a] = 0
  BY <1>2
<1>5. /\ e[t] = money /\ e["AR"] = -money /\ e["SALES"] = 0 /\ e["GST_OUTPUT"] = 0
  BY <1>1, <1>2 DEF Tender, Account
<1>6. SumFunctionOnSet(e, Account) = 0
  <2>1. SumFunctionOnSet(e, Account) = e[t] + e["AR"] + e["SALES"] + e["GST_OUTPUT"]
    BY <1>1, <1>3, <1>4, EntrySum DEF Entry
  <2> QED
    BY <1>5, <2>1
<1>7. \A a \in Tender : e[a] = IF t = a THEN money ELSE 0
  BY <1>2 DEF Tender, Account
<1>8. e["AR"] = 0 + 0 - money /\ e["SALES"] = 0 - 0 /\ e["GST_OUTPUT"] = 0 - 0
  BY <1>5
<1> QED
  BY <1>3, <1>6, <1>7, <1>8 DEF Tells, Entry, t, e

\* A new entry adds its lines.
LEMMA EntryAdded ==
  ASSUME NEW jr, IsFiniteSet(jr), \A e \in jr : e.lines \in Entry,
         NEW x, x \notin jr, x.lines \in Entry
  PROVE  /\ IsFiniteSet(jr \cup {x})
         /\ \A a \in Account : /\ Posted(jr, a) \in Int
                               /\ Posted(jr \cup {x}, a) = Posted(jr, a) + x.lines[a]
<1>1. IsFiniteSet(jr \cup {x})
  BY FS_AddElement
<1>2. ASSUME NEW a \in Account
      PROVE  /\ Posted(jr, a) \in Int
             /\ Posted(jr \cup {x}, a) = Posted(jr, a) + x.lines[a]
  <2> DEFINE f == [e \in jr |-> e.lines[a]]
             g == [e \in jr \cup {x} |-> e.lines[a]]
  <2>1. \A e \in jr : f[e] \in Int /\ f[e] = g[e]
    BY DEF Entry
  <2>2. g[x] \in Int /\ g[x] = x.lines[a]
    BY DEF Entry
  <2>3. \A e \in jr : g[e] \in Int
    BY DEF Entry
  <2> HIDE DEF f, g
  <2>4. SumFunctionOnSet(g, jr \cup {x}) = SumFunctionOnSet(g, jr) + g[x]
    <3>1. g[x] \in Int
      BY <2>2
    <3> QED
      BY ONLY IsFiniteSet(jr), x \notin jr, <3>1, <2>3, SumPlus
  <2>5. SumFunctionOnSet(f, jr) = SumFunctionOnSet(g, jr)
    BY ONLY IsFiniteSet(jr), <2>1, SumSame
  <2>6. \A e \in jr : f[e] \in Int
    BY <2>1
  <2>7. SumFunctionOnSet(f, jr) \in Int
    BY ONLY IsFiniteSet(jr), <2>6, SumInt
  <2>8. Posted(jr, a) \in Int /\ Posted(jr \cup {x}, a) = Posted(jr, a) + g[x]
    BY <2>4, <2>5, <2>7 DEF Posted, f, g
  <2> QED
    BY <2>2, <2>8
<1> QED
  BY <1>1, <1>2

\* A change of one customer's figure changes the sum over them by as much;
\* a walk-in is none of them.
LEMMA OneCustomer ==
  ASSUME NEW f, NEW g, NEW k, NEW d \in Int,
         \A c \in Customer : f[c] \in Int /\ g[c] = f[c] + (IF k = c THEN d ELSE 0)
  PROVE  SumFunctionOnSet(g, Customer)
           = SumFunctionOnSet(f, Customer) + (IF k \in Customer THEN d ELSE 0)
<1>1. IsFiniteSet(Customer)
  BY Finite
<1>2. SumFunctionOnSet(f, Customer) \in Int
  <2>1. \A c \in Customer : f[c] \in Int
    OBVIOUS
  <2> QED
    BY ONLY <1>1, <2>1, SumInt
<1>3. CASE k \in Customer
  <2>1. /\ \A c \in Customer : f[c] \in Int
        /\ \A c \in Customer : c # k => g[c] = f[c]
    OBVIOUS
  <2>2. f[k] \in Int /\ g[k] = f[k] + d
    BY <1>3
  <2>3. g[k] \in Int
    BY <2>2
  <2>4. SumFunctionOnSet(g, Customer) = SumFunctionOnSet(f, Customer) + (g[k] - f[k])
    BY ONLY <1>1, <1>3, <2>1, <2>3, SumChange
  <2> QED
    BY <1>2, <1>3, <2>2, <2>4
<1>4. CASE k \notin Customer
  <2>1. \A c \in Customer : f[c] \in Int /\ f[c] = g[c]
    BY <1>4
  <2>2. SumFunctionOnSet(f, Customer) = SumFunctionOnSet(g, Customer)
    BY ONLY <1>1, <2>1, SumSame
  <2> QED
    BY <1>2, <1>4, <2>2
<1> QED
  BY <1>3, <1>4

-----------------------------------------------------------------------------
(* What holds of the committed rows.                                       *)

\* An invoice is paid by its allocations and never beyond its total; a walk-in
\* owes nothing; an unused row says nothing.
BillsOk(bs, ps) ==
  \A b \in BillId :
    /\ bs[b].status = "none" => bs[b] = NoBill
    /\ bs[b].status # "none" => bs[b].status = StatusOf(bs[b].paid, Cost(bs[b]))
    /\ bs[b].paid = PaidOn(ps, b)
    /\ bs[b].paid <= Cost(bs[b])
    /\ bs[b].customer = WalkIn => bs[b].paid = Cost(bs[b])

\* Of the invoices it chose from, a payment leaves one owing only when it is used
\* up and has not reached a younger one.
PaysOk(bs, ps) ==
  \A i \in DOMAIN ps : \A a \in ps[i].looked :
    /\ bs[a].status # "none"
    /\ \/ bs[a].paid = Cost(bs[a])
       \/ /\ Given(ps[i]) = ps[i].money
          /\ \A b \in ps[i].looked : b > a => ps[i].to[b] = 0

\* The screens show the same.
ScreensOk(bs, ps) ==
  /\ \A c \in Customer : CostOf(bs, c) - PaidBy(ps, c) = OwedBy(bs, c) - AheadOf(ps, c)
  /\ OwedAll(bs) = OwedTotal(bs)
  /\ SoldOver(bs, "retail") + SoldOver(bs, "wholesale") - PaidAll(ps)
       = OwedAll(bs) - AheadTotal(ps)

\* The document of an entry.
Documented(doc, bs, ps) ==
  \/ \E b \in BillId : doc = <<"bill", b>> /\ bs[b].status # "none"
  \/ \E n \in DOMAIN ps : doc = <<"payment", n>>

\* Every entry balances and belongs to a document, and the accounts repeat the
\* documents.
JournalOk(bs, ps, jr) ==
  /\ IsFiniteSet(jr)
  /\ \A e \in jr : /\ e \in [doc : {"bill", "payment"} \X Nat, lines : Entry]
                   /\ SumFunctionOnSet(e.lines, Account) = 0
                   /\ Documented(e.doc, bs, ps)
  /\ \A a \in Tender : Posted(jr, a) = PaidInto(ps, a)
  /\ Posted(jr, "GST_OUTPUT") = 0 - TaxAll(bs)
  /\ Posted(jr, "SALES") = TaxAll(bs) - SoldOver(bs, "retail") - SoldOver(bs, "wholesale")
  /\ Posted(jr, "AR") = StatedTotal(bs, ps)

\* The wholesale invoices are those of the orders.
OrdersOk(bs, os) ==
  /\ {b \in BillId : bs[b].channel = "wholesale"} = {os[i].bill : i \in DOMAIN os} \ {0}
  /\ \A i \in DOMAIN os : os[i].status # "invoiced" => os[i].bill = 0

-----------------------------------------------------------------------------
\* An allocation to one invoice.
LEMMA OnlyOne ==
  ASSUME NEW k \in BillId, NEW m \in Nat
  PROVE  LET to == [Nothing EXCEPT ![k] = m] IN
         /\ to \in Amounts /\ SumFunctionOnSet(to, BillId) = m
         /\ \A b \in BillId : to[b] = IF b = k THEN m ELSE 0
<1> DEFINE to == [Nothing EXCEPT ![k] = m]
           z == Nothing
<1>1. IsFiniteSet(BillId)
  BY Finite
<1>2. to \in Amounts /\ \A b \in BillId : z[b] = 0 /\ to[b] = IF b = k THEN m ELSE 0
  BY DEF Nothing, Amounts
<1> HIDE DEF to, z
<1>3. /\ \A b \in BillId : z[b] = 0
      /\ \A b \in BillId : z[b] \in Int
      /\ \A b \in BillId : b # k => to[b] = z[b]
  BY <1>2
<1>4. to[k] = m /\ z[k] = 0
  BY <1>2
<1>5. to[k] \in Int
  BY <1>4
<1>6. SumFunctionOnSet(z, BillId) = 0
  BY ONLY <1>1, <1>3, SumZero
<1>7. SumFunctionOnSet(to, BillId) = SumFunctionOnSet(z, BillId) + (to[k] - z[k])
  BY ONLY <1>1, k \in BillId, <1>3, <1>5, SumChange
<1> QED
  BY <1>2, <1>4, <1>6, <1>7 DEF to

\* What a sale of x under k records as paid, if anything was.
SalePayment(x, k, m) ==
  [customer |-> x.customer, method |-> m, money |-> x.paid,
   to |-> [Nothing EXCEPT ![k] = x.paid], looked |-> {}]

PaidWith(ps, x, k, m) == IF x.paid > 0 THEN Append(ps, SalePayment(x, k, m)) ELSE ps

LEMMA SalePaid ==
  ASSUME NEW ps \in PayRows, NEW x \in Bill, NEW k \in BillId, NEW m \in Method,
         NEW nps, nps = PaidWith(ps, x, k, m)
  PROVE  /\ nps \in PayRows
         /\ DOMAIN ps \subseteq DOMAIN nps
         /\ \A i \in DOMAIN ps : nps[i] = ps[i]
         /\ \A i \in DOMAIN nps : i \in DOMAIN ps \/ nps[i].looked = {}
         /\ \A c : PaidBy(nps, c) = PaidBy(ps, c) + (IF x.customer = c THEN x.paid ELSE 0)
         /\ \A c : AheadOf(nps, c) = AheadOf(ps, c)
         /\ \A a : PaidInto(nps, a) = PaidInto(ps, a) + (IF AccountOf(m) = a THEN x.paid ELSE 0)
         /\ PaidAll(nps) = PaidAll(ps) + x.paid
         /\ \A b \in BillId : PaidOn(nps, b) = PaidOn(ps, b) + (IF b = k THEN x.paid ELSE 0)
<1>1. x.paid \in Nat /\ x.customer \in Party
  BY BillFields
<1>2. CASE x.paid > 0
  <2> DEFINE p == SalePayment(x, k, m)
  <2>1. /\ p.to \in Amounts /\ SumFunctionOnSet(p.to, BillId) = x.paid
        /\ \A b \in BillId : p.to[b] = IF b = k THEN x.paid ELSE 0
    BY <1>1, OnlyOne DEF SalePayment
  <2>2. p \in Payment /\ p.customer = x.customer /\ p.method = m /\ p.money = x.paid /\ p.looked = {}
    BY <1>1, <2>1 DEF SalePayment, Payment, Party
  <2>3. nps = Append(ps, p)
    BY <1>2 DEF PaidWith
  <2>4. p.money - Given(p) = 0
    BY <1>1, <2>1, <2>2 DEF Given
  <2> HIDE DEF p
  <2>5. /\ nps \in PayRows /\ DOMAIN nps = DOMAIN ps \cup {Len(ps) + 1}
        /\ nps[Len(ps) + 1] = p /\ \A i \in DOMAIN ps : nps[i] = ps[i]
        /\ \A c : PaidBy(nps, c) = PaidBy(ps, c) + (IF p.customer = c THEN p.money ELSE 0)
        /\ \A c : AheadOf(nps, c) =
                    AheadOf(ps, c) + (IF p.customer = c THEN p.money - Given(p) ELSE 0)
        /\ \A a : PaidInto(nps, a) =
                    PaidInto(ps, a) + (IF AccountOf(p.method) = a THEN p.money ELSE 0)
        /\ PaidAll(nps) = PaidAll(ps) + p.money
        /\ \A b \in BillId : PaidOn(nps, b) = PaidOn(ps, b) + p.to[b]
    BY <2>2, <2>3, PaymentAdded
  <2>6. \A c : AheadOf(nps, c) = AheadOf(ps, c)
    BY <2>4, <2>5, PaySums
  <2> QED
    BY <2>1, <2>2, <2>5, <2>6
<1>3. CASE x.paid = 0
  <2>1. nps = ps
    BY <1>3 DEF PaidWith
  <2>2. /\ \A c : PaidBy(ps, c) \in Int
        /\ \A a : PaidInto(ps, a) \in Int
        /\ PaidAll(ps) \in Int
        /\ \A b \in BillId : PaidOn(ps, b) \in Int
    BY PaySums
  <2> QED
    BY <1>3, <2>1, <2>2
<1> QED
  BY <1>1, <1>2, <1>3

\* A bill x goes into the books under the unused number k, paid in m.
Charged(bs, ps, jr, k, x, m, lines, nbs, nps, njr) ==
  /\ bs[k].status = "none"
  /\ x.paid <= Cost(x) /\ x.status = StatusOf(x.paid, Cost(x))
  /\ x.customer = WalkIn => x.paid = Cost(x)
  /\ nbs = [bs EXCEPT ![k] = x]
  /\ nps = PaidWith(ps, x, k, m)
  /\ Tells(lines, x.net, x.tax, x.paid, m)
  /\ njr = IF Cost(x) > 0 THEN jr \cup {[doc |-> <<"bill", k>>, lines |-> lines]} ELSE jr

LEMMA ChargedBills ==
  ASSUME NEW bs \in Rows, NEW ps \in PayRows, NEW k \in BillId, NEW x \in Bill,
         NEW m \in Method, NEW jr, NEW lines, NEW nbs, NEW nps, NEW njr,
         Charged(bs, ps, jr, k, x, m, lines, nbs, nps, njr), BillsOk(bs, ps), PaysOk(bs, ps)
  PROVE  BillsOk(nbs, nps) /\ PaysOk(nbs, nps)
<1>1. /\ bs[k].status = "none" /\ bs[k] = NoBill /\ bs[k].paid = PaidOn(ps, k)
      /\ x.paid <= Cost(x) /\ x.status = StatusOf(x.paid, Cost(x))
      /\ x.customer = WalkIn => x.paid = Cost(x)
      /\ nbs[k] = x /\ \A b \in BillId : b # k => nbs[b] = bs[b]
  BY DEF Charged, BillsOk, Rows
<1>2. nps = PaidWith(ps, x, k, m)
  BY DEF Charged
<1>3. /\ DOMAIN ps \subseteq DOMAIN nps
      /\ \A i \in DOMAIN ps : nps[i] = ps[i]
      /\ \A i \in DOMAIN nps : i \in DOMAIN ps \/ nps[i].looked = {}
      /\ \A b \in BillId : PaidOn(nps, b) = PaidOn(ps, b) + (IF b = k THEN x.paid ELSE 0)
  BY <1>2, SalePaid
<1>4. x.paid \in Nat /\ x.status # "none" /\ \A b \in BillId : PaidOn(ps, b) \in Nat
  BY <1>1, BillFields, PaySums DEF StatusOf
<1>5. BillsOk(nbs, nps)
  <2> SUFFICES ASSUME NEW b \in BillId
               PROVE  /\ nbs[b].status = "none" => nbs[b] = NoBill
                      /\ nbs[b].status # "none" =>
                           nbs[b].status = StatusOf(nbs[b].paid, Cost(nbs[b]))
                      /\ nbs[b].paid = PaidOn(nps, b)
                      /\ nbs[b].paid <= Cost(nbs[b])
                      /\ nbs[b].customer = WalkIn => nbs[b].paid = Cost(nbs[b])
    BY DEF BillsOk
  <2>1. CASE b = k
    <3>1. PaidOn(nps, b) = x.paid
      BY <1>1, <1>3, <1>4, <2>1, NoBillFields
    <3> QED
      BY <1>1, <1>4, <2>1, <3>1
  <2>2. CASE b # k
    <3>1. PaidOn(nps, b) = PaidOn(ps, b)
      BY <1>3, <1>4, <2>2
    <3> QED
      BY <1>1, <2>2, <3>1 DEF BillsOk
  <2> QED
    BY <2>1, <2>2
<1>6. PaysOk(nbs, nps)
  <2> SUFFICES ASSUME NEW i \in DOMAIN nps, NEW a \in nps[i].looked
               PROVE  /\ nbs[a].status # "none"
                      /\ \/ nbs[a].paid = Cost(nbs[a])
                         \/ /\ Given(nps[i]) = nps[i].money
                            /\ \A b \in nps[i].looked : b > a => nps[i].to[b] = 0
    BY DEF PaysOk
  <2>1. i \in DOMAIN ps /\ nps[i] = ps[i]
    BY <1>3
  <2>2. a \in BillId
    BY <2>1, PaySums, PaymentFields
  <2>3. /\ bs[a].status # "none"
        /\ \/ bs[a].paid = Cost(bs[a])
           \/ /\ Given(ps[i]) = ps[i].money
              /\ \A b \in ps[i].looked : b > a => ps[i].to[b] = 0
    BY <2>1 DEF PaysOk
  <2> QED
    BY <1>1, <2>1, <2>2, <2>3
<1> QED
  BY <1>5, <1>6

-----------------------------------------------------------------------------
\* The sums over customers are numbers.
LEMMA TotalSums ==
  ASSUME NEW bs \in Rows, NEW ps \in PayRows
  PROVE  OwedTotal(bs) \in Int /\ AheadTotal(ps) \in Int /\ StatedTotal(bs, ps) \in Int
<1> DEFINE f == [c \in Customer |-> OwedBy(bs, c)]
           g == [c \in Customer |-> AheadOf(ps, c)]
           h == [c \in Customer |-> CostOf(bs, c) - PaidBy(ps, c)]
<1>1. /\ IsFiniteSet(Customer) /\ \A c \in Customer : f[c] \in Int
      /\ \A c \in Customer : g[c] \in Int
      /\ \A c \in Customer : h[c] \in Int
  BY Finite, BillSums, PaySums
<1> HIDE DEF f, g, h
<1>2. SumFunctionOnSet(f, Customer) \in Int
  BY ONLY <1>1, SumInt
<1>3. SumFunctionOnSet(g, Customer) \in Int
  BY ONLY <1>1, SumInt
<1>4. SumFunctionOnSet(h, Customer) \in Int
  BY ONLY <1>1, SumInt
<1> QED
  BY <1>2, <1>3, <1>4 DEF OwedTotal, AheadTotal, StatedTotal, f, g, h

LEMMA ChargedScreens ==
  ASSUME NEW bs \in Rows, NEW ps \in PayRows, NEW k \in BillId, NEW x \in Bill,
         NEW m \in Method, NEW jr, NEW lines, NEW nbs, NEW nps, NEW njr,
         Charged(bs, ps, jr, k, x, m, lines, nbs, nps, njr), BillsOk(bs, ps), ScreensOk(bs, ps)
  PROVE  /\ ScreensOk(nbs, nps)
         /\ StatedTotal(nbs, nps) = StatedTotal(bs, ps) + (Cost(x) - x.paid)
<1> DEFINE d == Cost(x) - x.paid
<1>1. /\ bs[k] = NoBill /\ (x.customer = WalkIn => x.paid = Cost(x))
      /\ nbs = [bs EXCEPT ![k] = x] /\ nps = PaidWith(ps, x, k, m)
  BY DEF Charged, BillsOk
<1>2. /\ \A c : CostOf(nbs, c) = CostOf(bs, c) + (IF x.customer = c THEN Cost(x) ELSE 0)
      /\ \A c : OwedBy(nbs, c) = OwedBy(bs, c) + (IF x.customer = c THEN d ELSE 0)
      /\ OwedAll(nbs) = OwedAll(bs) + d
      /\ \A ch : SoldOver(nbs, ch) = SoldOver(bs, ch) + (IF x.channel = ch THEN Cost(x) ELSE 0)
  <2>1. Entered(bs, k, x, nbs)
    BY <1>1 DEF Entered
  <2> QED
    BY <2>1, BillEntered
<1>3. /\ \A c : PaidBy(nps, c) = PaidBy(ps, c) + (IF x.customer = c THEN x.paid ELSE 0)
      /\ \A c : AheadOf(nps, c) = AheadOf(ps, c)
      /\ PaidAll(nps) = PaidAll(ps) + x.paid
  BY <1>1, SalePaid
<1>4. /\ Cost(x) \in Int /\ x.paid \in Int /\ d \in Int /\ x.customer \in Party
      /\ x.channel \in {"retail", "wholesale"}
  BY BillFields
<1>5. /\ \A c : CostOf(bs, c) \in Int /\ OwedBy(bs, c) \in Int
      /\ \A c : PaidBy(ps, c) \in Int /\ AheadOf(ps, c) \in Int
      /\ OwedAll(bs) \in Int /\ PaidAll(ps) \in Int
      /\ \A ch : SoldOver(bs, ch) \in Int
  BY BillSums, PaySums
<1>6. x.customer \in Customer \/ d = 0
  BY <1>1, <1>4 DEF Party
<1>7. ASSUME NEW c \in Customer
      PROVE  CostOf(nbs, c) - PaidBy(nps, c) = OwedBy(nbs, c) - AheadOf(nps, c)
  <2>1. CostOf(bs, c) - PaidBy(ps, c) = OwedBy(bs, c) - AheadOf(ps, c)
    BY DEF ScreensOk
  <2>2. CASE x.customer = c
    <3>1. /\ CostOf(nbs, c) = CostOf(bs, c) + Cost(x) /\ OwedBy(nbs, c) = OwedBy(bs, c) + d
          /\ PaidBy(nps, c) = PaidBy(ps, c) + x.paid /\ AheadOf(nps, c) = AheadOf(ps, c)
      BY <1>2, <1>3, <2>2
    <3>2. /\ CostOf(bs, c) \in Int /\ OwedBy(bs, c) \in Int
          /\ PaidBy(ps, c) \in Int /\ AheadOf(ps, c) \in Int
      BY <1>5
    <3>3. Cost(x) \in Int /\ x.paid \in Int
      BY <1>4
    <3>4. OwedBy(nbs, c) = OwedBy(bs, c) + (Cost(x) - x.paid)
      BY <3>1
    <3>5. /\ CostOf(nbs, c) = CostOf(bs, c) + Cost(x)
          /\ PaidBy(nps, c) = PaidBy(ps, c) + x.paid /\ AheadOf(nps, c) = AheadOf(ps, c)
      BY <3>1
    <3> QED
      BY ONLY <2>1, <3>2, <3>3, <3>4, <3>5
  <2>3. CASE x.customer # c
    <3>1. /\ CostOf(nbs, c) = CostOf(bs, c) /\ OwedBy(nbs, c) = OwedBy(bs, c)
          /\ PaidBy(nps, c) = PaidBy(ps, c) /\ AheadOf(nps, c) = AheadOf(ps, c)
      BY <1>2, <1>3, <1>5, <2>3
    <3> QED
      BY <2>1, <3>1
  <2> QED
    BY <2>2, <2>3
<1> HIDE DEF d
<1>8. OwedTotal(nbs) = OwedTotal(bs) + d
  <2> DEFINE f == [c \in Customer |-> OwedBy(bs, c)]
             g == [c \in Customer |-> OwedBy(nbs, c)]
             k0 == x.customer
  <2>1. \A c \in Customer : f[c] \in Int /\ g[c] = f[c] + (IF k0 = c THEN d ELSE 0)
    BY <1>2, <1>5
  <2>d. d \in Int
    BY <1>4
  <2> HIDE DEF f, g, k0
  <2>2. SumFunctionOnSet(g, Customer)
          = SumFunctionOnSet(f, Customer) + (IF k0 \in Customer THEN d ELSE 0)
    BY ONLY <2>d, <2>1, OneCustomer
  <2>3. OwedTotal(nbs) = OwedTotal(bs) + (IF k0 \in Customer THEN d ELSE 0)
    BY <2>2 DEF OwedTotal, f, g
  <2>4. k0 \in Customer \/ d = 0
    BY <1>6 DEF k0
  <2> QED
    BY <2>3, <2>4
<1>9. AheadTotal(nps) = AheadTotal(ps)
  <2>1. [c \in Customer |-> AheadOf(nps, c)] = [c \in Customer |-> AheadOf(ps, c)]
    BY <1>3
  <2> QED
    BY <2>1 DEF AheadTotal
<1>10. StatedTotal(nbs, nps) = StatedTotal(bs, ps) + d
  <2> DEFINE f == [c \in Customer |-> CostOf(bs, c) - PaidBy(ps, c)]
             g == [c \in Customer |-> CostOf(nbs, c) - PaidBy(nps, c)]
             k0 == x.customer
  <2>1. ASSUME NEW c \in Customer
        PROVE  f[c] \in Int /\ g[c] = f[c] + (IF k0 = c THEN d ELSE 0)
    <3>1. CASE x.customer = c
      <4>1. CostOf(nbs, c) = CostOf(bs, c) + Cost(x) /\ PaidBy(nps, c) = PaidBy(ps, c) + x.paid
        BY <1>2, <1>3, <3>1
      <4> QED
        BY <1>4, <1>5, <3>1, <4>1 DEF d
    <3>2. CASE x.customer # c
      <4>1. CostOf(nbs, c) = CostOf(bs, c) /\ PaidBy(nps, c) = PaidBy(ps, c)
        BY <1>2, <1>3, <1>5, <3>2
      <4> QED
        BY <1>5, <3>2, <4>1
    <3> QED
      BY <3>1, <3>2
  <2>d. d \in Int
    BY <1>4
  <2> HIDE DEF f, g, k0
  <2>2. SumFunctionOnSet(g, Customer)
          = SumFunctionOnSet(f, Customer) + (IF k0 \in Customer THEN d ELSE 0)
    BY ONLY <2>d, <2>1, OneCustomer
  <2>3. StatedTotal(nbs, nps) = StatedTotal(bs, ps) + (IF k0 \in Customer THEN d ELSE 0)
    BY <2>2 DEF StatedTotal, f, g
  <2>4. k0 \in Customer \/ d = 0
    BY <1>6 DEF k0
  <2> QED
    BY <2>3, <2>4
<1>11. OwedAll(nbs) = OwedTotal(nbs)
  BY <1>2, <1>8 DEF ScreensOk
<1>12. SoldOver(nbs, "retail") + SoldOver(nbs, "wholesale")
         = SoldOver(bs, "retail") + SoldOver(bs, "wholesale") + Cost(x)
  <2>1. CASE x.channel = "retail"
    <3>1. /\ SoldOver(nbs, "retail") = SoldOver(bs, "retail") + Cost(x)
          /\ SoldOver(nbs, "wholesale") = SoldOver(bs, "wholesale") + 0
      BY <1>2, <2>1
    <3> QED
      BY <1>4, <1>5, <3>1
  <2>2. CASE x.channel = "wholesale"
    <3>1. /\ SoldOver(nbs, "retail") = SoldOver(bs, "retail") + 0
          /\ SoldOver(nbs, "wholesale") = SoldOver(bs, "wholesale") + Cost(x)
      BY <1>2, <2>2
    <3> QED
      BY <1>4, <1>5, <3>1
  <2> QED
    BY <1>4, <2>1, <2>2
<1>13. SoldOver(nbs, "retail") + SoldOver(nbs, "wholesale") - PaidAll(nps)
         = OwedAll(nbs) - AheadTotal(nps)
  <2>1. SoldOver(bs, "retail") + SoldOver(bs, "wholesale") - PaidAll(ps)
          = OwedAll(bs) - AheadTotal(ps)
    BY DEF ScreensOk
  <2>2. AheadTotal(ps) \in Int /\ d = Cost(x) - x.paid
    BY TotalSums DEF d
  <2>3. /\ SoldOver(bs, "retail") \in Int /\ SoldOver(bs, "wholesale") \in Int
        /\ d \in Int
    BY <1>4, <1>5
  <2>4. OwedAll(bs) \in Int /\ PaidAll(ps) \in Int /\ Cost(x) \in Int /\ x.paid \in Int
    BY <1>4, <1>5
  <2>5. OwedAll(nbs) = OwedAll(bs) + d /\ PaidAll(nps) = PaidAll(ps) + x.paid
    BY <1>2, <1>3
  <2>6. SoldOver(nbs, "retail") \in Int /\ SoldOver(nbs, "wholesale") \in Int
    BY <1>1, BillEntered, BillSums DEF Entered
  <2> QED
    BY ONLY <1>9, <1>12, <2>6, <2>1, <2>2, <2>3, <2>4, <2>5
<1> QED
  BY <1>7, <1>10, <1>11, <1>13 DEF ScreensOk, d

LEMMA ChargedJournal ==
  ASSUME NEW bs \in Rows, NEW ps \in PayRows, NEW k \in BillId, NEW x \in Bill,
         NEW m \in Method, NEW jr, NEW lines, NEW nbs, NEW nps, NEW njr,
         Charged(bs, ps, jr, k, x, m, lines, nbs, nps, njr), BillsOk(bs, ps), ScreensOk(bs, ps),
         JournalOk(bs, ps, jr)
  PROVE  JournalOk(nbs, nps, njr)
<1> DEFINE e == [doc |-> <<"bill", k>>, lines |-> lines]
<1>1. /\ bs[k] = NoBill /\ bs[k].status = "none" /\ x.paid <= Cost(x)
      /\ x.status = StatusOf(x.paid, Cost(x))
      /\ nbs = [bs EXCEPT ![k] = x] /\ nps = PaidWith(ps, x, k, m)
      /\ Tells(lines, x.net, x.tax, x.paid, m)
      /\ njr = IF Cost(x) > 0 THEN jr \cup {e} ELSE jr
  BY DEF Charged, BillsOk
<1>2. /\ nbs[k] = x /\ \A b \in BillId : b # k => nbs[b] = bs[b]
  BY <1>1 DEF Rows
<1>3. /\ TaxAll(nbs) = TaxAll(bs) + x.tax
      /\ \A ch : SoldOver(nbs, ch) = SoldOver(bs, ch) + (IF x.channel = ch THEN Cost(x) ELSE 0)
  <2>1. Entered(bs, k, x, nbs)
    BY <1>1 DEF Entered
  <2> QED
    BY <2>1, BillEntered
<1>4. /\ \A a : PaidInto(nps, a) = PaidInto(ps, a) + (IF AccountOf(m) = a THEN x.paid ELSE 0)
      /\ DOMAIN ps \subseteq DOMAIN nps
  BY <1>1, SalePaid
<1>5. /\ x.net \in Nat /\ x.tax \in Nat /\ x.paid \in Nat /\ Cost(x) = x.net + x.tax
      /\ x.channel \in {"retail", "wholesale"} /\ x.status # "none"
  BY <1>1, BillFields DEF StatusOf
<1>6. /\ TaxAll(bs) \in Int /\ \A ch : SoldOver(bs, ch) \in Int
      /\ \A a : PaidInto(ps, a) \in Int /\ StatedTotal(bs, ps) \in Int
  BY BillSums, PaySums, TotalSums
<1>7. StatedTotal(nbs, nps) = StatedTotal(bs, ps) + (Cost(x) - x.paid)
  BY ChargedScreens
<1>8. /\ IsFiniteSet(jr)
      /\ \A y \in jr : /\ y \in [doc : {"bill", "payment"} \X Nat, lines : Entry]
                       /\ y.lines \in Entry
                       /\ SumFunctionOnSet(y.lines, Account) = 0
                       /\ Documented(y.doc, bs, ps)
      /\ \A a \in Tender : Posted(jr, a) = PaidInto(ps, a)
      /\ Posted(jr, "GST_OUTPUT") = 0 - TaxAll(bs)
      /\ Posted(jr, "SALES") = TaxAll(bs) - SoldOver(bs, "retail") - SoldOver(bs, "wholesale")
      /\ Posted(jr, "AR") = StatedTotal(bs, ps)
  BY DEF JournalOk
<1>9. \A doc : Documented(doc, bs, ps) => Documented(doc, nbs, nps)
  BY <1>2, <1>4, <1>5 DEF Documented
<1>10. SoldOver(nbs, "retail") + SoldOver(nbs, "wholesale")
         = SoldOver(bs, "retail") + SoldOver(bs, "wholesale") + Cost(x)
       /\ SoldOver(nbs, "retail") \in Int /\ SoldOver(nbs, "wholesale") \in Int
  <2>1. CASE x.channel = "retail"
    <3>1. /\ SoldOver(nbs, "retail") = SoldOver(bs, "retail") + Cost(x)
          /\ SoldOver(nbs, "wholesale") = SoldOver(bs, "wholesale") + 0
      BY <1>3, <2>1
    <3> QED
      BY <1>5, <1>6, <3>1
  <2>2. CASE x.channel = "wholesale"
    <3>1. /\ SoldOver(nbs, "retail") = SoldOver(bs, "retail") + 0
          /\ SoldOver(nbs, "wholesale") = SoldOver(bs, "wholesale") + Cost(x)
      BY <1>3, <2>2
    <3> QED
      BY <1>5, <1>6, <3>1
  <2> QED
    BY <1>5, <2>1, <2>2
<1>11. CASE Cost(x) > 0
  <2> HIDE DEF e
  <2>1. njr = jr \cup {e}
    BY <1>1, <1>11
  <2>2. e.doc = <<"bill", k>> /\ e.lines = lines
    BY DEF e
  <2>3. lines \in Entry /\ SumFunctionOnSet(lines, Account) = 0
    BY <1>1 DEF Tells
  <2>4. e \in [doc : {"bill", "payment"} \X Nat, lines : Entry]
    BY <2>3, Finite DEF e
  <2>5. ~Documented(<<"bill", k>>, bs, ps)
    <3> SUFFICES ASSUME Documented(<<"bill", k>>, bs, ps) PROVE FALSE
      OBVIOUS
    <3>1. \A n : <<"bill", k>> # <<"payment", n>>
      OBVIOUS
    <3>2. PICK b \in BillId : <<"bill", k>> = <<"bill", b>> /\ bs[b].status # "none"
      BY <3>1 DEF Documented
    <3>3. b = k
      BY <3>2
    <3> QED
      BY <1>1, <3>2, <3>3
  <2>6. e \notin jr
    BY <1>8, <2>2, <2>5
  <2>7. /\ IsFiniteSet(njr)
        /\ \A a \in Account : /\ Posted(jr, a) \in Int
                              /\ Posted(njr, a) = Posted(jr, a) + lines[a]
    <3>1. e.lines \in Entry /\ \A y \in jr : y.lines \in Entry
      BY <1>8, <2>2, <2>3
    <3>2. /\ IsFiniteSet(jr \cup {e})
          /\ \A a \in Account : /\ Posted(jr, a) \in Int
                                /\ Posted(jr \cup {e}, a) = Posted(jr, a) + e.lines[a]
      BY ONLY <1>8, <2>6, <3>1, EntryAdded
    <3> QED
      BY <2>1, <2>2, <3>2
  <2>8. ASSUME NEW y \in njr
        PROVE  /\ y \in [doc : {"bill", "payment"} \X Nat, lines : Entry]
               /\ SumFunctionOnSet(y.lines, Account) = 0
               /\ Documented(y.doc, nbs, nps)
    <3>1. CASE y \in jr
      BY <1>8, <1>9, <3>1
    <3>2. CASE y = e
      <4>1. Documented(e.doc, nbs, nps)
        BY <1>2, <1>5, <2>2 DEF Documented
      <4> QED
        BY <2>2, <2>3, <2>4, <3>2, <4>1
    <3> QED
      BY <2>1, <3>1, <3>2
  <2>9. /\ \A a \in Tender : lines[a] = IF AccountOf(m) = a THEN x.paid ELSE 0
        /\ lines["AR"] = x.net + x.tax - x.paid /\ lines["SALES"] = 0 - x.net
        /\ lines["GST_OUTPUT"] = 0 - x.tax
    BY <1>1 DEF Tells
  <2>10. \A a \in Tender : Posted(njr, a) = PaidInto(nps, a)
    BY <1>4, <1>8, <2>7, <2>9, AccountFacts
  <2>11. "AR" \in Account /\ "SALES" \in Account /\ "GST_OUTPUT" \in Account
    BY DEF Account
  <2>12. Posted(njr, "GST_OUTPUT") = 0 - TaxAll(nbs)
    BY <1>3, <1>5, <1>6, <1>8, <2>7, <2>9, <2>11
  <2>13. Posted(njr, "AR") = StatedTotal(nbs, nps)
    <3>1. Posted(njr, "AR") = StatedTotal(bs, ps) + (x.net + x.tax - x.paid)
      BY <1>8, <2>7, <2>9, <2>11
    <3> QED
      BY <1>5, <1>6, <1>7, <3>1
  <2>14. Posted(njr, "SALES")
           = TaxAll(nbs) - SoldOver(nbs, "retail") - SoldOver(nbs, "wholesale")
    <3>1. Posted(njr, "SALES")
            = TaxAll(bs) - SoldOver(bs, "retail") - SoldOver(bs, "wholesale") + (0 - x.net)
      BY <1>8, <2>7, <2>9, <2>11
    <3>2. /\ SoldOver(bs, "retail") \in Int /\ SoldOver(bs, "wholesale") \in Int
          /\ TaxAll(bs) \in Int /\ TaxAll(nbs) = TaxAll(bs) + x.tax
      BY <1>3, <1>6
    <3> QED
      BY ONLY <1>5, <1>10, <3>1, <3>2
  <2> QED
    BY <2>7, <2>8, <2>10, <2>12, <2>13, <2>14 DEF JournalOk
<1>12. CASE Cost(x) = 0
  <2>1. x.net = 0 /\ x.tax = 0 /\ x.paid = 0
    BY <1>1, <1>5, <1>12
  <2>2. njr = jr
    BY <1>1, <1>12
  <2>3. \A a \in Tender : Posted(njr, a) = PaidInto(nps, a)
    BY <1>4, <1>6, <1>8, <2>1, <2>2
  <2>4. Posted(njr, "GST_OUTPUT") = 0 - TaxAll(nbs)
    BY <1>3, <1>6, <1>8, <2>1, <2>2
  <2>5. Posted(njr, "AR") = StatedTotal(nbs, nps)
    <3>1. Posted(njr, "AR") = StatedTotal(bs, ps) /\ StatedTotal(bs, ps) \in Int
      BY <1>6, <1>8, <2>2
    <3>2. x.paid = 0
      BY <2>1
    <3> QED
      BY ONLY <1>7, <1>12, <3>1, <3>2
  <2>6. Posted(njr, "SALES")
          = TaxAll(nbs) - SoldOver(nbs, "retail") - SoldOver(nbs, "wholesale")
    BY <1>3, <1>6, <1>8, <1>10, <1>12, <2>1, <2>2
  <2> QED
    BY <1>8, <1>9, <2>2, <2>3, <2>4, <2>5, <2>6 DEF JournalOk
<1> QED
  BY <1>5, <1>11, <1>12

-----------------------------------------------------------------------------
\* A collection p goes into the books: what it allocates is due on invoices of
\* its customer that it has looked at, the older ones are settled first.
Collected(bs, ps, jr, p, lines, nbs, nps, njr) ==
  /\ p.customer \in Customer
  /\ Given(p) <= p.money
  /\ \A b \in BillId : p.to[b] # 0 => b \in p.looked
  /\ \A a \in p.looked :
       /\ bs[a].status # "none" /\ bs[a].customer = p.customer
       /\ p.to[a] <= Cost(bs[a]) - bs[a].paid
       /\ \/ p.to[a] = Cost(bs[a]) - bs[a].paid
          \/ Given(p) = p.money /\ \A b \in p.looked : b > a => p.to[b] = 0
  /\ nbs = [b \in BillId |-> Credited(bs[b], p.to[b])]
  /\ nps = Append(ps, p)
  /\ Tells(lines, 0, 0, p.money, p.method)
  /\ njr = jr \cup {[doc |-> <<"payment", Len(ps) + 1>>, lines |-> lines]}

\* What it does to the figures.
LEMMA CollectedSums ==
  ASSUME NEW bs \in Rows, NEW ps \in PayRows, NEW p \in Payment,
         NEW jr, NEW lines, NEW nbs, NEW nps, NEW njr,
         Collected(bs, ps, jr, p, lines, nbs, nps, njr)
  PROVE  /\ nbs \in Rows /\ nps \in PayRows /\ Given(p) \in Nat /\ p.money \in Nat
         /\ p.customer \in Customer
         /\ \A c : CostOf(nbs, c) = CostOf(bs, c)
         /\ \A c : OwedBy(nbs, c) = OwedBy(bs, c) - (IF c = p.customer THEN Given(p) ELSE 0)
         /\ OwedAll(nbs) = OwedAll(bs) - Given(p)
         /\ TaxAll(nbs) = TaxAll(bs)
         /\ \A ch : SoldOver(nbs, ch) = SoldOver(bs, ch)
         /\ \A c : PaidBy(nps, c) = PaidBy(ps, c) + (IF p.customer = c THEN p.money ELSE 0)
         /\ \A c : AheadOf(nps, c) =
                     AheadOf(ps, c) + (IF p.customer = c THEN p.money - Given(p) ELSE 0)
         /\ \A a : PaidInto(nps, a) =
                     PaidInto(ps, a) + (IF AccountOf(p.method) = a THEN p.money ELSE 0)
         /\ PaidAll(nps) = PaidAll(ps) + p.money
<1>1. /\ nbs = [b \in BillId |-> Credited(bs[b], p.to[b])] /\ nps = Append(ps, p)
      /\ p.customer \in Customer
      /\ \A b \in BillId : p.to[b] # 0 => bs[b].customer = p.customer
  BY DEF Collected
<1>2. p.to \in Amounts /\ Given(p) \in Nat /\ p.money \in Nat
  BY PaymentFields DEF Amounts
<1>3. /\ nbs \in Rows
      /\ \A c : CostOf(nbs, c) = CostOf(bs, c)
      /\ \A c : OwedBy(nbs, c) = OwedBy(bs, c) - (IF c = p.customer THEN Given(p) ELSE 0)
      /\ OwedAll(nbs) = OwedAll(bs) - Given(p)
      /\ TaxAll(nbs) = TaxAll(bs)
      /\ \A ch : SoldOver(nbs, ch) = SoldOver(bs, ch)
  <2> DEFINE take == p.to
             k == p.customer
  <2>1. /\ take \in Amounts /\ nbs = [b \in BillId |-> Credited(bs[b], take[b])]
        /\ \A b \in BillId : take[b] # 0 => bs[b].customer = k
    BY <1>1, <1>2
  <2> HIDE DEF take, k
  <2>2. LET all == SumFunctionOnSet(take, BillId) IN
         /\ nbs \in Rows /\ all \in Nat
         /\ \A c : CostOf(nbs, c) = CostOf(bs, c)
         /\ \A c : OwedBy(nbs, c) = OwedBy(bs, c) - (IF c = k THEN all ELSE 0)
         /\ OwedAll(nbs) = OwedAll(bs) - all
         /\ TaxAll(nbs) = TaxAll(bs)
         /\ \A ch : SoldOver(nbs, ch) = SoldOver(bs, ch)
    BY ONLY <2>1, bs \in Rows, BillsCredited
  <2> QED
    BY <2>2 DEF Given, take, k
<1>4. nps \in PayRows
  BY <1>1, PaymentAdded
<1> QED
  BY <1>1, <1>2, <1>3, <1>4, PaymentAdded

\* The status of an invoice on which something is paid.
LEMMA StatusKnown ==
  ASSUME NEW v \in Nat, NEW t \in Nat, v > 0, v <= t
  PROVE  StatusOf(v, t) = IF v >= t THEN "paid" ELSE "partial"
<1>1. CASE v >= t
  BY <1>1 DEF StatusOf
<1>2. CASE ~(v >= t)
  BY <1>2 DEF StatusOf
<1> QED
  BY <1>1, <1>2

LEMMA CollectedBills ==
  ASSUME NEW bs \in Rows, NEW ps \in PayRows, NEW p \in Payment,
         NEW jr, NEW lines, NEW nbs, NEW nps, NEW njr,
         Collected(bs, ps, jr, p, lines, nbs, nps, njr), BillsOk(bs, ps), PaysOk(bs, ps)
  PROVE  BillsOk(nbs, nps) /\ PaysOk(nbs, nps)
<1>1. /\ nbs = [b \in BillId |-> Credited(bs[b], p.to[b])] /\ nps = Append(ps, p)
      /\ \A b \in BillId : p.to[b] # 0 => b \in p.looked
      /\ \A a \in p.looked :
           /\ bs[a].status # "none" /\ bs[a].customer = p.customer
           /\ p.to[a] <= Cost(bs[a]) - bs[a].paid
           /\ \/ p.to[a] = Cost(bs[a]) - bs[a].paid
              \/ Given(p) = p.money /\ \A b \in p.looked : b > a => p.to[b] = 0
      /\ p.customer # WalkIn
  BY Finite DEF Collected
<1>2. p.to \in [BillId -> Nat] /\ p.looked \subseteq BillId
  BY PaymentFields
<1>3. /\ DOMAIN nps = DOMAIN ps \cup {Len(ps) + 1}
      /\ nps[Len(ps) + 1] = p /\ \A i \in DOMAIN ps : nps[i] = ps[i]
      /\ \A b \in BillId : PaidOn(nps, b) = PaidOn(ps, b) + p.to[b]
  BY <1>1, PaymentAdded
<1>4. \A b \in BillId : /\ bs[b] \in Bill /\ nbs[b] = Credited(bs[b], p.to[b]) /\ p.to[b] \in Nat
  BY <1>1, <1>2 DEF Rows
<1>5. \A b \in BillId :
        /\ nbs[b].customer = bs[b].customer /\ Cost(nbs[b]) = Cost(bs[b])
        /\ nbs[b].paid = bs[b].paid + p.to[b]
        /\ p.to[b] = 0 => nbs[b] = bs[b]
        /\ p.to[b] # 0 => nbs[b].status
                            = (IF bs[b].paid + p.to[b] >= Cost(bs[b]) THEN "paid" ELSE "partial")
  BY <1>4, CreditedFields
<1>6. \A b \in BillId : bs[b].paid \in Nat /\ Cost(bs[b]) \in Nat
  BY <1>4, BillFields
<1>7. ASSUME NEW b \in BillId
      PROVE  /\ nbs[b].status = "none" => nbs[b] = NoBill
             /\ nbs[b].status # "none" =>
                  nbs[b].status = StatusOf(nbs[b].paid, Cost(nbs[b]))
             /\ nbs[b].paid = PaidOn(nps, b)
             /\ nbs[b].paid <= Cost(nbs[b])
             /\ nbs[b].customer = WalkIn => nbs[b].paid = Cost(nbs[b])
  <2>1. /\ bs[b].status = "none" => bs[b] = NoBill
        /\ bs[b].status # "none" => bs[b].status = StatusOf(bs[b].paid, Cost(bs[b]))
        /\ bs[b].paid = PaidOn(ps, b)
        /\ bs[b].paid <= Cost(bs[b])
        /\ bs[b].customer = WalkIn => bs[b].paid = Cost(bs[b])
    BY DEF BillsOk
  <2>2. nbs[b].paid = PaidOn(nps, b)
    BY <1>3, <1>5, <2>1
  <2>3. CASE p.to[b] = 0
    BY <1>5, <2>1, <2>2, <2>3
  <2>4. CASE p.to[b] # 0
    <3>1. /\ b \in p.looked /\ bs[b].customer # WalkIn
          /\ p.to[b] <= Cost(bs[b]) - bs[b].paid
      BY <1>1, <2>4
    <3>2. /\ nbs[b].paid \in Nat /\ nbs[b].paid > 0 /\ nbs[b].paid <= Cost(nbs[b])
          /\ Cost(nbs[b]) > 0 /\ Cost(nbs[b]) \in Nat
      <4>1. /\ bs[b].paid \in Nat /\ Cost(bs[b]) \in Nat /\ p.to[b] \in Nat
            /\ nbs[b].paid = bs[b].paid + p.to[b] /\ Cost(nbs[b]) = Cost(bs[b])
        BY <1>4, <1>5, <1>6
      <4> QED
        BY ONLY <2>4, <3>1, <4>1
    <3>3. nbs[b].status = IF nbs[b].paid >= Cost(nbs[b]) THEN "paid" ELSE "partial"
      BY <1>5, <2>4
    <3>4. nbs[b].status = StatusOf(nbs[b].paid, Cost(nbs[b])) /\ nbs[b].status # "none"
      <4>1. StatusOf(nbs[b].paid, Cost(nbs[b])) = nbs[b].status
        BY <3>2, <3>3, StatusKnown
      <4> QED
        BY <3>3, <4>1
    <3> QED
      BY <1>5, <2>2, <3>1, <3>2, <3>4
  <2> QED
    BY <2>3, <2>4
<1>8. BillsOk(nbs, nps)
  BY <1>7 DEF BillsOk
<1>9. \A b \in BillId : bs[b].status # "none" => nbs[b].status # "none"
  BY <1>4, <1>5
<1>10. ASSUME NEW i \in DOMAIN nps, NEW a \in nps[i].looked
       PROVE  /\ nbs[a].status # "none"
              /\ \/ nbs[a].paid = Cost(nbs[a])
                 \/ /\ Given(nps[i]) = nps[i].money
                    /\ \A b \in nps[i].looked : b > a => nps[i].to[b] = 0
  <2>1. CASE i \in DOMAIN ps
    <3>1. nps[i] = ps[i]
      BY <1>3, <2>1
    <3>2. a \in BillId
      BY <2>1, <3>1, PaySums, PaymentFields
    <3>3. /\ bs[a].status # "none"
          /\ \/ bs[a].paid = Cost(bs[a])
             \/ /\ Given(ps[i]) = ps[i].money
                /\ \A b \in ps[i].looked : b > a => ps[i].to[b] = 0
      BY <2>1, <3>1 DEF PaysOk
    <3>4. bs[a].paid = Cost(bs[a]) => nbs[a].paid = Cost(nbs[a])
      <4>1. SUFFICES ASSUME bs[a].paid = Cost(bs[a]) PROVE p.to[a] = 0
        BY <1>5, <3>2
      <4>2. p.to[a] # 0 => p.to[a] <= Cost(bs[a]) - bs[a].paid
        BY <1>1, <3>2
      <4>3. p.to[a] \in Nat /\ bs[a].paid \in Nat /\ Cost(bs[a]) \in Nat
        BY <1>4, <1>6, <3>2
      <4> QED
        BY ONLY <4>1, <4>2, <4>3
    <3> QED
      BY <1>9, <3>1, <3>2, <3>3, <3>4
  <2>2. CASE i = Len(ps) + 1
    <3>1. nps[i] = p /\ a \in BillId
      BY <1>2, <1>3, <2>2
    <3>2. /\ bs[a].status # "none"
          /\ \/ p.to[a] = Cost(bs[a]) - bs[a].paid
             \/ Given(p) = p.money /\ \A b \in p.looked : b > a => p.to[b] = 0
      BY <1>1, <3>1
    <3>3. p.to[a] = Cost(bs[a]) - bs[a].paid => nbs[a].paid = Cost(nbs[a])
      BY <1>4, <1>5, <1>6, <3>1
    <3> QED
      BY <1>9, <3>1, <3>2, <3>3
  <2> QED
    BY <1>3, <2>1, <2>2
<1>11. PaysOk(nbs, nps)
  BY <1>10 DEF PaysOk
<1> QED
  BY <1>8, <1>11

LEMMA CollectedScreens ==
  ASSUME NEW bs \in Rows, NEW ps \in PayRows, NEW p \in Payment,
         NEW jr, NEW lines, NEW nbs, NEW nps, NEW njr,
         Collected(bs, ps, jr, p, lines, nbs, nps, njr), ScreensOk(bs, ps)
  PROVE  /\ ScreensOk(nbs, nps)
         /\ StatedTotal(nbs, nps) = StatedTotal(bs, ps) - p.money
<1> DEFINE g == Given(p)
           n == p.money
           k == p.customer
<1>1. /\ g \in Int /\ n \in Int /\ k \in Customer
      /\ \A c : CostOf(nbs, c) = CostOf(bs, c)
      /\ \A c : OwedBy(nbs, c) = OwedBy(bs, c) - (IF c = k THEN g ELSE 0)
      /\ OwedAll(nbs) = OwedAll(bs) - g
      /\ \A ch : SoldOver(nbs, ch) = SoldOver(bs, ch)
      /\ \A c : PaidBy(nps, c) = PaidBy(ps, c) + (IF k = c THEN n ELSE 0)
      /\ \A c : AheadOf(nps, c) = AheadOf(ps, c) + (IF k = c THEN n - g ELSE 0)
      /\ PaidAll(nps) = PaidAll(ps) + n
  BY CollectedSums
<1>2. /\ \A c : CostOf(bs, c) \in Int /\ OwedBy(bs, c) \in Int
      /\ \A c : PaidBy(ps, c) \in Int /\ AheadOf(ps, c) \in Int
      /\ OwedAll(bs) \in Int /\ PaidAll(ps) \in Int
      /\ \A ch : SoldOver(bs, ch) \in Int
  BY BillSums, PaySums
<1>3. OwedTotal(bs) \in Int /\ AheadTotal(ps) \in Int /\ StatedTotal(bs, ps) \in Int
  BY TotalSums
<1> HIDE DEF g, n, k
<1>4. ASSUME NEW c \in Customer
      PROVE  CostOf(nbs, c) - PaidBy(nps, c) = OwedBy(nbs, c) - AheadOf(nps, c)
  <2>1. CostOf(bs, c) - PaidBy(ps, c) = OwedBy(bs, c) - AheadOf(ps, c)
    BY DEF ScreensOk
  <2>2. /\ CostOf(bs, c) \in Int /\ OwedBy(bs, c) \in Int
        /\ PaidBy(ps, c) \in Int /\ AheadOf(ps, c) \in Int
    BY <1>2
  <2>3. CASE k = c
    <3>1. /\ CostOf(nbs, c) = CostOf(bs, c) /\ OwedBy(nbs, c) = OwedBy(bs, c) - g
          /\ PaidBy(nps, c) = PaidBy(ps, c) + n /\ AheadOf(nps, c) = AheadOf(ps, c) + (n - g)
      BY <1>1, <2>3
    <3> QED
      BY ONLY <1>1, <2>1, <2>2, <3>1
  <2>4. CASE k # c
    <3>1. /\ CostOf(nbs, c) = CostOf(bs, c) /\ OwedBy(nbs, c) = OwedBy(bs, c)
          /\ PaidBy(nps, c) = PaidBy(ps, c) /\ AheadOf(nps, c) = AheadOf(ps, c)
      BY <1>1, <2>2, <2>4
    <3> QED
      BY <2>1, <3>1
  <2> QED
    BY <2>3, <2>4
<1>5. OwedTotal(nbs) = OwedTotal(bs) - g
  <2> DEFINE f == [c \in Customer |-> OwedBy(bs, c)]
             h == [c \in Customer |-> OwedBy(nbs, c)]
             d == 0 - g
  <2>1. \A c \in Customer : f[c] \in Int /\ h[c] = f[c] + (IF k = c THEN d ELSE 0)
    BY <1>1, <1>2
  <2>2. d \in Int
    BY <1>1
  <2> HIDE DEF f, h, d
  <2>3. SumFunctionOnSet(h, Customer)
          = SumFunctionOnSet(f, Customer) + (IF k \in Customer THEN d ELSE 0)
    BY ONLY <2>1, <2>2, OneCustomer
  <2>4. OwedTotal(nbs) = OwedTotal(bs) + d
    BY <1>1, <2>3 DEF OwedTotal, f, h
  <2> QED
    BY <1>1, <1>3, <2>4 DEF d
<1>6. AheadTotal(nps) = AheadTotal(ps) + (n - g)
  <2> DEFINE f == [c \in Customer |-> AheadOf(ps, c)]
             h == [c \in Customer |-> AheadOf(nps, c)]
             d == n - g
  <2>1. \A c \in Customer : f[c] \in Int /\ h[c] = f[c] + (IF k = c THEN d ELSE 0)
    BY <1>1, <1>2
  <2>2. d \in Int
    BY <1>1
  <2> HIDE DEF f, h, d
  <2>3. SumFunctionOnSet(h, Customer)
          = SumFunctionOnSet(f, Customer) + (IF k \in Customer THEN d ELSE 0)
    BY ONLY <2>1, <2>2, OneCustomer
  <2>4. AheadTotal(nps) = AheadTotal(ps) + d
    BY <1>1, <2>3 DEF AheadTotal, f, h
  <2> QED
    BY <2>4 DEF d
<1>7. StatedTotal(nbs, nps) = StatedTotal(bs, ps) - n
  <2> DEFINE f == [c \in Customer |-> CostOf(bs, c) - PaidBy(ps, c)]
             h == [c \in Customer |-> CostOf(nbs, c) - PaidBy(nps, c)]
             d == 0 - n
  <2>1. ASSUME NEW c \in Customer
        PROVE  f[c] \in Int /\ h[c] = f[c] + (IF k = c THEN d ELSE 0)
    <3>1. CostOf(bs, c) \in Int /\ PaidBy(ps, c) \in Int /\ CostOf(nbs, c) = CostOf(bs, c)
      BY <1>1, <1>2
    <3>2. CASE k = c
      <4>1. PaidBy(nps, c) = PaidBy(ps, c) + n
        BY <1>1, <3>2
      <4> QED
        BY <1>1, <3>1, <3>2, <4>1
    <3>3. CASE k # c
      <4>1. PaidBy(nps, c) = PaidBy(ps, c)
        BY <1>1, <3>1, <3>3
      <4> QED
        BY <3>1, <3>3, <4>1
    <3> QED
      BY <3>2, <3>3
  <2>2. d \in Int
    BY <1>1
  <2> HIDE DEF f, h, d
  <2>3. SumFunctionOnSet(h, Customer)
          = SumFunctionOnSet(f, Customer) + (IF k \in Customer THEN d ELSE 0)
    BY ONLY <2>1, <2>2, OneCustomer
  <2>4. StatedTotal(nbs, nps) = StatedTotal(bs, ps) + d
    BY <1>1, <2>3 DEF StatedTotal, f, h
  <2> QED
    BY <1>1, <1>3, <2>4 DEF d
<1>8. OwedAll(nbs) = OwedTotal(nbs)
  BY <1>1, <1>5 DEF ScreensOk
<1>9. SoldOver(nbs, "retail") + SoldOver(nbs, "wholesale") - PaidAll(nps)
        = OwedAll(nbs) - AheadTotal(nps)
  <2>1. SoldOver(bs, "retail") + SoldOver(bs, "wholesale") - PaidAll(ps)
          = OwedAll(bs) - AheadTotal(ps)
    BY DEF ScreensOk
  <2>2. /\ SoldOver(nbs, "retail") = SoldOver(bs, "retail")
        /\ SoldOver(nbs, "wholesale") = SoldOver(bs, "wholesale")
        /\ SoldOver(bs, "retail") \in Int /\ SoldOver(bs, "wholesale") \in Int
        /\ OwedAll(bs) \in Int /\ PaidAll(ps) \in Int /\ g \in Int /\ n \in Int
        /\ OwedAll(nbs) = OwedAll(bs) - g /\ PaidAll(nps) = PaidAll(ps) + n
    BY <1>1, <1>2
  <2>3. AheadTotal(ps) \in Int /\ AheadTotal(nps) = AheadTotal(ps) + (n - g)
    BY <1>3, <1>6
  <2> QED
    BY ONLY <2>1, <2>2, <2>3
<1> QED
  BY <1>4, <1>7, <1>8, <1>9 DEF ScreensOk, n

LEMMA CollectedJournal ==
  ASSUME NEW bs \in Rows, NEW ps \in PayRows, NEW p \in Payment,
         NEW jr, NEW lines, NEW nbs, NEW nps, NEW njr,
         Collected(bs, ps, jr, p, lines, nbs, nps, njr), ScreensOk(bs, ps), JournalOk(bs, ps, jr)
  PROVE  JournalOk(nbs, nps, njr)
<1> DEFINE e == [doc |-> <<"payment", Len(ps) + 1>>, lines |-> lines]
<1>1. /\ nbs = [b \in BillId |-> Credited(bs[b], p.to[b])] /\ nps = Append(ps, p)
      /\ Tells(lines, 0, 0, p.money, p.method) /\ njr = jr \cup {e}
  BY DEF Collected
<1>2. /\ DOMAIN nps = DOMAIN ps \cup {Len(ps) + 1} /\ Len(ps) \in Nat
      /\ Len(ps) + 1 \notin DOMAIN ps
  <2>1. DOMAIN nps = DOMAIN ps \cup {Len(ps) + 1}
    BY <1>1, PaymentAdded
  <2>2. DOMAIN ps = 1..Len(ps) /\ Len(ps) \in Nat
    BY PaySums
  <2> QED
    BY <2>1, <2>2
<1>3. \A b \in BillId : bs[b].status # "none" => nbs[b].status # "none"
  <2> SUFFICES ASSUME NEW b \in BillId, bs[b].status # "none" PROVE nbs[b].status # "none"
    OBVIOUS
  <2>1. bs[b] \in Bill /\ nbs[b] = Credited(bs[b], p.to[b]) /\ p.to[b] \in Nat
    BY <1>1, PaymentFields DEF Rows
  <2> QED
    BY <2>1, CreditedFields
<1>4. /\ TaxAll(nbs) = TaxAll(bs) /\ \A ch : SoldOver(nbs, ch) = SoldOver(bs, ch)
      /\ \A a : PaidInto(nps, a) =
                  PaidInto(ps, a) + (IF AccountOf(p.method) = a THEN p.money ELSE 0)
      /\ p.money \in Int
  BY CollectedSums
<1>5. StatedTotal(nbs, nps) = StatedTotal(bs, ps) - p.money
  BY CollectedScreens
<1>6. /\ IsFiniteSet(jr)
      /\ \A y \in jr : /\ y \in [doc : {"bill", "payment"} \X Nat, lines : Entry]
                       /\ y.lines \in Entry
                       /\ SumFunctionOnSet(y.lines, Account) = 0
                       /\ Documented(y.doc, bs, ps)
      /\ \A a \in Tender : Posted(jr, a) = PaidInto(ps, a)
      /\ Posted(jr, "GST_OUTPUT") = 0 - TaxAll(bs)
      /\ Posted(jr, "SALES") = TaxAll(bs) - SoldOver(bs, "retail") - SoldOver(bs, "wholesale")
      /\ Posted(jr, "AR") = StatedTotal(bs, ps)
  BY DEF JournalOk
<1>7. \A doc : Documented(doc, bs, ps) => Documented(doc, nbs, nps)
  BY <1>2, <1>3 DEF Documented
<1>8. e.doc = <<"payment", Len(ps) + 1>> /\ e.lines = lines
  OBVIOUS
<1>9. lines \in Entry /\ SumFunctionOnSet(lines, Account) = 0
  BY <1>1 DEF Tells
<1>10. e \in [doc : {"bill", "payment"} \X Nat, lines : Entry]
  BY <1>2, <1>9
<1> HIDE DEF e
<1>11. ~Documented(<<"payment", Len(ps) + 1>>, bs, ps)
  <2> SUFFICES ASSUME Documented(<<"payment", Len(ps) + 1>>, bs, ps) PROVE FALSE
    OBVIOUS
  <2>1. \A b : <<"payment", Len(ps) + 1>> # <<"bill", b>>
    OBVIOUS
  <2>2. PICK n \in DOMAIN ps : <<"payment", Len(ps) + 1>> = <<"payment", n>>
    BY <2>1 DEF Documented
  <2>3. n = Len(ps) + 1
    BY <2>2
  <2> QED
    BY <1>2, <2>2, <2>3
<1>12. e \notin jr
  BY <1>6, <1>8, <1>11
<1>13. /\ IsFiniteSet(njr)
       /\ \A a \in Account : /\ Posted(jr, a) \in Int
                             /\ Posted(njr, a) = Posted(jr, a) + lines[a]
  <2>1. e.lines \in Entry /\ \A y \in jr : y.lines \in Entry
    BY <1>6, <1>8, <1>9
  <2>2. /\ IsFiniteSet(jr \cup {e})
        /\ \A a \in Account : /\ Posted(jr, a) \in Int
                              /\ Posted(jr \cup {e}, a) = Posted(jr, a) + e.lines[a]
    BY ONLY <1>6, <1>12, <2>1, EntryAdded
  <2> QED
    BY <1>1, <1>8, <2>2
<1>14. ASSUME NEW y \in njr
       PROVE  /\ y \in [doc : {"bill", "payment"} \X Nat, lines : Entry]
              /\ SumFunctionOnSet(y.lines, Account) = 0
              /\ Documented(y.doc, nbs, nps)
  <2>1. CASE y \in jr
    BY <1>6, <1>7, <2>1
  <2>2. CASE y = e
    <3>1. Documented(e.doc, nbs, nps)
      BY <1>2, <1>8 DEF Documented
    <3> QED
      BY <1>8, <1>9, <1>10, <2>2, <3>1
  <2> QED
    BY <1>1, <2>1, <2>2
<1>15. /\ \A a \in Tender : lines[a] = IF AccountOf(p.method) = a THEN p.money ELSE 0
       /\ lines["AR"] = 0 + 0 - p.money /\ lines["SALES"] = 0 - 0 /\ lines["GST_OUTPUT"] = 0 - 0
  BY <1>1 DEF Tells
<1>16. \A a \in Tender : Posted(njr, a) = PaidInto(nps, a)
  BY <1>4, <1>6, <1>13, <1>15, AccountFacts
<1>17. "AR" \in Account /\ "SALES" \in Account /\ "GST_OUTPUT" \in Account
  BY DEF Account
<1>18. /\ Posted(njr, "GST_OUTPUT") = Posted(jr, "GST_OUTPUT")
       /\ Posted(njr, "SALES") = Posted(jr, "SALES")
       /\ Posted(njr, "AR") = Posted(jr, "AR") - p.money
  BY <1>4, <1>13, <1>15, <1>17
<1> QED
  BY <1>4, <1>5, <1>6, <1>13, <1>14, <1>16, <1>18 DEF JournalOk

-----------------------------------------------------------------------------
(* What holds of a request on its way: worker w has the transaction t, cn  *)
(* and lk are the holders of the numbers and of the invoices.              *)

Billing == {"sale", "dispatch"}
Ready == {"post", "open", "commit"}

\* The steps a request takes, the order and the customer it is about, the row
\* it will write, and the rules a sale has passed.
Shape(t, bs, os) ==
  /\ t \in Tx
  /\ t.pc = "idle" => t.bill = 0
  /\ t.pc # "idle" =>
       /\ t.req.kind \in Billing =>
            t.bill \in BillId /\ bs[t.bill].status = "none" /\ t.looked = {}
       /\ t.req.kind \notin Billing => t.bill = 0 /\ t.req.customer \in Customer
       /\ t.req.kind = "sale" => t.pc \in Ready \cup {"number", "check"}
       /\ t.req.kind = "order" => t.pc \in {"check", "commit"}
       /\ t.req.kind = "dispatch" =>
            /\ t.pc \in Ready \cup {"read", "number"} /\ t.req.order \in DOMAIN os
            /\ t.pc # "read" => t.req.customer \in Customer /\ t.req.money = 0
       /\ t.req.kind = "collect" => t.pc \in {"look", "settle", "open", "commit"}
       /\ t.req.kind = "sale" /\ t.pc \in Ready =>
            /\ Unpaid(t.req) >= 0
            /\ t.req.customer = WalkIn => Unpaid(t.req) = 0

\* A sale or a dispatch that has its number keeps the branch to itself.
Numbered(w, t, cn) ==
  t.req.kind \in Billing /\ t.pc \in Ready \cup {"check"} => cn[t.req.branch] = w

\* A collection allocates to invoices it holds, the older ones first, and never
\* more than is due on them.
Allocating(w, t, bs, lk) ==
  /\ t.pc = "look" => t.take = Nothing
  /\ t.pc # "idle" /\ t.pc # "look" /\ t.req.kind = "collect" =>
       /\ t.left \subseteq t.looked
       /\ t.pc # "settle" => t.left = {}
       /\ \A b \in t.looked : bs[b].status # "none" /\ bs[b].customer = t.req.customer
       /\ \A b \in BillId : t.take[b] # 0 => b \in t.looked \ t.left
       /\ \A b \in t.looked \ t.left :
            /\ lk[b] = w
            /\ t.take[b] <= Cost(bs[b]) - bs[b].paid
            /\ \/ t.take[b] = Cost(bs[b]) - bs[b].paid
               \/ t.rest = 0 /\ \A d \in t.looked : d > b => t.take[d] = 0
            /\ \A d \in t.left : b < d
       /\ t.rest + SumFunctionOnSet(t.take, BillId) = t.req.money

\* What a sale on khata found below the limit, of a customer whom no other
\* branch has billed, is still below it.
OnCredit(t, bs) ==
  LET c == t.req.customer IN
  /\ t.req.kind = "sale" /\ t.pc \in Ready /\ c \in Customer
  /\ Unpaid(t.req) > 0 /\ Limit[c] > 0
  /\ \A b \in BillId : bs[b].status # "none" /\ bs[b].customer = c =>
                       bs[b].branch = t.req.branch
  => OwedBy(bs, c) + Unpaid(t.req) <= Limit[c]

Working(w, t, bs, os, cn, lk) ==
  Shape(t, bs, os) /\ Numbered(w, t, cn) /\ Allocating(w, t, bs, lk) /\ OnCredit(t, bs)

\* What others may do meanwhile: invoices stay, those that w holds as they are;
\* what w holds it keeps; nobody uses its row; and another branch may charge a
\* customer.
Meanwhile(w, t, bs, os, cn, lk, nbs, nos, ncn, nlk) ==
  /\ DOMAIN os \subseteq DOMAIN nos
  /\ t.bill \in BillId /\ bs[t.bill].status = "none" => nbs[t.bill].status = "none"
  /\ \A b \in BillId : bs[b].status # "none" =>
       /\ nbs[b].status # "none" /\ nbs[b].customer = bs[b].customer
       /\ nbs[b].branch = bs[b].branch
       /\ lk[b] = w => nbs[b] = bs[b]
  /\ \A b \in BillId : lk[b] = w => nlk[b] = w
  /\ \A br \in Branch : cn[br] = w => ncn[br] = w
  /\ \A c \in Customer :
       \/ OwedBy(nbs, c) <= OwedBy(bs, c)
       \/ \E b \in BillId : /\ nbs[b].status # "none" /\ nbs[b].customer = c
                            /\ cn[nbs[b].branch] # w

\* The fields of a transaction and of its request.
LEMMA TxFields ==
  ASSUME NEW t \in Tx
  PROVE  /\ t.bill \in Nat /\ t.looked \subseteq BillId /\ t.left \subseteq BillId
         /\ t.take \in Amounts /\ t.rest \in Nat
         /\ t.req.kind \in {"sale", "order", "dispatch", "collect"}
         /\ t.req.customer \in Party /\ t.req.branch \in Branch
         /\ t.req.net \in Nat /\ t.req.tax \in Nat /\ t.req.money \in Nat
         /\ t.req.method \in Method /\ t.req.quote \in BOOLEAN /\ t.req.order \in Nat
         /\ Cost(t.req) \in Nat /\ Cost(t.req) = t.req.net + t.req.tax
         /\ Unpaid(t.req) \in Int /\ Unpaid(t.req) = Cost(t.req) - t.req.money
<1>1. t.req \in Requests
  BY DEF Tx
<1>2. /\ t.req.net \in Nat /\ t.req.tax \in Nat /\ t.req.money \in Nat
  BY <1>1 DEF Requests
<1> QED
  BY <1>1, <1>2 DEF Tx, Requests, Party, Cost, Unpaid

LEMMA MeanwhileWorks ==
  ASSUME NEW w, NEW t, NEW bs \in Rows, NEW os, NEW cn, NEW lk,
         NEW nbs \in Rows, NEW nos, NEW ncn, NEW nlk,
         Working(w, t, bs, os, cn, lk),
         Meanwhile(w, t, bs, os, cn, lk, nbs, nos, ncn, nlk)
  PROVE  Working(w, t, nbs, nos, ncn, nlk)
<1>1. /\ Shape(t, bs, os) /\ Numbered(w, t, cn) /\ Allocating(w, t, bs, lk) /\ OnCredit(t, bs)
  BY DEF Working
<1>2. t \in Tx /\ t.req.branch \in Branch /\ t.looked \subseteq BillId
  BY <1>1, TxFields DEF Shape
<1>3. Shape(t, nbs, nos)
  BY <1>1 DEF Shape, Meanwhile
<1>4. Numbered(w, t, ncn)
  BY <1>1, <1>2 DEF Numbered, Meanwhile
<1>5. Allocating(w, t, nbs, nlk)
  <2>1. CASE ~(t.pc # "idle" /\ t.pc # "look" /\ t.req.kind = "collect")
    BY <1>1, <2>1 DEF Allocating
  <2>2. CASE t.pc # "idle" /\ t.pc # "look" /\ t.req.kind = "collect"
    <3>1. ASSUME NEW b \in t.looked
          PROVE  /\ b \in BillId
                 /\ nbs[b].status # "none" /\ nbs[b].customer = t.req.customer
                 /\ b \notin t.left => nbs[b] = bs[b] /\ nlk[b] = w
      BY <1>1, <1>2, <2>2 DEF Allocating, Meanwhile
    <3> QED
      BY <1>1, <1>2, <2>2, <3>1 DEF Allocating
  <2> QED
    BY <2>1, <2>2
<1>6. OnCredit(t, nbs)
  <2> DEFINE c == t.req.customer
  <2> SUFFICES ASSUME t.req.kind = "sale", t.pc \in Ready, c \in Customer,
                      Unpaid(t.req) > 0, Limit[c] > 0,
                      \A b \in BillId : nbs[b].status # "none" /\ nbs[b].customer = c =>
                                        nbs[b].branch = t.req.branch
               PROVE  OwedBy(nbs, c) + Unpaid(t.req) <= Limit[c]
    BY DEF OnCredit
  <2>1. \A b \in BillId : bs[b].status # "none" /\ bs[b].customer = c =>
                          bs[b].branch = t.req.branch
    BY DEF Meanwhile
  <2>2. OwedBy(bs, c) + Unpaid(t.req) <= Limit[c]
    BY <1>1, <2>1 DEF OnCredit
  <2>3. cn[t.req.branch] = w
    BY <1>1 DEF Numbered, Billing
  <2>4. OwedBy(nbs, c) <= OwedBy(bs, c)
    BY <2>3 DEF Meanwhile
  <2>5. /\ OwedBy(nbs, c) \in Int /\ OwedBy(bs, c) \in Int /\ Unpaid(t.req) \in Int
        /\ Limit[c] \in Int
    BY <1>2, BillSums, TxFields, ReceivablesAssumption
  <2> QED
    BY ONLY <2>2, <2>4, <2>5
<1> QED
  BY <1>3, <1>4, <1>5, <1>6 DEF Working

-----------------------------------------------------------------------------
(* The invariant of the specification.                                     *)

OrderRows == Seq(Order)

BooksInv(bs, os, ps, jr) ==
  /\ bs \in Rows /\ os \in OrderRows /\ ps \in PayRows
  /\ BillsOk(bs, ps) /\ PaysOk(bs, ps) /\ ScreensOk(bs, ps)
  /\ JournalOk(bs, ps, jr) /\ OrdersOk(bs, os)

HoldersOk ==
  /\ chart \in BOOLEAN
  /\ opener \in Worker \cup {NoOne}
  /\ counter \in [Branch -> Worker \cup {NoOne}]
  /\ lock \in [BillId -> Worker \cup {NoOne}]

Apart(t) == \A v, w \in Worker : v # w /\ t[v].bill # 0 => t[v].bill # t[w].bill

ReceivablesInv ==
  /\ BooksInv(bills, orders, pays, journal)
  /\ HoldersOk
  /\ tx \in [Worker -> Tx]
  /\ \A w \in Worker : Working(w, tx[w], bills, orders, counter, lock)
  /\ Apart(tx)

\* An idle worker has nothing to keep.
LEMMA IdleWorks ==
  /\ Idle \in Tx /\ Idle.pc = "idle" /\ Idle.bill = 0
  /\ \A w, bs, os, cn, lk : Working(w, Idle, bs, os, cn, lk)
<1>1. NoRequest \in Requests
  BY NoBillFields DEF NoRequest, Requests, Bill, Method
<1>2. /\ Idle \in Tx /\ Idle.pc = "idle" /\ Idle.bill = 0
  <2>1. Nothing \in Amounts
    BY DEF Nothing, Amounts
  <2> QED
    BY <1>1, <2>1 DEF Idle, Tx
<1>3. \A w, bs, os, cn, lk : Working(w, Idle, bs, os, cn, lk)
  BY <1>2 DEF Working, Shape, Numbered, Allocating, OnCredit, Ready
<1> QED
  BY <1>2, <1>3

\* One worker's step: what is left to show of it.
LEMMA OneStep ==
  ASSUME ReceivablesInv, NEW v \in Worker, NEW nt \in Tx,
         tx' = [tx EXCEPT ![v] = nt],
         BooksInv(bills, orders, pays, journal)', HoldersOk',
         Working(v, nt, bills', orders', counter', lock'),
         \A w \in Worker \ {v} : nt.bill # 0 => nt.bill # tx[w].bill,
         \A w \in Worker \ {v} : Meanwhile(w, tx[w], bills, orders, counter, lock,
                                           bills', orders', counter', lock')
  PROVE  ReceivablesInv'
<1>1. /\ tx' \in [Worker -> Tx] /\ tx'[v] = nt
      /\ \A w \in Worker : w # v => tx'[w] = tx[w]
  BY DEF ReceivablesInv
<1>2. \A w \in Worker : Working(w, tx'[w], bills', orders', counter', lock')
  <2> SUFFICES ASSUME NEW w \in Worker
               PROVE  Working(w, tx'[w], bills', orders', counter', lock')
    OBVIOUS
  <2>1. CASE w = v
    BY <1>1, <2>1
  <2>2. CASE w # v
    <3>1. /\ bills \in Rows /\ bills' \in Rows
          /\ Working(w, tx[w], bills, orders, counter, lock)
          /\ Meanwhile(w, tx[w], bills, orders, counter, lock,
                       bills', orders', counter', lock')
      BY <2>2 DEF ReceivablesInv, BooksInv
    <3>2. Working(w, tx[w], bills', orders', counter', lock')
      BY ONLY <3>1, MeanwhileWorks
    <3> QED
      BY <1>1, <2>2, <3>2
  <2> QED
    BY <2>1, <2>2
<1>3. Apart(tx)'
  BY <1>1 DEF ReceivablesInv, Apart
<1> QED
  BY <1>1, <1>2, <1>3 DEF ReceivablesInv

\* A step on the way: nothing is committed, and others keep what they hold.
LEMMA QuietStep ==
  ASSUME ReceivablesInv, NEW v \in Worker, NEW nt \in Tx,
         tx' = [tx EXCEPT ![v] = nt],
         UNCHANGED Books, HoldersOk',
         Working(v, nt, bills, orders, counter', lock'),
         \A w \in Worker \ {v} : nt.bill # 0 => nt.bill # tx[w].bill,
         \A w \in Worker \ {v} :
           /\ \A b \in BillId : lock[b] = w => lock'[b] = w
           /\ \A br \in Branch : counter[br] = w => counter'[br] = w
  PROVE  ReceivablesInv'
<1>1. bills' = bills /\ orders' = orders /\ pays' = pays /\ journal' = journal
  BY DEF Books
<1>2. BooksInv(bills, orders, pays, journal)'
  BY <1>1 DEF ReceivablesInv
<1>3. \A c : OwedBy(bills, c) <= OwedBy(bills, c)
  BY BillSums DEF ReceivablesInv, BooksInv
<1>4. \A w \in Worker \ {v} : Meanwhile(w, tx[w], bills, orders, counter, lock,
                                        bills', orders', counter', lock')
  BY <1>1, <1>3 DEF Meanwhile
<1>5. Working(v, nt, bills', orders', counter', lock')
  BY <1>1
<1> QED
  BY <1>2, <1>4, <1>5, OneStep

\* The rows, seen by their own kind.
LEMMA BooksTyped ==
  ASSUME ReceivablesInv
  PROVE  /\ bills \in Rows /\ orders \in OrderRows /\ pays \in PayRows
         /\ \A i \in DOMAIN orders : orders[i] \in Order
         /\ DOMAIN orders = 1..Len(orders) /\ Len(orders) \in Nat
         /\ \A b \in BillId : bills[b] \in Bill
BY DEF ReceivablesInv, BooksInv, OrderRows, Rows

-----------------------------------------------------------------------------
(* The steps on the way to a commit.                                       *)

\* At the start every figure is zero.
LEMMA NothingYet ==
  ASSUME Init
  PROVE  /\ \A c : PaidBy(pays, c) = 0 /\ AheadOf(pays, c) = 0
         /\ \A a : PaidInto(pays, a) = 0
         /\ PaidAll(pays) = 0 /\ \A b : PaidOn(pays, b) = 0
         /\ \A a : Posted(journal, a) = 0
         /\ \A c : CostOf(bills, c) = 0 /\ OwedBy(bills, c) = 0
         /\ OwedAll(bills) = 0 /\ TaxAll(bills) = 0
         /\ \A ch : SoldOver(bills, ch) = 0
<1>1. DOMAIN pays = {} /\ journal = {} /\ \A b \in BillId : bills[b] = NoBill
  BY DEF Init
<1>2. \A f : SumFunctionOnSet(f, {}) = 0
  BY SumOfNone
<1>3. /\ \A c : PaidBy(pays, c) = 0 /\ AheadOf(pays, c) = 0
      /\ \A a : PaidInto(pays, a) = 0
      /\ PaidAll(pays) = 0 /\ \A b : PaidOn(pays, b) = 0
      /\ \A a : Posted(journal, a) = 0
  BY <1>1, <1>2 DEF PaidBy, AheadOf, PaidInto, PaidAll, PaidOn, Posted
<1>4. \A f : (\A b \in BillId : f[b] = 0) => SumFunctionOnSet(f, BillId) = 0
  BY Finite, SumZero
<1>5. \A b \in BillId : /\ Cost(bills[b]) = 0 /\ bills[b].paid = 0 /\ bills[b].tax = 0
                        /\ Cost(bills[b]) - bills[b].paid = 0
  BY <1>1, NoBillFields
<1>6. /\ \A c : CostOf(bills, c) = 0 /\ OwedBy(bills, c) = 0
      /\ OwedAll(bills) = 0 /\ TaxAll(bills) = 0
      /\ \A ch : SoldOver(bills, ch) = 0
  BY <1>4, <1>5 DEF CostOf, OwedBy, OwedAll, TaxAll, SoldOver
<1> QED
  BY <1>3, <1>6

LEMMA InvInit == Init => ReceivablesInv
<1> SUFFICES ASSUME Init PROVE ReceivablesInv
  OBVIOUS
<1>1. /\ bills = [b \in BillId |-> NoBill] /\ orders = <<>> /\ pays = <<>> /\ journal = {}
      /\ chart = FALSE /\ opener = NoOne /\ counter = [b \in Branch |-> NoOne]
      /\ lock = [b \in BillId |-> NoOne] /\ tx = [w \in Worker |-> Idle]
  BY DEF Init
<1>2. HoldersOk
  BY <1>1 DEF HoldersOk
<1>3. tx \in [Worker -> Tx] /\ Apart(tx)
  BY <1>1, IdleWorks DEF Apart
<1>4. \A w \in Worker : Working(w, tx[w], bills, orders, counter, lock)
  BY <1>1, IdleWorks
<1>5. BooksInv(bills, orders, pays, journal)
  <2>1. bills \in Rows /\ orders \in OrderRows /\ pays \in PayRows
    BY <1>1, NoBillFields DEF Rows, OrderRows, PayRows
  <2>2. DOMAIN pays = {} /\ DOMAIN orders = {}
    BY <1>1
  <2>3. \A b \in BillId : bills[b] = NoBill
    BY <1>1
  <2>5. /\ \A c : PaidBy(pays, c) = 0 /\ AheadOf(pays, c) = 0
        /\ \A a : PaidInto(pays, a) = 0
        /\ PaidAll(pays) = 0 /\ \A b : PaidOn(pays, b) = 0
        /\ \A a : Posted(journal, a) = 0
    BY NothingYet
  <2>6. /\ \A c : CostOf(bills, c) = 0 /\ OwedBy(bills, c) = 0
        /\ OwedAll(bills) = 0 /\ TaxAll(bills) = 0
        /\ \A ch : SoldOver(bills, ch) = 0
    BY NothingYet
  <2>7. OwedTotal(bills) = 0 /\ AheadTotal(pays) = 0 /\ StatedTotal(bills, pays) = 0
    <3>1. \A f : (\A c \in Customer : f[c] = 0) => SumFunctionOnSet(f, Customer) = 0
      BY Finite, SumZero
    <3>2. \A c : CostOf(bills, c) - PaidBy(pays, c) = 0
      BY <2>5, <2>6
    <3> QED
      BY <2>5, <2>6, <3>1, <3>2 DEF OwedTotal, AheadTotal, StatedTotal
  <2>8. BillsOk(bills, pays)
    BY <2>3, <2>5, NoBillFields DEF BillsOk
  <2>9. PaysOk(bills, pays)
    BY <2>2 DEF PaysOk
  <2>10. ScreensOk(bills, pays)
    BY <2>5, <2>6, <2>7 DEF ScreensOk
  <2>11. JournalOk(bills, pays, journal)
    <3>1. IsFiniteSet({})
      BY FS_EmptySet
    <3> QED
      BY <1>1, <2>5, <2>6, <2>7, <3>1 DEF JournalOk
  <2>12. OrdersOk(bills, orders)
    BY <2>2, <2>3, NoBillFields DEF OrdersOk
  <2> QED
    BY <2>1, <2>8, <2>9, <2>10, <2>11, <2>12 DEF BooksInv
<1> QED
  BY <1>2, <1>3, <1>4, <1>5 DEF ReceivablesInv

\* A request that is new.
LEMMA StartKeeps ==
  ASSUME ReceivablesInv, NEW v \in Worker, NEW req \in Request, NEW pc, NEW b \in Nat,
         Start(v, req, pc, b),
         \/ req.kind = "sale" /\ pc = "number" /\ Fresh(b)
         \/ req.kind = "order" /\ pc = "check" /\ b = 0
         \/ req.kind = "dispatch" /\ pc = "read" /\ Fresh(b) /\ req.order \in DOMAIN orders
         \/ req.kind = "collect" /\ pc = "look" /\ b = 0
  PROVE  ReceivablesInv'
<1> DEFINE nt == [Idle EXCEPT !.pc = pc, !.req = req, !.bill = b]
<1>1. /\ tx' = [tx EXCEPT ![v] = nt] /\ UNCHANGED Books /\ UNCHANGED Locks
  BY DEF Start
<1>2. req \in Requests /\ (req.kind \in {"order", "collect"} => req.customer # WalkIn)
  BY ReceivablesAssumption
<1>3. /\ nt \in Tx /\ nt.pc = pc /\ nt.req = req /\ nt.bill = b /\ nt.looked = {}
      /\ nt.take = Nothing
  <2>1. Nothing \in Amounts
    BY DEF Nothing, Amounts
  <2> QED
    BY <1>2, <2>1 DEF Tx, Idle
<1>4. Fresh(b) => /\ b \in BillId /\ bills[b].status = "none"
                  /\ \A w \in Worker : b # tx[w].bill
  <2> SUFFICES ASSUME Fresh(b) PROVE /\ b \in BillId /\ bills[b].status = "none"
                                     /\ \A w \in Worker : b # tx[w].bill
    OBVIOUS
  <2>1. b \in BillId /\ b \notin Ages
    BY Finite DEF Fresh
  <2> QED
    BY <2>1 DEF Ages, Written
<1> HIDE DEF nt
<1>5. req.kind \in {"order", "collect"} => req.customer \in Customer
  BY <1>2 DEF Requests
<1>6. Working(v, nt, bills, orders, counter', lock')
  <2>1. Shape(nt, bills, orders)
    BY <1>3, <1>4, <1>5 DEF Shape, Billing, Ready
  <2>2. Numbered(v, nt, counter') /\ OnCredit(nt, bills)
    BY <1>3 DEF Numbered, OnCredit, Billing, Ready
  <2>3. Allocating(v, nt, bills, lock')
    BY <1>3 DEF Allocating
  <2> QED
    BY <2>1, <2>2, <2>3 DEF Working
<1>7. HoldersOk' /\ lock' = lock /\ counter' = counter
  BY <1>1 DEF ReceivablesInv, HoldersOk, Books, Locks
<1>8. \A w \in Worker \ {v} : nt.bill # 0 => nt.bill # tx[w].bill
  BY <1>3, <1>4
<1> QED
  BY <1>1, <1>3, <1>6, <1>7, <1>8, QuietStep

LEMMA BeginKeeps ==
  ASSUME ReceivablesInv, NEW v \in Worker, Begin(v) PROVE ReceivablesInv'
<1>1. PICK req \in Request :
        \/ req.kind = "sale" /\ \E b \in BillId : Fresh(b) /\ Start(v, req, "number", b)
        \/ req.kind = "order" /\ Start(v, req, "check", 0)
        \/ /\ req.kind = "dispatch" /\ req.order \in DOMAIN orders
           /\ \E b \in BillId : Fresh(b) /\ Start(v, req, "read", b)
        \/ req.kind = "collect" /\ Start(v, req, "look", 0)
  BY DEF Begin
<1>2. BillId \subseteq Nat /\ 0 \in Nat
  BY Finite
<1>3. CASE req.kind = "sale" /\ \E b \in BillId : Fresh(b) /\ Start(v, req, "number", b)
  BY <1>2, <1>3, StartKeeps
<1>4. CASE req.kind = "order" /\ Start(v, req, "check", 0)
  BY <1>2, <1>4, StartKeeps
<1>5. CASE /\ req.kind = "dispatch" /\ req.order \in DOMAIN orders
           /\ \E b \in BillId : Fresh(b) /\ Start(v, req, "read", b)
  BY <1>2, <1>5, StartKeeps
<1>6. CASE req.kind = "collect" /\ Start(v, req, "look", 0)
  BY <1>2, <1>6, StartKeeps
<1> QED
  BY <1>1, <1>3, <1>4, <1>5, <1>6

-----------------------------------------------------------------------------
(* The sums of the properties are the figures of the rows.                 *)

\* A sum over some may be taken over all, if the others say nothing.
LEMMA SumOverAll ==
  ASSUME NEW U, IsFiniteSet(U), NEW S \in SUBSET U, NEW f, NEW h,
         \A x \in S : f[x] \in Int /\ h[x] = f[x], \A x \in U \ S : h[x] = 0
  PROVE  SumFunctionOnSet(f, S) = SumFunctionOnSet(h, U)
<1>1. IsFiniteSet(S)
  BY FS_Subset
<1>2. SumFunctionOnSet(f, S) = SumFunctionOnSet(h, S)
  BY <1>1, SumSame
<1>3. SumFunctionOnSet(h, U) = SumFunctionOnSet(h, S)
  <2>1. \A x \in S : h[x] \in Int
    OBVIOUS
  <2> QED
    BY ONLY <2>1, IsFiniteSet(U), S \in SUBSET U, \A x \in U \ S : h[x] = 0, SumPart
<1> QED
  BY <1>2, <1>3

\* What is due on an invoice of the books.
LEMMA DueFacts ==
  ASSUME ReceivablesInv
  PROVE  \A b \in BillId :
           /\ Due(b) \in Nat /\ Due(b) = Cost(bills[b]) - bills[b].paid
           /\ Cost(bills[b]) \in Nat /\ bills[b].paid \in Nat /\ bills[b].tax \in Nat
           /\ bills[b].status = "paid" => Due(b) = 0
           /\ bills[b].status = "none" => /\ Due(b) = 0 /\ Cost(bills[b]) = 0
                                          /\ bills[b].tax = 0 /\ bills[b].customer = WalkIn
<1> SUFFICES ASSUME NEW b \in BillId
             PROVE  /\ Due(b) \in Nat /\ Due(b) = Cost(bills[b]) - bills[b].paid
                    /\ Cost(bills[b]) \in Nat /\ bills[b].paid \in Nat /\ bills[b].tax \in Nat
                    /\ bills[b].status = "paid" => Due(b) = 0
                    /\ bills[b].status = "none" => /\ Due(b) = 0 /\ Cost(bills[b]) = 0
                                                   /\ bills[b].tax = 0
                                                   /\ bills[b].customer = WalkIn
  OBVIOUS
<1>1. /\ Cost(bills[b]) \in Nat /\ bills[b].paid \in Nat /\ bills[b].tax \in Nat
  BY BooksTyped, BillFields
<1>2. /\ bills[b].status = "none" => bills[b] = NoBill
      /\ bills[b].status # "none" => bills[b].status = StatusOf(bills[b].paid, Cost(bills[b]))
      /\ bills[b].paid <= Cost(bills[b])
  BY DEF ReceivablesInv, BooksInv, BillsOk
<1>3. Due(b) \in Nat /\ Due(b) = Cost(bills[b]) - bills[b].paid
  BY <1>1, <1>2 DEF Due
<1>4. bills[b].status = "paid" => Due(b) = 0
  <2>1. SUFFICES ASSUME bills[b].status = "paid" PROVE Due(b) = 0
    OBVIOUS
  <2>2. StatusOf(bills[b].paid, Cost(bills[b])) = "paid"
    BY <1>2, <2>1
  <2>3. bills[b].paid >= Cost(bills[b])
    BY <2>2 DEF StatusOf
  <2> QED
    BY <1>1, <1>2, <1>3, <2>3
<1>5. bills[b].status = "none" => /\ Due(b) = 0 /\ Cost(bills[b]) = 0 /\ bills[b].tax = 0
                                  /\ bills[b].customer = WalkIn
  BY <1>2, <1>3, NoBillFields
<1> QED
  BY <1>1, <1>3, <1>4, <1>5

LEMMA OutstandingIs ==
  ASSUME ReceivablesInv, NEW c PROVE Outstanding(c) = OwedBy(bills, c)
<1> DEFINE S == Open(c)
           f == [b \in S |-> Due(b)]
           h == [b \in BillId |-> IF bills[b].customer = c THEN Cost(bills[b]) - bills[b].paid
                                                           ELSE 0]
<1>1. IsFiniteSet(BillId) /\ S \in SUBSET BillId
  BY Finite DEF Open, BillsOf, Written
<1>2. \A b \in S : f[b] \in Int /\ h[b] = f[b]
  BY DueFacts DEF Open, BillsOf, Written
<1>3. \A b \in BillId \ S : h[b] = 0
  BY DueFacts DEF Open, BillsOf, Written
<1>4. MapThenSumSet(Due, S) = SumFunctionOnSet(f, S)
  <2> HIDE DEF S
  <2> QED
    BY Zenon DEF f, MapThenSumSet, MapThenFoldSet, SumFunctionOnSet, FoldFunctionOnSet
<1>5. Outstanding(c) = MapThenSumSet(Due, S)
  BY DEF Outstanding
<1>6. OwedBy(bills, c) = SumFunctionOnSet(h, BillId)
  BY DEF OwedBy
<1> HIDE DEF S, f, h
<1>7. SumFunctionOnSet(f, S) = SumFunctionOnSet(h, BillId)
  BY ONLY <1>1, <1>2, <1>3, SumOverAll
<1> QED
  BY <1>4, <1>5, <1>6, <1>7

LEMMA BilledIs ==
  ASSUME ReceivablesInv, NEW c \in Customer
  PROVE  Costing(BillsOf(c)) = CostOf(bills, c)
<1> DEFINE S == BillsOf(c)
           f == [b \in S |-> Cost(bills[b])]
           h == [b \in BillId |-> IF bills[b].customer = c THEN Cost(bills[b]) ELSE 0]
<1>1. IsFiniteSet(BillId) /\ S \in SUBSET BillId
  BY Finite DEF BillsOf, Written
<1>2. \A b \in S : f[b] \in Int /\ h[b] = f[b]
  BY DueFacts DEF BillsOf, Written
<1>3. \A b \in BillId \ S : h[b] = 0
  BY DueFacts DEF BillsOf, Written
<1>4. Costing(S) = SumFunctionOnSet(f, S)
  <2> HIDE DEF S
  <2> QED
    BY Zenon DEF f, Costing, MapThenSumSet, MapThenFoldSet, SumFunctionOnSet, FoldFunctionOnSet
<1>5. CostOf(bills, c) = SumFunctionOnSet(h, BillId)
  BY DEF CostOf
<1> HIDE DEF f, h
<1>6. SumFunctionOnSet(f, S) = SumFunctionOnSet(h, BillId)
  <2> HIDE DEF S
  <2> QED
    BY ONLY <1>1, <1>2, <1>3, SumOverAll
<1> QED
  BY <1>4, <1>5, <1>6

LEMMA SalesAre ==
  ASSUME ReceivablesInv, NEW ch PROVE SalesOf(ch) = SoldOver(bills, ch)
<1> DEFINE S == {b \in Written : bills[b].channel = ch}
           f == [b \in S |-> Cost(bills[b])]
           h == [b \in BillId |-> IF bills[b].channel = ch THEN Cost(bills[b]) ELSE 0]
<1>1. IsFiniteSet(BillId) /\ S \in SUBSET BillId
  BY Finite DEF Written
<1>2. \A b \in S : f[b] \in Int /\ h[b] = f[b]
  BY DueFacts DEF Written
<1>3. \A b \in BillId \ S : h[b] = 0
  BY DueFacts DEF Written
<1>4. Costing(S) = SumFunctionOnSet(f, S)
  <2> HIDE DEF S
  <2> QED
    BY Zenon DEF f, Costing, MapThenSumSet, MapThenFoldSet, SumFunctionOnSet, FoldFunctionOnSet
<1>5. SoldOver(bills, ch) = SumFunctionOnSet(h, BillId) /\ SalesOf(ch) = Costing(S)
  BY DEF SoldOver, SalesOf
<1> HIDE DEF f, h, S
<1>6. SumFunctionOnSet(f, S) = SumFunctionOnSet(h, BillId)
  BY ONLY <1>1, <1>2, <1>3, SumOverAll
<1> QED
  BY <1>4, <1>5, <1>6

LEMMA TaxIs ==
  ASSUME ReceivablesInv PROVE GstSummary = TaxAll(bills)
<1> DEFINE S == Written
           f == [b \in S |-> bills[b].tax]
           h == [b \in BillId |-> bills[b].tax]
<1>1. IsFiniteSet(BillId) /\ S \in SUBSET BillId
  BY Finite DEF Written
<1>2. \A b \in S : f[b] \in Int /\ h[b] = f[b]
  BY DueFacts DEF Written
<1>3. \A b \in BillId \ S : h[b] = 0
  BY DueFacts DEF Written
<1>4. MapThenSumSet(LAMBDA b : bills[b].tax, S) = SumFunctionOnSet(f, S)
  <2> HIDE DEF S
  <2> QED
    BY Zenon DEF f, MapThenSumSet, MapThenFoldSet, SumFunctionOnSet, FoldFunctionOnSet
<1>5. TaxAll(bills) = SumFunctionOnSet(h, BillId)
      /\ GstSummary = MapThenSumSet(LAMBDA b : bills[b].tax, S)
  BY DEF TaxAll, GstSummary
<1> HIDE DEF f, h, S
<1>6. SumFunctionOnSet(f, S) = SumFunctionOnSet(h, BillId)
  BY ONLY <1>1, <1>2, <1>3, SumOverAll
<1> QED
  BY <1>4, <1>5, <1>6

LEMMA ReceivablesAre ==
  ASSUME ReceivablesInv PROVE DashboardReceivables = OwedAll(bills)
<1> DEFINE S == {b \in Written : bills[b].status # "paid"}
           f == [b \in S |-> Due(b)]
           h == [b \in BillId |-> Cost(bills[b]) - bills[b].paid]
<1>1. IsFiniteSet(BillId) /\ S \in SUBSET BillId
  BY Finite DEF Written
<1>2. \A b \in S : f[b] \in Int /\ h[b] = f[b]
  BY DueFacts DEF Written
<1>3. \A b \in BillId \ S : h[b] = 0
  BY DueFacts DEF Written
<1>4. MapThenSumSet(Due, S) = SumFunctionOnSet(f, S)
  <2> HIDE DEF S
  <2> QED
    BY Zenon DEF f, MapThenSumSet, MapThenFoldSet, SumFunctionOnSet, FoldFunctionOnSet
<1>5. /\ OwedAll(bills) = SumFunctionOnSet(h, BillId)
      /\ DashboardReceivables = MapThenSumSet(Due, S)
  BY DEF OwedAll, DashboardReceivables
<1> HIDE DEF f, h, S
<1>6. SumFunctionOnSet(f, S) = SumFunctionOnSet(h, BillId)
  BY ONLY <1>1, <1>2, <1>3, SumOverAll
<1> QED
  BY <1>4, <1>5, <1>6

-----------------------------------------------------------------------------
LEMMA AllocatedIs ==
  ASSUME NEW p PROVE Allocated(p) = Given(p)
<1> DEFINE S == BillId
           f == p.to
<1>1. Allocated(p) = MapThenSumSet(LAMBDA b : f[b], S) /\ Given(p) = SumFunctionOnSet(f, S)
  BY DEF Allocated, Given
<1> HIDE DEF S, f
<1>2. MapThenSumSet(LAMBDA b : f[b], S) = SumFunctionOnSet(f, S)
  BY Zenon DEF MapThenSumSet, MapThenFoldSet, SumFunctionOnSet, FoldFunctionOnSet
<1> QED
  BY <1>1, <1>2

\* The sum of what some payments received.
LEMMA PayingIs ==
  ASSUME ReceivablesInv, NEW S \in SUBSET DOMAIN pays, NEW h,
         \A i \in S : h[i] = pays[i].money, \A i \in DOMAIN pays \ S : h[i] = 0
  PROVE  Paying(S) = SumFunctionOnSet(h, DOMAIN pays)
<1> DEFINE f == [i \in S |-> pays[i].money]
<1>1. /\ IsFiniteSet(DOMAIN pays) /\ \A i \in DOMAIN pays : pays[i].money \in Int
  <2>1. pays \in PayRows
    BY BooksTyped
  <2> QED
    BY <2>1, PaySums, PaymentFields
<1>2. \A i \in S : f[i] \in Int /\ h[i] = f[i]
  BY <1>1
<1>3. Paying(S) = SumFunctionOnSet(f, S)
  BY ONLY Zenon DEF Paying, f, MapThenSumSet, MapThenFoldSet, SumFunctionOnSet, FoldFunctionOnSet
<1> HIDE DEF f
<1>4. SumFunctionOnSet(f, S) = SumFunctionOnSet(h, DOMAIN pays)
  <2>1. S \in SUBSET DOMAIN pays /\ \A i \in DOMAIN pays \ S : h[i] = 0
    OBVIOUS
  <2> QED
    BY ONLY <1>1, <1>2, <2>1, SumOverAll
<1> QED
  BY <1>3, <1>4

LEMMA ReceivedAre ==
  ASSUME ReceivablesInv
  PROVE  /\ \A c : Paying(PaysOf(c)) = PaidBy(pays, c)
         /\ \A a : Received(a) = PaidInto(pays, a)
         /\ CollectedToday = PaidAll(pays)
<1>1. ASSUME NEW c PROVE Paying(PaysOf(c)) = PaidBy(pays, c)
  <2> DEFINE S == PaysOf(c)
             h == [i \in DOMAIN pays |-> IF pays[i].customer = c THEN pays[i].money ELSE 0]
  <2>1. /\ S \in SUBSET DOMAIN pays /\ \A i \in S : h[i] = pays[i].money
        /\ \A i \in DOMAIN pays \ S : h[i] = 0
    BY DEF PaysOf
  <2>2. PaidBy(pays, c) = SumFunctionOnSet(h, DOMAIN pays)
    BY DEF PaidBy
  <2> HIDE DEF S, h
  <2>3. Paying(S) = SumFunctionOnSet(h, DOMAIN pays)
    BY <2>1, PayingIs
  <2> QED
    BY <2>2, <2>3 DEF S
<1>2. ASSUME NEW a PROVE Received(a) = PaidInto(pays, a)
  <2> DEFINE S == {i \in DOMAIN pays : AccountOf(pays[i].method) = a}
             h == [i \in DOMAIN pays |-> IF AccountOf(pays[i].method) = a THEN pays[i].money
                                                                         ELSE 0]
  <2>1. /\ S \in SUBSET DOMAIN pays /\ \A i \in S : h[i] = pays[i].money
        /\ \A i \in DOMAIN pays \ S : h[i] = 0
    OBVIOUS
  <2>2. PaidInto(pays, a) = SumFunctionOnSet(h, DOMAIN pays) /\ Received(a) = Paying(S)
    BY DEF PaidInto, Received
  <2> HIDE DEF S, h
  <2>3. Paying(S) = SumFunctionOnSet(h, DOMAIN pays)
    BY <2>1, PayingIs
  <2> QED
    BY <2>2, <2>3
<1>3. CollectedToday = PaidAll(pays)
  <2> DEFINE S == DOMAIN pays
             h == [i \in DOMAIN pays |-> pays[i].money]
  <2>1. /\ S \in SUBSET DOMAIN pays /\ \A i \in S : h[i] = pays[i].money
        /\ \A i \in DOMAIN pays \ S : h[i] = 0
    OBVIOUS
  <2>2. PaidAll(pays) = SumFunctionOnSet(h, DOMAIN pays) /\ CollectedToday = Paying(S)
    BY DEF PaidAll, CollectedToday
  <2> HIDE DEF S, h
  <2>3. Paying(S) = SumFunctionOnSet(h, DOMAIN pays)
    BY <2>1, PayingIs
  <2> QED
    BY <2>2, <2>3
<1> QED
  BY <1>1, <1>2, <1>3

LEMMA AheadIs ==
  ASSUME ReceivablesInv, NEW c PROVE Advance(c) = AheadOf(pays, c)
<1> DEFINE S == PaysOf(c)
           f == [i \in S |-> pays[i].money - Allocated(pays[i])]
           h == [i \in DOMAIN pays |-> IF pays[i].customer = c
                                       THEN pays[i].money - Given(pays[i]) ELSE 0]
<1>1. /\ IsFiniteSet(DOMAIN pays) /\ S \in SUBSET DOMAIN pays
      /\ \A i \in DOMAIN pays : pays[i].money \in Int /\ Given(pays[i]) \in Int
  <2>1. pays \in PayRows
    BY BooksTyped
  <2> QED
    BY <2>1, PaySums, PaymentFields DEF PaysOf
<1>2. \A i \in S : f[i] \in Int /\ h[i] = f[i]
  BY <1>1, AllocatedIs DEF PaysOf
<1>3. \A i \in DOMAIN pays \ S : h[i] = 0
  BY DEF PaysOf
<1>4. MapThenSumSet(LAMBDA i : pays[i].money - Allocated(pays[i]), S) = SumFunctionOnSet(f, S)
  <2> HIDE DEF S
  <2> QED
    BY Zenon DEF f, MapThenSumSet, MapThenFoldSet, SumFunctionOnSet, FoldFunctionOnSet
<1>5. /\ AheadOf(pays, c) = SumFunctionOnSet(h, DOMAIN pays)
      /\ Advance(c) = MapThenSumSet(LAMBDA i : pays[i].money - Allocated(pays[i]), S)
  BY DEF AheadOf, Advance
<1> HIDE DEF f, h, S
<1>6. SumFunctionOnSet(f, S) = SumFunctionOnSet(h, DOMAIN pays)
  BY ONLY <1>1, <1>2, <1>3, SumOverAll
<1> QED
  BY <1>4, <1>5, <1>6

LEMMA PaymentsOnAre ==
  ASSUME NEW b PROVE PaymentsOn(b) = PaidOn(pays, b)
<1> DEFINE S == DOMAIN pays
           f == [i \in S |-> pays[i].to[b]]
<1>1. PaymentsOn(b) = MapThenSumSet(LAMBDA i : pays[i].to[b], S)
      /\ PaidOn(pays, b) = SumFunctionOnSet(f, S)
  BY DEF PaymentsOn, PaidOn
<1> HIDE DEF S
<1>2. MapThenSumSet(LAMBDA i : pays[i].to[b], S) = SumFunctionOnSet(f, S)
  BY Zenon DEF f, MapThenSumSet, MapThenFoldSet, SumFunctionOnSet, FoldFunctionOnSet
<1> QED
  BY <1>1, <1>2

LEMMA BalanceIs ==
  ASSUME NEW a PROVE Balance(a) = Posted(journal, a)
<1> DEFINE S == journal
           f == [e \in S |-> e.lines[a]]
<1>1. Balance(a) = MapThenSumSet(LAMBDA e : e.lines[a], S) /\ Posted(journal, a) = SumFunctionOnSet(f, S)
  BY DEF Balance, Posted
<1> HIDE DEF S
<1>2. MapThenSumSet(LAMBDA e : e.lines[a], S) = SumFunctionOnSet(f, S)
  BY Zenon DEF f, MapThenSumSet, MapThenFoldSet, SumFunctionOnSet, FoldFunctionOnSet
<1> QED
  BY <1>1, <1>2

LEMMA BalancedIs ==
  ASSUME NEW e PROVE Balanced(e) <=> SumFunctionOnSet(e, Account) = 0
<1> DEFINE S == Account
<1>1. Balanced(e) <=> MapThenSumSet(LAMBDA a : e[a], S) = 0
  BY DEF Balanced
<1> HIDE DEF S
<1>2. MapThenSumSet(LAMBDA a : e[a], S) = SumFunctionOnSet(e, S)
  BY Zenon DEF MapThenSumSet, MapThenFoldSet, SumFunctionOnSet, FoldFunctionOnSet
<1> QED
  BY <1>1, <1>2 DEF S

\* The sums over all customers.
LEMMA TotalsAre ==
  ASSUME ReceivablesInv
  PROVE  /\ MapThenSumSet(Outstanding, Customer) = OwedTotal(bills)
         /\ MapThenSumSet(Advance, Customer) = AheadTotal(pays)
         /\ MapThenSumSet(Statement, Customer) = StatedTotal(bills, pays)
<1>1. IsFiniteSet(Customer)
  BY Finite
<1>2. /\ \A c \in Customer : Outstanding(c) = OwedBy(bills, c) /\ Outstanding(c) \in Int
      /\ \A c \in Customer : Advance(c) = AheadOf(pays, c) /\ Advance(c) \in Int
      /\ \A c \in Customer : /\ Statement(c) = CostOf(bills, c) - PaidBy(pays, c)
                             /\ Statement(c) \in Int
  <2>1. bills \in Rows /\ pays \in PayRows
    BY BooksTyped
  <2> QED
    BY <2>1, OutstandingIs, AheadIs, BilledIs, ReceivedAre, BillSums, PaySums DEF Statement
<1>3. MapThenSumSet(Outstanding, Customer) = OwedTotal(bills)
  <2> DEFINE f == [c \in Customer |-> Outstanding(c)]
             h == [c \in Customer |-> OwedBy(bills, c)]
  <2>1. MapThenSumSet(Outstanding, Customer) = SumFunctionOnSet(f, Customer)
    BY Zenon DEF f, MapThenSumSet, MapThenFoldSet, SumFunctionOnSet, FoldFunctionOnSet
  <2>2. \A c \in Customer : f[c] \in Int /\ f[c] = h[c]
    BY <1>2
  <2>3. OwedTotal(bills) = SumFunctionOnSet(h, Customer)
    BY DEF OwedTotal
  <2> HIDE DEF f, h
  <2>4. SumFunctionOnSet(f, Customer) = SumFunctionOnSet(h, Customer)
    BY ONLY <1>1, <2>2, SumSame
  <2> QED
    BY <2>1, <2>3, <2>4
<1>4. MapThenSumSet(Advance, Customer) = AheadTotal(pays)
  <2> DEFINE f == [c \in Customer |-> Advance(c)]
             h == [c \in Customer |-> AheadOf(pays, c)]
  <2>1. MapThenSumSet(Advance, Customer) = SumFunctionOnSet(f, Customer)
    BY Zenon DEF f, MapThenSumSet, MapThenFoldSet, SumFunctionOnSet, FoldFunctionOnSet
  <2>2. \A c \in Customer : f[c] \in Int /\ f[c] = h[c]
    BY <1>2
  <2>3. AheadTotal(pays) = SumFunctionOnSet(h, Customer)
    BY DEF AheadTotal
  <2> HIDE DEF f, h
  <2>4. SumFunctionOnSet(f, Customer) = SumFunctionOnSet(h, Customer)
    BY ONLY <1>1, <2>2, SumSame
  <2> QED
    BY <2>1, <2>3, <2>4
<1>5. MapThenSumSet(Statement, Customer) = StatedTotal(bills, pays)
  <2> DEFINE f == [c \in Customer |-> Statement(c)]
             h == [c \in Customer |-> CostOf(bills, c) - PaidBy(pays, c)]
  <2>1. MapThenSumSet(Statement, Customer) = SumFunctionOnSet(f, Customer)
    BY Zenon DEF f, MapThenSumSet, MapThenFoldSet, SumFunctionOnSet, FoldFunctionOnSet
  <2>2. \A c \in Customer : f[c] \in Int /\ f[c] = h[c]
    BY <1>2
  <2>3. StatedTotal(bills, pays) = SumFunctionOnSet(h, Customer)
    BY DEF StatedTotal
  <2> HIDE DEF f, h
  <2>4. SumFunctionOnSet(f, Customer) = SumFunctionOnSet(h, Customer)
    BY ONLY <1>1, <2>2, SumSame
  <2> QED
    BY <2>1, <2>3, <2>4
<1> QED
  BY <1>3, <1>4, <1>5

-----------------------------------------------------------------------------
(* The remaining steps on the way.                                         *)

\* A worker's own transaction.
LEMMA OwnTx ==
  ASSUME ReceivablesInv, NEW v \in Worker
  PROVE  /\ tx[v] \in Tx /\ Shape(tx[v], bills, orders) /\ Numbered(v, tx[v], counter)
         /\ Allocating(v, tx[v], bills, lock) /\ OnCredit(tx[v], bills)
         /\ \A w \in Worker \ {v} : tx[v].bill # 0 => tx[v].bill # tx[w].bill
         /\ counter \in [Branch -> Worker \cup {NoOne}]
         /\ lock \in [BillId -> Worker \cup {NoOne}]
         /\ v # NoOne
BY ReceivablesAssumption DEF ReceivablesInv, Working, Apart, HoldersOk

\* A step of v that only moves it on.
LEMMA MoveKeeps ==
  ASSUME ReceivablesInv, NEW v \in Worker, NEW pc \in {"post", "open", "commit"},
         Move(v, pc), UNCHANGED Books, HoldersOk', lock' = lock, counter' = counter,
         tx[v].pc # "idle", tx[v].pc # "look", tx[v].pc # "read",
         tx[v].req.kind = "sale" => /\ pc \in Ready
                                    /\ Unpaid(tx[v].req) >= 0
                                    /\ tx[v].req.customer = WalkIn => Unpaid(tx[v].req) = 0,
         tx[v].req.kind = "order" => pc = "commit",
         tx[v].req.kind = "collect" => pc # "post" /\ tx[v].left = {},
         tx[v].req.kind \in Billing => counter[tx[v].req.branch] = v,
         tx[v].req.kind = "sale" /\ tx[v].req.customer \in Customer /\ Unpaid(tx[v].req) > 0
           /\ Limit[tx[v].req.customer] > 0
           /\ (\A b \in BillId :
                 bills[b].status # "none" /\ bills[b].customer = tx[v].req.customer =>
                 bills[b].branch = tx[v].req.branch)
           => OwedBy(bills, tx[v].req.customer) + Unpaid(tx[v].req) <= Limit[tx[v].req.customer]
  PROVE  ReceivablesInv'
<1> DEFINE t == tx[v]
           nt == [t EXCEPT !.pc = pc]
<1>1. tx' = [tx EXCEPT ![v] = nt]
  BY DEF Move
<1>2. t \in Tx /\ Shape(t, bills, orders) /\ Allocating(v, t, bills, lock)
      /\ \A w \in Worker \ {v} : t.bill # 0 => t.bill # tx[w].bill
  BY OwnTx
<1>3. /\ nt \in Tx /\ nt.pc = pc /\ nt.req = t.req /\ nt.bill = t.bill /\ nt.looked = t.looked
      /\ nt.left = t.left /\ nt.take = t.take /\ nt.rest = t.rest
  BY <1>2 DEF Tx
<1> HIDE DEF nt
<1>4. Shape(nt, bills, orders)
  BY <1>2, <1>3 DEF Shape, Ready, Billing
<1>5. Numbered(v, nt, counter')
  BY <1>3 DEF Numbered
<1>6. Allocating(v, nt, bills, lock')
  BY <1>2, <1>3 DEF Allocating
<1>7. OnCredit(nt, bills)
  BY <1>3 DEF OnCredit
<1>8. Working(v, nt, bills, orders, counter', lock')
  BY <1>4, <1>5, <1>6, <1>7 DEF Working
<1> QED
  <2>1. nt \in Tx
    BY <1>3
  <2>2. \A w \in Worker \ {v} : nt.bill # 0 => nt.bill # tx[w].bill
    BY <1>2, <1>3
  <2>3. \A w \in Worker \ {v} :
          /\ \A b \in BillId : lock[b] = w => lock'[b] = w
          /\ \A br \in Branch : counter[br] = w => counter'[br] = w
    OBVIOUS
  <2>4. ReceivablesInv /\ UNCHANGED Books /\ HoldersOk'
    OBVIOUS
  <2> QED
    BY ONLY <1>1, <1>8, <2>1, <2>2, <2>3, <2>4, QuietStep

LEMMA ReadOrderKeeps ==
  ASSUME ReceivablesInv, NEW v \in Worker, ReadOrder(v) PROVE ReceivablesInv'
<1> DEFINE t == tx[v]
           o == orders[t.req.order]
           nr == [t.req EXCEPT !.customer = o.customer, !.branch = o.branch, !.net = o.net,
                               !.tax = o.tax, !.money = 0]
           nt == [t EXCEPT !.pc = "number", !.req = nr]
<1>1. t \in Tx /\ Shape(t, bills, orders) /\ tx \in [Worker -> Tx]
      /\ \A w \in Worker \ {v} : t.bill # 0 => t.bill # tx[w].bill
  BY OwnTx DEF ReceivablesInv
<1>2. /\ t.pc = "read" /\ UNCHANGED Books /\ UNCHANGED Locks
      /\ tx' = [tx EXCEPT ![v] = nt]
  BY <1>1 DEF ReadOrder, Dispatched, Req
<1>3. t.req.kind = "dispatch" /\ t.req.order \in DOMAIN orders
  BY <1>1, <1>2, TxFields DEF Shape, Ready
<1>4. o \in Order
  BY <1>3, BooksTyped
<1>5. nr \in Requests /\ nr.kind = "dispatch" /\ nr.customer \in Customer /\ nr.money = 0
      /\ nr.order = t.req.order
  <2>1. t.req \in Requests
    BY <1>1 DEF Tx
  <2>2. o.customer \in Customer /\ o.branch \in Branch /\ o.net \in Nat /\ o.tax \in Nat
    BY <1>4 DEF Order
  <2> HIDE DEF o, t
  <2> QED
    BY <1>3, <2>1, <2>2 DEF Requests
<1> HIDE DEF nr, o
<1>6. /\ nt \in Tx /\ nt.pc = "number" /\ nt.req = nr /\ nt.bill = t.bill /\ nt.looked = t.looked
  BY <1>1, <1>5 DEF Tx
<1> HIDE DEF nt
<1>7. Shape(nt, bills, orders)
  BY <1>1, <1>2, <1>3, <1>5, <1>6 DEF Shape, Ready, Billing
<1>8. Numbered(v, nt, counter') /\ Allocating(v, nt, bills, lock') /\ OnCredit(nt, bills)
  BY <1>5, <1>6 DEF Numbered, Ready, Allocating, OnCredit
<1>9. Working(v, nt, bills, orders, counter', lock')
  BY <1>7, <1>8 DEF Working
<1>10. HoldersOk' /\ lock' = lock /\ counter' = counter
  BY <1>2 DEF ReceivablesInv, HoldersOk, Books, Locks
<1>11. \A w \in Worker \ {v} : nt.bill # 0 => nt.bill # tx[w].bill
  BY <1>1, <1>6
<1>12. \A w \in Worker \ {v} :
         /\ \A b \in BillId : lock[b] = w => lock'[b] = w
         /\ \A br \in Branch : counter[br] = w => counter'[br] = w
  BY <1>10
<1>13. tx' = [tx EXCEPT ![v] = nt] /\ nt \in Tx /\ UNCHANGED Books
  BY <1>2, <1>6
<1> QED
  BY ONLY ReceivablesInv, v \in Worker, <1>9, <1>10, <1>11, <1>12, <1>13, QuietStep

LEMMA TakeNumberKeeps ==
  ASSUME ReceivablesInv, NEW v \in Worker, TakeNumber(v) PROVE ReceivablesInv'
<1> DEFINE t == tx[v]
           pc == IF t.req.kind = "sale" THEN "check" ELSE "post"
           nt == [t EXCEPT !.pc = pc]
<1>1. /\ t \in Tx /\ Shape(t, bills, orders)
      /\ \A w \in Worker \ {v} : t.bill # 0 => t.bill # tx[w].bill
      /\ counter \in [Branch -> Worker \cup {NoOne}] /\ v # NoOne
      /\ Allocating(v, t, bills, lock)
  BY OwnTx
<1>2. /\ t.pc = "number" /\ UNCHANGED Books /\ lock' = lock /\ opener' = opener
      /\ counter[t.req.branch] = NoOne
      /\ counter' = [counter EXCEPT ![t.req.branch] = v]
      /\ tx' = [tx EXCEPT ![v] = nt]
  BY DEF TakeNumber, Move, Req
<1>3. t.req.kind \in Billing /\ t.req.branch \in Branch
  BY <1>1, <1>2, TxFields DEF Shape, Ready, Billing
<1>4. /\ nt \in Tx /\ nt.pc = pc /\ nt.req = t.req /\ nt.bill = t.bill /\ nt.looked = t.looked
  BY <1>1 DEF Tx
<1>5. pc \in {"check", "post"}
  OBVIOUS
<1> HIDE DEF nt
<1>6. Shape(nt, bills, orders)
  BY <1>1, <1>2, <1>3, <1>4 DEF Shape, Ready, Billing
<1>7. Numbered(v, nt, counter')
  <2>1. counter'[t.req.branch] = v
    BY <1>1, <1>2, <1>3
  <2> QED
    BY <1>4, <2>1 DEF Numbered
<1>8. Allocating(v, nt, bills, lock') /\ OnCredit(nt, bills)
  BY <1>3, <1>4, <1>5 DEF Allocating, OnCredit, Ready, Billing
<1>9. Working(v, nt, bills, orders, counter', lock')
  BY <1>6, <1>7, <1>8 DEF Working
<1>10. HoldersOk'
  BY <1>1, <1>2, <1>3 DEF ReceivablesInv, HoldersOk, Books
<1>11. \A w \in Worker \ {v} :
         /\ \A b \in BillId : lock[b] = w => lock'[b] = w
         /\ \A br \in Branch : counter[br] = w => counter'[br] = w
  BY <1>1, <1>2, ReceivablesAssumption
<1>12. \A w \in Worker \ {v} : nt.bill # 0 => nt.bill # tx[w].bill
  BY <1>1, <1>4
<1>13. tx' = [tx EXCEPT ![v] = nt] /\ nt \in Tx /\ UNCHANGED Books
  BY <1>2, <1>4
<1> QED
  BY ONLY ReceivablesInv, v \in Worker, <1>9, <1>10, <1>11, <1>12, <1>13, QuietStep

LEMMA CheckKeeps ==
  ASSUME ReceivablesInv, NEW v \in Worker, Check(v) PROVE ReceivablesInv'
<1> DEFINE t == tx[v]
<1>1. t \in Tx /\ Shape(t, bills, orders) /\ Numbered(v, t, counter)
  BY OwnTx
<1>2. /\ t.pc = "check" /\ UNCHANGED Books /\ UNCHANGED Locks
      /\ \/ t.req.kind = "sale" /\ SaleAllowed(t.req) /\ Move(v, "post")
         \/ t.req.kind = "order" /\ Move(v, "commit")
  BY DEF Check, Req
<1>3. HoldersOk' /\ lock' = lock /\ counter' = counter
  BY <1>2 DEF ReceivablesInv, HoldersOk, Books, Locks
<1>4. CASE t.req.kind = "sale" /\ SaleAllowed(t.req) /\ Move(v, "post")
  <2>1. /\ Unpaid(t.req) >= 0 /\ (t.req.customer = WalkIn => Unpaid(t.req) = 0)
        /\ Unpaid(t.req) > 0 => \/ Limit[t.req.customer] = 0
                                \/ OwedBy(bills, t.req.customer) + Unpaid(t.req)
                                     <= Limit[t.req.customer]
    BY <1>4, OutstandingIs DEF SaleAllowed, WithinLimit
  <2>2. counter[t.req.branch] = v
    BY <1>1, <1>2, <1>4 DEF Numbered, Billing
  <2>3. t.req.customer \in Customer => Limit[t.req.customer] \in Nat
    BY ReceivablesAssumption
  <2> QED
    BY <1>2, <1>3, <1>4, <2>1, <2>2, <2>3, MoveKeeps DEF Ready
<1>5. CASE t.req.kind = "order" /\ Move(v, "commit")
  BY <1>2, <1>3, <1>5, MoveKeeps DEF Billing
<1> QED
  BY <1>2, <1>4, <1>5

-----------------------------------------------------------------------------
\* Among invoices there is an oldest.
LEMMA OldestThere ==
  ASSUME NEW S \in SUBSET BillId, S # {}
  PROVE  Oldest(S) \in S /\ \A a \in S : Oldest(S) <= a
<1>1. S \subseteq Nat
  BY Finite
<1>2. PICK n \in S : \A m \in S : ~ (<<m, n>> \in OpToRel(<, Nat))
  BY <1>1, WFMin, NatLessThanWellFounded
<1>3. ASSUME NEW m \in S PROVE n <= m
  <2>1. ~ (<<m, n>> \in OpToRel(<, Nat))
    BY <1>2
  <2>2. m \in Nat /\ n \in Nat
    BY <1>1
  <2>3. ~ (m < n)
    BY <2>1, <2>2 DEF OpToRel
  <2> QED
    BY <2>2, <2>3
<1> QED
  BY <1>3 DEF Oldest

\* One allocation: the least of what is due and what is left.
LEMMA ShareFacts ==
  ASSUME ReceivablesInv, NEW b \in BillId, NEW rest \in Nat
  PROVE  /\ Share(b, rest) \in Nat /\ rest - Share(b, rest) \in Nat
         /\ Share(b, rest) <= Cost(bills[b]) - bills[b].paid
         /\ Share(b, rest) = Cost(bills[b]) - bills[b].paid \/ Share(b, rest) = rest
<1> DEFINE d == Due(b)
<1>1. d \in Nat /\ d = Cost(bills[b]) - bills[b].paid
  BY DueFacts
<1>2. Share(b, rest) = IF d <= rest THEN d ELSE rest
  BY DEF Share, Least
<1> HIDE DEF d
<1>3. CASE d <= rest
  BY <1>1, <1>2, <1>3
<1>4. CASE ~(d <= rest)
  BY <1>1, <1>2, <1>4
<1> QED
  BY <1>3, <1>4

LEMMA LookKeeps ==
  ASSUME ReceivablesInv, NEW v \in Worker, Look(v) PROVE ReceivablesInv'
<1> DEFINE t == tx[v]
           open == Open(t.req.customer)
           nt == [t EXCEPT !.pc = "settle", !.looked = open, !.left = open, !.rest = t.req.money]
<1>1. /\ t \in Tx /\ Shape(t, bills, orders) /\ tx \in [Worker -> Tx]
      /\ Allocating(v, t, bills, lock)
      /\ \A w \in Worker \ {v} : t.bill # 0 => t.bill # tx[w].bill
  BY OwnTx DEF ReceivablesInv
<1>2. /\ t.pc = "look" /\ UNCHANGED Books /\ UNCHANGED Locks
      /\ tx' = [tx EXCEPT ![v] = nt]
  BY <1>1 DEF Look, Req
<1>3. t.req.kind = "collect" /\ t.take = Nothing /\ t.req.money \in Nat /\ t.bill = 0
      /\ t.req.customer \in Customer
  BY <1>1, <1>2, TxFields DEF Shape, Ready, Billing, Allocating
<1>4. /\ open \subseteq BillId
      /\ \A b \in open : bills[b].status # "none" /\ bills[b].customer = t.req.customer
  BY DEF Open, BillsOf, Written
<1> HIDE DEF open
<1>5. /\ nt \in Tx /\ nt.pc = "settle" /\ nt.req = t.req /\ nt.bill = t.bill /\ nt.looked = open
      /\ nt.left = open /\ nt.take = t.take /\ nt.rest = t.req.money
  BY <1>1, <1>3, <1>4 DEF Tx
<1> HIDE DEF nt
<1>6. Shape(nt, bills, orders)
  BY <1>1, <1>2, <1>3, <1>5 DEF Shape, Ready, Billing
<1>7. Numbered(v, nt, counter') /\ OnCredit(nt, bills)
  BY <1>3, <1>5 DEF Numbered, OnCredit, Ready, Billing
<1>8. Allocating(v, nt, bills, lock')
  <2>1. \A b \in BillId : nt.take[b] = 0
    BY <1>3, <1>5 DEF Nothing
  <2>2. SumFunctionOnSet(nt.take, BillId) = 0
    BY <2>1, Finite, SumZero
  <2>3. nt.rest + SumFunctionOnSet(nt.take, BillId) = nt.req.money
    BY <1>3, <1>5, <2>2
  <2> QED
    BY <1>4, <1>5, <2>1, <2>3 DEF Allocating
<1>9. Working(v, nt, bills, orders, counter', lock')
  BY <1>6, <1>7, <1>8 DEF Working
<1>10. HoldersOk' /\ lock' = lock /\ counter' = counter
  BY <1>2 DEF ReceivablesInv, HoldersOk, Books, Locks
<1>11. \A w \in Worker \ {v} : nt.bill # 0 => nt.bill # tx[w].bill
  BY <1>1, <1>5
<1>12. \A w \in Worker \ {v} :
         /\ \A b \in BillId : lock[b] = w => lock'[b] = w
         /\ \A br \in Branch : counter[br] = w => counter'[br] = w
  BY <1>10
<1>13. tx' = [tx EXCEPT ![v] = nt] /\ nt \in Tx /\ UNCHANGED Books
  BY <1>2, <1>5
<1> QED
  BY ONLY ReceivablesInv, v \in Worker, <1>9, <1>10, <1>11, <1>12, <1>13, QuietStep

LEMMA SettleKeeps ==
  ASSUME ReceivablesInv, NEW v \in Worker, Settle(v) PROVE ReceivablesInv'
<1> DEFINE t == tx[v]
           b0 == Oldest(t.left)
           s == Share(b0, t.rest)
           nt == [t EXCEPT !.left = @ \ {b0}, !.take[b0] = s, !.rest = @ - s]
<1>1. /\ t \in Tx /\ Shape(t, bills, orders) /\ tx \in [Worker -> Tx]
      /\ Allocating(v, t, bills, lock) /\ lock \in [BillId -> Worker \cup {NoOne}]
      /\ v # NoOne
      /\ \A w \in Worker \ {v} : t.bill # 0 => t.bill # tx[w].bill
  BY OwnTx DEF ReceivablesInv
<1>2. /\ t.pc = "settle" /\ t.left # {} /\ lock[b0] = NoOne /\ lock' = [lock EXCEPT ![b0] = v]
      /\ UNCHANGED Books /\ opener' = opener /\ counter' = counter
  BY DEF Settle
<1>3. tx' = [tx EXCEPT ![v] = nt]
  BY <1>1 DEF Settle
<1>4. t.req.kind = "collect" /\ t.bill = 0 /\ t.req.customer \in Customer
  BY <1>1, <1>2, TxFields DEF Shape, Ready, Billing
<1>5. /\ t.left \in SUBSET BillId /\ t.looked \in SUBSET BillId
      /\ t.take \in [BillId -> Nat] /\ t.rest \in Nat
  BY <1>1, TxFields DEF Amounts
<1>6. b0 \in t.left /\ b0 \in BillId /\ \A a \in t.left : b0 <= a
  BY <1>2, <1>5, OldestThere
<1>7. /\ s \in Nat /\ t.rest - s \in Nat /\ s <= Cost(bills[b0]) - bills[b0].paid
      /\ s = Cost(bills[b0]) - bills[b0].paid \/ s = t.rest
  BY <1>5, <1>6, ShareFacts
<1> HIDE DEF s, b0
<1>8. /\ nt \in Tx /\ nt.pc = "settle" /\ nt.req = t.req /\ nt.bill = t.bill
      /\ nt.looked = t.looked /\ nt.left = t.left \ {b0} /\ nt.rest = t.rest - s
      /\ nt.take = [t.take EXCEPT ![b0] = s]
  BY <1>1, <1>2, <1>5, <1>7 DEF Tx, Amounts
<1> HIDE DEF nt
<1>9. Shape(nt, bills, orders)
  BY <1>1, <1>2, <1>4, <1>8 DEF Shape, Ready, Billing
<1>10. Numbered(v, nt, counter') /\ OnCredit(nt, bills)
  BY <1>4, <1>8 DEF Numbered, OnCredit, Ready, Billing
<1>11. /\ t.left \subseteq t.looked
       /\ \A b \in t.looked : bills[b].status # "none" /\ bills[b].customer = t.req.customer
       /\ \A b \in BillId : t.take[b] # 0 => b \in t.looked \ t.left
       /\ \A b \in t.looked \ t.left :
            /\ lock[b] = v
            /\ t.take[b] <= Cost(bills[b]) - bills[b].paid
            /\ \/ t.take[b] = Cost(bills[b]) - bills[b].paid
               \/ t.rest = 0 /\ \A d \in t.looked : d > b => t.take[d] = 0
            /\ \A d \in t.left : b < d
       /\ t.rest + SumFunctionOnSet(t.take, BillId) = t.req.money
  BY <1>1, <1>2, <1>4 DEF Allocating
<1>12. /\ nt.take[b0] = s /\ t.take[b0] = 0
       /\ \A b \in BillId : b # b0 => nt.take[b] = t.take[b]
  BY <1>5, <1>6, <1>8, <1>11
<1>13. \A b \in BillId : lock'[b] = (IF b = b0 THEN v ELSE lock[b])
  BY <1>1, <1>2
<1>14. ASSUME NEW b \in nt.looked \ nt.left
       PROVE  /\ lock'[b] = v
              /\ nt.take[b] <= Cost(bills[b]) - bills[b].paid
              /\ \/ nt.take[b] = Cost(bills[b]) - bills[b].paid
                 \/ nt.rest = 0 /\ \A d \in nt.looked : d > b => nt.take[d] = 0
              /\ \A d \in nt.left : b < d
  <2>1. b \in BillId /\ (b = b0 \/ b \in t.looked \ t.left)
    BY <1>5, <1>8
  <2>2. CASE b = b0
    <3>1. \A d \in nt.left : b < d
      <4> SUFFICES ASSUME NEW d \in nt.left PROVE b0 < d
        BY <2>2
      <4>1. d \in t.left /\ d # b0 /\ b0 <= d /\ d \in Nat /\ b0 \in Nat
        BY <1>5, <1>6, <1>8, Finite
      <4> QED
        BY <4>1
    <3>2. s = t.rest => nt.rest = 0
      BY <1>5, <1>8
    <3>3. \A d \in nt.looked : d > b0 => nt.take[d] = 0
      <4> SUFFICES ASSUME NEW d \in nt.looked, d > b0, nt.take[d] # 0 PROVE FALSE
        OBVIOUS
      <4>1. d \in BillId /\ d \in Nat /\ b0 \in Nat
        BY <1>5, <1>6, <1>8, Finite
      <4>2. d # b0
        BY <4>1
      <4>3. t.take[d] # 0
        BY <1>12, <4>1, <4>2
      <4>4. d < b0
        BY <1>6, <1>11, <4>1, <4>3
      <4> QED
        BY <4>1, <4>4
    <3> QED
      BY <1>7, <1>12, <1>13, <2>1, <2>2, <3>1, <3>2, <3>3
  <2>3. CASE b \in t.looked \ t.left /\ b # b0
    <3>1. /\ lock[b] = v /\ t.take[b] <= Cost(bills[b]) - bills[b].paid
          /\ \/ t.take[b] = Cost(bills[b]) - bills[b].paid
             \/ t.rest = 0 /\ \A d \in t.looked : d > b => t.take[d] = 0
          /\ \A d \in t.left : b < d
      BY <1>11, <2>3
    <3>2. nt.take[b] = t.take[b] /\ lock'[b] = v
      BY <1>12, <1>13, <2>1, <2>3, <3>1
    <3>3. \A d \in nt.left : b < d
      BY <1>8, <3>1
    <3>4. CASE t.take[b] = Cost(bills[b]) - bills[b].paid
      BY <3>1, <3>2, <3>3, <3>4
    <3>5. CASE t.rest = 0 /\ \A d \in t.looked : d > b => t.take[d] = 0
      <4>1. s = 0
        BY <1>7, <3>5
      <4>2. nt.rest = 0
        BY <1>8, <3>5, <4>1
      <4>3. \A d \in nt.looked : d > b => nt.take[d] = 0
        BY <1>5, <1>8, <1>12, <3>5, <4>1
      <4> QED
        BY <3>1, <3>2, <3>3, <4>2, <4>3
    <3> QED
      BY <3>1, <3>4, <3>5
  <2> QED
    BY <2>1, <2>2, <2>3
<1>15. nt.rest + SumFunctionOnSet(nt.take, BillId) = nt.req.money
  <2> DEFINE f == t.take
             h == nt.take
  <2>1. /\ IsFiniteSet(BillId) /\ b0 \in BillId
        /\ \A b \in BillId : f[b] \in Int
        /\ \A b \in BillId : b # b0 => h[b] = f[b]
        /\ h[b0] \in Int
    BY <1>5, <1>6, <1>7, <1>12, Finite
  <2>6. h[b0] = s /\ f[b0] = 0 /\ s \in Int
    BY <1>7, <1>12
  <2>2. /\ t.rest \in Int /\ t.rest + SumFunctionOnSet(f, BillId) = t.req.money
        /\ nt.rest = t.rest - s /\ nt.req = t.req
    BY <1>5, <1>8, <1>11
  <2> HIDE DEF f, h
  <2>3. SumFunctionOnSet(h, BillId) = SumFunctionOnSet(f, BillId) + (h[b0] - f[b0])
    BY ONLY <2>1, SumChange
  <2>4. SumFunctionOnSet(f, BillId) \in Int
    BY ONLY <2>1, SumInt
  <2>5. nt.rest + SumFunctionOnSet(h, BillId) = nt.req.money
    BY <2>2, <2>3, <2>4, <2>6
  <2> QED
    BY <2>5 DEF h
<1>16. /\ \A b \in BillId : nt.take[b] # 0 => b \in nt.looked \ nt.left
       /\ nt.left \subseteq nt.looked
       /\ \A b \in nt.looked : bills[b].status # "none" /\ bills[b].customer = nt.req.customer
  BY <1>6, <1>8, <1>11, <1>12
<1>17. Allocating(v, nt, bills, lock')
  BY <1>8, <1>14, <1>15, <1>16 DEF Allocating
<1>18. Working(v, nt, bills, orders, counter', lock')
  BY <1>9, <1>10, <1>17 DEF Working
<1>19. HoldersOk'
  BY <1>1, <1>2, <1>6 DEF ReceivablesInv, HoldersOk, Books
<1>20. \A w \in Worker \ {v} : nt.bill # 0 => nt.bill # tx[w].bill
  BY <1>4, <1>8
<1>21. \A w \in Worker \ {v} :
         /\ \A b \in BillId : lock[b] = w => lock'[b] = w
         /\ \A br \in Branch : counter[br] = w => counter'[br] = w
  BY <1>2, <1>13, ReceivablesAssumption
<1>22. tx' = [tx EXCEPT ![v] = nt] /\ nt \in Tx /\ UNCHANGED Books
  BY <1>2, <1>3, <1>8
<1> QED
  BY ONLY ReceivablesInv, v \in Worker, <1>18, <1>19, <1>20, <1>21, <1>22, QuietStep

-----------------------------------------------------------------------------
\* What lets a request go on once it has passed its checks.
LEMMA ReadyFacts ==
  ASSUME ReceivablesInv, NEW v \in Worker,
         tx[v].pc \in Ready \/ (tx[v].pc = "settle" /\ tx[v].left = {}),
         tx[v].req.kind # "order"
  PROVE  LET t == tx[v] IN
         /\ t.req.kind \in {"sale", "dispatch", "collect"}
         /\ t.req.kind = "sale" => t.pc \in Ready /\ Unpaid(t.req) >= 0
                                   /\ (t.req.customer = WalkIn => Unpaid(t.req) = 0)
         /\ t.req.kind = "collect" => t.pc # "post" /\ t.left = {}
         /\ t.req.kind \in Billing => counter[t.req.branch] = v
         /\ t.req.kind = "sale" /\ t.req.customer \in Customer /\ Unpaid(t.req) > 0
              /\ Limit[t.req.customer] > 0
              /\ (\A b \in BillId :
                    bills[b].status # "none" /\ bills[b].customer = t.req.customer =>
                    bills[b].branch = t.req.branch)
              => OwedBy(bills, t.req.customer) + Unpaid(t.req) <= Limit[t.req.customer]
<1> DEFINE t == tx[v]
<1>1. /\ t \in Tx /\ Shape(t, bills, orders) /\ Numbered(v, t, counter)
      /\ Allocating(v, t, bills, lock) /\ OnCredit(t, bills)
  BY OwnTx
<1>2. t.req.kind \in {"sale", "order", "dispatch", "collect"}
  BY <1>1, TxFields
<1>3. t.req.kind = "sale" => t.pc \in Ready
  BY <1>1 DEF Shape, Ready
<1>4. t.req.kind = "collect" => t.pc # "post" /\ t.left = {}
  BY <1>1 DEF Shape, Ready, Allocating
<1>5. t.req.kind \in Billing => counter[t.req.branch] = v
  BY <1>1 DEF Shape, Numbered, Billing, Ready
<1>6. t.req.kind = "sale" => /\ Unpaid(t.req) >= 0
                             /\ t.req.customer = WalkIn => Unpaid(t.req) = 0
  BY <1>1, <1>3 DEF Shape, Ready
<1>7. t.req.kind = "sale" /\ t.req.customer \in Customer /\ Unpaid(t.req) > 0
         /\ Limit[t.req.customer] > 0
         /\ (\A b \in BillId :
               bills[b].status # "none" /\ bills[b].customer = t.req.customer =>
               bills[b].branch = t.req.branch)
         => OwedBy(bills, t.req.customer) + Unpaid(t.req) <= Limit[t.req.customer]
  BY <1>1, <1>3 DEF OnCredit
<1> QED
  BY <1>2, <1>3, <1>4, <1>5, <1>6, <1>7

LEMMA ReadChartKeeps ==
  ASSUME ReceivablesInv, NEW v \in Worker, ReadChart(v) PROVE ReceivablesInv'
<1> DEFINE t == tx[v]
           pc == IF ~Posts(t.req) \/ chart THEN "commit" ELSE "open"
<1>1. /\ t.pc = "post" \/ (t.pc = "settle" /\ t.left = {})
      /\ Move(v, pc) /\ UNCHANGED Books /\ UNCHANGED Locks
  BY DEF ReadChart, Req
<1>2. t.req.kind # "order"
  BY <1>1, OwnTx DEF Shape
<1>3. HoldersOk' /\ lock' = lock /\ counter' = counter
  BY <1>1 DEF ReceivablesInv, HoldersOk, Books, Locks
<1>4. pc \in {"open", "commit"}
  OBVIOUS
<1> HIDE DEF pc
<1>5. t.pc # "idle" /\ t.pc # "look" /\ t.pc # "read"
  BY <1>1
<1>6. t.pc \in Ready \/ (t.pc = "settle" /\ t.left = {})
  BY <1>1 DEF Ready
<1>7. /\ t.req.kind = "sale" => /\ pc \in Ready
                                /\ Unpaid(t.req) >= 0
                                /\ t.req.customer = WalkIn => Unpaid(t.req) = 0
      /\ t.req.kind = "order" => pc = "commit"
      /\ t.req.kind = "collect" => pc # "post" /\ t.left = {}
      /\ t.req.kind \in Billing => counter[t.req.branch] = v
      /\ t.req.kind = "sale" /\ t.req.customer \in Customer /\ Unpaid(t.req) > 0
           /\ Limit[t.req.customer] > 0
           /\ (\A b \in BillId :
                 bills[b].status # "none" /\ bills[b].customer = t.req.customer =>
                 bills[b].branch = t.req.branch)
           => OwedBy(bills, t.req.customer) + Unpaid(t.req) <= Limit[t.req.customer]
  BY <1>2, <1>4, <1>6, ReadyFacts DEF Ready
<1> QED
  BY <1>1, <1>3, <1>4, <1>5, <1>7, MoveKeeps

LEMMA OpenChartKeeps ==
  ASSUME ReceivablesInv, NEW v \in Worker, OpenChart(v) PROVE ReceivablesInv'
<1> DEFINE t == tx[v]
<1>1. /\ t.pc = "open" /\ Move(v, "commit") /\ UNCHANGED Books /\ opener' = v
      /\ counter' = counter /\ lock' = lock
  BY DEF OpenChart
<1>2. t.req.kind # "order"
  BY <1>1, OwnTx DEF Shape
<1>3. HoldersOk'
  BY <1>1 DEF ReceivablesInv, HoldersOk, Books
<1>4. t.pc \in Ready
  BY <1>1 DEF Ready
<1>5. /\ t.req.kind = "sale" => /\ "commit" \in Ready
                                /\ Unpaid(t.req) >= 0
                                /\ t.req.customer = WalkIn => Unpaid(t.req) = 0
      /\ t.req.kind = "order" => "commit" = "commit"
      /\ t.req.kind = "collect" => "commit" # "post" /\ t.left = {}
      /\ t.req.kind \in Billing => counter[t.req.branch] = v
      /\ t.req.kind = "sale" /\ t.req.customer \in Customer /\ Unpaid(t.req) > 0
           /\ Limit[t.req.customer] > 0
           /\ (\A b \in BillId :
                 bills[b].status # "none" /\ bills[b].customer = t.req.customer =>
                 bills[b].branch = t.req.branch)
           => OwedBy(bills, t.req.customer) + Unpaid(t.req) <= Limit[t.req.customer]
  BY <1>2, <1>4, ReadyFacts DEF Ready
<1> QED
  BY <1>1, <1>3, <1>5, MoveKeeps

\* What a worker leaves behind at its end.
LEMMA Released ==
  ASSUME ReceivablesInv, NEW v \in Worker, Release(v)
  PROVE  /\ tx' = [tx EXCEPT ![v] = Idle]
         /\ opener' \in Worker \cup {NoOne}
         /\ counter' \in [Branch -> Worker \cup {NoOne}]
         /\ lock' \in [BillId -> Worker \cup {NoOne}]
         /\ \A w \in Worker \ {v} :
              /\ \A b \in BillId : lock[b] = w => lock'[b] = w
              /\ \A br \in Branch : counter[br] = w => counter'[br] = w
BY DEF Release, ReceivablesInv, HoldersOk

LEMMA RollbackKeeps ==
  ASSUME ReceivablesInv, NEW v \in Worker, Rollback(v) PROVE ReceivablesInv'
<1>1. Release(v) /\ UNCHANGED Books
  BY DEF Rollback
<1>2. HoldersOk'
  BY <1>1, Released DEF HoldersOk, Books, ReceivablesInv
<1>3. Working(v, Idle, bills, orders, counter', lock')
  BY IdleWorks
<1>4. \A w \in Worker \ {v} : Idle.bill # 0 => Idle.bill # tx[w].bill
  BY IdleWorks
<1> QED
  BY <1>1, <1>2, <1>3, <1>4, Released, IdleWorks, QuietStep

LEMMA CommitOrderKeeps ==
  ASSUME ReceivablesInv, NEW v \in Worker, CommitOrder(v) PROVE ReceivablesInv'
<1> DEFINE t == tx[v]
           o == [customer |-> t.req.customer, branch |-> t.req.branch, net |-> t.req.net,
                 tax |-> t.req.tax,
                 status |-> IF t.req.quote THEN "quotation" ELSE "confirmed", bill |-> 0]
<1>1. /\ t.pc = "commit" /\ t.req.kind = "order" /\ orders' = Append(orders, o)
      /\ Release(v) /\ UNCHANGED <<bills, pays, journal, chart>>
  BY DEF CommitOrder, Req
<1>2. t \in Tx /\ Shape(t, bills, orders)
  BY OwnTx
<1>3. t.req.customer \in Customer
  BY <1>1, <1>2 DEF Shape, Billing
<1>4. o \in Order /\ o.bill = 0
  BY <1>2, <1>3, TxFields DEF Order
<1> HIDE DEF o
<1>5. /\ DOMAIN orders \subseteq DOMAIN orders'
      /\ \A i \in DOMAIN orders : orders'[i] = orders[i]
      /\ \A i \in DOMAIN orders' : i \in DOMAIN orders \/ orders'[i] = o
      /\ orders' \in OrderRows
  BY <1>1, <1>4, BooksTyped DEF OrderRows
<1>6. BooksInv(bills, orders, pays, journal)'
  <2>1. OrdersOk(bills, orders)
    BY DEF ReceivablesInv, BooksInv
  <2>2. {orders'[i].bill : i \in DOMAIN orders'} \ {0} = {orders[i].bill : i \in DOMAIN orders} \ {0}
    BY <1>4, <1>5
  <2>3. \A i \in DOMAIN orders' : orders'[i].status # "invoiced" => orders'[i].bill = 0
    BY <1>4, <1>5, <2>1 DEF OrdersOk
  <2>4. OrdersOk(bills, orders)'
    BY <1>1, <2>1, <2>2, <2>3 DEF OrdersOk
  <2> QED
    BY <1>1, <1>5, <2>4 DEF ReceivablesInv, BooksInv
<1>7. HoldersOk'
  BY <1>1, Released DEF HoldersOk, ReceivablesInv
<1>8. Working(v, Idle, bills', orders', counter', lock')
  BY IdleWorks
<1>9. \A w \in Worker \ {v} : Idle.bill # 0 => Idle.bill # tx[w].bill
  BY IdleWorks
<1>10. \A w \in Worker \ {v} : Meanwhile(w, tx[w], bills, orders, counter, lock,
                                         bills', orders', counter', lock')
  <2>1. \A c : OwedBy(bills, c) <= OwedBy(bills, c)
    BY BillSums, BooksTyped
  <2> QED
    BY <1>1, <1>5, <2>1, Released DEF Meanwhile
<1> QED
  BY <1>1, <1>6, <1>7, <1>8, <1>9, <1>10, Released, IdleWorks, OneStep

-----------------------------------------------------------------------------
(* The commits.                                                            *)

\* v enters the invoice x, for the branch whose number it holds.
LEMMA ChargeKeeps ==
  ASSUME ReceivablesInv, NEW v \in Worker, NEW k \in BillId, k = tx[v].bill,
         NEW x \in Bill, NEW m \in Method, NEW lines,
         Charged(bills, pays, journal, k, x, m, lines, bills', pays', journal'),
         counter[x.branch] = v, Release(v), chart' \in BOOLEAN,
         orders' \in OrderRows, DOMAIN orders \subseteq DOMAIN orders',
         OrdersOk(bills', orders')
  PROVE  ReceivablesInv'
<1>1. /\ bills \in Rows /\ pays \in PayRows /\ BillsOk(bills, pays) /\ PaysOk(bills, pays)
      /\ ScreensOk(bills, pays) /\ JournalOk(bills, pays, journal)
  BY DEF ReceivablesInv, BooksInv
<1>2. /\ bills[k] = NoBill /\ bills[k].status = "none"
      /\ bills' = [bills EXCEPT ![k] = x] /\ pays' = PaidWith(pays, x, k, m)
      /\ x.status # "none"
  BY <1>1 DEF Charged, BillsOk, StatusOf
<1>3. Entered(bills, k, x, bills')
  BY <1>2 DEF Entered
<1>4. /\ bills' \in Rows
      /\ \A c : OwedBy(bills', c) =
                  OwedBy(bills, c) + (IF x.customer = c THEN Cost(x) - x.paid ELSE 0)
  BY <1>1, <1>3, BillEntered
<1>5. pays' \in PayRows
  BY <1>1, <1>2, SalePaid
<1>6. /\ BillsOk(bills', pays') /\ PaysOk(bills', pays')
      /\ ScreensOk(bills', pays') /\ JournalOk(bills', pays', journal')
  BY <1>1, ChargedBills, ChargedScreens, ChargedJournal
<1>7. BooksInv(bills, orders, pays, journal)'
  BY <1>4, <1>5, <1>6 DEF BooksInv
<1>8. HoldersOk'
  BY Released DEF HoldersOk
<1>9. Working(v, Idle, bills', orders', counter', lock')
  BY IdleWorks
<1>10. \A w \in Worker \ {v} : Idle.bill # 0 => Idle.bill # tx[w].bill
  BY IdleWorks
<1>11. ASSUME NEW w \in Worker \ {v}
       PROVE  Meanwhile(w, tx[w], bills, orders, counter, lock,
                        bills', orders', counter', lock')
  <2>1. k # 0 /\ tx[v].bill # tx[w].bill
    BY Finite DEF ReceivablesInv, Apart
  <2>2. \A b \in BillId : b # k => bills'[b] = bills[b]
    BY <1>1, <1>2 DEF Rows
  <2>3. bills'[k] = x
    BY <1>1, <1>2 DEF Rows
  <2>4. \A c : \/ OwedBy(bills', c) <= OwedBy(bills, c)
               \/ \E b \in BillId : /\ bills'[b].status # "none" /\ bills'[b].customer = c
                                    /\ counter[bills'[b].branch] # w
    <3> SUFFICES ASSUME NEW c
                 PROVE  \/ OwedBy(bills', c) <= OwedBy(bills, c)
                        \/ \E b \in BillId :
                             /\ bills'[b].status # "none" /\ bills'[b].customer = c
                             /\ counter[bills'[b].branch] # w
      OBVIOUS
    <3>1. CASE x.customer = c
      BY <1>2, <2>3, <3>1
    <3>2. CASE x.customer # c
      <4>1. OwedBy(bills', c) = OwedBy(bills, c) + 0 /\ OwedBy(bills, c) \in Int
        BY <1>1, <1>4, <3>2, BillSums
      <4> QED
        BY <4>1
    <3> QED
      BY <3>1, <3>2
  <2>5. tx[w].bill # k
    BY <2>1
  <2>6. /\ \A b \in BillId : lock[b] = w => lock'[b] = w
        /\ \A br \in Branch : counter[br] = w => counter'[br] = w
    BY Released
  <2> QED
    BY <1>2, <2>2, <2>4, <2>5, <2>6 DEF Meanwhile
<1> QED
  BY <1>7, <1>8, <1>9, <1>10, <1>11, Released, IdleWorks, OneStep

\* The invoice of a sale or a dispatch.
LEMMA BillMade ==
  ASSUME NEW t \in Tx, NEW paid \in Nat, NEW channel \in {"retail", "wholesale"},
         NEW status \in {"credit", "partial", "paid"}, NEW x,
         x = [customer |-> t.req.customer, branch |-> t.req.branch, net |-> t.req.net,
              tax |-> t.req.tax, paid |-> paid, channel |-> channel, status |-> status]
  PROVE  /\ x \in Bill /\ x.customer = t.req.customer /\ x.branch = t.req.branch
         /\ x.net = t.req.net /\ x.tax = t.req.tax /\ x.paid = paid /\ x.channel = channel
         /\ x.status = status /\ Cost(x) = Cost(t.req)
BY TxFields DEF Bill, Cost, Party

\* A sale that commits charges its customer.
SaleBill(t) ==
  [customer |-> t.req.customer, branch |-> t.req.branch, net |-> t.req.net, tax |-> t.req.tax,
   paid |-> t.req.money, channel |-> "retail", status |-> StatusOf(t.req.money, Cost(t.req))]

LEMMA SaleCharges ==
  ASSUME ReceivablesInv, NEW v \in Worker, CommitSale(v)
  PROVE  LET t == tx[v]
             x == SaleBill(t)
         IN
         /\ t.bill \in BillId /\ x \in Bill /\ t.req.method \in Method
         /\ x.customer = t.req.customer /\ x.branch = t.req.branch /\ x.paid = t.req.money
         /\ x.channel = "retail"
         /\ Cost(x) = Cost(t.req) /\ Cost(x) \in Nat /\ x.paid \in Nat /\ x.paid <= Cost(x)
         /\ Charged(bills, pays, journal, t.bill, x, t.req.method,
                    SaleEntry(t.req.net, t.req.tax, t.req.money, t.req.method),
                    bills', pays', journal')
         /\ counter[x.branch] = v
<1> DEFINE t == tx[v]
           x == SaleBill(t)
           k == t.bill
<1>1. t \in Tx /\ Shape(t, bills, orders)
  BY OwnTx
<1>2. /\ t.pc = "commit" /\ t.req.kind = "sale" /\ bills' = [bills EXCEPT ![k] = x]
      /\ pays' = IF t.req.money > 0
                 THEN Append(pays, [customer |-> t.req.customer, method |-> t.req.method,
                                    money |-> t.req.money,
                                    to |-> [Nothing EXCEPT ![k] = t.req.money],
                                    looked |-> t.looked])
                 ELSE pays
  BY DEF CommitSale, Req, Enter, Paid, SaleBill
<1>3. journal' = IF Cost(t.req) > 0
                 THEN journal \cup {[doc |-> <<"bill", k>>,
                                     lines |-> SaleEntry(t.req.net, t.req.tax, t.req.money,
                                                         t.req.method)]}
                 ELSE journal
  BY <1>2 DEF CommitSale, Req, Post, Posts
<1>4. /\ k \in BillId /\ bills[k].status = "none" /\ t.looked = {}
      /\ Unpaid(t.req) >= 0 /\ (t.req.customer = WalkIn => Unpaid(t.req) = 0)
  BY <1>1, <1>2 DEF Shape, Billing, Ready
<1>5. /\ t.req.money \in Nat /\ t.req.net \in Nat /\ t.req.tax \in Nat /\ t.req.method \in Method
      /\ Cost(t.req) \in Nat /\ Unpaid(t.req) = Cost(t.req) - t.req.money
  BY <1>1, TxFields
<1>6. counter[t.req.branch] = v
  BY <1>2, OwnTx DEF Numbered, Billing, Ready
<1>7. StatusOf(t.req.money, Cost(t.req)) \in {"credit", "partial", "paid"}
  BY DEF StatusOf
<1>8. /\ x \in Bill /\ x.customer = t.req.customer /\ x.branch = t.req.branch
      /\ x.net = t.req.net /\ x.tax = t.req.tax /\ x.paid = t.req.money /\ x.channel = "retail"
      /\ x.status = StatusOf(t.req.money, Cost(t.req)) /\ Cost(x) = Cost(t.req)
  BY <1>1, <1>5, <1>7, BillMade DEF SaleBill
<1>9. /\ x.paid <= Cost(x) /\ x.status = StatusOf(x.paid, Cost(x))
      /\ x.customer = WalkIn => x.paid = Cost(x)
  BY <1>4, <1>5, <1>8
<1> HIDE DEF x
<1>10. pays' = PaidWith(pays, x, k, t.req.method)
  BY <1>2, <1>4, <1>8 DEF PaidWith, SalePayment
<1>11. Tells(SaleEntry(t.req.net, t.req.tax, t.req.money, t.req.method),
             x.net, x.tax, x.paid, t.req.method)
  BY <1>5, <1>8, SaleTells
<1>12. Charged(bills, pays, journal, k, x, t.req.method,
               SaleEntry(t.req.net, t.req.tax, t.req.money, t.req.method),
               bills', pays', journal')
  BY <1>2, <1>3, <1>4, <1>8, <1>9, <1>10, <1>11 DEF Charged
<1> QED
  BY <1>4, <1>5, <1>6, <1>8, <1>9, <1>12 DEF x

LEMMA CommitSaleKeeps ==
  ASSUME ReceivablesInv, NEW v \in Worker, CommitSale(v) PROVE ReceivablesInv'
<1> DEFINE t == tx[v]
           x == SaleBill(t)
           k == t.bill
           lines == SaleEntry(t.req.net, t.req.tax, t.req.money, t.req.method)
           m == t.req.method
<1>1. /\ k \in BillId /\ x \in Bill /\ m \in Method /\ x.channel = "retail"
      /\ Charged(bills, pays, journal, k, x, m, lines, bills', pays', journal')
      /\ counter[x.branch] = v
  BY SaleCharges
<1>2. Release(v) /\ orders' = orders /\ chart' \in BOOLEAN
  BY DEF CommitSale, Post, ReceivablesInv, HoldersOk
<1> HIDE DEF x, lines, m
<1>3. bills' = [bills EXCEPT ![k] = x] /\ bills[k] = NoBill
  BY <1>1 DEF Charged, ReceivablesInv, BooksInv, BillsOk
<1>4. OrdersOk(bills', orders')
  <2>1. OrdersOk(bills, orders) /\ bills \in Rows
    BY DEF ReceivablesInv, BooksInv
  <2>2. bills'[k].channel = "retail" /\ bills[k].channel = "retail"
        /\ \A b \in BillId : b # k => bills'[b] = bills[b]
    BY <1>1, <1>3, <2>1, NoBillFields DEF Rows
  <2>3. {b \in BillId : bills'[b].channel = "wholesale"}
          = {b \in BillId : bills[b].channel = "wholesale"}
    BY <2>2
  <2> QED
    BY <1>2, <2>1, <2>3 DEF OrdersOk
<1>5. orders' \in OrderRows
  BY <1>2, BooksTyped
<1> QED
  BY <1>1, <1>2, <1>4, <1>5, ChargeKeeps

-----------------------------------------------------------------------------
\* A dispatch charges its customer, on credit.
DispatchBill(t) ==
  [customer |-> t.req.customer, branch |-> t.req.branch, net |-> t.req.net, tax |-> t.req.tax,
   paid |-> 0, channel |-> "wholesale", status |-> "credit"]

LEMMA DispatchCharges ==
  ASSUME ReceivablesInv, NEW v \in Worker, CommitDispatch(v)
  PROVE  LET t == tx[v]
             x == DispatchBill(t)
         IN
         /\ t.bill \in BillId /\ x \in Bill /\ t.req.method \in Method
         /\ x.customer = t.req.customer /\ x.branch = t.req.branch /\ x.paid = 0
         /\ x.channel = "wholesale" /\ t.req.customer \in Customer
         /\ Cost(x) = Cost(t.req) /\ Cost(x) \in Nat
         /\ t.req.order \in DOMAIN orders
         /\ Charged(bills, pays, journal, t.bill, x, t.req.method,
                    DispatchEntry(t.req.net, t.req.tax), bills', pays', journal')
         /\ counter[x.branch] = v
<1> DEFINE t == tx[v]
           x == DispatchBill(t)
           k == t.bill
<1>1. t \in Tx /\ Shape(t, bills, orders)
  BY OwnTx
<1>2. /\ t.pc = "commit" /\ t.req.kind = "dispatch" /\ bills' = [bills EXCEPT ![k] = x]
      /\ pays' = pays
  BY DEF CommitDispatch, Req, Enter, DispatchBill
<1>3. journal' = IF Cost(t.req) > 0
                 THEN journal \cup {[doc |-> <<"bill", k>>,
                                     lines |-> DispatchEntry(t.req.net, t.req.tax)]}
                 ELSE journal
  BY <1>2 DEF CommitDispatch, Req, Post, Posts
<1>4. /\ k \in BillId /\ bills[k].status = "none" /\ t.req.customer \in Customer
      /\ t.req.order \in DOMAIN orders
  BY <1>1, <1>2 DEF Shape, Billing, Ready
<1>5. /\ t.req.net \in Nat /\ t.req.tax \in Nat /\ t.req.method \in Method
      /\ Cost(t.req) \in Nat
  BY <1>1, TxFields
<1>6. counter[t.req.branch] = v
  BY <1>2, OwnTx DEF Numbered, Billing, Ready
<1>7. /\ x \in Bill /\ x.customer = t.req.customer /\ x.branch = t.req.branch
      /\ x.net = t.req.net /\ x.tax = t.req.tax /\ x.paid = 0 /\ x.channel = "wholesale"
      /\ x.status = "credit" /\ Cost(x) = Cost(t.req)
  BY <1>1, BillMade DEF DispatchBill
<1>8. /\ x.paid <= Cost(x) /\ x.status = StatusOf(x.paid, Cost(x))
      /\ x.customer # WalkIn
  BY <1>4, <1>5, <1>7, Finite DEF StatusOf
<1> HIDE DEF x
<1>9. pays' = PaidWith(pays, x, k, t.req.method)
  BY <1>2, <1>7 DEF PaidWith
<1>10. Tells(DispatchEntry(t.req.net, t.req.tax), x.net, x.tax, x.paid, t.req.method)
  BY <1>5, <1>7, DispatchTells
<1>11. Charged(bills, pays, journal, k, x, t.req.method,
               DispatchEntry(t.req.net, t.req.tax), bills', pays', journal')
  BY <1>2, <1>3, <1>4, <1>7, <1>8, <1>9, <1>10 DEF Charged
<1> QED
  BY <1>4, <1>5, <1>6, <1>7, <1>11 DEF x

LEMMA CommitDispatchKeeps ==
  ASSUME ReceivablesInv, NEW v \in Worker, CommitDispatch(v) PROVE ReceivablesInv'
<1> DEFINE t == tx[v]
           x == DispatchBill(t)
           k == t.bill
           i0 == t.req.order
           lines == DispatchEntry(t.req.net, t.req.tax)
           m == t.req.method
<1>1. /\ k \in BillId /\ x \in Bill /\ m \in Method /\ x.channel = "wholesale"
      /\ i0 \in DOMAIN orders
      /\ Charged(bills, pays, journal, k, x, m, lines, bills', pays', journal')
      /\ counter[x.branch] = v
  BY DispatchCharges
<1>2. Release(v) /\ chart' \in BOOLEAN /\ orders[i0].status = "confirmed"
      /\ orders' = [orders EXCEPT ![i0].status = "invoiced", ![i0].bill = k]
  BY DEF CommitDispatch, Post, ReceivablesInv, HoldersOk, Req
<1> HIDE DEF x, lines, m, i0, k
<1>3. bills' = [bills EXCEPT ![k] = x] /\ bills[k] = NoBill
  BY <1>1 DEF Charged, ReceivablesInv, BooksInv, BillsOk
<1>4. /\ DOMAIN orders' = DOMAIN orders /\ orders' \in OrderRows
      /\ orders'[i0].status = "invoiced" /\ orders'[i0].bill = k
      /\ \A i \in DOMAIN orders : i # i0 => orders'[i] = orders[i]
  <2>1. orders \in Seq(Order) /\ orders[i0] \in Order /\ DOMAIN orders = 1..Len(orders)
    BY <1>1, BooksTyped DEF OrderRows
  <2> DEFINE o == [orders[i0] EXCEPT !.status = "invoiced", !.bill = k]
  <2>2. o \in Order /\ o.status = "invoiced" /\ o.bill = k
    BY <1>1, <2>1 DEF Order
  <2>3. orders' = [orders EXCEPT ![i0] = o]
    BY <1>1, <1>2, <2>1
  <2> HIDE DEF o
  <2> QED
    BY <1>1, <2>1, <2>2, <2>3 DEF OrderRows
<1>5. OrdersOk(bills', orders')
  <2>1. OrdersOk(bills, orders) /\ bills \in Rows
    BY DEF ReceivablesInv, BooksInv
  <2>2. bills'[k].channel = "wholesale" /\ bills[k].channel = "retail"
        /\ \A b \in BillId : b # k => bills'[b] = bills[b]
    BY <1>1, <1>3, <2>1, NoBillFields DEF Rows
  <2>3. {b \in BillId : bills'[b].channel = "wholesale"}
          = {b \in BillId : bills[b].channel = "wholesale"} \cup {k}
    BY <1>1, <2>2
  <2>4. orders[i0].bill = 0 /\ k # 0
    BY <1>1, <1>2, <2>1, Finite DEF OrdersOk
  <2>5. {orders'[i].bill : i \in DOMAIN orders'} \ {0}
          = ({orders[i].bill : i \in DOMAIN orders} \ {0}) \cup {k}
    BY <1>1, <1>4, <2>4
  <2>6. \A i \in DOMAIN orders' : orders'[i].status # "invoiced" => orders'[i].bill = 0
    BY <1>4, <2>1 DEF OrdersOk
  <2> QED
    BY <2>1, <2>3, <2>5, <2>6 DEF OrdersOk
<1>6. k = tx[v].bill
  BY DEF k
<1> QED
  BY <1>1, <1>2, <1>4, <1>5, <1>6, ChargeKeeps

\* A collection that commits goes into the books.
Collection(t) == [customer |-> t.req.customer, method |-> t.req.method, money |-> t.req.money,
                  to |-> t.take, looked |-> t.looked]

LEMMA CollectionCollects ==
  ASSUME ReceivablesInv, NEW v \in Worker, CommitCollection(v)
  PROVE  LET t == tx[v]
             p == Collection(t)
         IN
         /\ p \in Payment /\ p.customer = t.req.customer /\ p.money = t.req.money
         /\ Collected(bills, pays, journal, p, CollectionEntry(t.req.money, t.req.method),
                      bills', pays', journal')
<1> DEFINE t == tx[v]
           p == Collection(t)
           lines == CollectionEntry(t.req.money, t.req.method)
<1>1. t \in Tx /\ Shape(t, bills, orders) /\ Allocating(v, t, bills, lock)
  BY OwnTx
<1>2. /\ t.pc = "commit" /\ t.req.kind = "collect"
      /\ bills' = [b \in BillId |-> Credited(bills[b], t.take[b])]
      /\ pays' = Append(pays, p)
      /\ journal' = journal \cup {[doc |-> <<"payment", Len(pays) + 1>>, lines |-> lines]}
  BY DEF CommitCollection, Req, Paid, Post, Posts, Collection
<1>3. t.req.customer \in Customer
  BY <1>1, <1>2 DEF Shape, Billing
<1>4. /\ t.req.money \in Nat /\ t.req.method \in Method /\ t.take \in Amounts
      /\ t.looked \subseteq BillId /\ t.rest \in Nat
  BY <1>1, TxFields
<1>5. /\ p \in Payment /\ p.customer = t.req.customer /\ p.method = t.req.method
      /\ p.money = t.req.money /\ p.to = t.take /\ p.looked = t.looked
  BY <1>3, <1>4 DEF Collection, Payment
<1>6. /\ t.left = {}
      /\ \A b \in t.looked : bills[b].status # "none" /\ bills[b].customer = t.req.customer
      /\ \A b \in BillId : t.take[b] # 0 => b \in t.looked
      /\ \A b \in t.looked :
           /\ t.take[b] <= Cost(bills[b]) - bills[b].paid
           /\ \/ t.take[b] = Cost(bills[b]) - bills[b].paid
              \/ t.rest = 0 /\ \A d \in t.looked : d > b => t.take[d] = 0
      /\ t.rest + SumFunctionOnSet(t.take, BillId) = t.req.money
  BY <1>1, <1>2 DEF Allocating
<1> HIDE DEF p, lines
<1>7. Given(p) \in Nat /\ t.rest + Given(p) = p.money /\ p.money \in Nat
  BY <1>4, <1>5, <1>6, PaymentFields DEF Given
<1>8. Given(p) <= p.money /\ (t.rest = 0 => Given(p) = p.money)
  BY <1>4, <1>7
<1>9. Tells(lines, 0, 0, p.money, p.method)
  BY <1>4, <1>5, CollectionTells DEF lines
<1>10. \A a \in p.looked :
         /\ bills[a].status # "none" /\ bills[a].customer = p.customer
         /\ p.to[a] <= Cost(bills[a]) - bills[a].paid
         /\ \/ p.to[a] = Cost(bills[a]) - bills[a].paid
            \/ Given(p) = p.money /\ \A b \in p.looked : b > a => p.to[b] = 0
  BY <1>5, <1>6, <1>8
<1>11. Collected(bills, pays, journal, p, lines, bills', pays', journal')
  BY <1>2, <1>3, <1>5, <1>6, <1>8, <1>9, <1>10 DEF Collected
<1> QED
  BY <1>5, <1>11 DEF p, lines

LEMMA CommitCollectionKeeps ==
  ASSUME ReceivablesInv, NEW v \in Worker, CommitCollection(v) PROVE ReceivablesInv'
<1> DEFINE t == tx[v]
           p == Collection(t)
           lines == CollectionEntry(t.req.money, t.req.method)
<1>1. /\ p \in Payment
      /\ Collected(bills, pays, journal, p, lines, bills', pays', journal')
  BY CollectionCollects
<1>2. /\ Release(v) /\ chart' \in BOOLEAN /\ orders' = orders
      /\ t.pc = "commit" /\ t.req.kind = "collect" /\ p.to = t.take /\ p.looked = t.looked
  BY DEF CommitCollection, Post, ReceivablesInv, HoldersOk, Req, Collection
<1>3. Allocating(v, t, bills, lock) /\ t \in Tx
  BY OwnTx
<1>4. /\ bills \in Rows /\ pays \in PayRows /\ BillsOk(bills, pays) /\ PaysOk(bills, pays)
      /\ ScreensOk(bills, pays) /\ JournalOk(bills, pays, journal) /\ OrdersOk(bills, orders)
  BY DEF ReceivablesInv, BooksInv
<1> HIDE DEF p, lines
<1>5. /\ bills' \in Rows /\ pays' \in PayRows /\ Given(p) \in Nat
      /\ \A c : OwedBy(bills', c) = OwedBy(bills, c) - (IF c = p.customer THEN Given(p) ELSE 0)
  BY <1>1, <1>4, CollectedSums
<1>6. /\ BillsOk(bills', pays') /\ PaysOk(bills', pays')
      /\ ScreensOk(bills', pays') /\ JournalOk(bills', pays', journal')
  BY <1>1, <1>4, CollectedBills, CollectedScreens, CollectedJournal
<1>7. ASSUME NEW b \in BillId
      PROVE  /\ bills'[b].customer = bills[b].customer /\ bills'[b].branch = bills[b].branch
             /\ bills'[b].channel = bills[b].channel
             /\ p.to[b] = 0 => bills'[b] = bills[b]
             /\ bills[b].status # "none" => bills'[b].status # "none"
             /\ p.to[b] # 0 => bills[b].status # "none" /\ lock[b] = v
  <2>1. bills'[b] = Credited(bills[b], p.to[b])
    BY <1>1 DEF Collected
  <2>2. bills[b] \in Bill /\ p.to[b] \in Nat
    BY <1>1, <1>4, PaymentFields DEF Rows
  <2>3. p.to[b] # 0 => b \in p.looked
    BY <1>1 DEF Collected
  <2>4. p.to[b] # 0 => lock[b] = v
    BY <1>2, <1>3 DEF Allocating
  <2>5. p.to[b] # 0 => bills[b].status # "none"
    BY <1>1, <2>3 DEF Collected
  <2> QED
    BY <2>1, <2>2, <2>4, <2>5, CreditedFields
<1>8. OrdersOk(bills', orders')
  <2>1. {b \in BillId : bills'[b].channel = "wholesale"}
          = {b \in BillId : bills[b].channel = "wholesale"}
    BY <1>7
  <2> QED
    BY <1>2, <1>4, <2>1 DEF OrdersOk
<1>9. BooksInv(bills, orders, pays, journal)'
  BY <1>2, <1>5, <1>6, <1>8, BooksTyped DEF BooksInv
<1>10. HoldersOk'
  BY <1>2, Released DEF HoldersOk
<1>11. Working(v, Idle, bills', orders', counter', lock')
  BY IdleWorks
<1>12. \A w \in Worker \ {v} : Idle.bill # 0 => Idle.bill # tx[w].bill
  BY IdleWorks
<1>13. ASSUME NEW w \in Worker \ {v}
       PROVE  Meanwhile(w, tx[w], bills, orders, counter, lock,
                        bills', orders', counter', lock')
  <2>1. \A c : OwedBy(bills', c) <= OwedBy(bills, c)
    <3> SUFFICES ASSUME NEW c PROVE OwedBy(bills', c) <= OwedBy(bills, c)
      OBVIOUS
    <3>1. OwedBy(bills, c) \in Int
      BY <1>4, BillSums
    <3>2. CASE c = p.customer
      <4>1. OwedBy(bills', c) = OwedBy(bills, c) - Given(p)
        BY <1>5, <3>2
      <4> QED
        BY <1>5, <3>1, <4>1
    <3>3. CASE c # p.customer
      <4>1. OwedBy(bills', c) = OwedBy(bills, c) - 0
        BY <1>5, <3>3
      <4> QED
        BY <3>1, <4>1
    <3> QED
      BY <3>2, <3>3
  <2>2. /\ \A b \in BillId : lock[b] = w => lock'[b] = w
        /\ \A br \in Branch : counter[br] = w => counter'[br] = w
    BY <1>2, Released
  <2>3. \A b \in BillId : bills[b].status # "none" =>
          /\ bills'[b].status # "none" /\ bills'[b].customer = bills[b].customer
          /\ bills'[b].branch = bills[b].branch
          /\ lock[b] = w => bills'[b] = bills[b]
    BY <1>7
  <2>4. \A b \in BillId : bills[b].status = "none" => bills'[b].status = "none"
    BY <1>7
  <2> QED
    BY <1>2, <2>1, <2>2, <2>3, <2>4 DEF Meanwhile
<1> QED
  BY <1>2, <1>9, <1>10, <1>11, <1>12, <1>13, Released, IdleWorks, OneStep

-----------------------------------------------------------------------------
(* Every step keeps it, and what follows.                                  *)

LEMMA NextKeeps == ReceivablesInv /\ [Next]_vars => ReceivablesInv'
<1> SUFFICES ASSUME ReceivablesInv, [Next]_vars PROVE ReceivablesInv'
  OBVIOUS
<1>1. CASE UNCHANGED vars
  BY <1>1, Zenon DEF ReceivablesInv, vars, HoldersOk
<1>2. CASE Next
  <2>1. PICK v \in Worker : Begin(v) \/ Serve(v) \/ Abort(v)
    BY <1>2 DEF Next
  <2>2. CASE Begin(v)
    BY <2>2, BeginKeeps
  <2>3. CASE Abort(v)
    BY <2>3, RollbackKeeps DEF Abort
  <2>4. CASE Serve(v)
    <3>1. CASE Fail(v)
      BY <3>1, RollbackKeeps DEF Fail
    <3> QED
      BY <2>4, <3>1, ReadOrderKeeps, TakeNumberKeeps, CheckKeeps, LookKeeps, SettleKeeps,
         ReadChartKeeps, OpenChartKeeps, CommitSaleKeeps, CommitOrderKeeps,
         CommitDispatchKeeps, CommitCollectionKeeps DEF Serve
  <2> QED
    BY <2>1, <2>2, <2>3, <2>4
<1> QED
  BY <1>1, <1>2

\* Rows, locks and requests stay in agreement through every interleaving
\* (sales/service.py, wholesale_service.py, collections/service.py).
THEOREM ReceivablesInvariant == Spec => []ReceivablesInv
<1> QED
  BY InvInit, NextKeeps, PTL DEF Spec

\* Invoices, orders, payments, entries and locks keep their types.
THEOREM ReceivablesTypeCorrect == Spec => []TypeOK
<1>1. ReceivablesInv => TypeOK
  <2> SUFFICES ASSUME ReceivablesInv PROVE TypeOK
    OBVIOUS
  <2>1. journal \subseteq [doc : {"bill", "payment"} \X Nat, lines : Entry]
    BY DEF ReceivablesInv, BooksInv, JournalOk
  <2> QED
    BY <2>1 DEF ReceivablesInv, BooksInv, HoldersOk, TypeOK, Rows, OrderRows, PayRows
<1> QED
  BY <1>1, ReceivablesInvariant, PTL

\* An invoice is paid by its allocations, and a payment passes over an invoice
\* only when that is settled (collections/service.py:148-190).
THEOREM PaymentsReach == Spec => []PaymentsReachBills
<1>1. ASSUME ReceivablesInv PROVE PaymentsReachBills
  <2>0. /\ bills \in Rows /\ pays \in PayRows
        /\ BillsOk(bills, pays) /\ PaysOk(bills, pays)
    BY <1>1 DEF ReceivablesInv, BooksInv
  <2>1. BillsAddUp
    BY ONLY <2>0, PaymentsOnAre DEF BillsAddUp, Written, BillsOk
  <2>2. OldestFirst
    <3> SUFFICES ASSUME NEW i \in DOMAIN pays, NEW a \in pays[i].looked
                 PROVE  \/ Due(a) = 0
                        \/ /\ Allocated(pays[i]) = pays[i].money
                           /\ \A b \in pays[i].looked : b > a => pays[i].to[b] = 0
      BY DEF OldestFirst
    <3>1. a \in BillId
      BY <2>0, PaySums, PaymentFields
    <3>2. Due(a) = Cost(bills[a]) - bills[a].paid /\ Cost(bills[a]) \in Nat
      BY <1>1, <3>1, DueFacts
    <3>3. Allocated(pays[i]) = Given(pays[i])
      BY AllocatedIs
    <3>4. \/ bills[a].paid = Cost(bills[a])
          \/ /\ Given(pays[i]) = pays[i].money
             /\ \A b \in pays[i].looked : b > a => pays[i].to[b] = 0
      BY <2>0 DEF PaysOk
    <3> QED
      BY ONLY <3>2, <3>3, <3>4
  <2> QED
    BY <2>1, <2>2 DEF PaymentsReachBills
<1> QED
  BY <1>1, ReceivablesInvariant, PTL

-----------------------------------------------------------------------------
(* Journal, screens and orders.                                            *)

\* The figures are numbers.
LEMMA FiguresTyped ==
  ASSUME ReceivablesInv
  PROVE  /\ \A c : CostOf(bills, c) \in Nat /\ OwedBy(bills, c) \in Int
         /\ \A c : PaidBy(pays, c) \in Nat /\ AheadOf(pays, c) \in Int
         /\ OwedAll(bills) \in Int /\ TaxAll(bills) \in Int /\ PaidAll(pays) \in Int
         /\ \A ch : SoldOver(bills, ch) \in Int
BY BooksTyped, BillSums, PaySums

LEMMA BooksAgreeInv == ReceivablesInv => BooksAgree
<1> SUFFICES ASSUME ReceivablesInv PROVE BooksAgree
  OBVIOUS
<1>1. JournalOk(bills, pays, journal)
  BY DEF ReceivablesInv, BooksInv
<1>2. \A e \in journal : Balanced(e.lines)
  BY <1>1, BalancedIs DEF JournalOk
<1>3. \A a \in Tender : Balance(a) = Received(a)
  BY <1>1, BalanceIs, ReceivedAre DEF JournalOk
<1>4. Balance("GST_OUTPUT") = 0 - GstSummary
  BY <1>1, BalanceIs, TaxIs DEF JournalOk
<1>5. GstSummary \in Int
  BY TaxIs, FiguresTyped
<1>6. Balance("SALES") = GstSummary - SalesOf("retail") - SalesOf("wholesale")
  BY <1>1, BalanceIs, TaxIs, SalesAre DEF JournalOk
<1>7. -GstSummary = 0 - GstSummary
  BY ONLY <1>5
<1> QED
  BY ONLY <1>2, <1>3, <1>4, <1>6, <1>7 DEF BooksAgree, Tender

LEMMA ScreensAgreeInv == ReceivablesInv => ScreensAgree
<1> SUFFICES ASSUME ReceivablesInv PROVE ScreensAgree
  OBVIOUS
<1>1. ScreensOk(bills, pays) /\ JournalOk(bills, pays, journal)
  BY DEF ReceivablesInv, BooksInv
<1>2. \A c \in Customer : Statement(c) = CostOf(bills, c) - PaidBy(pays, c)
  BY BilledIs, ReceivedAre DEF Statement
<1>3. \A c \in Customer : Statement(c) = Outstanding(c) - Advance(c)
  BY <1>1, <1>2, OutstandingIs, AheadIs DEF ScreensOk
<1>4. DashboardReceivables = MapThenSumSet(Outstanding, Customer)
  BY <1>1, ReceivablesAre, TotalsAre DEF ScreensOk
<1>5. SalesToday - CollectedToday = DashboardReceivables - MapThenSumSet(Advance, Customer)
  <2>1. SalesToday = SoldOver(bills, "retail") + SoldOver(bills, "wholesale")
    BY SalesAre DEF SalesToday
  <2>2. CollectedToday = PaidAll(pays)
    BY ReceivedAre
  <2>3. DashboardReceivables = OwedAll(bills)
    BY ReceivablesAre
  <2>4. MapThenSumSet(Advance, Customer) = AheadTotal(pays)
    BY TotalsAre
  <2>5. /\ PaidAll(pays) \in Int /\ SoldOver(bills, "retail") \in Int
        /\ SoldOver(bills, "wholesale") \in Int
    BY FiguresTyped
  <2> QED
    BY ONLY <1>1, <2>1, <2>2, <2>3, <2>4, <2>5 DEF ScreensOk
<1>6. Balance("AR") = MapThenSumSet(Statement, Customer)
  BY <1>1, BalanceIs, TotalsAre DEF JournalOk
<1> QED
  BY ONLY <1>3, <1>4, <1>5, <1>6 DEF ScreensAgree

LEMMA OneBillInv == ReceivablesInv => OneBillPerOrder
<1> SUFFICES ASSUME ReceivablesInv PROVE OneBillPerOrder
  OBVIOUS
<1>1. OrdersOk(bills, orders) /\ BillsOk(bills, pays)
  BY DEF ReceivablesInv, BooksInv
<1>2. \A b \in BillId : bills[b].channel = "wholesale" => bills[b].status # "none"
  BY <1>1, NoBillFields DEF BillsOk
<1>3. {b \in Written : bills[b].channel = "wholesale"}
        = {b \in BillId : bills[b].channel = "wholesale"}
  BY <1>2 DEF Written
<1> QED
  BY <1>1, <1>3 DEF OrdersOk, OneBillPerOrder

\* The trial balance, the customer list, the statements, the dashboard and the
\* orders never disagree, whatever sales, dispatches and collections run at once
\* (sales/service.py:363-367, accounting/api.py:224, reports/service.py:104-120).
THEOREM BooksAgreeEverywhere == Spec => []BooksAndScreensAgree
<1>1. ReceivablesInv => BooksAndScreensAgree
  BY BooksAgreeInv, ScreensAgreeInv, OneBillInv DEF BooksAndScreensAgree
<1> QED
  BY <1>1, ReceivablesInvariant, PTL
-----------------------------------------------------------------------------
(* Credit.                                                                 *)

Same == \A c \in Customer : Outstanding(c) = OwedBy(bills, c)

\* What a sale adds to what its customer owes.
LEMMA SaleOwed ==
  ASSUME ReceivablesInv, NEW v \in Worker, CommitSale(v)
  PROVE  \A c : OwedBy(bills', c)
                  = OwedBy(bills, c) + (IF tx[v].req.customer = c THEN Unpaid(tx[v].req) ELSE 0)
<1> DEFINE t == tx[v]
           x == SaleBill(t)
<1>1. /\ t.bill \in BillId /\ x \in Bill /\ x.customer = t.req.customer
      /\ x.paid = t.req.money /\ Cost(x) = Cost(t.req)
      /\ Charged(bills, pays, journal, t.bill, x, t.req.method,
                 SaleEntry(t.req.net, t.req.tax, t.req.money, t.req.method),
                 bills', pays', journal')
  BY SaleCharges
<1> HIDE DEF x, t
<1>2. bills[t.bill] = NoBill /\ bills' = [bills EXCEPT ![t.bill] = x]
  BY <1>1 DEF Charged, ReceivablesInv, BooksInv, BillsOk
<1>3. Entered(bills, t.bill, x, bills')
  BY <1>2 DEF Entered
<1>4. \A c : OwedBy(bills', c) =
               OwedBy(bills, c) + (IF x.customer = c THEN Cost(x) - x.paid ELSE 0)
  BY <1>1, <1>3, BooksTyped, BillEntered
<1> QED
  BY <1>1, <1>4 DEF Unpaid, t

LEMMA SaleWithin ==
  ASSUME ReceivablesInv, Same', NEW v \in Worker, NEW c \in Customer,
         OnKhata(v, c), CommitSale(v)
  PROVE  Outstanding(c)' <= Limit[c]
<1>1. OnCredit(tx[v], bills)
  BY OwnTx
<1>2. /\ tx[v].pc = "commit" /\ tx[v].req.kind = "sale" /\ tx[v].req.customer = c
      /\ Unpaid(tx[v].req) > 0 /\ Limit[c] > 0
      /\ \A b \in BillId : bills[b].status # "none" /\ bills[b].customer = c =>
                           bills[b].branch = tx[v].req.branch
  BY DEF OnKhata, Req, BillsOf, Written
<1>3. OwedBy(bills, c) + Unpaid(tx[v].req) <= Limit[c]
  BY <1>1, <1>2 DEF OnCredit, Ready
<1>4. OwedBy(bills', c) = OwedBy(bills, c) + Unpaid(tx[v].req)
  BY <1>2, SaleOwed
<1>5. Outstanding(c)' = OwedBy(bills', c)
  BY DEF Same
<1> QED
  BY ONLY <1>3, <1>4, <1>5

\* However many tills and dispatches run, a sale on khata never takes a customer
\* of one branch over the limit (sales/service.py:293-300).
THEOREM KhataKept == Spec => KhataWithinLimit
<1>1. Spec => []Same
  <2>1. ReceivablesInv => Same
    BY OutstandingIs DEF Same
  <2> QED
    BY <2>1, ReceivablesInvariant, PTL
<1>2. ReceivablesInv /\ Same' /\ [Next]_vars
      => [\A w \in Worker, c \in Customer :
            OnKhata(w, c) /\ CommitSale(w) => Outstanding(c)' <= Limit[c]]_vars
  BY SaleWithin
<1> QED
  BY <1>1, <1>2, ReceivablesInvariant, PTL DEF Spec, KhataWithinLimit

-----------------------------------------------------------------------------
(* The accounts of the customers.                                          *)

Figured ==
  \A c \in Customer :
    /\ Costing(BillsOf(c)) = CostOf(bills, c) /\ Paying(PaysOf(c)) = PaidBy(pays, c)
    /\ Outstanding(c) = OwedBy(bills, c) /\ Advance(c) = AheadOf(pays, c)

\* Nobody owes less than nothing.
LEMMA OwedNat ==
  ASSUME NEW bs \in Rows, NEW ps, BillsOk(bs, ps)
  PROVE  \A c : OwedBy(bs, c) \in Nat
<1> SUFFICES ASSUME NEW c PROVE OwedBy(bs, c) \in Nat
  OBVIOUS
<1> DEFINE f == [b \in BillId |-> IF bs[b].customer = c THEN Cost(bs[b]) - bs[b].paid ELSE 0]
<1>1. \A b \in BillId : f[b] \in Nat
  <2> SUFFICES ASSUME NEW b \in BillId PROVE f[b] \in Nat
    OBVIOUS
  <2>1. bs[b] \in Bill
    BY DEF Rows
  <2>2. Cost(bs[b]) \in Nat /\ bs[b].paid \in Nat /\ bs[b].paid <= Cost(bs[b])
    BY <2>1, BillFields DEF BillsOk
  <2> QED
    BY <2>2
<1> HIDE DEF f
<1>2. SumFunctionOnSet(f, BillId) \in Nat
  BY <1>1, Finite, SumNat
<1> QED
  BY <1>2 DEF OwedBy, f

\* The account of k changes by this much, all others stay.
Changed(k, n, m, s, a) ==
  /\ \A c : CostOf(bills', c) = CostOf(bills, c) + (IF k = c THEN n ELSE 0)
  /\ \A c : PaidBy(pays', c) = PaidBy(pays, c) + (IF k = c THEN m ELSE 0)
  /\ \A c : OwedBy(bills', c) = OwedBy(bills, c) + (IF k = c THEN s ELSE 0)
  /\ \A c : AheadOf(pays', c) = AheadOf(pays, c) + (IF k = c THEN a ELSE 0)

\* An invoice is a charge.
LEMMA ChargedAccount ==
  ASSUME ReceivablesInv, NEW k \in BillId, NEW x \in Bill, NEW m \in Method, NEW lines,
         Charged(bills, pays, journal, k, x, m, lines, bills', pays', journal')
  PROVE  /\ Changed(x.customer, Cost(x), x.paid, Cost(x) - x.paid, 0)
         /\ Cost(x) \in Nat /\ x.paid \in Nat /\ x.paid <= Cost(x)
         /\ x.customer = WalkIn \/ x.customer \in Customer
<1>1. bills \in Rows /\ pays \in PayRows
  BY BooksTyped
<1>2. bills[k] = NoBill /\ bills' = [bills EXCEPT ![k] = x] /\ pays' = PaidWith(pays, x, k, m)
  BY DEF Charged, ReceivablesInv, BooksInv, BillsOk
<1>3. Entered(bills, k, x, bills')
  BY <1>2 DEF Entered
<1>4. /\ \A c : CostOf(bills', c) = CostOf(bills, c) + (IF x.customer = c THEN Cost(x) ELSE 0)
      /\ \A c : OwedBy(bills', c) =
                  OwedBy(bills, c) + (IF x.customer = c THEN Cost(x) - x.paid ELSE 0)
  BY <1>1, <1>3, BillEntered
<1>5. /\ \A c : PaidBy(pays', c) = PaidBy(pays, c) + (IF x.customer = c THEN x.paid ELSE 0)
      /\ \A c : AheadOf(pays', c) = AheadOf(pays, c)
  BY <1>1, <1>2, SalePaid
<1>6. \A c : AheadOf(pays, c) \in Int
  BY FiguresTyped
<1>7. \A c : AheadOf(pays', c) = AheadOf(pays, c) + (IF x.customer = c THEN 0 ELSE 0)
  BY ONLY <1>5, <1>6
<1>8. Cost(x) \in Nat /\ x.paid \in Nat /\ x.paid <= Cost(x)
  BY BillFields DEF Charged
<1>9. x.customer = WalkIn \/ x.customer \in Customer
  BY BillFields DEF Party
<1> QED
  BY ONLY <1>4, <1>5, <1>7, <1>8, <1>9 DEF Changed

\* Nobody's account is a walk-in's.
LEMMA WalkInAccount ==
  ASSUME Figured, Figured', ReceivablesInv, NEW n, NEW m, NEW s, NEW a, Changed(WalkIn, n, m, s, a)
  PROVE  UNCHANGED Khata!account
<1>1. WalkIn \notin Customer
  BY Finite
<1>2. \A c \in Customer : /\ CostOf(bills', c) = CostOf(bills, c)
                          /\ PaidBy(pays', c) = PaidBy(pays, c)
                          /\ OwedBy(bills', c) = OwedBy(bills, c)
                          /\ AheadOf(pays', c) = AheadOf(pays, c)
  BY <1>1, FiguresTyped DEF Changed
<1>3. \A c \in Customer :
        /\ Costing(BillsOf(c))' = Costing(BillsOf(c)) /\ Paying(PaysOf(c))' = Paying(PaysOf(c))
        /\ Outstanding(c)' = Outstanding(c) /\ Advance(c)' = Advance(c)
  BY <1>2 DEF Figured
<1> QED
  BY <1>3 DEF Khata!account

\* The accounts of the others.
LEMMA OthersStay ==
  ASSUME Figured, Figured', ReceivablesInv, NEW k, NEW n, NEW m, NEW s, NEW a,
         Changed(k, n, m, s, a)
  PROVE  Khata!Only(k)
<1>1. \A c \in Customer \ {k} : /\ CostOf(bills', c) = CostOf(bills, c)
                                /\ PaidBy(pays', c) = PaidBy(pays, c)
                                /\ OwedBy(bills', c) = OwedBy(bills, c)
                                /\ AheadOf(pays', c) = AheadOf(pays, c)
  BY FiguresTyped DEF Changed
<1>2. \A c \in Customer \ {k} :
        /\ Costing(BillsOf(c))' = Costing(BillsOf(c)) /\ Paying(PaysOf(c))' = Paying(PaysOf(c))
        /\ Outstanding(c)' = Outstanding(c) /\ Advance(c)' = Advance(c)
  BY <1>1 DEF Figured
<1> QED
  BY <1>2 DEF Khata!Only

\* An invoice of a customer is a charge of the account.
LEMMA ChargeOfAccount ==
  ASSUME Figured, Figured', ReceivablesInv, ReceivablesInv', NEW c \in Customer,
         NEW n \in Nat, NEW m \in Nat, m <= n, Changed(c, n, m, n - m, 0)
  PROVE  Khata!Next
<1>1. /\ Costing(BillsOf(c))' = Costing(BillsOf(c)) + n
      /\ Paying(PaysOf(c))' = Paying(PaysOf(c)) + m
      /\ Outstanding(c)' = Outstanding(c) + (n - m)
      /\ Advance(c)' = Advance(c)
  BY FiguresTyped DEF Figured, Changed
<1>2. Khata!Only(c)
  BY OthersStay
<1>3. Khata!Charge(c, n, m)
  BY <1>1, <1>2 DEF Khata!Charge
<1>4. Costing(BillsOf(c)) \in Nat /\ Paying(PaysOf(c)) \in Nat
  BY FiguresTyped DEF Figured
<1>5. Outstanding(c) \in Nat
  BY BooksTyped, OwedNat DEF ReceivablesInv, BooksInv, Figured
<1>6. n \in 0..(Costing(BillsOf(c))' + Paying(PaysOf(c))' + Outstanding(c))
      /\ m \in 0..(Costing(BillsOf(c))' + Paying(PaysOf(c))' + Outstanding(c))
  BY ONLY <1>1, <1>4, <1>5, n \in Nat, m \in Nat, m <= n
<1> QED
  BY <1>3, <1>6 DEF Khata!Next

\* A collection is a receipt of the account.
LEMMA ReceiptOfAccount ==
  ASSUME Figured, Figured', ReceivablesInv, ReceivablesInv', NEW c \in Customer,
         NEW m \in Nat, NEW s \in Nat, s <= m, Changed(c, 0, m, 0 - s, m - s)
  PROVE  Khata!Next
<1>1. /\ Costing(BillsOf(c))' = Costing(BillsOf(c))
      /\ Paying(PaysOf(c))' = Paying(PaysOf(c)) + m
      /\ Outstanding(c)' = Outstanding(c) - s
      /\ Advance(c)' = Advance(c) + (m - s)
  BY FiguresTyped DEF Figured, Changed
<1>2. Khata!Only(c)
  BY OthersStay
<1>3. Costing(BillsOf(c)) \in Nat /\ Paying(PaysOf(c)) \in Nat
  BY FiguresTyped DEF Figured
<1>4. Outstanding(c) \in Nat
  BY BooksTyped, OwedNat DEF ReceivablesInv, BooksInv, Figured
<1>5. Outstanding(c)' \in Nat
  <2>1. bills' \in Rows /\ BillsOk(bills', pays')
    BY DEF ReceivablesInv, BooksInv
  <2> QED
    BY <2>1, OwedNat DEF Figured
<1>6. s <= Outstanding(c)
  BY ONLY <1>1, <1>4, <1>5, s \in Nat
<1>7. Khata!Receive(c, m, s)
  BY <1>1, <1>2, <1>6 DEF Khata!Receive
<1>8. m \in 0..(Costing(BillsOf(c))' + Paying(PaysOf(c))' + Outstanding(c))
      /\ s \in 0..(Costing(BillsOf(c))' + Paying(PaysOf(c))' + Outstanding(c))
  BY ONLY <1>1, <1>3, <1>4, <1>6, m \in Nat, s \in Nat
<1> QED
  BY <1>7, <1>8 DEF Khata!Next

\* What is booked changes one account at most; anything else changes none.
LEMMA StepOfAccount ==
  ASSUME Figured, Figured', ReceivablesInv, ReceivablesInv', [Next]_vars
  PROVE  [Khata!Next]_(Khata!account)
<1>1. ASSUME UNCHANGED <<bills, pays>> PROVE UNCHANGED Khata!account
  <2>1. \A c \in Customer :
          /\ Costing(BillsOf(c))' = Costing(BillsOf(c)) /\ Paying(PaysOf(c))' = Paying(PaysOf(c))
          /\ Outstanding(c)' = Outstanding(c) /\ Advance(c)' = Advance(c)
    BY <1>1 DEF Figured
  <2> QED
    BY <2>1 DEF Khata!account
<1>2. CASE UNCHANGED vars
  BY <1>1, <1>2 DEF vars
<1>3. CASE Next
  <2>1. PICK v \in Worker : Begin(v) \/ Serve(v) \/ Abort(v)
    BY <1>3 DEF Next
  <2>2. CASE CommitSale(v)
    <3> DEFINE x == SaleBill(tx[v])
    <3>1. /\ x \in Bill
          /\ Changed(x.customer, Cost(x), x.paid, Cost(x) - x.paid, 0)
          /\ Cost(x) \in Nat /\ x.paid \in Nat /\ x.paid <= Cost(x)
          /\ x.customer = WalkIn \/ x.customer \in Customer
      BY <2>2, SaleCharges, ChargedAccount
    <3> HIDE DEF x
    <3>2. CASE x.customer = WalkIn
      BY <3>1, <3>2, WalkInAccount
    <3>3. CASE x.customer \in Customer
      BY <3>1, <3>3, ChargeOfAccount
    <3> QED
      BY <3>1, <3>2, <3>3
  <2>3. CASE CommitDispatch(v)
    <3> DEFINE x == DispatchBill(tx[v])
    <3>1. /\ x \in Bill
          /\ Changed(x.customer, Cost(x), x.paid, Cost(x) - x.paid, 0)
          /\ Cost(x) \in Nat /\ x.paid \in Nat /\ x.paid <= Cost(x)
          /\ x.customer = WalkIn \/ x.customer \in Customer
      BY <2>3, DispatchCharges, ChargedAccount
    <3> HIDE DEF x
    <3>2. CASE x.customer = WalkIn
      BY <3>1, <3>2, WalkInAccount
    <3>3. CASE x.customer \in Customer
      BY <3>1, <3>3, ChargeOfAccount
    <3> QED
      BY <3>1, <3>2, <3>3
  <2>4. CASE CommitCollection(v)
    <3> DEFINE p == Collection(tx[v])
    <3>1. /\ p \in Payment
          /\ Collected(bills, pays, journal, p,
                       CollectionEntry(tx[v].req.money, tx[v].req.method),
                       bills', pays', journal')
      BY <2>4, CollectionCollects
    <3> HIDE DEF p
    <3>2. /\ Given(p) \in Nat /\ p.money \in Nat /\ p.customer \in Customer
          /\ \A c : CostOf(bills', c) = CostOf(bills, c)
          /\ \A c : OwedBy(bills', c)
                      = OwedBy(bills, c) - (IF c = p.customer THEN Given(p) ELSE 0)
          /\ \A c : PaidBy(pays', c)
                      = PaidBy(pays, c) + (IF p.customer = c THEN p.money ELSE 0)
          /\ \A c : AheadOf(pays', c) =
                      AheadOf(pays, c) + (IF p.customer = c THEN p.money - Given(p) ELSE 0)
      BY <3>1, BooksTyped, CollectedSums
    <3>3. Given(p) <= p.money
      BY <3>1 DEF Collected
    <3>4. \A c : CostOf(bills, c) \in Nat /\ OwedBy(bills, c) \in Int
      BY FiguresTyped
    <3>5. Changed(p.customer, 0, p.money, 0 - Given(p), p.money - Given(p))
      BY ONLY <3>2, <3>4 DEF Changed
    <3> QED
      BY ONLY <3>2, <3>3, <3>5, ReceiptOfAccount, ReceivablesInv, ReceivablesInv',
              Figured, Figured'
  <2>5. CASE ~CommitSale(v) /\ ~CommitDispatch(v) /\ ~CommitCollection(v)
    <3>1. UNCHANGED <<bills, pays>>
      BY <2>1, <2>5 DEF Begin, Start, Serve, Abort, Rollback, Fail, ReadOrder, TakeNumber,
                        Check, Look, Settle, ReadChart, OpenChart, CommitOrder, Books
    <3> QED
      BY <1>1, <3>1
  <2> QED
    BY <2>2, <2>3, <2>4, <2>5
<1> QED
  BY <1>2, <1>3

LEMMA AccountBegins == Init /\ Figured => Khata!Init
<1> SUFFICES ASSUME Init, Figured PROVE Khata!Init
  OBVIOUS
<1>1. \A c \in Customer : /\ Costing(BillsOf(c)) = 0 /\ Paying(PaysOf(c)) = 0
                          /\ Outstanding(c) = 0 /\ Advance(c) = 0
  BY NothingYet DEF Figured
<1>2. /\ [c \in Customer |-> Costing(BillsOf(c))] = [c \in Customer |-> 0]
      /\ [c \in Customer |-> Paying(PaysOf(c))] = [c \in Customer |-> 0]
      /\ [c \in Customer |-> Outstanding(c)] = [c \in Customer |-> 0]
      /\ [c \in Customer |-> Advance(c)] = [c \in Customer |-> 0]
  BY <1>1
<1> QED
  BY <1>2, Zenon DEF Khata!Init

\* Whatever is booked at once, each customer's account sees one charge or one
\* receipt at a time (sales/service.py, wholesale_service.py, collections/service.py).
THEOREM AccountKept == Spec => AccountSpec
<1>1. ReceivablesInv => Figured
  BY BilledIs, ReceivedAre, OutstandingIs, AheadIs DEF Figured
<1>2. Init => Khata!Init
  BY <1>1, InvInit, AccountBegins
<1>3. ReceivablesInv /\ ReceivablesInv' /\ Figured /\ Figured' /\ [Next]_vars
      => [Khata!Next]_(Khata!account)
  BY StepOfAccount
<1>4. Spec => [](ReceivablesInv /\ Figured)
  BY <1>1, ReceivablesInvariant, PTL
<1> QED
  BY <1>2, <1>3, <1>4, PTL DEF Spec, AccountSpec, Khata!Spec

-----------------------------------------------------------------------------
(* Who waits for whom.                                                     *)

\* What w can hold at the point where it is; the invoices it has still to lock
\* are younger than those it holds.
Held(w, t, op, cn, lk) ==
  /\ op = w => t.pc = "commit"
  /\ \A br \in Branch : cn[br] = w => t.pc \in {"check", "post", "open", "commit"}
  /\ \A b \in BillId : lk[b] = w => /\ t.pc \in {"settle", "open", "commit"}
                                    /\ t.pc = "settle" => \A d \in t.left : b < d

LocksHeld == \A w \in Worker : Held(w, tx[w], opener, counter, lock)

\* One worker's step: nobody else gets a lock.
LEMMA HeldStep ==
  ASSUME LocksHeld, tx \in [Worker -> Tx], NEW v \in Worker, NEW nt, tx' = [tx EXCEPT ![v] = nt],
         Held(v, nt, opener', counter', lock'),
         \A w \in Worker \ {v} :
           /\ opener' = w => opener = w
           /\ \A br \in Branch : counter'[br] = w => counter[br] = w
           /\ \A b \in BillId : lock'[b] = w => lock[b] = w
  PROVE  LocksHeld'
<1>1. tx'[v] = nt /\ \A w \in Worker : w # v => tx'[w] = tx[w]
  OBVIOUS
<1>2. SUFFICES ASSUME NEW w \in Worker
               PROVE  Held(w, tx'[w], opener', counter', lock')
  BY DEF LocksHeld
<1>3. CASE w = v
  BY <1>1, <1>3
<1>4. CASE w # v
  BY <1>1, <1>4 DEF LocksHeld, Held
<1> QED
  BY <1>3, <1>4

\* A step that takes no lock.
LEMMA HeldMove ==
  ASSUME LocksHeld, tx \in [Worker -> Tx], NEW v \in Worker, NEW nt, tx' = [tx EXCEPT ![v] = nt],
         UNCHANGED Locks,
         \/ tx[v].pc \in {"idle", "read", "look"}
         \/ tx[v].pc \in {"check", "post"} /\ nt.pc \in {"post", "open", "commit"}
         \/ tx[v].pc = "settle" /\ nt.pc \in {"open", "commit"}
  PROVE  LocksHeld'
<1>1. opener' = opener /\ counter' = counter /\ lock' = lock
  BY DEF Locks
<1>2. Held(v, tx[v], opener, counter, lock)
  BY DEF LocksHeld
<1>3. Held(v, nt, opener, counter, lock)
  BY <1>2 DEF Held
<1> QED
  BY <1>1, <1>3, HeldStep

\* A transaction that ends.
LEMMA HeldRelease ==
  ASSUME LocksHeld, tx \in [Worker -> Tx], NEW v \in Worker, Release(v)
  PROVE  LocksHeld'
<1>0. v # NoOne
  BY ReceivablesAssumption
<1>1. Held(v, Idle, opener', counter', lock')
  BY <1>0 DEF Release, Held
<1>2. \A w \in Worker \ {v} : /\ opener' = w => opener = w
                              /\ \A br \in Branch : counter'[br] = w => counter[br] = w
                              /\ \A b \in BillId : lock'[b] = w => lock[b] = w
  BY ReceivablesAssumption DEF Release
<1> QED
  BY <1>1, <1>2, HeldStep DEF Release

\* Every step keeps what a request can hold.
LEMMA HeldNext == ReceivablesInv /\ LocksHeld /\ [Next]_vars => LocksHeld'
<1> SUFFICES ASSUME ReceivablesInv, LocksHeld, [Next]_vars PROVE LocksHeld'
  OBVIOUS
<1>0. tx \in [Worker -> Tx] /\ HoldersOk /\ NoOne \notin Worker
  BY ReceivablesAssumption DEF ReceivablesInv
<1>1. CASE UNCHANGED vars
  BY <1>1 DEF vars, LocksHeld, Held
<1>2. ASSUME NEW v \in Worker, Begin(v) PROVE LocksHeld'
  <2>1. PICK req, pc, b : Start(v, req, pc, b)
    BY <1>2 DEF Begin
  <2> QED
    BY <1>0, <2>1, HeldMove DEF Start
<1>3. ASSUME NEW v \in Worker, Release(v) PROVE LocksHeld'
  BY <1>0, <1>3, HeldRelease
<1>4. ASSUME NEW v \in Worker, ReadOrder(v) PROVE LocksHeld'
  <2>1. /\ \E t : tx' = [tx EXCEPT ![v] = t]
        /\ tx[v].pc = "read" /\ UNCHANGED Locks
    BY <1>4 DEF ReadOrder
  <2> QED
    BY <1>0, <2>1, HeldMove
<1>5. ASSUME NEW v \in Worker, Look(v) PROVE LocksHeld'
  <2>1. /\ \E t : tx' = [tx EXCEPT ![v] = t]
        /\ tx[v].pc = "look" /\ UNCHANGED Locks
    BY <1>5 DEF Look
  <2> QED
    BY <1>0, <2>1, HeldMove
<1>6. ASSUME NEW v \in Worker, Check(v) \/ ReadChart(v) PROVE LocksHeld'
  <2>1. PICK pc \in {"post", "open", "commit"} :
             /\ Move(v, pc) /\ UNCHANGED Locks
             /\ \/ tx[v].pc \in {"check", "post"}
                \/ tx[v].pc = "settle" /\ pc \in {"open", "commit"}
    BY <1>6 DEF Check, ReadChart
  <2> DEFINE nt == [tx[v] EXCEPT !.pc = pc]
  <2>2. nt.pc = pc /\ tx' = [tx EXCEPT ![v] = nt]
    BY <1>0, <2>1 DEF Tx, Move
  <2> HIDE DEF nt
  <2> QED
    BY <1>0, <2>1, <2>2, HeldMove
<1>7. ASSUME NEW v \in Worker, TakeNumber(v) PROVE LocksHeld'
  <2> DEFINE pc == IF Req(v).kind = "sale" THEN "check" ELSE "post"
             nt == [tx[v] EXCEPT !.pc = pc]
  <2>1. nt.pc = pc /\ pc \in {"check", "post"} /\ tx' = [tx EXCEPT ![v] = nt]
    BY <1>0, <1>7 DEF Tx, Move, TakeNumber
  <2>2. /\ tx[v].pc = "number" /\ opener' = opener /\ lock' = lock
        /\ counter' = [counter EXCEPT ![Req(v).branch] = v]
    BY <1>7 DEF TakeNumber
  <2> HIDE DEF nt, pc
  <2>3. Held(v, tx[v], opener, counter, lock)
    BY DEF LocksHeld
  <2>4. Held(v, nt, opener', counter', lock')
    BY <2>1, <2>2, <2>3 DEF Held
  <2>5. \A w \in Worker \ {v}, br \in Branch : counter'[br] = w => counter[br] = w
    BY <1>0, <2>2 DEF HoldersOk
  <2> QED
    BY <1>0, <2>1, <2>2, <2>4, <2>5, HeldStep
<1>8. ASSUME NEW v \in Worker, OpenChart(v) PROVE LocksHeld'
  <2> DEFINE nt == [tx[v] EXCEPT !.pc = "commit"]
  <2>1. nt.pc = "commit" /\ tx' = [tx EXCEPT ![v] = nt]
    BY <1>0, <1>8 DEF Tx, Move, OpenChart
  <2>2. tx[v].pc = "open" /\ opener' = v /\ counter' = counter /\ lock' = lock
    BY <1>8 DEF OpenChart
  <2> HIDE DEF nt
  <2>3. Held(v, tx[v], opener, counter, lock)
    BY DEF LocksHeld
  <2>4. Held(v, nt, opener', counter', lock')
    BY <2>1, <2>2, <2>3 DEF Held
  <2> QED
    BY <1>0, <2>1, <2>2, <2>4, HeldStep
<1>9. ASSUME NEW v \in Worker, Settle(v) PROVE LocksHeld'
  <2> DEFINE b0 == Oldest(tx[v].left)
             nt == [tx[v] EXCEPT !.left = @ \ {b0}, !.take[b0] = Share(b0, tx[v].rest),
                                 !.rest = @ - Share(b0, @)]
  <2>1. tx[v] \in Tx /\ tx[v].left \in SUBSET BillId
    BY <1>0 DEF Tx
  <2>2. nt.pc = tx[v].pc /\ nt.left = tx[v].left \ {b0} /\ tx' = [tx EXCEPT ![v] = nt]
    BY <1>0, <1>9, <2>1 DEF Tx, Settle
  <2>3. /\ tx[v].pc = "settle" /\ tx[v].left # {} /\ opener' = opener /\ counter' = counter
        /\ lock' = [lock EXCEPT ![b0] = v]
    BY <1>9 DEF Settle
  <2>4. b0 \in BillId /\ \A a \in tx[v].left : b0 <= a
    BY <2>1, <2>3, OldestThere
  <2> HIDE DEF nt, b0
  <2>5. Held(v, tx[v], opener, counter, lock)
    BY DEF LocksHeld
  <2>6. BillId \subseteq Nat
    BY Finite
  <2>7. ASSUME NEW d \in nt.left PROVE b0 < d
    <3>1. d \in Nat /\ b0 \in Nat /\ d # b0 /\ b0 <= d
      BY <2>1, <2>2, <2>4, <2>6
    <3> QED
      BY ONLY <3>1
  <2>8. \A b \in BillId : lock'[b] = v => \A d \in nt.left : b < d
    BY <1>0, <2>2, <2>3, <2>5, <2>7 DEF Held, HoldersOk
  <2>9. Held(v, nt, opener', counter', lock')
    BY <2>2, <2>3, <2>5, <2>8 DEF Held
  <2>10. \A w \in Worker \ {v}, b \in BillId : lock'[b] = w => lock[b] = w
    BY <1>0, <2>3 DEF HoldersOk
  <2> QED
    BY <1>0, <2>2, <2>3, <2>9, <2>10, HeldStep
<1> QED
  BY <1>1, <1>2, <1>3, <1>4, <1>5, <1>6, <1>7, <1>8, <1>9
  DEF Next, Serve, Abort, Fail, Rollback, CommitSale, CommitOrder, CommitDispatch, CommitCollection

\* What a request may still have to wait for, in the order in which it is locked:
\* the number, the invoices, the chart.
Ahead(w) ==
  IF tx[w].pc = "number" THEN MaxBills + 3
  ELSE IF tx[w].pc = "settle" /\ tx[w].left # {} THEN MaxBills + 2 - Oldest(tx[w].left)
  ELSE IF tx[w].pc = "open" THEN 1 ELSE 0

\* The count is a number, and the next invoice one of those to lock.
LEMMA AheadTyped ==
  ASSUME ReceivablesInv, NEW w \in Worker
  PROVE  /\ Ahead(w) \in Nat
         /\ tx[w].pc = "settle" /\ tx[w].left # {} =>
              Oldest(tx[w].left) \in tx[w].left /\ Oldest(tx[w].left) \in BillId
         /\ \A b \in BillId : b \in 1 .. MaxBills
         /\ MaxBills \in Nat
<1>1. tx[w].left \in SUBSET BillId
  BY DEF ReceivablesInv, Tx
<1>2. tx[w].left # {} => Oldest(tx[w].left) \in tx[w].left /\ Oldest(tx[w].left) \in BillId
  BY <1>1, OldestThere
<1>3. MaxBills \in Nat /\ \A b \in BillId : b \in 1 .. MaxBills
  BY Finite DEF BillId
<1> QED
  BY <1>2, <1>3 DEF Ahead

\* Whom a request waits for has less ahead of it.
LEMMA WaitsDown ==
  ASSUME ReceivablesInv, LocksHeld, NEW v \in Worker, NEW w \in Worker, WaitsFor(v, w)
  PROVE  Ahead(w) < Ahead(v)
<1>0. Held(w, tx[w], opener, counter, lock)
  BY DEF LocksHeld
<1>1. CASE tx[v].pc = "number" /\ counter[Req(v).branch] = w
  <2>1. Req(v).branch \in Branch
    BY TxFields DEF ReceivablesInv, Req
  <2>2. tx[w].pc \in {"check", "post", "open", "commit"}
    BY <1>0, <1>1, <2>1 DEF Held
  <2> QED
    BY <1>1, <2>2, AheadTyped DEF Ahead
<1>2. CASE tx[v].pc = "settle" /\ tx[v].left # {} /\ lock[Oldest(tx[v].left)] = w
  <2> DEFINE b == Oldest(tx[v].left)
             d == Oldest(tx[w].left)
  <2>1. b \in BillId /\ MaxBills \in Nat /\ b \in 1 .. MaxBills
    BY <1>2, AheadTyped
  <2>2. Ahead(v) = MaxBills + 2 - b
    BY <1>2 DEF Ahead
  <2>3. tx[w].pc \in {"settle", "open", "commit"} /\ (tx[w].pc = "settle" => \A a \in tx[w].left : b < a)
    BY <1>0, <1>2, <2>1 DEF Held
  <2>4. CASE tx[w].pc = "settle" /\ tx[w].left # {}
    <3>1. b < d /\ d \in 1 .. MaxBills
      BY <2>3, <2>4, AheadTyped
    <3>2. Ahead(w) = MaxBills + 2 - d
      BY <2>4 DEF Ahead
    <3> HIDE DEF b, d
    <3> QED
      BY <2>1, <2>2, <3>1, <3>2
  <2>5. CASE ~(tx[w].pc = "settle" /\ tx[w].left # {})
    <3>1. Ahead(w) \in {0, 1}
      BY <2>3, <2>5 DEF Ahead
    <3> HIDE DEF b, d
    <3> QED
      BY <2>1, <2>2, <3>1
  <2> QED
    BY <2>4, <2>5
<1>3. CASE tx[v].pc = "open" /\ opener = w
  BY <1>0, <1>3 DEF Held, Ahead
<1> QED
  BY <1>1, <1>2, <1>3 DEF WaitsFor

\* However many sales, dispatches and collections run, they never wait for one
\* another in a circle: numbers come before invoices, invoices in the order of
\* their age, the chart of accounts last (numbering/service.py:52-60,
\* collections/service.py:141-149).
THEOREM RequestsNeverDeadlock == Spec => []NoCircle
<1>1. ReceivablesInv /\ LocksHeld => NoCircle
  <2> SUFFICES ASSUME ReceivablesInv, LocksHeld, NEW S \in SUBSET Worker, S # {}
               PROVE  \E v \in S : \A w \in S : ~WaitsFor(v, w)
    BY DEF NoCircle
  <2> DEFINE T == {Ahead(v) : v \in S}
  <2>1. T \subseteq Nat /\ T # {}
    BY AheadTyped
  <2>2. PICK n \in T : \A m \in T : ~ (<<m, n>> \in OpToRel(<, Nat))
    BY ONLY <2>1, WFMin, NatLessThanWellFounded
  <2>3. PICK v \in S : n = Ahead(v)
    BY <2>2
  <2>4. ASSUME NEW w \in S, WaitsFor(v, w) PROVE FALSE
    <3>1. Ahead(w) < Ahead(v) /\ Ahead(v) \in Nat /\ Ahead(w) \in Nat /\ Ahead(w) \in T
      BY <2>4, WaitsDown, AheadTyped
    <3>2. <<Ahead(w), n>> \in OpToRel(<, Nat)
      BY ONLY <2>3, <3>1 DEF OpToRel
    <3> QED
      BY <2>2, <3>1, <3>2
  <2> QED
    BY <2>4
<1>2. Init => LocksHeld
  BY ReceivablesAssumption DEF Init, LocksHeld, Held
<1>3. Spec => [](ReceivablesInv /\ LocksHeld)
  BY <1>2, InvInit, NextKeeps, HeldNext, PTL DEF Spec
<1> QED
  BY <1>1, <1>3, PTL
=============================================================================
