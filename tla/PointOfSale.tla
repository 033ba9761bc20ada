----------------------------- MODULE PointOfSale -----------------------------
(***************************************************************************)
(* The counter (frontend features/pos: PosScreen.tsx, useCart.ts,          *)
(* usePos.ts, api.ts) on top of Billing.                                   *)
(*                                                                         *)
(* A till keeps its cart, the quotes React Query has cached for it (one    *)
(* per content of the cart), the khata tick box and one idempotency key    *)
(* per cart.  It waits for one answer at a time; while it waits the cart   *)
(* can still be edited.  When the answer is lost it shows an error and     *)
(* keeps cart and key, while the server carries on.                        *)
(***************************************************************************)
EXTENDS Billing, Integers

CONSTANTS
  Till,
  BranchOf      \* the branch of the user at each till

ASSUME TillAssumption ==
  /\ BranchOf \in [Till -> Series]
  /\ Cardinality(Till) <= Cardinality(Key)

VARIABLES
  till,      \* the screen of each till
  sale,      \* the worker whose answer each till is waiting for
  told,      \* keys whose sale a till has reported as done
  sent       \* history: what each till has sent under the key it has

posVars == <<till, sale, told, sent>>
allVars == <<vars, posVars>>

Tills == [qty : 0..MaxQty,              \* the cart
          quote : [1..MaxQty -> Nat],   \* quoted totals (0: none), by content of the cart
          credit : BOOLEAN,             \* "Sale on credit (khata)"
          key : Key \cup {NoKey}]

\* What a press of the pay button asks for: a quantity and the amount taken.
Presses == [qty : 1..MaxQty, paid : Nat]
Press(x) == [qty |-> x.qty, paid |-> x.paid]

PosTypeOK ==
  /\ TypeOK
  /\ till \in [Till -> Tills]
  /\ sale \in [Till -> Worker \cup {NoOne}]
  /\ told \subseteq Key
  /\ sent \in [Till -> SUBSET Presses]

Empty(k) == [qty |-> 0, quote |-> [q \in 1..MaxQty |-> 0], credit |-> FALSE, key |-> k]

PosInit ==
  /\ Init
  /\ \E k \in [Till -> Key] :
       /\ \A t, u \in Till : k[t] = k[u] => t = u
       /\ till = [t \in Till |-> Empty(k[t])]
  /\ sale = [t \in Till |-> NoOne]
  /\ told = {}
  /\ sent = [t \in Till |-> {}]

-----------------------------------------------------------------------------
Busy(t) == sale[t] # NoOne
Quoted(t) == IF till[t].qty = 0 THEN 0 ELSE till[t].quote[till[t].qty]

\* Keys crypto.randomUUID may still return; when the instance has run out of
\* keys a till stops (NoKey).
Fresh == Key \ (told \cup {till[t].key : t \in Till} \cup {KeyOf(w) : w \in Worker}
                \cup {b.key : b \in invoices})
NextKey == IF Fresh = {} THEN {NoKey} ELSE Fresh

\* Slip: setQuantity keeps lines whose quantity is not positive.
EditCartUnfiltered(t) ==
  /\ \E q \in -1..MaxQty :
       /\ q # till[t].qty
       /\ till' = [till EXCEPT ![t].qty = q]
  /\ UNCHANGED <<vars, sale, told, sent>>

\* add and setQuantity, at any time.
EditCart(t) ==
  /\ \E q \in 0..MaxQty :
       /\ q # till[t].qty
       /\ till' = [till EXCEPT ![t].qty = q]
  /\ UNCHANGED <<vars, sale, told, sent>>

TickCredit(t) ==
  /\ till' = [till EXCEPT ![t].credit = ~@]
  /\ UNCHANGED <<vars, sale, told, sent>>

\* POST /pos/quote with the price of this moment, cached for this content.
FetchQuote(t) ==
  /\ till[t].qty > 0
  /\ till' = [till EXCEPT ![t].quote[till[t].qty] = till[t].qty * price]
  /\ UNCHANGED <<vars, sale, told, sent>>

\* amountTaken: the quoted total, or on khata any part of it.
Amounts(t) == IF till[t].credit THEN 0..Quoted(t) ELSE {Quoted(t)}

\* The pay button, enabled for a quoted cart and while no sale is under way.
Finalize(t) ==
  /\ ~Busy(t)
  /\ till[t].qty > 0 /\ Quoted(t) > 0
  /\ till[t].key # NoKey
  /\ \E w \in Worker, amount \in Amounts(t) :
       /\ Submit(w, [series |-> BranchOf[t], key |-> till[t].key, qty |-> till[t].qty,
                     paid |-> amount, named |-> TRUE])
       /\ sale' = [sale EXCEPT ![t] = w]
       /\ sent' = [sent EXCEPT ![t] = @ \cup {[qty |-> till[t].qty, paid |-> amount]}]
  /\ UNCHANGED <<till, told>>

\* Slip: the key is not renewed.
HearDoneKeepsKey(t) ==
  /\ Busy(t)
  /\ Reply(sale[t])
  /\ till' = [till EXCEPT ![t] = [Empty(till[t].key) EXCEPT !.quote = till[t].quote]]
  /\ sale' = [sale EXCEPT ![t] = NoOne]
  /\ told' = told \cup {KeyOf(sale[t])}
  /\ sent' = [sent EXCEPT ![t] = {}]

\* The sale is done: whatever the cart holds now is cleared, and a new key minted.
HearDone(t) ==
  /\ Busy(t)
  /\ Reply(sale[t])
  /\ \E k \in NextKey :
       till' = [till EXCEPT ![t] = [Empty(k) EXCEPT !.quote = till[t].quote]]
  /\ sale' = [sale EXCEPT ![t] = NoOne]
  /\ told' = told \cup {KeyOf(sale[t])}
  /\ sent' = [sent EXCEPT ![t] = {}]

\* Slip: each attempt gets a key of its own.
HearErrorNewKey(t) ==
  /\ sale' = [sale EXCEPT ![t] = NoOne]
  /\ \E k \in NextKey : till' = [till EXCEPT ![t].key = k]
  /\ UNCHANGED <<told, sent>>

\* Every failure ends in the catch block: the cart and the key stay.
HearError(t) ==
  /\ sale' = [sale EXCEPT ![t] = NoOne]
  /\ UNCHANGED <<till, told, sent>>

\* The connection breaks, before the request was served or after, or the
\* finished invoice cannot be fetched.  The server does not notice.
LoseAnswer(t) == Busy(t) /\ HearError(t) /\ UNCHANGED vars

\* The server answers with an error.
HearFailure(t) ==
  /\ Busy(t)
  /\ Fail(sale[t]) \/ Abort(sale[t])
  /\ HearError(t)

Awaited == {sale[t] : t \in Till}

\* The server by itself; a request nobody waits for may fail, its answer is lost.
ServeOn(w) ==
  /\ \/ Replay(w) \/ LoadProducts(w) \/ TakeNumber(w) \/ InsertInvoice(w)
     \/ WriteSale(w) \/ RecordKey(w) \/ Commit(w)
     \/ w \notin Awaited /\ (Fail(w) \/ Abort(w) \/ Reply(w))
  /\ UNCHANGED posVars

ChangePrice == Reprice /\ UNCHANGED posVars

PosNext ==
  \/ \E t \in Till :
       \/ EditCart(t) \/ TickCredit(t) \/ FetchQuote(t) \/ Finalize(t)
       \/ HearDone(t) \/ LoseAnswer(t) \/ HearFailure(t)
  \/ \E w \in Worker : ServeOn(w)
  \/ ChangePrice

PosSpec == PosInit /\ [][PosNext]_allVars

-----------------------------------------------------------------------------
(* Properties.                                                             *)

\* The answer a till is about to hear.
Answers(t) == IF Busy(t) /\ tx[sale[t]].pc = "reply" THEN tx[sale[t]].answer ELSE {}

\* One sale for each key, and it is one the till has asked for: a till is told of the
\* only bill there is under its key, and that bill records a press of the pay button
\* this till made for this cart, never another cart's or another till's, however
\* answers were lost and requests overtaken (PosScreen.tsx:84-94 and 189-194 with
\* sales/service.py:185-200).  A till that pressed for one thing only has been billed
\* for that; one that pressed again after an edit may not have: BilledAsCharged.
ClearedIsBilled ==
  /\ \A k \in told : \E b \in invoices : {c \in invoices : c.key = k} = {b}
  /\ \A t \in Till : \A b \in Answers(t) :
       /\ {c \in invoices : c.key = till[t].key} = {b}
       /\ b.series = BranchOf[t]
       /\ Press(b) \in sent[t]

\* Whatever failed on the way, a bill the counter has not been told of is one
\* the next attempt finds again: a till still shows its cart with its key.
NoBillForgotten ==
  \A b \in invoices : b.key \in told \/ \E t \in Till : till[t].key = b.key

\* No two carts share a key, and none has one whose sale was reported: a till that
\* finds its key in use finds its own sale.
OneKeyPerCart ==
  \A t \in Till : till[t].key # NoKey =>
    till[t].key \notin told /\ \A u \in Till \ {t} : till[u].key # till[t].key

=============================================================================
