------------------------------- MODULE Ledger -------------------------------
(***************************************************************************)
(* The chart of accounts and the journal entries the program posts         *)
(* (accounting/service.py, sales/service.py _post_sale_journal,            *)
(* wholesale_service.py dispatch_and_invoice, collections/service.py).     *)
(* An entry is a function from accounts to amounts: debits are positive,   *)
(* credits negative.                                                       *)
(***************************************************************************)
EXTENDS Integers, FiniteSets, FiniteSetsExt

Account == {"CASH", "BANK", "UPI", "CARD", "AR", "AP", "SALES", "GST_OUTPUT",
            "GST_INPUT", "PURCHASES"}

Method == {"cash", "upi", "card", "bank_transfer", "cheque", "credit", "advance"}

\* PAYMENT_METHOD_ACCOUNT.get(method, "CASH"): "credit" and "advance" have no
\* account of their own.
AccountOf(m) ==
  CASE m = "upi" -> "UPI" [] m = "card" -> "CARD"
    [] m \in {"bank_transfer", "cheque"} -> "BANK"
    [] OTHER -> "CASH"

Entry == [Account -> Int]

\* post raises otherwise.
Balanced(e) == MapThenSumSet(LAMBDA a : e[a], Account) = 0

\* The debits of some accounts less the credits of others.
Lines(debits, credits) ==
  [x \in Account |-> (IF x \in DOMAIN debits THEN debits[x] ELSE 0)
                     - (IF x \in DOMAIN credits THEN credits[x] ELSE 0)]

Income(net, tax) == [x \in {"SALES", "GST_OUTPUT"} |-> IF x = "SALES" THEN net ELSE tax]

\* Slip: what is left on khata is not posted.
SaleEntryPaidOnly(net, tax, money, m) ==
  Lines([x \in {AccountOf(m)} |-> money], [x \in {"SALES"} |-> money])

\* A counter sale: tender and receivable against sales and tax.
SaleEntry(net, tax, money, m) ==
  Lines([x \in {AccountOf(m), "AR"} |-> IF x = "AR" THEN net + tax - money ELSE money],
        Income(net, tax))

\* A dispatch ships on credit.
DispatchEntry(net, tax) == Lines([x \in {"AR"} |-> net + tax], Income(net, tax))

\* A collection: the whole amount leaves the receivable, allocated or not.
CollectionEntry(money, m) ==
  Lines([x \in {AccountOf(m)} |-> money], [x \in {"AR"} |-> money])
=============================================================================
