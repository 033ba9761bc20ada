--------------------------- MODULE CustomerAccount ---------------------------
(***************************************************************************)
(* What the khata promises: a step concerns one customer, and is either an *)
(* invoice, with what was paid at once, or a payment, which settles at     *)
(* most what is owed and keeps what it does not settle as an advance.      *)
(***************************************************************************)
EXTENDS Naturals

CONSTANTS Customer

VARIABLES
  billed,    \* invoiced so far
  received,  \* paid so far
  owed,      \* unpaid on the customer's invoices
  advance    \* received and not allocated to an invoice

account == <<billed, received, owed, advance>>

Init == \A v \in {billed, received, owed, advance} : v = [c \in Customer |-> 0]

\* Every other customer's account stays.
Only(c) ==
  \A d \in Customer \ {c} : <<billed[d], received[d], owed[d], advance[d]>>' =
                            <<billed[d], received[d], owed[d], advance[d]>>

\* An invoice of n, and m paid with it.
Charge(c, n, m) ==
  /\ m <= n
  /\ billed'[c] = billed[c] + n
  /\ received'[c] = received[c] + m
  /\ owed'[c] = owed[c] + (n - m)
  /\ advance'[c] = advance[c]
  /\ Only(c)

\* A payment of m that settles s.
Receive(c, m, s) ==
  /\ s <= m /\ s <= owed[c]
  /\ billed'[c] = billed[c]
  /\ received'[c] = received[c] + m
  /\ owed'[c] = owed[c] - s
  /\ advance'[c] = advance[c] + (m - s)
  /\ Only(c)

Next ==
  \E c \in Customer : \E n, m \in 0..(billed'[c] + received'[c] + owed[c]) :
    Charge(c, n, m) \/ Receive(c, m, n)

Spec == Init /\ [][Next]_account
=============================================================================
