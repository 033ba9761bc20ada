---------------------------- MODULE MCReceivables ----------------------------
(***************************************************************************)
(* Instances of Receivables: one customer with a limit and one without,    *)
(* invoices of three, two and nothing, collections that cover part of      *)
(* them, one of them, or more than there is.                               *)
(***************************************************************************)
EXTENDS Receivables

CONSTANTS c1, c2, b1, b2

Blank == NoRequest
Sale(c, b, n, t, m, how) == [Blank EXCEPT !.customer = c, !.branch = b, !.net = n, !.tax = t,
                             !.money = m, !.method = how]
Take(c, m, how) == [Blank EXCEPT !.kind = "collect", !.customer = c, !.money = m, !.method = how]
Ask(c, n, o, q) == [Blank EXCEPT !.kind = "order", !.customer = c, !.net = n, !.override = o,
                    !.quote = q]
Ship(i) == [Blank EXCEPT !.kind = "dispatch", !.order = i]

Limits == [c \in {c1, c2} |-> IF c = c1 THEN 3 ELSE 0]

Mixed == {Sale(c1, b1, 2, 1, 1, "upi"), Sale(c2, b2, 1, 0, 0, "cash"),
          Take(c1, 2, "cash"), Take(c1, 4, "cheque"), Ask(c1, 2, FALSE, FALSE), Ship(1)}
=============================================================================
