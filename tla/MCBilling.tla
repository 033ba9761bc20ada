----------------------------- MODULE MCBilling ------------------------------
(***************************************************************************)
(* Instances of Billing: two branches whose codes differ after the part    *)
(* that reaches the invoice number, so that their first sales want the     *)
(* same one, and a third branch whose code differs early; a few requests   *)
(* that share a key, exceed the total or come without a key.               *)
(***************************************************************************)
EXTENDS Billing, TLC

CONSTANTS b1, b2, b3, k1, k2

Req(s, k, q, p, n) == [series |-> s, key |-> k, qty |-> q, paid |-> p, named |-> n]

\* The first 11 characters, and the rest.
LongCodes ==
  [s \in {b1, b2, b3} |->
     CASE s = b1 -> <<"north store", "1">>
       [] s = b2 -> <<"north store", "2">>
       [] s = b3 -> <<"west", "">>]

\* The same key twice with another payload, at two branches and at one; a
\* walk-in that may pay too little or too much; a sale without a key.
Mixed == {Req(b1, k1, 1, 1, TRUE), Req(b3, k1, 2, 1, TRUE), Req(b1, k2, 1, 1, FALSE),
          Req(b2, NoKey, 1, 0, TRUE)}
=============================================================================
