------------------------------ MODULE BillBook ------------------------------
(***************************************************************************)
(* What billing promises: an append-only book.  A sale is entered in one   *)
(* step, at most once per idempotency key, under the next value of its     *)
(* branch ("guaranteeing no gaps or collisions under concurrency",         *)
(* numbering/models.py), and with an invoice number nobody else has.       *)
(***************************************************************************)
EXTENDS Naturals

CONSTANTS Series, CodeOf, Key, NoKey

VARIABLE bills

Init == bills = {}

\* The number printed on the bill: what is stored of the branch code, and a value.
Number(s, v) == <<CodeOf[s][1], v>>

ValuesOf(s) == {b.value : b \in {c \in bills : c.series = s}}

\* b has the next value of its series, and neither its number nor its key is taken.
Fits(b) ==
  /\ ValuesOf(b.series) = 1..(b.value - 1)
  /\ \A c \in bills : Number(c.series, c.value) # Number(b.series, b.value)
  /\ b.key # NoKey => \A c \in bills : c.key # b.key

Enter(b) ==
  /\ Fits(b)
  /\ b.paid <= b.total
  /\ bills' = bills \cup {b}

Next == \E b \in bills' : Enter(b)

Spec == Init /\ [][Next]_bills
=============================================================================
