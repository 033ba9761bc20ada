------------------------------ MODULE MCStartup ------------------------------
(* Two containers and an operator; two demo accounts, and one that is retired. *)
EXTENDS Startup

Account(email, usable, own, other, branch) ==
  [email |-> email, usable |-> usable, own |-> own, other |-> other, branch |-> branch, version |-> 0]

\* As the older release left them, or as users and the owner have left them since.
Known == {Account("legacy", TRUE, 1, FALSE, TRUE), Account("demo", FALSE, 0, TRUE, TRUE),
          Account("demo", TRUE, 0, TRUE, FALSE), Absent}

Earlier == [{"counter", "store", "technician"} -> Known \cup {Account("demo", TRUE, 0, FALSE, TRUE)}]

KnownLogins ==
  {l \in Earlier : /\ l["counter"] \in Known
                   /\ l["store"] = Account("legacy", TRUE, 1, FALSE, TRUE)
                   /\ l["technician"] = Account("demo", TRUE, 0, FALSE, TRUE)}
=============================================================================
