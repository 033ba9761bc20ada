------------------------------ MODULE MCAccess ------------------------------
(***************************************************************************)
(* Who may do what, and the records they refer to.  Two handlers sign a    *)
(* person and the owner in and out and change them; two desks create and   *)
(* edit records; an organization is migrated from any choice of roles.  A  *)
(* behaviour does one of the three: they share no rows.                    *)
(***************************************************************************)
EXTENDS Sessions, Directory, RoleUpgrade, TLC

CONSTANTS u1, u2

VARIABLE duty   \* what this behaviour does

Change(by, u, active, role) == [by |-> by, user |-> u, active |-> active, role |-> role]

AtFirst == [u \in {u1, u2} |-> IF u = u1 THEN "store_inventory" ELSE "counter_sales"]

Updating == {Change(u1, u2, FALSE, Keep), Change(u1, u2, TRUE, "store_inventory"),
             Change(u1, u2, Keep, "counter_sales"), Change(u2, u1, FALSE, Keep)}

\* Codes of customers: a number's and the office's own; and a code of a supplier.
Codes == [n \in Numbers |-> <<"RC", n>>]
Customers == {Codes[n] : n \in Numbers} \cup {<<"C", <<1>>>>}
Keys == Customers \cup {<<"S", <<1>>>>}
Inside == [k \in Keys |-> IF k[1] = "RC" THEN {k[2]} ELSE {}]
Ordered == {<<"RC", <<5, 6>>>>, <<"C", <<1>>>>, <<"S", <<1>>>>}

\* "56", with a prefix, with separators, and "76"; 10 stands for a character that is no digit.
Spoken == {<<5, 6>>, <<9, 5, 6>>, <<10, 9, 5, 10, 6>>, <<7, 6>>}

\* A phone with a separator inside, and one without; a number for a name.
Fields == [f \in {"name", "phone"} |->
             IF f = "phone" THEN {<<5, 10, 6>>, <<7, 6>>} ELSE {<<5, 6>>}]

Everything == Counter \cup Store \cup
  {"pricing.view_cost", "pricing.override", "sales.finalize", "sales.cancel", "report.view",
   "report.view_profit", "service.manage", "user.manage", "settings.manage", "audit.view"}

Accounts == <<users, roles, sessions, tokens, misses, closed, assigned, calls>>

\* Handlers, and desks, are interchangeable.
Interchangeable == Permutations(Handler) \cup Permutations(Desk)

AccessInit ==
  /\ SessionsInit /\ DirectoryInit /\ UpgradeInit
  /\ duty \in {"people", "records", "roles"}
  /\ duty # "roles" => roleRows = {}

AccessNext ==
  \/ duty = "people"  /\ SessionsNext  /\ UNCHANGED <<directoryVars, upgradeVars, duty>>
  \/ duty = "records" /\ DirectoryNext /\ UNCHANGED <<sessionVars, upgradeVars, duty>>
  \/ duty = "roles"   /\ UpgradeNext   /\ UNCHANGED <<sessionVars, directoryVars, duty>>

AccessSpec == AccessInit /\ [][AccessNext]_<<sessionVars, directoryVars, upgradeVars, duty>>

\* Accounts, records and roles keep their types.
AccessTypeOK == SessionsTypeOK /\ DirectoryTypeOK /\ UpgradeTypeOK

\* What one request has committed, no other that read the row before undoes:
\* failed logins are counted, the role given last is among those held (another
\* one may be held with it: OneRolePerUser), and no field of a record goes back.
NothingLost == FailuresAreCounted /\ LastRoleHeld /\ NoEditLost
=============================================================================
