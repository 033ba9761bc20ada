----------------------------- MODULE RoleUpgrade -----------------------------
(***************************************************************************)
(* The migration that collapses eight roles into three, and back           *)
(* (migrations/versions/c9f1a70b34d2).  An organization may hold any of    *)
(* the old roles and, when it was provisioned by newer code before the     *)
(* migration ran, any of the new ones.  A migration is one transaction;    *)
(* its statements are steps here because uq_role_code is checked by each.  *)
(***************************************************************************)
EXTENDS Naturals, FiniteSets

CONSTANTS
  Org,       \* organizations
  Code,      \* the role codes that an organization may have at the start
  Catalogue  \* the permissions that have been seeded

Renames == {<<"billing_operator", "counter_sales">>, <<"inventory_manager", "store_inventory">>}

Retired == {"administrator", "billing_operator", "wholesale_salesperson", "inventory_manager",
            "accountant", "service_technician", "auditor"}

Kept == {"owner", "counter_sales", "store_inventory"}

Counter == {"product.view", "inventory.view", "sales.create", "customer.view",
            "customer.create", "payment.receive"}

Store == {"product.view", "product.create", "product.update", "inventory.view",
          "inventory.adjust", "stock.transfer", "purchase.view", "purchase.create"}

\* The permissions of the roles before and after; the owner has them all.
PermissionsOf(code) ==
  CASE code = "owner"                 -> Catalogue
    [] code = "counter_sales"         -> Counter \cup {"sales.finalize"}
    [] code = "store_inventory"       -> Store
    [] code = "inventory_manager"     -> Store
    [] code = "billing_operator"      -> Counter
    [] code = "wholesale_salesperson" -> Counter \cup {"report.view"}
    [] code = "administrator"         ->
         {"product.view", "product.create", "product.update", "inventory.view", "purchase.view",
          "purchase.create", "sales.create", "customer.view", "customer.create", "report.view",
          "user.manage", "settings.manage"}
    [] code = "accountant"            ->
         {"payment.receive", "report.view", "report.view_profit", "customer.view"}
    [] code = "service_technician"    -> {"service.manage", "inventory.view", "product.view"}
    [] code = "auditor"               ->
         {"product.view", "inventory.view", "purchase.view", "customer.view", "report.view",
          "report.view_profit", "audit.view"}

ASSUME RoleUpgradeAssumption == Code \subseteq Retired \cup Kept

VARIABLES
  roleRows,   \* rows of roles: an id, the organization, the code
  grants,     \* role_permissions: id of the role, permission
  holder,     \* user_roles: the id of the role of each user, one user per role
  live,       \* whether sessions from before the migration are open
  at          \* the statement that comes next

upgradeVars == <<roleRows, grants, holder, live, at>>

\* A role that was there keeps its organization and first code as its id.
Id == Org \X (Retired \cup Kept)

Statements == {"rename", "retire", "create", "sync", "revoke", "done",
               "back_rename", "back_retire", "back_create", "back_sync", "back_revoke", "over"}

UpgradeTypeOK ==
  /\ roleRows \subseteq [id : Id \X {"old", "new", "back"}, org : Org, code : Retired \cup Kept]
  /\ \A g \in grants : \E r \in roleRows : r.id = g[1]
  /\ \A i \in holder : \E r \in roleRows : r.id = i
  /\ live \in BOOLEAN
  /\ at \in Statements

\* The rows, grants and holders of any choice of roles in each organization.
UpgradeInit ==
  /\ \E had \in [Org -> SUBSET Code] :
       roleRows = {[id |-> <<i, "old">>, org |-> i[1], code |-> i[2]] :
                     i \in {j \in Id : j[2] \in had[j[1]]}}
  /\ grants = UNION {{<<r.id, p>> : p \in PermissionsOf(r.code) \cap Catalogue} : r \in roleRows}
  /\ holder = {r.id : r \in roleRows}
  /\ live = TRUE
  /\ at = "rename"

-----------------------------------------------------------------------------
Has(org, code) == \E r \in roleRows : r.org = org /\ r.code = code

\* Slip: the new code may be taken.
RenamedAnyway(renames) ==
  {[r EXCEPT !.code = IF \E p \in renames : p[1] = r.code
                      THEN (CHOOSE p \in renames : p[1] = r.code)[2] ELSE @] : r \in roleRows}

\* A role is renamed where its new code is free.
Renamed(renames) ==
  {[r EXCEPT !.code = IF \E p \in renames : p[1] = r.code /\ ~Has(r.org, p[2])
                      THEN (CHOOSE p \in renames : p[1] = r.code)[2] ELSE @] : r \in roleRows}

Rename(renames) ==
  /\ roleRows' = Renamed(renames)
  /\ UNCHANGED <<grants, holder, live>>

\* Slip: user_roles is not cleaned.
RetireRolesOnly(codes) ==
  LET gone == {r.id : r \in {q \in roleRows : q.code \in codes}} IN
  /\ roleRows' = {r \in roleRows : r.id \notin gone}
  /\ grants' = {g \in grants : g[1] \notin gone}
  /\ UNCHANGED <<holder, live>>

\* Roles are deleted with their grants and with the assignments of their users.
Retire(codes) ==
  LET gone == {r.id : r \in {q \in roleRows : q.code \in codes}} IN
  /\ roleRows' = {r \in roleRows : r.id \notin gone}
  /\ grants' = {g \in grants : g[1] \notin gone}
  /\ holder' = holder \ gone
  /\ UNCHANGED live

\* Slip: only an organization without roles gets them.
CreateForEmpty(codes, mark) ==
  /\ roleRows' = roleRows \cup {[id |-> <<i, mark>>, org |-> i[1], code |-> i[2]] :
                                  i \in {j \in Id : j[2] \in codes /\ \A r \in roleRows : r.org # j[1]}}
  /\ UNCHANGED <<grants, holder, live>>

\* Every organization gets the roles it lacks.
Create(codes, mark) ==
  /\ roleRows' = roleRows \cup {[id |-> <<i, mark>>, org |-> i[1], code |-> i[2]] :
                                  i \in {j \in Id : j[2] \in codes /\ ~Has(j[1], j[2])}}
  /\ UNCHANGED <<grants, holder, live>>

\* Slip: grants are added and none is taken away.
SyncAdds(codes) ==
  /\ grants' = grants \cup UNION {{<<r.id, p>> : p \in PermissionsOf(r.code) \cap Catalogue} :
                                    r \in {q \in roleRows : q.code \in codes}}
  /\ UNCHANGED <<roleRows, holder, live>>

\* _sync_permissions: the grants of each role are replaced.
Sync(codes) ==
  LET synced == {r \in roleRows : r.code \in codes} IN
  /\ grants' = {g \in grants : \A r \in synced : r.id # g[1]}
               \cup UNION {{<<r.id, p>> : p \in PermissionsOf(r.code) \cap Catalogue} : r \in synced}
  /\ UNCHANGED <<roleRows, holder, live>>

\* _revoke_all_sessions.
Revoke ==
  /\ live' = FALSE
  /\ UNCHANGED <<roleRows, grants, holder>>

Statement(from, to) == at = from /\ at' = to

Upgrade ==
  \/ Statement("rename", "retire") /\ Rename(Renames)
  \/ Statement("retire", "create") /\ Retire(Retired)
  \/ Statement("create", "sync")   /\ Create(Kept, "new")
  \/ Statement("sync", "revoke")   /\ Sync(Kept)
  \/ Statement("revoke", "done")   /\ Revoke

Legacy == Retired \cup {"owner"}

Downgrade ==
  \/ Statement("done", "back_rename") /\ UNCHANGED <<roleRows, grants, holder>> /\ live' = TRUE
  \/ Statement("back_rename", "back_retire") /\ Rename({<<p[2], p[1]>> : p \in Renames})
  \/ Statement("back_retire", "back_create") /\ Retire(Kept \ {"owner"})
  \/ Statement("back_create", "back_sync") /\ Create(Legacy, "back")
  \/ Statement("back_sync", "back_revoke") /\ Sync(Legacy)
  \/ Statement("back_revoke", "over") /\ Revoke

UpgradeNext == Upgrade \/ Downgrade

UpgradeSpec == UpgradeInit /\ [][UpgradeNext]_upgradeVars

-----------------------------------------------------------------------------
(* Properties.                                                             *)

\* uq_role_code holds after every statement, also for an organization that has
\* an old role and the one it would be renamed to (lines 105-122).
RoleCodesOnce ==
  \A q, r \in roleRows : q.org = r.org /\ q.code = r.code => q = r

Granted(id) == {g[2] : g \in {h \in grants : h[1] = id}}

\* Both ways, every organization ends with the roles of that version, each with
\* its permissions and no others (lines 139-160, 318-338).
RolesMatchVersion ==
  /\ at = "done" => \A o \in Org :
       {r.code : r \in {q \in roleRows : q.org = o}} = Kept
  /\ at = "over" => \A o \in Org :
       {r.code : r \in {q \in roleRows : q.org = o}} = Legacy
  /\ at \in {"done", "over"} => \A r \in roleRows : Granted(r.id) = PermissionsOf(r.code) \cap Catalogue

\* Whoever has a role after the way there and back has the permissions he
\* started with (lines 23-24: the assignments that were deleted are
\* gone, and nobody gets another one).
RoundTripGivesNothing ==
  at = "over" => \A i \in holder :
    Granted(i) \subseteq PermissionsOf(i[1][2])

\* "a migration must never hand somebody a permission they did not have" (lines
\* 15-16).  Violated: a billing operator becomes counter_sales, which includes
\* sales.finalize.
NobodyGains == at = "done" => \A i \in holder : Granted(i) \subseteq PermissionsOf(i[1][2])

\* The roles are those of the version, once each, and the way there and back
\* gives nobody anything.
RolesAreTheVersions == RoleCodesOnce /\ RolesMatchVersion /\ RoundTripGivesNothing
=============================================================================
