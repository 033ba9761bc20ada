------------------------------ MODULE Startup ------------------------------
(***************************************************************************)
(* Containers come up on one database: docker-entrypoint.sh runs `alembic  *)
(* upgrade head`, then the demo seed (seed.py), then the server.  Any step *)
(* that fails ends the container, and the platform starts it again.  An    *)
(* operator may run `seed --reset` or a downgrade by hand.                 *)
(*                                                                         *)
(* env.py runs all revisions in one transaction.  Of PostgreSQL the model  *)
(* has: names that another transaction has created or dropped are waited   *)
(* for, and so is a row it has written.                                    *)
(***************************************************************************)
EXTENDS Schema, FiniteSets

CONSTANTS
  Container,      \* SEED_ON_START is set and the environment is not production
  Operator,
  Login,          \* the demo accounts of the login page
  Retired,        \* the demo accounts of roles that are gone
  FirstLogins,    \* the states the accounts may be in at the start
  Parts,          \* commits of seed(): the organization, then six parts of history
  MaxCrashes,     \* bound on crashes
  MaxOrders       \* bound on what operators do

Process == Container \cup Operator

Names == Tables \cup Types

\* An account: under which email, whether it can sign in (active, not locked,
\* the demo password), how often it has its role, whether it has another one,
\* and whether it belongs to the main branch.
Accounts ==
  [email : {"none", "legacy", "demo"}, usable : BOOLEAN, own : Nat, other : BOOLEAN,
   branch : BOOLEAN, version : Nat]

Absent == [email |-> "none", usable |-> FALSE, own |-> 0, other |-> FALSE,
           branch |-> FALSE, version |-> 0]

Advertised == [Absent EXCEPT !.email = "demo", !.usable = TRUE, !.own = 1, !.branch = TRUE]

ASSUME StartupAssumption ==
  /\ Container \cap Operator = {} /\ Login \cap Retired = {}
  /\ FirstLogins \subseteq [Login \cup Retired -> Accounts]
  /\ Parts \in Nat \ {0}
  /\ MaxCrashes \in Nat /\ MaxOrders \in Nat

VARIABLES
  schema,       \* committed names, and the revision of alembic_version
  orgs,         \* the organizations, each with the parts of history committed
  founded,      \* organizations there have ever been
  permissions,  \* the permission catalogue is there
  logins,       \* the demo accounts
  proc,         \* what each process is at
  crashes, orders

startupVars == <<schema, orgs, founded, permissions, logins, proc, crashes, orders>>

Off == [pc |-> "down"]

Migration == [from : 0 .. Latest, at : 0 .. Latest, done : Nat, names : SUBSET Names]

Processes ==
  [pc : {"down", "wipe", "seed", "permissions", "serving", "over"}]
  \cup [pc : {"upgrade"}, run : Migration]
  \cup [pc : {"downgrade"}, run : Migration, to : 0 .. Latest]
  \cup [pc : {"claim", "provision"}, missing : BOOLEAN]
  \cup [pc : {"history"}, org : Nat]
  \cup [pc : {"reconcile"}, seen : [Login \cup Retired -> Accounts]]

StartupTypeOK ==
  /\ schema \in [names : SUBSET Names, revision : 0 .. Latest]
  /\ orgs \subseteq [id : 1 .. founded, parts : 1 .. Parts]
  /\ founded \in Nat
  /\ permissions \in BOOLEAN
  /\ logins \in [Login \cup Retired -> Accounts]
  /\ proc \in [Process -> Processes]
  /\ crashes \in 0 .. MaxCrashes /\ orders \in 0 .. MaxOrders

\* An empty database, one of an older release, or one with a demo that ran on
\* an older release.
StartupInit ==
  /\ \E n \in 0 .. Latest : schema = [names |-> TablesAt(n) \cup TypesAt(n), revision |-> n]
  /\ \/ orgs = {} /\ founded = 0 /\ logins = [a \in Login \cup Retired |-> Absent]
     \/ /\ schema.revision \in Latest - 2 .. Latest - 1
        /\ founded = 1 /\ orgs = {[id |-> 1, parts |-> Parts]}
        /\ logins \in FirstLogins
  /\ permissions = (orgs # {})
  /\ proc = [p \in Process |-> Off]
  /\ crashes = 0 /\ orders = 0

-----------------------------------------------------------------------------
To(p, state) == proc' = [proc EXCEPT ![p] = state]
Go(p, pc) == To(p, [pc |-> pc])
Demo == <<orgs, founded, permissions, logins>>
Counts == <<crashes, orders>>

Start(n) == [from |-> n, at |-> n, done |-> 0, names |-> {}]

\* The entrypoint; at the head alembic has nothing to do.
Boot(c) ==
  /\ proc[c].pc = "down"
  /\ To(c, IF schema.revision = Latest THEN [pc |-> "seed"]
           ELSE [pc |-> "upgrade", run |-> Start(schema.revision)])
  /\ UNCHANGED <<schema, Demo, Counts>>

BeginDowngrade(p) ==
  /\ proc[p].pc = "down"
  /\ orders < MaxOrders
  /\ schema.revision > 0
  /\ \E n \in {0, schema.revision - 1} :
       To(p, [pc |-> "downgrade", run |-> Start(schema.revision), to |-> n])
  /\ orders' = orders + 1
  /\ UNCHANGED <<schema, Demo, crashes>>

Run(p) == proc[p].run
Migrating(p) == proc[p].pc \in {"upgrade", "downgrade"}

\* The names a process sees: in an upgrade its transaction has added some, in
\* a downgrade it has taken some away.
View(p) == IF proc[p].pc = "upgrade" THEN schema.names \cup Run(p).names
           ELSE schema.names \ Run(p).names

\* Slip: one revision only, `upgrade +1`.
FinishedStep(p) == Run(p).at = IF proc[p].pc = "upgrade" THEN Run(p).from + 1 ELSE proc[p].to

Finished(p) == Run(p).at = IF proc[p].pc = "upgrade" THEN Latest ELSE proc[p].to

Script(p) == IF proc[p].pc = "upgrade" THEN Creations[Run(p).at + 1] ELSE Drops[Run(p).at]

\* There is another statement before the next stamp.
Busy(p) == ~Finished(p) /\ Run(p).done < Len(Script(p))

Creation(p) == Script(p)[Run(p).done + 1]
Dropped(p) == Script(p)[Run(p).done + 1]

\* Names a statement waits for.
Locks(p) == IF proc[p].pc = "upgrade" THEN {Creation(p).table} \cup Creation(p).refs \cup Creation(p).types
            ELSE {Dropped(p)} \cup {t \in Tables : Dropped(p) \in RefersTo(t)}

Others(p) == {q \in Process \ {p} : Migrating(q)}

Waits(p) == \E q \in Others(p) : Run(q).names \cap Locks(p) # {}

\* A name that is there cannot be created; a table that is referred to cannot be dropped.
Fits(p) ==
  IF proc[p].pc = "upgrade"
  THEN /\ ({Creation(p).table} \cup Creation(p).types) \cap View(p) = {}
       /\ Creation(p).refs \subseteq View(p) \cup {Creation(p).table}
  ELSE /\ Dropped(p) \in View(p)
       /\ \A t \in View(p) \cap Tables : Dropped(p) \in RefersTo(t) => t = Dropped(p)

Stated(p) ==
  [Run(p) EXCEPT !.done = @ + 1,
                 !.names = @ \cup IF proc[p].pc = "upgrade"
                                  THEN {Creation(p).table} \cup Creation(p).types
                                  ELSE {Dropped(p)}]

\* Slip: every statement commits.
RunStatementCommitted(p) ==
  /\ Migrating(p) /\ Busy(p) /\ ~Waits(p) /\ Fits(p)
  /\ proc' = [proc EXCEPT ![p].run = Stated(p)]
  /\ schema' = [schema EXCEPT !.names = IF proc[p].pc = "upgrade" THEN @ \cup Stated(p).names
                                        ELSE @ \ Stated(p).names]
  /\ UNCHANGED <<Demo, Counts>>

RunStatement(p) ==
  /\ Migrating(p) /\ Busy(p) /\ ~Waits(p) /\ Fits(p)
  /\ proc' = [proc EXCEPT ![p].run = Stated(p)]
  /\ UNCHANGED <<schema, Demo, Counts>>

Stamped(p) == Run(p).at # Run(p).from
VersionHeld(p) == \E q \in Others(p) : Stamped(q)
Moved(p) == Stamped(p) \/ schema.revision = Run(p).from

\* UPDATE alembic_version, which must find the revision the run started from.
Stamp(p) ==
  /\ Migrating(p) /\ ~Finished(p) /\ ~Busy(p) /\ ~VersionHeld(p)
  /\ Moved(p)
  /\ proc' = [proc EXCEPT ![p].run.at = IF proc[p].pc = "upgrade" THEN @ + 1 ELSE @ - 1,
                          ![p].run.done = 0]
  /\ UNCHANGED <<schema, Demo, Counts>>

CommitMigration(p) ==
  /\ Migrating(p) /\ Finished(p)
  /\ schema' = [names |-> View(p), revision |-> Run(p).at]
  /\ Go(p, IF proc[p].pc = "upgrade" THEN "seed" ELSE "over")
  /\ UNCHANGED <<Demo, Counts>>

\* `set -e`: the container ends, to be started again; an operator gives up.
AfterError(p) == IF p \in Container THEN "down" ELSE "over"

FailMigration(p) ==
  /\ Migrating(p) /\ ~Finished(p)
  /\ \/ Busy(p) /\ ~Waits(p) /\ ~Fits(p)
     \/ ~Busy(p) /\ ~VersionHeld(p) /\ ~Moved(p)
  /\ Go(p, AfterError(p))
  /\ UNCHANGED <<schema, Demo, Counts>>

-----------------------------------------------------------------------------
(* seed.py.                                                                *)

BeginReset(p) ==
  /\ proc[p].pc = "down"
  /\ orders < MaxOrders
  /\ schema.revision = Latest
  /\ Go(p, "wipe")
  /\ orders' = orders + 1
  /\ UNCHANGED <<schema, Demo, crashes>>

\* TRUNCATE waits for every transaction that has read one of the tables.
Wipe(p) ==
  /\ proc[p].pc = "wipe"
  /\ \A q \in Process : proc[q].pc \notin {"permissions", "claim", "provision", "reconcile"} /\ ~Migrating(q)
  /\ orgs' = {} /\ permissions' = FALSE
  /\ logins' = [a \in Login \cup Retired |-> Absent]
  /\ Go(p, "seed")
  /\ UNCHANGED <<schema, founded, Counts>>

\* A database with an organization is left alone, but for the demo accounts.
LookForOrganization(p) ==
  /\ proc[p].pc = "seed"
  /\ To(p, IF orgs = {} THEN [pc |-> "permissions"] ELSE [pc |-> "reconcile", seen |-> logins])
  /\ UNCHANGED <<schema, Demo, Counts>>

ReadPermissions(p) ==
  /\ proc[p].pc = "permissions"
  /\ To(p, [pc |-> "claim", missing |-> ~permissions])
  /\ UNCHANGED <<schema, Demo, Counts>>

Claimed(p) == \E q \in Process \ {p} : proc[q].pc = "provision" /\ proc[q].missing

\* ensure_permissions inserts what is missing; the code of a permission is unique.
ClaimPermissions(p) ==
  /\ proc[p].pc = "claim"
  /\ proc[p].missing => ~Claimed(p) /\ ~permissions
  /\ To(p, [pc |-> "provision", missing |-> proc[p].missing])
  /\ UNCHANGED <<schema, Demo, Counts>>

\* The organization with its accounts, goods and customers.
CommitOrganization(p) ==
  /\ proc[p].pc = "provision"
  /\ founded' = founded + 1
  /\ orgs' = orgs \cup {[id |-> founded', parts |-> 1]}
  /\ permissions' = TRUE
  /\ logins' = [a \in Login \cup Retired |-> IF a \in Login THEN Advertised ELSE Absent]
  /\ To(p, [pc |-> "history", org |-> founded'])
  /\ UNCHANGED <<schema, Counts>>

AfterSeed(p) == IF p \in Container THEN "serving" ELSE "over"

Own(p) == {o \in orgs : o.id = proc[p].org}

\* Slip: the last part twice.
CommitPartTwice(p) ==
  /\ proc[p].pc = "history"
  /\ \E o \in Own(p) :
       IF o.parts <= Parts
       THEN /\ orgs' = (orgs \ {o}) \cup {[o EXCEPT !.parts = @ + 1]}
            /\ UNCHANGED proc
       ELSE /\ Go(p, AfterSeed(p))
            /\ UNCHANGED orgs
  /\ UNCHANGED <<schema, founded, permissions, logins, Counts>>

\* Purchases, retail sales, orders, a collection, repairs, notifications: each
\* commits on its own.
CommitPart(p) ==
  /\ proc[p].pc = "history"
  /\ \E o \in Own(p) :
       IF o.parts < Parts
       THEN /\ orgs' = (orgs \ {o}) \cup {[o EXCEPT !.parts = @ + 1]}
            /\ UNCHANGED proc
       ELSE /\ Go(p, AfterSeed(p))
            /\ UNCHANGED orgs
  /\ UNCHANGED <<schema, founded, permissions, logins, Counts>>

\* The columns of the user an account is given.
Renamed(a) ==
  [a EXCEPT !.email = "demo", !.usable = TRUE,
            !.version = IF a.email = "demo" /\ a.usable THEN @ ELSE @ + 1]

\* Slip: the other roles stay.
ReconciledKeeping(a) == [Renamed(a) EXCEPT !.own = IF @ = 0 THEN 1 ELSE @, !.branch = TRUE]

\* _reconcile_demo_users: created or renamed, able to sign in, with exactly its
\* role, in the main branch.
Reconciled(a) ==
  IF a.email = "none" THEN Advertised
  ELSE [Renamed(a) EXCEPT !.own = IF @ = 0 THEN 1 ELSE @, !.other = FALSE, !.branch = TRUE]

Deactivated(a) == IF a.usable THEN [a EXCEPT !.usable = FALSE, !.version = @ + 1] ELSE a

\* What a reconciliation makes of the row there is now, of which it has seen an
\* earlier state: it inserts what it has found missing.
Merged(now, seen) ==
  [Reconciled(seen) EXCEPT !.own = IF seen.own = 0 /\ now # Absent THEN now.own + 1 ELSE @]

\* Slip: the branch is attached without a look whether it is.
ClashUnlooked(p, a) ==
  LET now == logins[a]
      seen == proc[p].seen[a] IN
  IF a \in Retired THEN seen.usable /\ now.version # seen.version
  ELSE now.branch \/ (Renamed(seen) # seen /\ now.version # seen.version)

\* The unique email, the unique branch, and the version of the user.
Clash(p, a) ==
  LET now == logins[a]
      seen == proc[p].seen[a] IN
  IF a \in Retired THEN seen.usable /\ now.version # seen.version
  ELSE \/ seen.email = "none" /\ now.email # "none"
       \/ seen.email # "none" /\ ~seen.branch /\ now.branch
       \/ Renamed(seen) # seen /\ now.version # seen.version

CommitReconcile(p) ==
  /\ proc[p].pc = "reconcile"
  /\ orgs # {}
  /\ \A a \in Login \cup Retired : ~Clash(p, a)
  /\ logins' = [a \in Login \cup Retired |->
                  IF a \in Retired THEN (IF proc[p].seen[a].usable THEN Deactivated(logins[a]) ELSE logins[a])
                  ELSE Merged(logins[a], proc[p].seen[a])]
  /\ Go(p, AfterSeed(p))
  /\ UNCHANGED <<schema, orgs, founded, permissions, Counts>>

\* IntegrityError or StaleDataError.
FailSeed(p) ==
  /\ \/ proc[p].pc = "claim" /\ proc[p].missing /\ permissions
     \/ proc[p].pc = "history" /\ Own(p) = {}
     \/ proc[p].pc = "reconcile" /\ (orgs = {} \/ \E a \in Login \cup Retired : Clash(p, a))
  /\ Go(p, AfterError(p))
  /\ UNCHANGED <<schema, Demo, Counts>>

-----------------------------------------------------------------------------
Crash(p) ==
  /\ proc[p].pc \notin {"down", "over"}
  /\ crashes < MaxCrashes
  /\ crashes' = crashes + 1
  /\ Go(p, IF p \in Container THEN "down" ELSE "over")
  /\ UNCHANGED <<schema, Demo, orders>>

Work(p) ==
  \/ RunStatement(p) \/ Stamp(p) \/ CommitMigration(p) \/ FailMigration(p)
  \/ LookForOrganization(p) \/ ReadPermissions(p) \/ ClaimPermissions(p) \/ CommitOrganization(p)
  \/ CommitPart(p) \/ CommitReconcile(p) \/ FailSeed(p)

StartupNext ==
  \/ \E c \in Container : Boot(c)
  \/ \E p \in Operator : BeginDowngrade(p) \/ BeginReset(p) \/ Wipe(p)
  \/ \E p \in Process : Work(p) \/ Crash(p)

\* The platform starts a container that has ended, and a process that can go on
\* does.
StartupSpec ==
  /\ StartupInit /\ [][StartupNext]_startupVars
  /\ \A c \in Container : WF_startupVars(Boot(c) \/ Work(c))

-----------------------------------------------------------------------------
(* Properties.                                                             *)

\* Whatever crashes, and whoever migrates at once, the tables are those of the
\* revision the database says it has (env.py:42-43).
SchemaIsRevision == schema.names \cap Tables = TablesAt(schema.revision)

\* The types a downgrade has left behind, which no revision so far has created again.
Leftover == (schema.names \cap Types) \ TypesAt(schema.revision)

\* The next statement creates a type that is there from before a downgrade.
Recreates(p) == proc[p].pc = "upgrade" /\ Creation(p).types \cap Leftover # {}

\* A run that nobody disturbs fails on a type a downgrade has left, and on nothing
\* else: tables are created after those they refer to and dropped before them, in
\* all revisions both ways, and a downgrade never fails.
UndisturbedRunsFit ==
  \A p \in Process :
    Migrating(p) /\ Others(p) = {} /\ schema.revision = Run(p).from /\ Busy(p)
      => (Fits(p) <=> ~Recreates(p))

\* A server runs on the schema of its code (docker-entrypoint.sh:39-43), unless
\* an operator took it away.
ServesAtHead ==
  orders = 0 /\ (\E c \in Container : proc[c].pc = "serving") => schema.revision = Latest

\* "A demo account must be able to sign in and must carry exactly the role the
\* login page advertises for it" (seed.py:679-680), whoever else reconciles.
LoginsWork ==
  (\E c \in Container : proc[c].pc = "serving") /\ orders = 0 =>
    /\ \A a \in Login : logins[a].email = "demo" /\ logins[a].usable /\ logins[a].branch
                        /\ logins[a].own > 0 /\ ~logins[a].other
    /\ \A a \in Retired : ~logins[a].usable

\* A container serves in the end, although another one may make its migration
\* or its seed fail, unless an operator interferes.
EveryContainerServes ==
  \A c \in Container : [](orders = 0) => <>(proc[c].pc = "serving")

\* "every role has populated screens the moment they sign in" (seed.py:5-6).
\* Violated: a crash after the first commit, and the next start finds an
\* organization and leaves the rest out for good.
DemoIsComplete ==
  (\E c \in Container : proc[c].pc = "serving") /\ (\A p \in Process : proc[p].pc # "history")
    => \A o \in orgs : o.parts = Parts

\* "seed() refuses to touch a database that already holds an organization"
\* (seed.py:635).  Violated: one container looks for an organization, the other
\* commits one, and the first then finds all permissions there, whose unique
\* codes would have stopped it.
OneOrganization == Cardinality(orgs) <= 1

\* The revision says what the tables are, and it can be left both ways, but for an
\* upgrade after a downgrade, which fails on a type that is still there.
SchemaHolds == SchemaIsRevision /\ UndisturbedRunsFit

\* A server that runs has the schema of the last of its revisions, the column of the
\* tenth included, and logins that work.
ServersWork == ServesAtHead /\ LoginsWork
=============================================================================
